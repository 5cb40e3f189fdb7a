---------------------------- MODULE BlockPages -----------------------------
(***************************************************************************)
(* Block pages of the explorer (server/src/explorer.js): a request reads   *)
(* its row of `blocks', asks the node for the block and a page of its      *)
(* transactions, and answers what it has when the deadline passes, while   *)
(* the fetch goes on into a cache that the reader's next poll finds.  The  *)
(* node reorganizes and the sync worker follows at any moment.             *)
(***************************************************************************)
EXTENDS Integers, Sequences, FiniteSets, SequencesExt

CONSTANTS
  Request,    \* requests under way
  Chains,     \* the node's best chains, one after the other: sequences of blocks
  Wanted,     \* what readers ask for: <<height, hash, start>>, height or hash 0
  Rows0,      \* how many blocks were synced before blocks had a size column
  NTx,        \* transactions of a block
  TxPage,     \* TX_PAGE = 25
  CacheMax,   \* BLOCK_CACHE_MAX = 12
  MaxFaults,  \* bound: calls of the node that fail, in one behaviour
  MaxAsks     \* bound: requests

\* What the constants have to satisfy.  A block names its parent, so that it is at
\* one height of every chain.
PagesAssumption ==
  /\ Chains \in Seq(Seq(Nat \ {0})) /\ Chains # <<>> /\ Rows0 \in 0..Len(Chains[1])
  /\ \A c, d \in Range(Chains) : \A h \in DOMAIN c, i \in DOMAIN d : c[h] = d[i] => h = i
  /\ Wanted \subseteq {w \in Nat \X Nat \X Nat : w[1] # 0 \/ w[2] # 0}
  /\ {NTx, TxPage, CacheMax} \subseteq Nat \ {0} /\ {MaxFaults, MaxAsks} \subseteq Nat

VARIABLES
  node,       \* the chain the node is on: an index of Chains
  blocks,     \* blocks: by height, the hash and whose size the row has (0 is NULL)
  memo,       \* rpcAvailable, and "probing" while rpcProbe is pending
  inflight,   \* the dedupe map: calls under way, each with the entry it fills
  entries,    \* cache entries made so far
  cached,     \* blockCache: indices of entries, in the order of the map
  request,    \* the requests under way
  answer,     \* the last answer of each
  asks, faults

store == <<node, blocks>>
vars == <<store, memo, inflight, entries, cached, request, answer, asks, faults>>

Block == UNION {Range(c) : c \in Range(Chains)}
Chain == Chains[node]
Height(b) == CHOOSE h \in UNION {DOMAIN c : c \in Range(Chains)} :
               \E c \in Range(Chains) : h \in DOMAIN c /\ c[h] = b
Txids(b) == [i \in 1..NTx |-> <<b, i>>]
Slice(s, from) == SubSeq(s, from + 1, IF from + TxPage <= Len(s) THEN from + TxPage ELSE Len(s))
\* The successor of b on the node's chain; 0 is null.
Next1(b) == IF \E h \in 1..(Len(Chain) - 1) : Chain[h] = b THEN Chain[Height(b) + 1] ELSE 0
\* The node keeps the blocks of the chains it has been on.
Known(b) == \E c \in 1..node : b \in Range(Chains[c])
Row(b, size) == [hash |-> b, size |-> size]
Idle == [at |-> "idle", height |-> 0, hash |-> 0, row |-> Row(0, 0), start |-> 0, late |-> FALSE,
         entry |-> 0, txs |-> <<>>, asked |-> 0]
NoAnswer == [kind |-> "none", hash |-> 0, row |-> 0, next |-> 0, txs |-> <<>>, start |-> 0, asked |-> 0]
Waiting == {"probe", "probing", "hash", "block", "fetching", "page", "paging"}
BlockKey(b) == <<"block", b, 0>>
PageKey(b, start) == <<"txs", b, start>>
\* The entry of b that the cache holds, if it does.
Find(b) == {e \in Range(cached) : entries[e].hash = b}

TypeOK ==
  /\ node \in DOMAIN Chains
  /\ \A h \in DOMAIN blocks : blocks[h].hash \in Block /\ blocks[h].size \in Block \cup {0}
  /\ memo \in {"null", "true", "false", "probing"}
  /\ (\E r \in Request : request[r].at = "probing") => memo = "probing"
  /\ \A e \in DOMAIN entries : entries[e].hash \in Block /\ entries[e].next \in Block \cup {0}
       /\ DOMAIN entries[e].pages \subseteq {w[3] : w \in Wanted}
  /\ Range(cached) \subseteq DOMAIN entries
  /\ \A f \in Range(inflight) : f.entry \in 0..Len(entries)
  /\ \A r \in Request : request[r].at \in Waiting \cup {"idle", "end"}
       /\ request[r].entry \in 0..Len(entries)
       /\ answer[r].kind \in {"none", "not found", "pending", "indexed", "full"}
  /\ asks \in 0..MaxAsks /\ faults \in 0..MaxFaults

Init ==
  /\ node = 1 /\ blocks = [h \in 1..Rows0 |-> Row(Chains[1][h], 0)]
  /\ memo = "null" /\ inflight = <<>> /\ entries = <<>> /\ cached = <<>>
  /\ request = [r \in Request |-> Idle] /\ answer = [r \in Request |-> NoAnswer]
  /\ asks = 0 /\ faults = 0

Faulty(ok) == IF ok THEN UNCHANGED faults ELSE faults < MaxFaults /\ faults' = faults + 1

---------------------------------------------------------------------------
(* The node and the sync worker. *)

NodeMoves ==
  /\ node < Len(Chains) /\ node' = node + 1
  /\ UNCHANGED <<blocks, memo, inflight, entries, cached, request, answer, asks, faults>>

\* The worker stores the next block of the chain, or rewinds its last row.
Sync ==
  /\ IF blocks # <<>> /\ (Len(blocks) > Len(Chain) \/ Chain[Len(blocks)] # Last(blocks).hash)
     THEN blocks' = Front(blocks)
     ELSE /\ Len(blocks) < Len(Chain)
          /\ LET b == Chain[Len(blocks) + 1] IN blocks' = Append(blocks, Row(b, b))
  /\ UNCHANGED <<node, memo, inflight, entries, cached, request, answer, asks, faults>>

---------------------------------------------------------------------------
(* A request. *)

\* By height (hash = 0) or by hash: the row of the index is read first.
Ask(r, height, hash, start) ==
  /\ request[r].at = "idle" /\ asks < MaxAsks /\ asks' = asks + 1
  /\ LET found == {h \in DOMAIN blocks : h = height \/ blocks[h].hash = hash} IN
     request' = [request EXCEPT ![r] = [Idle EXCEPT
       !.at = "probe", !.asked = node, !.height = height, !.hash = hash, !.start = start,
       !.row = IF found = {} THEN Row(0, 0) ELSE blocks[Min(found)]]]
  /\ answer' = [answer EXCEPT ![r] = NoAnswer]
  /\ UNCHANGED <<store, memo, inflight, entries, cached, faults>>

Goto(rs, at) == request' = [r \in Request |-> IF r \in rs THEN [request[r] EXCEPT !.at = at] ELSE request[r]]
At(stage) == {r \in Request : request[r].at = stage}

\* rpcUp: the memo answers, a probe under way is shared, or one is started.
Probe(r) ==
  /\ r \in At("probe")
  /\ Goto({r}, CASE memo = "true" -> "hash" [] memo = "false" -> "end" [] OTHER -> "probing")
  /\ memo' = IF memo = "null" THEN "probing" ELSE memo
  /\ UNCHANGED <<store, inflight, entries, cached, answer, asks, faults>>

Probed(ok) ==
  /\ memo = "probing" /\ Faulty(ok)
  /\ memo' = IF ok THEN "true" ELSE "false"
  /\ Goto(At("probing"), IF ok THEN "hash" ELSE "end")
  /\ UNCHANGED <<store, inflight, entries, cached, answer, asks>>

\* A mutant of Expires: a memo that says the node is away stays.
ExpiresTrue == memo = "true"

\* A mutant of Expires: the timer forgets a probe under way, too.
ExpiresProbing == memo # "null"

\* The timer of the probe forgets its outcome after a minute.
Expires == memo \in {"true", "false"}

Expire ==
  /\ Expires /\ memo' = "null"
  /\ UNCHANGED <<store, inflight, entries, cached, request, answer, asks, faults>>

\* The hash of the row, or of the request, or else getblockhash of the height.
Hash(r) ==
  LET q == request[r]
      known == IF q.row.hash # 0 THEN q.row.hash ELSE q.hash
  IN /\ q.at = "hash"
     /\ \E ok \in BOOLEAN : Faulty(ok) /\ (known # 0 => ok) /\
          LET b == IF known # 0 THEN known ELSE IF ok /\ q.height <= Len(Chain) THEN Chain[q.height] ELSE 0
          IN request' = [request EXCEPT ![r].hash = b, ![r].at = IF b = 0 THEN "end" ELSE "block"]
     /\ UNCHANGED <<store, memo, inflight, entries, cached, answer, asks>>

\* A mutant of Joined: the key of a page does not name where the page starts.
JoinedAnyPage(key) == \E i \in DOMAIN inflight : SubSeq(inflight[i].key, 1, 2) = SubSeq(key, 1, 2)

\* A mutant of Joined: every request starts a call of its own.
JoinedNever(key) == FALSE

\* dedupe: a call for the key is under way.
Joined(key) == \E i \in DOMAIN inflight : inflight[i].key = key

Launch(key, entry) == inflight' = IF Joined(key) THEN inflight
                                  ELSE Append(inflight, [key |-> key, entry |-> entry])

\* nodeBlock: the cached entry, whose missing nextblockhash is asked for again
\* (a failure is swallowed), or a fetch of the block.
NodeBlock(r) ==
  LET b == request[r].hash
      hit == Find(b)
  IN /\ request[r].at = "block"
     /\ \/ \E e \in hit, ok \in BOOLEAN :
             /\ request' = [request EXCEPT ![r].at = "page", ![r].entry = e]
             /\ Faulty(ok) /\ (entries[e].next # 0 => ok)
             /\ entries' = IF entries[e].next = 0 /\ ok THEN [entries EXCEPT ![e].next = Next1(b)] ELSE entries
             /\ UNCHANGED inflight
        \/ /\ hit = {} /\ Goto({r}, "fetching") /\ Launch(BlockKey(b), 0)
           /\ UNCHANGED <<entries, faults>>
     /\ UNCHANGED <<store, memo, cached, answer, asks>>

\* A mutant of Kept: nothing is evicted.
KeptAll(seq) == seq

\* The map drops its oldest entry when it has grown past the limit.
Kept(seq) == IF Len(seq) > CacheMax THEN Tail(seq) ELSE seq

\* The cache without b, whose entry is put at the end.
Without(b) == IF Find(b) = {} THEN cached
              ELSE RemoveAt(cached, CHOOSE i \in DOMAIN cached : cached[i] \in Find(b))

BlockArrives(i, ok) ==
  LET b == inflight[i].key[2]
      waiters == {r \in At("fetching") : request[r].hash = b}
      e == Len(entries) + 1
  IN /\ inflight[i].key[1] = "block"
     /\ IF Known(b) THEN Faulty(ok) ELSE ~ok /\ UNCHANGED faults
     /\ inflight' = RemoveAt(inflight, i)
     /\ entries' = IF ok THEN Append(entries, [hash |-> b, next |-> Next1(b), pages |-> <<>>]) ELSE entries
     /\ cached' = IF ok THEN Kept(Append(Without(b), e)) ELSE cached
     /\ request' = [r \in Request |-> IF r \notin waiters THEN request[r] ELSE
                     [request[r] EXCEPT !.at = IF ok THEN "page" ELSE "end", !.entry = IF ok THEN e ELSE 0]]
     /\ UNCHANGED <<store, memo, answer, asks>>

\* nodeTxPage: a page the entry has, an empty one, or a batch of calls.
TxPageOf(r) ==
  LET q == request[r]
      e == entries[q.entry]
      ids == Slice(Txids(e.hash), q.start)
  IN /\ q.at = "page"
     /\ IF q.start \in DOMAIN e.pages \/ ids = <<>>
        THEN /\ request' = [request EXCEPT ![r].at = "end",
                   ![r].txs = IF ids = <<>> THEN <<>> ELSE e.pages[q.start]]
             /\ UNCHANGED inflight
        ELSE Goto({r}, "paging") /\ Launch(PageKey(e.hash, q.start), q.entry)
     /\ UNCHANGED <<store, memo, entries, cached, answer, asks, faults>>

\* What the node may send for a batch: the items in any order, one of them
\* absent or an error, or no array at all.
Replies(ids) ==
  LET item(i, ok) == [id |-> i, tx |-> ids[i], ok |-> ok] IN
  {[i \in DOMAIN ids |-> item(p[i], TRUE)] : p \in SetToSeqs(DOMAIN ids)}
    \cup {[i \in DOMAIN ids |-> item(i, i # bad)] : bad \in DOMAIN ids}
    \cup {[i \in 1..(Len(ids) - 1) |-> item(i, TRUE)]}
    \cup {<<>>}

\* A mutant of Matched: the answers are taken in the order they arrive.
MatchedByPlace(reply, n) == [i \in 1..n |-> reply[i].tx]

\* callBatch puts the items back in the order of the calls, by id.
Matched(reply, n) == [i \in 1..n |-> (CHOOSE x \in Range(reply) : x.id = i).tx]

\* An item that is missing or an error fails the whole batch.
Whole(reply, n) == \A i \in 1..n : \E x \in Range(reply) : x.id = i /\ x.ok

PageArrives(i, reply) ==
  LET key == inflight[i].key
      n == Len(Slice(Txids(key[2]), key[3]))
      ok == Whole(reply, n)
      waiters == {r \in At("paging") : request[r].hash = key[2] /\ request[r].start = key[3]}
  IN /\ key[1] = "txs" /\ Faulty(ok)
     /\ inflight' = RemoveAt(inflight, i)
     /\ entries' = IF ok THEN [entries EXCEPT ![inflight[i].entry].pages =
                                 [s \in DOMAIN @ \cup {key[3]} |-> IF s = key[3] THEN Matched(reply, n) ELSE @[s]]]
                   ELSE entries
     /\ request' = [r \in Request |-> IF r \notin waiters THEN request[r] ELSE
                     [request[r] EXCEPT !.at = "end", !.entry = IF ok THEN @ ELSE 0,
                                        !.txs = IF ok THEN Matched(reply, n) ELSE <<>>]]
     /\ UNCHANGED <<store, memo, cached, answer, asks>>

---------------------------------------------------------------------------
(* The answer. *)

Answer(r, kind) == answer' = [answer EXCEPT ![r] =
  LET q == request[r] IN
  [kind |-> kind, row |-> q.row.hash, start |-> q.start, asked |-> q.asked,
   hash |-> IF kind = "full" THEN entries[q.entry].hash ELSE IF q.row.hash # 0 THEN q.row.hash ELSE q.hash,
   next |-> IF kind = "full" THEN entries[q.entry].next ELSE 0,
   txs |-> IF kind = "full" THEN q.txs ELSE <<>>]]

\* withDeadline: the reader gets what the index has, and may poll again.
Deadline(r) ==
  /\ request[r].at \in Waiting /\ ~request[r].late
  /\ request' = [request EXCEPT ![r].late = TRUE]
  /\ Answer(r, "pending")
  /\ UNCHANGED <<store, memo, inflight, entries, cached, asks, faults>>

\* A mutant of Backfills: the statement does not ask for size_bytes IS NULL.
BackfillsOver(height) == height \in DOMAIN blocks

\* The row of the height, if it has no size yet.
Backfills(height) == height \in DOMAIN blocks /\ blocks[height].size = 0

\* The enrichment ended in time, with the block or (entry = 0) without; a row
\* that had no size when it was read gets it, by height.
End(r) ==
  LET q == request[r]
      b == entries[q.entry].hash
  IN /\ q.at = "end" /\ ~q.late
     /\ Answer(r, IF q.entry # 0 THEN "full" ELSE IF q.row.hash # 0 THEN "indexed" ELSE "not found")
     /\ blocks' = IF q.entry # 0 /\ q.row.hash # 0 /\ q.row.size = 0 /\ Backfills(Height(b))
                  THEN [blocks EXCEPT ![Height(b)].size = b] ELSE blocks
     /\ request' = [request EXCEPT ![r] = Idle]
     /\ UNCHANGED <<node, memo, inflight, entries, cached, asks, faults>>

\* The enrichment of a request that was answered at its deadline.
EndLate(r) ==
  /\ request[r].at = "end" /\ request[r].late
  /\ request' = [request EXCEPT ![r] = Idle]
  /\ UNCHANGED <<store, memo, inflight, entries, cached, answer, asks, faults>>

---------------------------------------------------------------------------
Arrival(i) == \/ \E ok \in BOOLEAN : BlockArrives(i, ok)
              \/ /\ inflight[i].key[1] = "txs"
                 /\ \E reply \in Replies(Slice(Txids(inflight[i].key[2]), inflight[i].key[3])) : PageArrives(i, reply)
Step(r) == Probe(r) \/ Hash(r) \/ NodeBlock(r) \/ TxPageOf(r) \/ End(r) \/ EndLate(r)

Next ==
  \/ NodeMoves \/ Sync \/ Expire
  \/ \E ok \in BOOLEAN : Probed(ok)
  \/ \E i \in DOMAIN inflight : Arrival(i)
  \/ \E r \in Request :
       \/ \E w \in Wanted : Ask(r, w[1], w[2], w[3])
       \/ Deadline(r) \/ Step(r)

Spec == Init /\ [][Next]_vars

---------------------------------------------------------------------------
(* Properties. *)

\* However many requests ask for it, a block or a page is being fetched once
\* (explorer.js:61-69).
OneCallPerKey == \A i, j \in DOMAIN inflight : inflight[i].key = inflight[j].key => i = j

\* The cache holds at most its limit, one entry per block (117-123).
CacheBounded == Len(cached) <= CacheMax
  /\ \A i, j \in DOMAIN cached : entries[cached[i]].hash = entries[cached[j]].hash => i = j

\* An answer with the node's detail is about the block that was asked for, and
\* its transactions are the page that was asked for, in the block's order, on
\* whichever entry, evicted or not, the fetch landed (150-159, 200-213).
AnswerIsTheQuestion == \A r \in Request : answer[r].kind = "full" =>
  /\ answer[r].row # 0 => answer[r].hash = answer[r].row
  /\ answer[r].txs = Slice(Txids(answer[r].hash), answer[r].start)

\* A row has the size of its own block or none, although the back-fill is by
\* height and the row may have been replaced since it was read (188-193).
SizeIsTheRows == \A h \in DOMAIN blocks : blocks[h].size \in {0, blocks[h].hash}

\* A request whose enrichment is under way.
Enriching(r) == request[r].at \in Waiting
=============================================================================
