------------------------------ MODULE TxLookup ------------------------------
(***************************************************************************)
(* One transaction in the explorer (server/src/explorer.js): search, and   *)
(* getTx, which reads the outputs the index still tracks, then the block   *)
(* that holds them, then asks the node within that block, and then reads   *)
(* the tip, while the node reorganizes and the worker rewinds and follows. *)
(***************************************************************************)
EXTENDS Integers, Sequences, FiniteSets, SequencesExt

CONSTANTS
  Chains,     \* the node's best chains, one after the other: sequences of blocks
  TxIn,       \* the blocks that contain the transaction
  Synced0,    \* blocks synced at the start
  TxIndex,    \* does the node run with txindex?
  MaxFaults,  \* bound: calls of the node that fail
  MaxAsks     \* bound: requests

\* What the constants have to satisfy.
LookupAssumption ==
  /\ Chains \in Seq(Seq(Nat \ {0})) /\ Chains # <<>> /\ Synced0 \in 0..Len(Chains[1])
  /\ TxIndex \in BOOLEAN /\ MaxFaults \in Nat /\ MaxAsks \in Nat

VARIABLES
  node,       \* the chain the node is on
  synced,     \* blocks: the hashes the index has, by height
  pruned,     \* the outputs were spent and have left utxos
  request,    \* the request under way
  answer,     \* its last answer
  asks, faults

vars == <<node, synced, pruned, request, answer, asks, faults>>

Chain == Chains[node]
Block == UNION {Range(c) : c \in Range(Chains)}
HeightIn(c, b) == IF b \in Range(c) THEN CHOOSE h \in DOMAIN c : c[h] = b ELSE 0
Height(b) == Max({HeightIn(c, b) : c \in Range(Chains)})
\* The block of a chain with the transaction, 0 if there is none.
Home(c) == IF \E b \in Range(c) : b \in TxIn THEN CHOOSE b \in Range(c) : b \in TxIn ELSE 0
Created == IF pruned \/ Home(synced) = 0 THEN 0 ELSE Height(Home(synced))
Null == -1
Idle == [at |-> "idle", created |-> 0, scope |-> 0, found |-> FALSE, hash |-> 0, height |-> 0,
         late |-> FALSE, moved |-> FALSE]
NoAnswer == [kind |-> "none", hash |-> 0, height |-> 0, conf |-> Null, moved |-> FALSE, tracked |-> FALSE]
Waiting == {"up", "where", "fetch", "height"}

TypeOK ==
  /\ node \in DOMAIN Chains /\ synced \in Seq(Block) /\ pruned \in BOOLEAN
  /\ request.at \in Waiting \cup {"idle", "block", "end"}
  /\ request.hash # 0 => request.found
  /\ request.scope \in TxIn \cup {0}
  /\ answer.kind \in {"none", "block", "not found", "pending", "indexed", "full"}
  /\ answer.conf \in Null..Max({Len(c) : c \in Range(Chains)})
  /\ asks \in 0..MaxAsks /\ faults \in 0..MaxFaults

Init ==
  /\ node = 1 /\ synced = SubSeq(Chains[1], 1, Synced0) /\ pruned = FALSE
  /\ request = Idle /\ answer = NoAnswer /\ asks = 0 /\ faults = 0

Faulty(ok) == IF ok THEN UNCHANGED faults ELSE faults < MaxFaults /\ faults' = faults + 1

---------------------------------------------------------------------------
(* The node and the sync worker. *)

NodeMoves ==
  /\ node < Len(Chains) /\ node' = node + 1
  /\ UNCHANGED <<synced, pruned, request, answer, asks, faults>>

Sync ==
  /\ IF synced # <<>> /\ (Len(synced) > Len(Chain) \/ Chain[Len(synced)] # Last(synced))
     THEN synced' = Front(synced)
     ELSE Len(synced) < Len(Chain) /\ synced' = Append(synced, Chain[Len(synced) + 1])
  /\ request' = [request EXCEPT !.moved = TRUE]
  /\ UNCHANGED <<node, pruned, answer, asks, faults>>

\* The outputs were spent long ago.
Prune ==
  /\ Created # 0 /\ ~pruned /\ pruned' = TRUE
  /\ request' = [request EXCEPT !.moved = TRUE]
  /\ UNCHANGED <<node, synced, answer, asks, faults>>

---------------------------------------------------------------------------
(* search, getTx. *)

Env == UNCHANGED <<node, synced, pruned>>

Answer(kind) == answer' =
  LET height == IF kind = "full" THEN request.height ELSE request.created IN
  [kind |-> kind, height |-> height, moved |-> request.moved, tracked |-> request.created # 0,
   hash |-> IF kind = "full" THEN request.hash ELSE 0,
   conf |-> IF height # 0 /\ Len(synced) >= height THEN Len(synced) - height + 1
            ELSE IF kind = "full" /\ height = 0 THEN 0 ELSE Null]

\* GET /tx/:txid starts with the outputs that are tracked.
Ask ==
  /\ request.at = "idle" /\ asks < MaxAsks /\ asks' = asks + 1
  /\ request' = [Idle EXCEPT !.at = "up", !.created = Created]
  /\ answer' = NoAnswer
  /\ UNCHANGED faults /\ Env

\* GET /search with 64 hex digits tries a block first ...
Search ==
  /\ request.at = "idle" /\ asks < MaxAsks /\ asks' = asks + 1
  /\ request' = [Idle EXCEPT !.at = "block", !.created = Created]
  /\ answer' = NoAnswer
  /\ UNCHANGED faults /\ Env

\* ... and takes the shell of a block the node has not answered for as found;
\* else it looks the transaction up.
SearchBlock(intime) ==
  /\ request.at = "block"
  /\ IF intime
     THEN /\ request' = [Idle EXCEPT !.at = "up", !.created = Created]
          /\ UNCHANGED answer
     ELSE Answer("block") /\ request' = Idle
  /\ UNCHANGED <<asks, faults>> /\ Env

\* rpcUp.
Up(ok) ==
  /\ request.at = "up" /\ Faulty(ok)
  /\ request' = [request EXCEPT !.at = IF ok THEN "where" ELSE "end"]
  /\ UNCHANGED <<answer, asks>> /\ Env

\* A mutant of Scope: the node is asked without a block.
ScopeNone == 0

\* A mutant of Scope: the block that has the height the outputs had.
ScopeAtHeight == IF request.created \in DOMAIN synced THEN synced[request.created] ELSE 0

\* blockHashForTx: the block that holds the outputs now.
Scope == IF request.created # 0 /\ Created # 0 THEN Home(synced) ELSE 0

Where ==
  /\ request.at = "where"
  /\ request' = [request EXCEPT !.at = "fetch", !.scope = Scope]
  /\ UNCHANGED <<answer, asks, faults>> /\ Env

\* getrawtransaction: within a block it always answers; without, for what is in
\* the mempool, or indexed.
Fetch(ok) ==
  LET home == Home(Chain)
      able == request.scope # 0 \/ home = 0 \/ TxIndex
      hash == IF request.scope # 0 THEN request.scope ELSE home
  IN /\ request.at = "fetch" /\ Faulty(ok)
     /\ request' = IF ok /\ able
                   THEN [request EXCEPT !.found = TRUE, !.hash = hash, !.height = request.created,
                           !.at = IF request.created = 0 /\ hash # 0 THEN "height" ELSE "end"]
                   ELSE [request EXCEPT !.at = "end"]
     /\ UNCHANGED <<answer, asks>> /\ Env

\* heightForHash: the index, else the header; the failure is swallowed.
HeightOf(ok) ==
  /\ request.at = "height"
  /\ IF request.hash \in Range(synced) THEN ok /\ UNCHANGED faults ELSE Faulty(ok)
  /\ request' = [request EXCEPT !.at = "end", !.height = IF ok THEN Height(request.hash) ELSE 0]
  /\ UNCHANGED <<answer, asks>> /\ Env

\* The deadline: what is tracked, or a shell.
Deadline ==
  /\ request.at \in Waiting /\ ~request.late
  /\ request' = [request EXCEPT !.late = TRUE]
  /\ Answer("pending")
  /\ UNCHANGED <<asks, faults>> /\ Env

\* The enrichment ended; the tip is read now.
End ==
  /\ request.at = "end" /\ request' = Idle
  /\ IF request.late THEN UNCHANGED answer
     ELSE Answer(IF request.found THEN "full" ELSE IF request.created # 0 THEN "indexed" ELSE "not found")
  /\ UNCHANGED <<asks, faults>> /\ Env

Next ==
  \/ NodeMoves \/ Sync \/ Prune \/ Ask \/ Search \/ Where \/ Deadline \/ End
  \/ \E ok \in BOOLEAN : SearchBlock(ok) \/ Up(ok) \/ Fetch(ok) \/ HeightOf(ok)

Spec == Init /\ [][Next]_vars

---------------------------------------------------------------------------
(* Properties. *)

\* When the index stood still during the request, the height of an answer is the
\* height of its block, and a transaction that is in no block has none, although
\* the two come from different statements and the node has moved (251-255).
HeightIsHashs == (answer.kind = "full" /\ ~answer.moved) =>
  answer.height \in (IF answer.hash = 0 THEN {0} ELSE {0, Height(answer.hash)})
=============================================================================
