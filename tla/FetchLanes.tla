------------------------------ MODULE FetchLanes -----------------------------
(***************************************************************************)
(* fetchBlocks and call of server/src/rpc.js: a few lanes share one index, *)
(* each fetching the hash and then the block of the next height, with      *)
(* bounded retries.  The first lane that gives up rejects the whole fetch, *)
(* and nothing stops the others: they go on while the loop of the worker   *)
(* sleeps, and while its next pass fetches the same heights again.         *)
(***************************************************************************)
EXTENDS Integers, FiniteSets

CONSTANTS
  Lane,        \* the lanes, config.rpcConcurrency of them
  Blocks,      \* heights.length
  MaxRetries,  \* config.rpcMaxRetries
  MaxFetches   \* bound: calls of fetchBlocks

\* What the constants have to satisfy.
FetchAssumption ==
  /\ Lane # {} /\ Blocks \in Nat \ {0} /\ MaxRetries \in Nat /\ MaxFetches \in Nat

VARIABLES
  fetch,     \* the number of fetchBlocks calls made
  taken,     \* i, by fetch
  lane,      \* by fetch and lane: its place in the loop, its index, its attempt
  results,   \* by fetch and index: the index of the block stored there, or 0
  verdict    \* by fetch: the promise returned to the caller

vars == <<fetch, taken, lane, results, verdict>>

Fetch == 1..MaxFetches
Asking == {"hash", "block"}
AtTop == [place |-> "top", idx |-> 0, attempt |-> 0]

TypeOK ==
  /\ fetch \in 0..MaxFetches
  /\ taken \in [Fetch -> 0..Blocks]
  /\ lane \in [Fetch -> [Lane -> [place : Asking \cup {"top", "returned", "threw"},
                                  idx : 0..Blocks, attempt : 0..MaxRetries]]]
  /\ results \in [Fetch -> [1..Blocks -> 0..Blocks]]
  /\ verdict \in [Fetch -> {"unasked", "open", "resolved", "rejected"}]

Init ==
  /\ fetch = 0
  /\ taken = [g \in Fetch |-> 0]
  /\ lane = [g \in Fetch |-> [l \in Lane |-> AtTop]]
  /\ results = [g \in Fetch |-> [k \in 1..Blocks |-> 0]]
  /\ verdict = [g \in Fetch |-> "unasked"]

\* The worker asks for a batch, and after a failed one asks again.
Start ==
  /\ fetch < MaxFetches
  /\ fetch > 0 => verdict[fetch] # "open"
  /\ fetch' = fetch + 1
  /\ verdict' = [verdict EXCEPT ![fetch + 1] = "open"]
  /\ UNCHANGED <<taken, lane, results>>

At(g, l, place) == g <= fetch /\ lane[g][l].place = place

\* Mutants of Claimed: the index does not move before the await; it moves
\* twice, in the test and in the body.
ClaimedLate(g) == taken[g]
ClaimedTwice(g) == IF taken[g] + 2 > Blocks THEN Blocks ELSE taken[g] + 2

\* i++ happens in one turn with the test of the loop.
Claimed(g) == taken[g] + 1

\* while (i < heights.length) { const idx = i++ ... }
Take(g, l) ==
  /\ At(g, l, "top") /\ taken[g] < Blocks
  /\ taken' = [taken EXCEPT ![g] = Claimed(g)]
  /\ lane' = [lane EXCEPT ![g][l] = [place |-> "hash", idx |-> taken[g] + 1, attempt |-> 0]]
  /\ UNCHANGED <<fetch, results, verdict>>

\* The lane returns; Promise.all resolves with the last of them.
Return(g, l) ==
  /\ At(g, l, "top") /\ taken[g] = Blocks
  /\ lane' = [lane EXCEPT ![g][l].place = "returned"]
  /\ verdict' = [verdict EXCEPT ![g] =
                   IF \A k \in Lane : lane'[g][k].place = "returned" THEN "resolved" ELSE @]
  /\ UNCHANGED <<fetch, taken, results>>

HashArrives(g, l) ==
  /\ At(g, l, "hash")
  /\ lane' = [lane EXCEPT ![g][l].place = "block", ![g][l].attempt = 0]
  /\ UNCHANGED <<fetch, taken, results, verdict>>

\* results[idx] = the block, and the caller is told of the progress.
BlockArrives(g, l) ==
  /\ At(g, l, "block")
  /\ results' = [results EXCEPT ![g][lane[g][l].idx] = lane[g][l].idx]
  /\ lane' = [lane EXCEPT ![g][l] = AtTop]
  /\ UNCHANGED <<fetch, taken, verdict>>

\* A mutant of MayRetry: one attempt more than the budget.
MayRetryOnceMore(attempt) == attempt <= MaxRetries

MayRetry(attempt) == attempt < MaxRetries

\* A mutant of Rejects: the caller is not told while other lanes go on.
RejectsLast(g) == \A k \in Lane : lane'[g][k].place \in {"returned", "threw"}

\* Promise.all rejects with the first lane that throws.
Rejects(g) == verdict[g] = "open"

\* A request fails or times out: call repeats it after a pause, or throws.
RequestFails(g, l) ==
  /\ \E place \in Asking : At(g, l, place)
  /\ IF MayRetry(lane[g][l].attempt)
     THEN /\ lane' = [lane EXCEPT ![g][l].attempt = @ + 1]
          /\ UNCHANGED verdict
     ELSE /\ lane' = [lane EXCEPT ![g][l].place = "threw"]
          /\ verdict' = [verdict EXCEPT ![g] = IF Rejects(g) THEN "rejected" ELSE @]
  /\ UNCHANGED <<fetch, taken, results>>

Step(g, l) ==
  Take(g, l) \/ Return(g, l) \/ HashArrives(g, l) \/ BlockArrives(g, l) \/ RequestFails(g, l)

Next == Start \/ \E g \in Fetch, l \in Lane : Step(g, l)

Spec == Init /\ [][Next]_vars

---------------------------------------------------------------------------
(* Properties *)

\* A batch handed to processBlocks has no hole and no stranger in it: result k
\* is the block asked for at position k, whatever the order of the answers, and
\* the work a rejected fetch left behind does not reach a later one.
NoHole ==
  \A g \in Fetch : verdict[g] = "resolved" => \A k \in 1..Blocks : results[g][k] = k

\* No height is asked for by two lanes of one fetch, nor again once it landed.
NoHeightTwice ==
  \A g \in Fetch : \A k, l \in Lane :
    lane[g][k].place \in Asking =>
      /\ results[g][lane[g][k].idx] = 0
      /\ k # l /\ lane[g][l].place \in Asking => lane[g][k].idx # lane[g][l].idx

\* The caller hears of every fetch: as soon as one lane has given up, and at
\* the latest when all of them have ended.
CallerIsTold ==
  /\ \A g \in Fetch : verdict[g] = "open" => \A l \in Lane : lane[g][l].place # "threw"
  /\ \A g \in Fetch : verdict[g] = "open" => \E l \in Lane : lane[g][l].place # "returned"

\* What the worker relies on when it asks for a batch.
ResolvedIsComplete == NoHole /\ NoHeightTwice /\ CallerIsTold

\* A fetch whose caller still waits, and all lanes at rest.
Unsettled(g) == verdict[g] = "open"
AtRest == \A g \in Fetch, l \in Lane : lane[g][l].place \notin Asking
=============================================================================
