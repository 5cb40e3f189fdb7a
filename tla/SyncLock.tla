------------------------------ MODULE SyncLock ------------------------------
(***************************************************************************)
(* The single-writer lock of the sync worker (server/src/sync.js,          *)
(* acquireSyncLock and main) and what two workers do to the database when  *)
(* it does not hold: a deploy runs the outgoing and the incoming worker    *)
(* together, the advisory lock lives on a session of its own, and the      *)
(* writes go through other connections of the pool.                        *)
(*                                                                         *)
(* A pass stores one block, and every block is a day of its own.  A        *)
(* transaction is two steps: its reads, and its writes with COMMIT.        *)
(***************************************************************************)
EXTENDS Integers, Sequences, FiniteSets, FiniteSetsExt, Functions, SequencesExt

CONSTANTS
  Worker,       \* the worker processes
  MaxHeight,    \* bound: the node's chain
  MaxReorgs,    \* bound: rollbacks
  SessionDrops, \* bound: lost lock sessions
  MaxStops      \* bound: crashes and platform stops

\* What the constants have to satisfy.
LockAssumption ==
  /\ MaxHeight \in Nat /\ MaxReorgs \in Nat /\ SessionDrops \in Nat /\ MaxStops \in Nat

Nobody == "nobody"

NobodyAssumption == Nobody \notin Worker

VARIABLES
  holder,     \* the session Postgres granted the advisory lock to, or Nobody
  line,       \* the sessions waiting for it, first come first served
  stored,     \* blocks: the heights that have a row
  counter,    \* chain_state circulating_supply_sat, one unit per block
  rows,       \* metrics_daily: the finalized days
  coinDays,   \* chain_state cum_coindays_created, one unit per day
  pc,         \* where each worker stands
  seen,       \* the tip a worker's pass started from
  base,       \* the running value its open transaction has read
  reorgs, drops, stops

tables == <<stored, counter, rows, coinDays>>
vars == <<holder, line, stored, counter, rows, coinDays, pc, seen, base, reorgs, drops, stops>>
bounds == <<reorgs, drops, stops>>

Height == 1..MaxHeight
Tip == IF stored = {} THEN 0 ELSE Max(stored)
LastDay == IF rows = {} THEN 0 ELSE Max(rows)

\* The places at which a worker has passed the lock.
Writing == {"pass", "guard", "rollup", "store", "flush", "cut"}
Places == {"down", "waiting"} \cup Writing

TypeOK ==
  /\ holder \in Worker \cup {Nobody} /\ line \in Seq(Worker)
  /\ Range(line) = {w \in Worker : pc[w] = "waiting"}
  /\ stored \subseteq Height /\ rows \subseteq Height
  /\ counter \in Int /\ coinDays \in Int
  /\ pc \in [Worker -> Places]
  /\ seen \in [Worker -> 0..MaxHeight] /\ base \in [Worker -> Int]
  /\ reorgs \in 0..MaxReorgs /\ drops \in 0..SessionDrops /\ stops \in 0..MaxStops

Init ==
  /\ holder = Nobody /\ line = <<>>
  /\ stored = {} /\ counter = 0 /\ rows = {} /\ coinDays = 0
  /\ pc = [w \in Worker |-> "down"]
  /\ seen = [w \in Worker |-> 0] /\ base = [w \in Worker |-> 0]
  /\ reorgs = 0 /\ drops = 0 /\ stops = 0

Goes(w, place) == pc' = [pc EXCEPT ![w] = place]

---------------------------------------------------------------------------
(* acquireSyncLock. *)

\* A mutant of Acquire: a refused attempt goes on without waiting.
AcquireOrNot(w) ==
  /\ pc[w] = "down"
  /\ Goes(w, "pass")
  /\ holder' = IF holder = Nobody THEN w ELSE holder
  /\ UNCHANGED <<line, tables, seen, base, bounds>>

\* pg_try_advisory_lock: granted when nobody holds it or waits for it, else
\* wait in line.
Acquire(w) ==
  /\ pc[w] = "down"
  /\ IF holder = Nobody /\ line = <<>>
     THEN holder' = w /\ Goes(w, "pass") /\ UNCHANGED line
     ELSE line' = Append(line, w) /\ Goes(w, "waiting") /\ UNCHANGED holder
  /\ UNCHANGED <<tables, seen, base, bounds>>

\* A mutant of Granted: the waiting session is never told.
GrantedNever(w) == FALSE /\ UNCHANGED vars

\* pg_advisory_lock returns once the previous session is gone.
Granted(w) ==
  /\ line # <<>> /\ w = Head(line) /\ holder = Nobody
  /\ holder' = w /\ line' = Tail(line) /\ Goes(w, "pass")
  /\ UNCHANGED <<tables, seen, base, bounds>>

\* A mutant of Leaves: a dead session keeps its place in the line.
LeavesNever(w) == line

Leaves(w) == IF w \in Range(line) THEN RemoveAt(line, CHOOSE i \in DOMAIN line : line[i] = w) ELSE line

\* The process ends: Postgres drops its sessions, its open transaction and
\* its lock.
Ends(w) ==
  /\ Goes(w, "down")
  /\ holder' = IF holder = w THEN Nobody ELSE holder
  /\ line' = Leaves(w)
  /\ UNCHANGED <<tables, seen, base, reorgs, drops>>

Stopped(w) ==
  /\ pc[w] # "down" /\ stops < MaxStops /\ stops' = stops + 1
  /\ Ends(w)

\* The platform stops the outgoing instance while the new one waits.
Replaced(w) ==
  /\ holder = w /\ line # <<>>
  /\ Ends(w) /\ UNCHANGED stops

\* The lock session breaks and Postgres frees the lock; the worker goes on
\* until its connection reports the error.
SessionDropped ==
  /\ holder # Nobody /\ drops < SessionDrops
  /\ holder' = Nobody /\ drops' = drops + 1
  /\ UNCHANGED <<line, tables, pc, seen, base, reorgs, stops>>

\* lockClient.on('error'): process.exit(1).
NoticesLoss(w) ==
  /\ pc[w] \in Writing /\ holder # w
  /\ Ends(w) /\ UNCHANGED stops

---------------------------------------------------------------------------
(* The loop of main. *)

\* checkReorg finds the stored tip on the node's chain, and the pass goes on
\* to the block above it; the day of the tip is looked at first.
StartPass(w) ==
  /\ pc[w] = "pass" /\ Tip < MaxHeight
  /\ seen' = [seen EXCEPT ![w] = Tip]
  /\ Goes(w, IF Tip > 0 THEN "guard" ELSE "store")
  /\ UNCHANGED <<holder, line, tables, base, bounds>>

\* A mutant of Guard: a finalized day is rolled up again.
GuardDropped(w) ==
  /\ pc[w] = "guard"
  /\ base' = [base EXCEPT ![w] = coinDays] /\ Goes(w, "rollup")
  /\ UNCHANGED <<holder, line, tables, seen, bounds>>

\* snapshotAndRollupDay reads the last finalized day through the pool, long
\* before its transaction reads the accumulators.
Guard(w) ==
  /\ pc[w] = "guard"
  /\ IF seen[w] <= LastDay
     THEN Goes(w, "store") /\ UNCHANGED base
     ELSE Goes(w, "rollup") /\ base' = [base EXCEPT ![w] = coinDays]
  /\ UNCHANGED <<holder, line, tables, seen, bounds>>

\* getState again inside the transaction, nearer to the write.
RollupRereads(w) ==
  /\ pc[w] = "rollup" /\ base[w] # coinDays
  /\ base' = [base EXCEPT ![w] = coinDays]
  /\ UNCHANGED <<holder, line, tables, pc, seen, bounds>>

Rollup(w) ==
  /\ pc[w] = "rollup"
  /\ rows' = rows \cup {seen[w]}
  /\ coinDays' = base[w] + 1
  /\ Goes(w, "store")
  /\ UNCHANGED <<holder, line, stored, counter, seen, base, bounds>>

\* processBlocks: the running counters are read at the start ...
StoreReads(w) ==
  /\ pc[w] = "store"
  /\ base' = [base EXCEPT ![w] = counter]
  /\ Goes(w, "flush")
  /\ UNCHANGED <<holder, line, tables, seen, bounds>>

\* A mutant of Duplicate: blocks are upserted.
DuplicateIgnored(w) == FALSE

\* blocks.height is the primary key, and its INSERT has no ON CONFLICT.
Duplicate(w) == seen[w] + 1 \in stored

\* ... and written as absolute values at the end, unless the insert fails.
StoreCommits(w) ==
  /\ pc[w] = "flush"
  /\ IF Duplicate(w) THEN UNCHANGED <<stored, counter>>
     ELSE stored' = stored \cup {seen[w] + 1} /\ counter' = base[w] + 1
  /\ Goes(w, "pass")
  /\ UNCHANGED <<holder, line, rows, coinDays, seen, base, bounds>>

\* rollbackAbove sums up what it is about to delete ...
CutReads(w) ==
  /\ pc[w] = "pass" /\ Tip > 1 /\ reorgs < MaxReorgs
  /\ reorgs' = reorgs + 1
  /\ seen' = [seen EXCEPT ![w] = Tip - 1]
  /\ base' = [base EXCEPT ![w] = 1]
  /\ Goes(w, "cut")
  /\ UNCHANGED <<holder, line, tables, drops, stops>>

\* ... deletes it, and subtracts the sum from the counter; the metrics are
\* rewound behind it.
CutCommits(w) ==
  /\ pc[w] = "cut"
  /\ stored' = {h \in stored : h <= seen[w]}
  /\ counter' = counter - base[w]
  /\ rows' = {d \in rows : d <= seen[w]}
  /\ coinDays' = Cardinality(rows')
  /\ Goes(w, "pass")
  /\ UNCHANGED <<holder, line, seen, base, bounds>>

---------------------------------------------------------------------------
Step(w) ==
  \/ Acquire(w) \/ Granted(w) \/ Stopped(w) \/ Replaced(w) \/ NoticesLoss(w)
  \/ StartPass(w) \/ Guard(w) \/ RollupRereads(w) \/ Rollup(w)
  \/ StoreReads(w) \/ StoreCommits(w) \/ CutReads(w) \/ CutCommits(w)

Next == SessionDropped \/ \E w \in Worker : Step(w)

Spec == Init /\ [][Next]_vars

---------------------------------------------------------------------------
(* Properties *)

\* No two workers are past the lock at once, through crashes, restarts and
\* hand-overs.
OneWriter == \A v, w \in Worker : pc[v] \in Writing /\ pc[w] \in Writing => v = w

\* The supply counter counts the stored blocks, and they have no gap: no
\* transaction overwrites what another one committed after it had read.
BooksReconcile == counter = Cardinality(stored) /\ stored = 1..Tip

\* No day is counted twice in the accumulators.
DaysCountedOnce == coinDays = Cardinality(rows)

\* One writer, and totals of its own rows, as long as no lock session is lost
\* behind its worker's back; totals that match the stored blocks even then, as
\* long as no reorganization deletes any: a duplicate insert aborts the block.
SingleWriter ==
  /\ drops = 0 => OneWriter /\ BooksReconcile /\ DaysCountedOnce
  /\ reorgs = 0 => BooksReconcile

\* A worker waits for the lock.
Waits(w) == pc[w] = "waiting"
=============================================================================
