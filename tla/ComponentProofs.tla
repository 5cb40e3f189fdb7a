--------------------------- MODULE ComponentProofs ---------------------------
(***************************************************************************)
(* The services around the sync worker's ledger, for any number of         *)
(* processes, requests, lanes, keys and addresses: the advisory lock, the  *)
(* fetching lanes, the stall watchdog, admins and API keys, the limiter,   *)
(* the pages of the explorer and the alerts.  They share no state, so each *)
(* has an invariant of its own; instances keep their names apart.          *)
(***************************************************************************)
EXTENDS Integers, Sequences, FiniteSets, FiniteSetTheorems, TLAPS

CONSTANTS
  Worker, MaxHeight, MaxReorgs, SessionDrops, MaxStops   \* SyncLock
VARIABLES
  holder, line, stored, counter, rows, coinDays, pc, seen, base, reorgs, drops, stops
Lock == INSTANCE SyncLock

---------------------------------------------------------------------------
(* SyncLock: as long as no lock session is lost behind its worker's back,  *)
(* one worker writes, and the running totals are those of the stored rows  *)
(* although transactions read and write them in two steps.                 *)

\* The lock is held by whoever writes.
WritersHold ==
  /\ pc \in [Worker -> Lock!Places]
  /\ seen \in [Worker -> Int] /\ base \in [Worker -> Int]
  /\ \A w \in Worker : pc[w] \in Lock!Writing => holder = w

\* n blocks and m days are stored, without gaps, and the totals say so.
Stored(n, m) ==
  /\ stored = 1..n /\ counter = n
  /\ rows = 1..m /\ coinDays = m
  /\ n - 1 <= m /\ m <= n

\* What the locals of a writing worker still say of the tables.
Current(w, n, m) ==
  /\ pc[w] \in {"guard", "rollup", "store", "flush"} => seen[w] = n
  /\ pc[w] \in {"store", "flush"} => m = n
  /\ pc[w] = "rollup" => m < n /\ base[w] = m
  /\ pc[w] = "flush" => base[w] = n
  /\ pc[w] = "cut" => n > 1 /\ seen[w] = n - 1 /\ base[w] = 1

Books == \E n, m \in Nat : Stored(n, m) /\ \A w \in Worker : Current(w, n, m)

\* Neither OneWriter nor the totals are inductive alone: a second writer would
\* make the locals of the first one stale, and stale locals would be written.
LockInv == drops \in Nat /\ (drops = 0 => WritersHold /\ Books)

---------------------------------------------------------------------------
(* What the operators return. *)

\* The tip and the last day of tables without gaps.
LEMMA MaxOfInterval ==
  ASSUME NEW n \in Nat
  PROVE  (IF 1..n = {} THEN 0 ELSE Lock!Max(1..n)) = n
<1>1. CASE n = 0
  BY <1>1
<1>2. CASE n > 0
  <2>1. n \in 1..n /\ \A y \in 1..n : n >= y
    BY <1>2
  <2>2. Lock!Max(1..n) \in 1..n /\ \A y \in 1..n : Lock!Max(1..n) >= y
    BY <2>1 DEF Lock!Max
  <2>3. Lock!Max(1..n) = n
    BY <2>1, <2>2
  <2> QED
    BY <2>1, <2>3
<1> QED
  BY <1>1, <1>2

\* Tables that are intervals from 1 have their lengths as tip and last day.
LEMMA TipAndLastDay ==
  ASSUME NEW n \in Nat, NEW m \in Nat, Stored(n, m)
  PROVE  Lock!Tip = n /\ Lock!LastDay = m
BY MaxOfInterval DEF Stored, Lock!Tip, Lock!LastDay

\* The number of stored blocks is the tip.
LEMMA LengthOfInterval ==
  ASSUME NEW n \in Nat
  PROVE  Lock!Cardinality(1..n) = n
<1>1. Cardinality(1..n) = n
  BY FS_Interval
<1> QED
  BY <1>1 DEF Lock!Cardinality, Cardinality

---------------------------------------------------------------------------
(* The invariant. *)

\* The invariant holds before any worker starts.
LEMMA LockInit == Lock!Init => LockInv
<1> SUFFICES ASSUME Lock!Init PROVE LockInv
  OBVIOUS
<1>1. WritersHold
  BY DEF Lock!Init, WritersHold, Lock!Places, Lock!Writing
<1>2. Stored(0, 0) /\ \A w \in Worker : Current(w, 0, 0)
  BY DEF Lock!Init, Stored, Current
<1> QED
  BY <1>1, <1>2 DEF LockInv, Books, Lock!Init

\* A step of one worker after which it does not write, or after which it has
\* just been granted the lock nobody held, leaves the tables alone.
LEMMA LockSteps ==
  ASSUME Lock!NobodyAssumption, WritersHold, Books, NEW w \in Worker,
         Lock!Acquire(w) \/ Lock!Granted(w) \/ Lock!Stopped(w) \/ Lock!Replaced(w) \/ Lock!NoticesLoss(w)
  PROVE  WritersHold' /\ Books'
<1>1. UNCHANGED <<Lock!tables, seen, base>>
  BY DEF Lock!Acquire, Lock!Granted, Lock!Stopped, Lock!Replaced, Lock!NoticesLoss, Lock!Ends
<1>2. \/ /\ \E place \in {"down", "waiting"} : pc' = [pc EXCEPT ![w] = place]
         /\ holder' \in {holder, IF holder = w THEN Lock!Nobody ELSE holder}
      \/ holder = Lock!Nobody /\ holder' = w /\ pc' = [pc EXCEPT ![w] = "pass"]
  BY DEF Lock!Acquire, Lock!Granted, Lock!Stopped, Lock!Replaced, Lock!NoticesLoss, Lock!Ends, Lock!Goes
<1>3. WritersHold'
  <2>1. CASE holder = Lock!Nobody /\ holder' = w /\ pc' = [pc EXCEPT ![w] = "pass"]
    <3>1. \A v \in Worker : pc[v] \notin Lock!Writing
      BY <2>1, Lock!NobodyAssumption DEF WritersHold, Lock!NobodyAssumption
    <3> QED
      BY <1>1, <2>1, <3>1 DEF WritersHold, Lock!Places, Lock!Writing
  <2>2. CASE /\ \E place \in {"down", "waiting"} : pc' = [pc EXCEPT ![w] = place]
             /\ holder' \in {holder, IF holder = w THEN Lock!Nobody ELSE holder}
    BY <1>1, <2>2 DEF WritersHold, Lock!Places, Lock!Writing
  <2> QED
    BY <1>2, <2>1, <2>2
<1>4. Books'
  <2>1. PICK n \in Nat, m \in Nat : Stored(n, m) /\ \A v \in Worker : Current(v, n, m)
    BY DEF Books
  <2>2. Stored(n, m)'
    BY <1>1, <2>1 DEF Stored, Lock!tables
  <2>3. \A v \in Worker : Current(v, n, m)'
    BY <1>1, <1>2, <2>1 DEF Current, WritersHold
  <2> QED
    BY <2>2, <2>3 DEF Books
<1> QED
  BY <1>3, <1>4

\* While one worker writes, every other one is down or waits.
LEMMA OthersRest ==
  ASSUME WritersHold, NEW w \in Worker, pc[w] \in Lock!Writing
  PROVE  \A v \in Worker : v # w => pc[v] \notin Lock!Writing
BY DEF WritersHold

\* A step of w's loop: it stays a writer, and nobody else's locals change.
Moves(w) ==
  /\ pc' \in [Worker -> Lock!Places] /\ pc'[w] \in Lock!Writing /\ holder' = holder
  /\ seen' \in [Worker -> Int] /\ base' \in [Worker -> Int]
  /\ \A v \in Worker : v # w => pc'[v] = pc[v] /\ seen'[v] = seen[v] /\ base'[v] = base[v]

\* A step of the loop: the worker stays a writer, the tables stay without gaps,
\* and what the worker then holds is true of the new tables.
LEMMA LoopSteps ==
  ASSUME WritersHold, Books, NEW w \in Worker,
         \/ Lock!StartPass(w) \/ Lock!Guard(w) \/ Lock!RollupRereads(w) \/ Lock!Rollup(w)
         \/ Lock!StoreReads(w) \/ Lock!StoreCommits(w) \/ Lock!CutReads(w) \/ Lock!CutCommits(w)
  PROVE  WritersHold' /\ Books'
<1>1. PICK n \in Nat, m \in Nat : Stored(n, m) /\ \A v \in Worker : Current(v, n, m)
  BY DEF Books
<1>2. Lock!Tip = n /\ Lock!LastDay = m
  BY <1>1, TipAndLastDay
<1>3. pc[w] \in Lock!Writing
  BY DEF Lock!StartPass, Lock!Guard, Lock!RollupRereads, Lock!Rollup, Lock!StoreReads, Lock!StoreCommits, Lock!CutReads,
         Lock!CutCommits, Lock!Writing
<1>4. \A v \in Worker : v # w => pc[v] \notin Lock!Writing
  BY <1>3, OthersRest
<1>5. Moves(w)
  <2>1. Lock!Tip \in Int /\ Lock!Tip - 1 \in Int /\ coinDays \in Int /\ counter \in Int
    BY <1>1, <1>2 DEF Stored
  <2> QED
    BY <2>1 DEF Lock!StartPass, Lock!Guard, Lock!RollupRereads, Lock!Rollup, Lock!StoreReads, Lock!StoreCommits,
                Lock!CutReads, Lock!CutCommits, Lock!Goes, WritersHold, Moves, Lock!Places, Lock!Writing
\* So that each action only has to say what the tables are, and the worker's locals.
<1>6. ASSUME NEW n1 \in Nat, NEW m1 \in Nat, Stored(n1, m1)', Current(w, n1, m1)'
      PROVE  WritersHold' /\ Books'
  <2>1. WritersHold'
    BY <1>3, <1>4, <1>5 DEF WritersHold, Moves
  <2>2. \A v \in Worker : v # w => Current(v, n1, m1)'
    BY <1>4, <1>5 DEF Moves, Current, Lock!Writing
  <2> QED
    BY <1>6, <2>1, <2>2 DEF Books
<1>7. CASE Lock!StartPass(w)
  <2>1. Stored(n, m)'
    BY <1>1, <1>7 DEF Lock!StartPass, Stored, Lock!tables
  <2>2. PICK place \in {"guard", "store"} :
          /\ pc' = [pc EXCEPT ![w] = place] /\ (place = "store" => n = 0)
    <3>1. CASE n > 0
      BY <1>2, <1>7, <3>1 DEF Lock!StartPass, Lock!Goes
    <3>2. CASE n = 0
      BY <1>2, <1>7, <3>2 DEF Lock!StartPass, Lock!Goes
    <3> QED
      BY <3>1, <3>2
  <2>3. seen' = [seen EXCEPT ![w] = n] /\ base' = base /\ holder' = holder
    BY <1>2, <1>7 DEF Lock!StartPass
  <2>4. Current(w, n, m)'
    BY <1>1, <2>2, <2>3 DEF Current, WritersHold, Stored
  <2> QED
    BY <1>6, <2>1, <2>2, <2>3, <2>4
<1>8. CASE Lock!Guard(w)
  <2>1. Stored(n, m)' /\ seen' = seen /\ holder' = holder
    BY <1>1, <1>8 DEF Lock!Guard, Stored, Lock!tables
  <2>2. seen[w] = n /\ coinDays = m
    BY <1>1, <1>8 DEF Lock!Guard, Current, Stored
  <2>3. CASE n <= m
    <3>1. pc' = [pc EXCEPT ![w] = "store"] /\ base' = base
      BY <1>2, <1>8, <2>2, <2>3 DEF Lock!Guard, Lock!Goes
    <3>2. Current(w, n, m)'
      BY <1>1, <2>1, <2>2, <2>3, <3>1 DEF Current, WritersHold, Stored
    <3> QED
      BY <1>6, <2>1, <3>1, <3>2
  <2>4. CASE ~(n <= m)
    <3>1. pc' = [pc EXCEPT ![w] = "rollup"] /\ base' = [base EXCEPT ![w] = m]
      BY <1>2, <1>8, <2>2, <2>4 DEF Lock!Guard, Lock!Goes
    <3>2. Current(w, n, m)'
      BY <1>1, <2>1, <2>2, <2>4, <3>1 DEF Current, WritersHold, Stored
    <3> QED
      BY <1>6, <2>1, <3>1, <3>2
  <2> QED
    BY <2>3, <2>4
\* No one else adds a day, so that there is nothing new to read.
<1>9. CASE Lock!RollupRereads(w)
  BY <1>1, <1>9 DEF Lock!RollupRereads, Current, Stored
<1>10. CASE Lock!Rollup(w)
  <2>1. seen[w] = n /\ base[w] = m /\ m < n /\ n = m + 1
    BY <1>1, <1>10 DEF Lock!Rollup, Current, Stored
  <2>2. rows' = 1..n /\ coinDays' = n
    BY <1>1, <1>10, <2>1 DEF Lock!Rollup, Stored
  <2>3. Stored(n, n)'
    BY <1>1, <1>10, <2>2 DEF Lock!Rollup, Stored
  <2>4. /\ pc' = [pc EXCEPT ![w] = "store"] /\ seen' = seen /\ base' = base
        /\ holder' = holder
    BY <1>10 DEF Lock!Rollup, Lock!Goes
  <2>5. Current(w, n, n)'
    BY <2>1, <2>4 DEF Current, WritersHold
  <2> QED
    BY <1>6, <2>3, <2>4, <2>5
<1>11. CASE Lock!StoreReads(w)
  <2>1. Stored(n, m)' /\ seen' = seen /\ holder' = holder
    BY <1>1, <1>11 DEF Lock!StoreReads, Stored, Lock!tables
  <2>2. pc' = [pc EXCEPT ![w] = "flush"] /\ base' = [base EXCEPT ![w] = n]
    BY <1>1, <1>11 DEF Lock!StoreReads, Lock!Goes, Stored
  <2>3. Current(w, n, m)'
    BY <1>1, <1>11, <2>1, <2>2 DEF Lock!StoreReads, Current, WritersHold
  <2> QED
    BY <1>6, <2>1, <2>2, <2>3
<1>12. CASE Lock!StoreCommits(w)
  <2>1. seen[w] = n /\ base[w] = n /\ m = n
    BY <1>1, <1>12 DEF Lock!StoreCommits, Current
  <2>2. ~Lock!Duplicate(w)
    BY <1>1, <2>1 DEF Lock!Duplicate, Stored
  <2>3. stored' = 1..(n + 1) /\ counter' = n + 1
    <3>1. stored' = stored \cup {n + 1} /\ counter' = n + 1
      BY <1>12, <2>1, <2>2 DEF Lock!StoreCommits
    <3>2. (1..n) \cup {n + 1} = 1..(n + 1)
      OBVIOUS
    <3> QED
      BY <1>1, <3>1, <3>2 DEF Stored
  <2>4. Stored(n + 1, m)'
    BY <1>1, <1>12, <2>1, <2>3 DEF Lock!StoreCommits, Stored
  <2>5. /\ pc' = [pc EXCEPT ![w] = "pass"] /\ seen' = seen /\ base' = base
        /\ holder' = holder
    BY <1>12 DEF Lock!StoreCommits, Lock!Goes
  <2>6. Current(w, n + 1, m)'
    BY <2>5 DEF Current, WritersHold
  <2> QED
    BY <1>6, <2>4, <2>5, <2>6
<1>13. CASE Lock!CutReads(w)
  <2>1. Stored(n, m)' /\ holder' = holder
    BY <1>1, <1>13 DEF Lock!CutReads, Stored, Lock!tables
  <2>2. /\ pc' = [pc EXCEPT ![w] = "cut"] /\ seen' = [seen EXCEPT ![w] = n - 1]
        /\ base' = [base EXCEPT ![w] = 1] /\ n > 1
    BY <1>2, <1>13 DEF Lock!CutReads, Lock!Goes
  <2>3. Current(w, n, m)'
    BY <2>2 DEF Current, WritersHold
  <2> QED
    BY <1>6, <2>1, <2>2, <2>3
<1>14. CASE Lock!CutCommits(w)
  <2>1. n > 1 /\ seen[w] = n - 1 /\ base[w] = 1
    BY <1>1, <1>14 DEF Lock!CutCommits, Current
  <2>2. stored' = 1..(n - 1) /\ counter' = n - 1
    BY <1>1, <1>14, <2>1 DEF Lock!CutCommits, Stored
  <2>3. rows' = 1..(n - 1)
    BY <1>1, <1>14, <2>1 DEF Lock!CutCommits, Stored
  <2>4. coinDays' = n - 1
    <3>1. n - 1 \in Nat
      BY <2>1
    <3>2. Lock!Cardinality(1..(n - 1)) = n - 1
      BY <3>1, LengthOfInterval
    <3> QED
      BY <1>14, <2>3, <3>2 DEF Lock!CutCommits
  <2>5. Stored(n - 1, n - 1)'
    BY <2>1, <2>2, <2>3, <2>4 DEF Stored
  <2>6. /\ pc' = [pc EXCEPT ![w] = "pass"] /\ seen' = seen /\ base' = base
        /\ holder' = holder
    BY <1>14 DEF Lock!CutCommits, Lock!Goes
  <2>7. Current(w, n - 1, n - 1)'
    BY <2>6 DEF Current, WritersHold
  <2> QED
    BY <1>6, <2>1, <2>5, <2>6, <2>7
<1> QED
  BY <1>7, <1>8, <1>9, <1>10, <1>11, <1>12, <1>13, <1>14

\* No step of a worker, and no lost session, breaks the invariant.
LEMMA LockNext ==
  ASSUME Lock!NobodyAssumption, LockInv, [Lock!Next]_(Lock!vars)
  PROVE  LockInv'
<1>1. CASE Lock!SessionDropped
  BY <1>1 DEF Lock!SessionDropped, LockInv
<1>2. ASSUME NEW w \in Worker, Lock!Step(w) PROVE LockInv'
  <2>1. drops' = drops
    BY <1>2 DEF Lock!Step, Lock!Acquire, Lock!Granted, Lock!Stopped, Lock!Replaced, Lock!NoticesLoss, Lock!Ends, Lock!StartPass,
      Lock!Guard, Lock!RollupRereads, Lock!Rollup, Lock!StoreReads, Lock!StoreCommits, Lock!CutReads, Lock!CutCommits, Lock!bounds
  <2>2. CASE drops = 0
    <3>1. WritersHold /\ Books
      BY <2>2 DEF LockInv
    <3>2. WritersHold' /\ Books'
      BY <1>2, <3>1, LockSteps, LoopSteps DEF Lock!Step
    <3> QED
      BY <2>1, <3>2 DEF LockInv
  <2> QED
    BY <2>1, <2>2 DEF LockInv
<1>3. CASE UNCHANGED Lock!vars
  BY <1>3 DEF Lock!vars, Lock!tables, Lock!bounds, LockInv, WritersHold, Books, Stored, Current
<1> QED
  BY <1>1, <1>2, <1>3 DEF Lock!Next

---------------------------------------------------------------------------
(* The theorems. *)

\* So it holds throughout.
LEMMA LockInvariant == ASSUME Lock!NobodyAssumption PROVE Lock!Spec => []LockInv
<1>1. Lock!Init => LockInv
  BY LockInit
<1>2. LockInv /\ [Lock!Next]_(Lock!vars) => LockInv'
  BY LockNext
<1> QED
  BY <1>1, <1>2, PTL DEF Lock!Spec

\* At most one worker process is past acquireSyncLock at any time, whatever
\* crashes, restarts and hand-overs happen, until a lock session is lost while
\* its worker is alive (sync.js:41-68).
THEOREM LockMakesOneWriter ==
  ASSUME Lock!NobodyAssumption
  PROVE  Lock!Spec => [](drops = 0 => Lock!OneWriter)
<1>1. LockInv => (drops = 0 => Lock!OneWriter)
  BY DEF LockInv, WritersHold, Lock!OneWriter
<1> QED
  BY <1>1, LockInvariant, PTL

\* Until then the counters that transactions read in one statement and write in
\* another are those of the stored blocks and days (processBlocks, rollbackAbove
\* and snapshotAndRollupDay).
THEOREM LockKeepsTheBooks ==
  ASSUME Lock!NobodyAssumption
  PROVE  Lock!Spec => [](drops = 0 => Lock!BooksReconcile /\ Lock!DaysCountedOnce)
<1>1. ASSUME NEW n \in Nat, NEW m \in Nat, Stored(n, m)
      PROVE  Lock!BooksReconcile /\ Lock!DaysCountedOnce
  <2>1. Lock!Tip = n
    BY <1>1, TipAndLastDay
  <2>2. Lock!Cardinality(stored) = n /\ Lock!Cardinality(rows) = m
    BY <1>1, LengthOfInterval DEF Stored
  <2> QED
    BY <1>1, <2>1, <2>2 DEF Stored, Lock!BooksReconcile, Lock!DaysCountedOnce
<1>2. LockInv => (drops = 0 => Lock!BooksReconcile /\ Lock!DaysCountedOnce)
  BY <1>1 DEF LockInv, Books
<1> QED
  BY <1>2, LockInvariant, PTL
---------------------------------------------------------------------------
(* SyncLock, whatever sessions are lost, as long as no block is deleted.   *)

\* The locals of a worker may be old, never ahead, and the counter an open
\* transaction has read covers the tip its pass started from.
Lagging(w, n) ==
  /\ pc[w] # "cut"
  /\ pc[w] \in {"guard", "rollup", "store", "flush"} => seen[w] \in 0..n
  /\ pc[w] = "flush" => base[w] \in seen[w]..n

Inserted(n) == stored = 1..n /\ counter = n /\ \A w \in Worker : Lagging(w, n)

LockTypes == pc \in [Worker -> Lock!Places] /\ seen \in [Worker -> Int] /\ DOMAIN base = Worker

LostInv ==
  /\ reorgs \in Nat
  /\ reorgs = 0 => LockTypes /\ \E n \in Nat : Inserted(n)

\* It is enough to say what the step leaves in the tables and in the locals of
\* the worker that makes it.
LEMMA LostKept ==
  ASSUME LockTypes, NEW n \in Nat, Inserted(n), NEW w \in Worker, NEW m \in Nat, n <= m,
         LockTypes', \A v \in Worker : v # w => pc'[v] = pc[v] /\ seen'[v] = seen[v] /\ base'[v] = base[v],
         stored' = 1..m, counter' = m, Lagging(w, m)', reorgs' \in Nat
  PROVE  LostInv'
<1>1. \A v \in Worker : v # w => Lagging(v, m)'
  BY DEF Inserted, Lagging, LockTypes
<1> QED
  BY <1>1 DEF LostInv, Inserted

\* Two writers that both hold an old tip insert the same height: the second
\* insert fails on the primary key.
LEMMA LostStep ==
  ASSUME LockTypes, NEW n \in Nat, Inserted(n), NEW w \in Worker, Lock!Step(w), reorgs = 0, reorgs' = 0
  PROVE  LostInv'
<1>1. Lock!Tip = n
  BY MaxOfInterval DEF Inserted, Lock!Tip
<1>2. counter \in Int /\ Lagging(w, n) /\ stored = 1..n /\ counter = n
  BY DEF Inserted
<1>3. CASE Lock!Acquire(w) \/ Lock!Granted(w) \/ Lock!Stopped(w) \/ Lock!Replaced(w) \/ Lock!NoticesLoss(w)
  <2>1. UNCHANGED <<stored, counter, seen, base>>
    BY <1>3 DEF Lock!Acquire, Lock!Granted, Lock!Stopped, Lock!Replaced, Lock!NoticesLoss,
                Lock!Ends, Lock!tables
  <2>2. PICK place \in {"down", "waiting", "pass"} : pc' = [pc EXCEPT ![w] = place]
    BY <1>3 DEF Lock!Acquire, Lock!Granted, Lock!Stopped, Lock!Replaced, Lock!NoticesLoss,
                Lock!Ends, Lock!Goes
  <2>3. LockTypes'
    BY <2>1, <2>2 DEF LockTypes, Lock!Places, Lock!Writing
  <2>4. Lagging(w, n)'
    BY <2>2 DEF Lagging, LockTypes
  <2> QED
    BY <1>2, <2>1, <2>2, <2>3, <2>4, LostKept DEF LockTypes
<1>4. CASE Lock!StartPass(w)
  <2>1. /\ UNCHANGED <<stored, counter, base>> /\ seen' = [seen EXCEPT ![w] = n]
        /\ pc' \in {[pc EXCEPT ![w] = "guard"], [pc EXCEPT ![w] = "store"]}
    BY <1>1, <1>4 DEF Lock!StartPass, Lock!Goes, Lock!tables
  <2>2. LockTypes' /\ Lagging(w, n)'
    BY <2>1 DEF LockTypes, Lagging, Lock!Places, Lock!Writing
  <2> QED
    BY <1>2, <2>1, <2>2, LostKept DEF LockTypes
<1>5. CASE Lock!Guard(w) \/ Lock!RollupRereads(w) \/ Lock!Rollup(w)
  <2>1. /\ UNCHANGED <<stored, counter, seen>>
        /\ pc[w] \in {"guard", "rollup"}
        /\ pc' \in {pc, [pc EXCEPT ![w] = "rollup"], [pc EXCEPT ![w] = "store"]}
        /\ base' = base \/ base' = [base EXCEPT ![w] = coinDays]
    BY <1>5 DEF Lock!Guard, Lock!RollupRereads, Lock!Rollup, Lock!Goes, Lock!tables
  <2>2. LockTypes'
    BY <2>1 DEF LockTypes, Lock!Places, Lock!Writing
  <2>3. Lagging(w, n)'
    BY <1>2, <1>5, <2>1 DEF LockTypes, Lagging, Lock!Guard, Lock!RollupRereads, Lock!Rollup, Lock!Goes
  <2> QED
    BY <1>2, <2>1, <2>2, <2>3, LostKept DEF LockTypes
<1>6. CASE Lock!StoreReads(w)
  <2>1. /\ UNCHANGED <<stored, counter, seen>> /\ pc[w] = "store"
        /\ pc' = [pc EXCEPT ![w] = "flush"] /\ base' = [base EXCEPT ![w] = n]
    BY <1>2, <1>6 DEF Lock!StoreReads, Lock!Goes, Lock!tables
  <2>2. LockTypes' /\ Lagging(w, n)'
    BY <1>2, <2>1 DEF LockTypes, Lagging, Lock!Places, Lock!Writing
  <2> QED
    BY <1>2, <2>1, <2>2, LostKept DEF LockTypes
<1>7. CASE Lock!StoreCommits(w)
  <2>1. /\ UNCHANGED <<seen, base>> /\ pc[w] = "flush" /\ pc' = [pc EXCEPT ![w] = "pass"]
        /\ seen[w] \in 0..n /\ seen[w] <= base[w] /\ base[w] <= n /\ base[w] \in Int
    BY <1>2, <1>7 DEF Lock!StoreCommits, Lock!Goes, Lagging, LockTypes
  <2>2. LockTypes' /\ Lagging(w, n)' /\ Lagging(w, n + 1)'
    BY <2>1 DEF LockTypes, Lagging, Lock!Places, Lock!Writing
  <2>3. CASE Lock!Duplicate(w)
    <3>1. UNCHANGED <<stored, counter>>
      BY <1>7, <2>3 DEF Lock!StoreCommits
    <3> QED
      BY <1>2, <2>1, <2>2, <3>1, LostKept DEF LockTypes
  <2>4. CASE ~Lock!Duplicate(w)
    <3>1. seen[w] = n /\ base[w] = n
      BY <1>2, <2>1, <2>4 DEF Lock!Duplicate
    <3>2. stored' = stored \cup {n + 1} /\ counter' = n + 1
      BY <1>7, <2>4, <3>1 DEF Lock!StoreCommits
    <3>3. stored' = 1..(n + 1)
      BY <1>2, <3>2
    <3>4. n + 1 \in Nat /\ n <= n + 1
      OBVIOUS
    <3> QED
      BY <2>1, <2>2, <3>2, <3>3, <3>4, LostKept DEF LockTypes
  <2> QED
    BY <2>3, <2>4
<1>8. ~Lock!CutReads(w) /\ ~Lock!CutCommits(w)
  BY <1>2 DEF Lock!CutReads, Lock!CutCommits, Lagging
<1> QED
  BY <1>3, <1>4, <1>5, <1>6, <1>7, <1>8 DEF Lock!Step

\* A step of any worker, or a lost session, keeps the totals of what is stored.
LEMMA LostNext ==
  ASSUME LostInv, [Lock!Next]_(Lock!vars)
  PROVE  LostInv'
<1>1. CASE UNCHANGED Lock!vars
  BY <1>1 DEF LostInv, LockTypes, Inserted, Lagging, Lock!vars, Lock!tables, Lock!bounds
<1>2. CASE Lock!SessionDropped
  BY <1>2 DEF Lock!SessionDropped, LostInv, LockTypes, Inserted, Lagging, Lock!tables
<1>3. ASSUME NEW w \in Worker, Lock!Step(w) PROVE LostInv'
  <2>1. reorgs' = reorgs \/ reorgs' = reorgs + 1
    BY <1>3 DEF Lock!Step, Lock!Acquire, Lock!Granted, Lock!Stopped, Lock!Replaced,
      Lock!NoticesLoss, Lock!Ends, Lock!StartPass, Lock!Guard, Lock!RollupRereads, Lock!Rollup,
      Lock!StoreReads, Lock!StoreCommits, Lock!CutReads, Lock!CutCommits, Lock!bounds
  <2>2. CASE reorgs' = 0
    <3>1. reorgs = 0
      BY <2>1, <2>2 DEF LostInv
    <3> QED
      BY <1>3, <2>2, <3>1, LostStep DEF LostInv
  <2>3. CASE reorgs' # 0
    BY <2>1, <2>3 DEF LostInv
  <2> QED
    BY <2>2, <2>3
<1> QED
  BY <1>1, <1>2, <1>3 DEF Lock!Next

\* One writer at a time past acquireSyncLock, and running totals of its own rows,
\* until a lock session is lost while its worker is alive; and totals that match
\* the stored blocks even after that, as long as none is deleted (sync.js:41-68,
\* processBlocks, rollbackAbove and snapshotAndRollupDay).
THEOREM LockHoldsAndLosesNothing ==
  ASSUME Lock!NobodyAssumption
  PROVE  Lock!Spec => []Lock!SingleWriter
<1>1. Lock!Init => LostInv
  <2> SUFFICES ASSUME Lock!Init PROVE LostInv
    OBVIOUS
  <2>1. Inserted(0) /\ LockTypes
    BY DEF Lock!Init, Inserted, Lagging, LockTypes, Lock!Places, Lock!Writing
  <2> QED
    BY <2>1 DEF LostInv, Lock!Init
<1>2. LostInv /\ [Lock!Next]_(Lock!vars) => LostInv'
  BY LostNext
<1>3. LostInv => (reorgs = 0 => Lock!BooksReconcile)
  <2> SUFFICES ASSUME NEW n \in Nat, Inserted(n) PROVE Lock!BooksReconcile
    BY DEF LostInv
  <2>1. Lock!Tip = n
    BY MaxOfInterval DEF Inserted, Lock!Tip
  <2>2. Lock!Cardinality(stored) = n
    BY LengthOfInterval DEF Inserted
  <2> QED
    BY <2>1, <2>2 DEF Inserted, Lock!BooksReconcile
<1> QED
  BY <1>1, <1>2, <1>3, LockMakesOneWriter, LockKeepsTheBooks, PTL DEF Lock!Spec, Lock!SingleWriter

---------------------------------------------------------------------------
(* FetchLanes: the lanes of fetchBlocks, for any number of lanes, blocks,  *)
(* retries and fetches that overlap after a rejection.                     *)

CONSTANTS Lane, Blocks, MaxRetries, MaxFetches
VARIABLES fetch, taken, lane, results, verdict
Lanes == INSTANCE FetchLanes

\* An index that was claimed and has no block yet belongs to a lane.
Claimant(g, k) == \E l \in Lane : lane[g][l].place \in {"hash", "block", "threw"} /\ lane[g][l].idx = k

\* The indexes below the shared one are claimed, each by one lane or landed.
Claims(g) ==
  /\ \A k \in 1..Blocks :
       /\ results[g][k] \in {0, k}
       /\ results[g][k] # 0 => k <= taken[g]
       /\ k <= taken[g] => results[g][k] = k \/ Claimant(g, k)
  /\ \A l \in Lane : lane[g][l].place \in Lanes!Asking =>
       lane[g][l].idx \in 1..taken[g] /\ results[g][lane[g][l].idx] = 0
  /\ \A k, l \in Lane : k # l /\ lane[g][k].place \in Lanes!Asking /\ lane[g][l].place \in Lanes!Asking =>
       lane[g][k].idx # lane[g][l].idx

\* The promise tells of the lanes.
Promises(g) ==
  /\ \A l \in Lane : lane[g][l].place = "returned" => taken[g] = Blocks
  /\ verdict[g] = "resolved" => \A l \in Lane : lane[g][l].place = "returned"
  /\ verdict[g] = "open" => /\ \A l \in Lane : lane[g][l].place # "threw"
                            /\ \E l \in Lane : lane[g][l].place # "returned"
  /\ g > fetch => verdict[g] = "unasked" /\ \A l \in Lane : lane[g][l].place = "top"

FetchInv == Lanes!TypeOK /\ \A g \in Lanes!Fetch : Claims(g) /\ Promises(g)

\* A fetch nobody touches keeps its claims.
LEMMA FetchRests ==
  ASSUME NEW g, Claims(g), Promises(g), taken'[g] = taken[g], lane'[g] = lane[g],
         results'[g] = results[g], verdict'[g] = verdict[g], fetch' = fetch
  PROVE  Claims(g)' /\ Promises(g)'
BY DEF Claims, Promises, Claimant

LaneState ==
  [place : Lanes!Asking \cup {"top", "returned", "threw"}, idx : 0..Blocks, attempt : 0..MaxRetries]

\* One lane of one fetch gets a new state.
LEMMA LaneSet ==
  ASSUME NEW G, NEW L, NEW R, NEW f \in [G -> [L -> R]], NEW g \in G, NEW l \in L, NEW r \in R,
         NEW f1, f1 = [f EXCEPT ![g][l] = r]
  PROVE  /\ f1 \in [G -> [L -> R]] /\ f1[g][l] = r
         /\ \A m \in L : m # l => f1[g][m] = f[g][m]
         /\ \A h \in G : h # g => f1[h] = f[h]
<1>1. [f[g] EXCEPT ![l] = r] \in [L -> R]
  OBVIOUS
<1>2. f1 = [f EXCEPT ![g] = [f[g] EXCEPT ![l] = r]]
  OBVIOUS
<1> QED
  BY <1>1, <1>2

\* What a step of lane l does to its own fetch g.
Moved(g, l, r) ==
  /\ lane[g][l] \in LaneState /\ r \in LaneState /\ lane' \in [Lanes!Fetch -> [Lane -> LaneState]]
  /\ lane'[g][l] = r /\ \A m \in Lane : m # l => lane'[g][m] = lane[g][m]
  /\ \A h \in Lanes!Fetch : h # g => lane'[h] = lane[h]
  /\ g <= fetch /\ fetch' = fetch /\ g \in Nat

\* The types that the steps of a lane are computed with.
LEMMA FetchTypes ==
  ASSUME Lanes!FetchAssumption, FetchInv, NEW g \in Lanes!Fetch
  PROVE  /\ taken \in [Lanes!Fetch -> 0..Blocks] /\ Blocks \in Nat /\ MaxRetries \in Nat
         /\ lane \in [Lanes!Fetch -> [Lane -> LaneState]] /\ g \in Nat
         /\ results \in [Lanes!Fetch -> [1..Blocks -> 0..Blocks]]
         /\ verdict \in [Lanes!Fetch -> {"unasked", "open", "resolved", "rejected"}]
         /\ taken[g] \in 0..Blocks /\ Claims(g) /\ Promises(g)
         /\ fetch \in Nat /\ MaxFetches \in Nat /\ \A m \in Lane : lane[g][m] \in LaneState
<1>1. /\ taken \in [Lanes!Fetch -> 0..Blocks] /\ Blocks \in Nat /\ MaxRetries \in Nat
      /\ lane \in [Lanes!Fetch -> [Lane -> LaneState]] /\ g \in Nat
      /\ results \in [Lanes!Fetch -> [1..Blocks -> 0..Blocks]]
      /\ verdict \in [Lanes!Fetch -> {"unasked", "open", "resolved", "rejected"}]
      /\ Claims(g) /\ Promises(g) /\ fetch \in Nat /\ MaxFetches \in Nat
  BY DEF FetchInv, Lanes!TypeOK, Lanes!FetchAssumption, LaneState, Lanes!Fetch
<1> QED
  BY <1>1

\* A step changes one lane of one fetch; what else it says is for that fetch.
LEMMA LaneKept ==
  ASSUME Lanes!FetchAssumption, FetchInv, NEW g \in Lanes!Fetch, NEW l \in Lane, NEW r, Moved(g, l, r),
         taken' \in [Lanes!Fetch -> 0..Blocks], results' \in [Lanes!Fetch -> [1..Blocks -> 0..Blocks]],
         verdict' \in [Lanes!Fetch -> {"unasked", "open", "resolved", "rejected"}],
         \A h \in Lanes!Fetch : h # g => taken'[h] = taken[h] /\ results'[h] = results[h] /\ verdict'[h] = verdict[h],
         Claims(g)', Promises(g)'
  PROVE  FetchInv'
<1>1. \A h \in Lanes!Fetch : h # g => Claims(h)' /\ Promises(h)'
  BY FetchRests DEF FetchInv, Moved
<1>2. Lanes!TypeOK'
  BY DEF FetchInv, Lanes!TypeOK, Moved, LaneState
<1> QED
  BY <1>1, <1>2 DEF FetchInv

\* The shared index moves on and the lane has claimed the one before.
LEMMA TakeKeeps ==
  ASSUME Lanes!FetchAssumption, FetchInv, NEW g \in Lanes!Fetch, NEW l \in Lane, Lanes!Take(g, l)
  PROVE  FetchInv'
<1> DEFINE n == taken[g] + 1
           r == [place |-> "hash", idx |-> n, attempt |-> 0]
<1>1. /\ lane[g][l].place = "top" /\ taken[g] < Blocks /\ g <= fetch /\ fetch' = fetch
      /\ taken' = [taken EXCEPT ![g] = n] /\ lane' = [lane EXCEPT ![g][l] = r]
      /\ UNCHANGED <<results, verdict>>
  BY DEF Lanes!Take, Lanes!At, Lanes!Claimed
<1>2. n \in 1..Blocks /\ r \in LaneState
  BY <1>1, FetchTypes DEF LaneState, Lanes!Asking
<1>3. Moved(g, l, r)
  BY <1>1, <1>2, FetchTypes, LaneSet DEF Moved
<1>4. taken' \in [Lanes!Fetch -> 0..Blocks] /\ taken'[g] = n /\ n > taken[g]
  BY <1>1, <1>2, FetchTypes
<1>5. /\ \A m \in Lane : m # l => lane'[g][m] = lane[g][m]
      /\ lane'[g][l].place = "hash" /\ lane'[g][l].idx = n
  BY <1>3 DEF Moved
<1> HIDE DEF n, r
<1>6. Claims(g)'
  <2>1. \A k \in 1..Blocks : Claimant(g, k) => Claimant(g, k)'
    BY <1>1, <1>5 DEF Claimant
  <2>2. \A k \in 1..Blocks : k = n => Claimant(g, k)'
    BY <1>5 DEF Claimant
  <2>3. results[g][n] = 0
    BY <1>2, <1>4, FetchTypes DEF Claims
  <2>4. \A k \in 1..Blocks : k <= n => k <= taken[g] \/ k = n
    BY <1>2, FetchTypes DEF n
  <2>5. \A k \in 1..Blocks :
          /\ results'[g][k] \in {0, k}
          /\ results'[g][k] # 0 => k <= taken'[g]
          /\ k <= taken'[g] => results'[g][k] = k \/ Claimant(g, k)'
    BY <1>1, <1>4, <2>1, <2>2, <2>4, <1>2, FetchTypes DEF Claims
  <2>6. \A m \in Lane : lane'[g][m].place \in Lanes!Asking =>
          /\ lane'[g][m].idx \in 1..taken'[g] /\ results'[g][lane'[g][m].idx] = 0
          /\ m # l => lane[g][m].place \in Lanes!Asking /\ lane[g][m].idx \in 1..taken[g]
    BY <1>1, <1>2, <1>4, <1>5, <2>3, FetchTypes DEF Claims
  <2>7. \A k, m \in Lane : k # m /\ lane'[g][k].place \in Lanes!Asking /\ lane'[g][m].place \in Lanes!Asking =>
          lane'[g][k].idx # lane'[g][m].idx
    BY <1>4, <1>5, <2>6, FetchTypes DEF Claims
  <2> QED
    BY <2>5, <2>6, <2>7 DEF Claims
<1>7. Promises(g)'
  BY <1>1, <1>3, <1>4, <1>5, FetchTypes DEF Promises, Moved
<1> QED
  BY <1>1, <1>3, <1>4, <1>6, <1>7, FetchTypes, LaneKept

\* A lane returns only when every index is claimed.
LEMMA ReturnKeeps ==
  ASSUME Lanes!FetchAssumption, FetchInv, NEW g \in Lanes!Fetch, NEW l \in Lane, Lanes!Return(g, l)
  PROVE  FetchInv'
<1> DEFINE r == [lane[g][l] EXCEPT !.place = "returned"]
           verdict1 == IF \A k \in Lane : lane'[g][k].place = "returned" THEN "resolved" ELSE verdict[g]
<1>1. /\ lane[g][l].place = "top" /\ taken[g] = Blocks /\ g <= fetch /\ fetch' = fetch
      /\ lane' = [lane EXCEPT ![g][l] = r] /\ verdict' = [verdict EXCEPT ![g] = verdict1]
      /\ UNCHANGED <<taken, results>>
  BY DEF Lanes!Return, Lanes!At
<1>2. r \in LaneState /\ lane[g][l] \in LaneState /\ r.place = "returned"
  <2>1. lane[g][l] \in LaneState
    BY FetchTypes
  <2> QED
    BY <2>1 DEF LaneState
<1> HIDE DEF r
<1>3. Moved(g, l, r)
  BY <1>1, <1>2, FetchTypes, LaneSet DEF Moved
<1>4. /\ \A m \in Lane : m # l => lane'[g][m] = lane[g][m]
      /\ lane'[g][l].place = "returned" /\ verdict'[g] = verdict1
  BY <1>1, <1>2, <1>3, FetchTypes DEF Moved
<1>5. Claims(g)'
  <2>1. \A k \in 1..Blocks : Claimant(g, k) => Claimant(g, k)'
    BY <1>1, <1>4 DEF Claimant
  <2> QED
    BY <1>1, <1>4, <2>1, FetchTypes DEF Claims, Lanes!Asking
<1>6. Promises(g)'
  <2>1. verdict'[g] = "open" => \E m \in Lane : lane'[g][m].place # "returned"
    BY <1>4
  <2>2. verdict'[g] = "resolved" => \A m \in Lane : lane'[g][m].place = "returned"
    <3>1. CASE \A m \in Lane : lane'[g][m].place = "returned"
      BY <3>1
    <3>2. CASE verdict[g] = "resolved"
      BY <1>1, <3>2, FetchTypes DEF Promises
    <3> QED
      BY <1>4, <3>1, <3>2
  <2>3. verdict'[g] = "open" => \A m \in Lane : lane'[g][m].place # "threw"
    <3>1. verdict'[g] = "open" => verdict[g] = "open"
      BY <1>4
    <3> QED
      BY <1>4, <3>1, FetchTypes DEF Promises
  <2>4. \A m \in Lane : lane'[g][m].place = "returned" => taken'[g] = Blocks
    BY <1>1
  <2>5. ~(g > fetch')
    <3>1. g \in Nat /\ fetch \in Nat
      BY FetchTypes
    <3> QED
      BY <1>1, <3>1
  <2> QED
    BY <2>1, <2>2, <2>3, <2>4, <2>5 DEF Promises
<1>7. verdict' \in [Lanes!Fetch -> {"unasked", "open", "resolved", "rejected"}]
  BY <1>1, FetchTypes
<1> QED
  BY <1>1, <1>3, <1>5, <1>6, <1>7, FetchTypes, LaneKept

\* The hash is there and the block is asked for.
LEMMA HashKeeps ==
  ASSUME Lanes!FetchAssumption, FetchInv, NEW g \in Lanes!Fetch, NEW l \in Lane, Lanes!HashArrives(g, l)
  PROVE  FetchInv'
<1> DEFINE r == [lane[g][l] EXCEPT !.place = "block", !.attempt = 0]
<1>1. /\ lane[g][l].place = "hash" /\ g <= fetch /\ fetch' = fetch
      /\ lane' = [lane EXCEPT ![g][l] = r] /\ UNCHANGED <<taken, results, verdict>>
  <2>1. lane' = [lane EXCEPT ![g][l].place = "block", ![g][l].attempt = 0]
    BY DEF Lanes!HashArrives
  <2>2. [lane EXCEPT ![g][l].place = "block", ![g][l].attempt = 0] = [lane EXCEPT ![g][l] = r]
    BY FetchTypes
  <2> QED
    BY <2>1, <2>2 DEF Lanes!HashArrives, Lanes!At
<1>2. /\ r \in LaneState /\ lane[g][l] \in LaneState /\ r.place = "block" /\ r.idx = lane[g][l].idx
  <2>1. lane[g][l] \in LaneState /\ 0 \in 0..MaxRetries
    BY FetchTypes
  <2> QED
    BY <2>1 DEF LaneState, Lanes!Asking
<1> HIDE DEF r
<1>3. Moved(g, l, r)
  BY <1>1, <1>2, FetchTypes, LaneSet DEF Moved
<1>4. /\ \A m \in Lane : m # l => lane'[g][m] = lane[g][m]
      /\ lane'[g][l].place = "block" /\ lane'[g][l].idx = lane[g][l].idx
  BY <1>2, <1>3 DEF Moved
<1>5. Claims(g)'
  <2>1. \A k \in 1..Blocks : Claimant(g, k) => Claimant(g, k)'
    BY <1>1, <1>4 DEF Claimant
  <2>2. \A m \in Lane : /\ lane'[g][m].idx = lane[g][m].idx
                        /\ lane'[g][m].place \in Lanes!Asking => lane[g][m].place \in Lanes!Asking
    BY <1>1, <1>4 DEF Lanes!Asking
  <2> QED
    BY <1>1, <2>1, <2>2, FetchTypes DEF Claims
<1>6. Promises(g)'
  BY <1>1, <1>3, <1>4, FetchTypes DEF Promises, Moved
<1> QED
  BY <1>1, <1>3, <1>5, <1>6, FetchTypes, LaneKept

\* The block lands at the index its lane has claimed, and nobody else has.
LEMMA BlockKeeps ==
  ASSUME Lanes!FetchAssumption, FetchInv, NEW g \in Lanes!Fetch, NEW l \in Lane, Lanes!BlockArrives(g, l)
  PROVE  FetchInv'
<1>1. PICK n : n = lane[g][l].idx
  OBVIOUS
<1>2. /\ lane[g][l].place = "block" /\ g <= fetch /\ fetch' = fetch
      /\ results' = [results EXCEPT ![g][n] = n] /\ lane' = [lane EXCEPT ![g][l] = Lanes!AtTop]
      /\ UNCHANGED <<taken, verdict>>
  BY <1>1 DEF Lanes!BlockArrives, Lanes!At
<1>3. n \in 1..taken[g] /\ n \in 1..Blocks
  <2>1. n \in 1..taken[g]
    BY <1>1, <1>2, FetchTypes DEF Claims, Lanes!Asking
  <2> QED
    BY <2>1, FetchTypes
<1>4. Lanes!AtTop \in LaneState /\ lane[g][l] \in LaneState /\ Lanes!AtTop.place = "top"
  BY FetchTypes DEF LaneState, Lanes!AtTop
<1>5. Moved(g, l, Lanes!AtTop)
  BY <1>2, <1>4, FetchTypes, LaneSet DEF Moved
<1>6. /\ \A m \in Lane : m # l => lane'[g][m] = lane[g][m]
      /\ lane'[g][l].place = "top"
  BY <1>4, <1>5 DEF Moved
<1>7. /\ results' \in [Lanes!Fetch -> [1..Blocks -> 0..Blocks]] /\ results'[g][n] = n
      /\ \A k \in 1..Blocks : k # n => results'[g][k] = results[g][k]
      /\ \A h \in Lanes!Fetch : h # g => results'[h] = results[h]
  <2>1. n \in 0..Blocks
    BY <1>3, FetchTypes
  <2> QED
    BY <1>2, <1>3, <2>1, FetchTypes, LaneSet
<1>8. Claims(g)'
  <2>1. \A k \in 1..Blocks : k # n /\ Claimant(g, k) => Claimant(g, k)'
    BY <1>1, <1>2, <1>6 DEF Claimant
  <2>2. \A k \in 1..Blocks : k # n =>
          /\ results'[g][k] \in {0, k}
          /\ results'[g][k] # 0 => k <= taken[g]
          /\ k <= taken[g] => results'[g][k] = k \/ Claimant(g, k)'
    BY <1>7, <2>1, FetchTypes DEF Claims
  <2>3. n <= taken[g]
    BY <1>3, FetchTypes
  <2>4. \A m \in Lane : lane'[g][m].place \in Lanes!Asking =>
          m # l /\ lane'[g][m] = lane[g][m] /\ lane[g][m].place \in Lanes!Asking
    BY <1>6 DEF Lanes!Asking
  <2>5. lane[g][l].place \in Lanes!Asking
    BY <1>2 DEF Lanes!Asking
  <2>6. \A m \in Lane : lane'[g][m].place \in Lanes!Asking => lane[g][m].idx # n
    BY <1>1, <2>4, <2>5, FetchTypes DEF Claims
  <2>7. \A m \in Lane : lane'[g][m].place \in Lanes!Asking =>
          lane[g][m].idx \in 1..taken[g] /\ lane[g][m].idx \in 1..Blocks /\ results[g][lane[g][m].idx] = 0
    BY <2>4, FetchTypes DEF Claims
  <2>8. \A m \in Lane : lane'[g][m].place \in Lanes!Asking =>
          lane'[g][m].idx \in 1..taken'[g] /\ results'[g][lane'[g][m].idx] = 0
    BY <1>2, <1>7, <2>4, <2>6, <2>7
  <2>9. \A k, m \in Lane : k # m /\ lane'[g][k].place \in Lanes!Asking /\ lane'[g][m].place \in Lanes!Asking =>
          lane'[g][k].idx # lane'[g][m].idx
    BY <2>4, FetchTypes DEF Claims
  <2>10. \A k \in 1..Blocks :
          /\ results'[g][k] \in {0, k}
          /\ results'[g][k] # 0 => k <= taken'[g]
          /\ k <= taken'[g] => results'[g][k] = k \/ Claimant(g, k)'
    BY <1>2, <1>7, <2>2, <2>3
  <2> QED
    BY <2>8, <2>9, <2>10 DEF Claims
<1>9. Promises(g)'
  BY <1>2, <1>5, <1>6, FetchTypes DEF Promises, Moved
<1> QED
  BY <1>2, <1>5, <1>7, <1>8, <1>9, FetchTypes, LaneKept

\* A lane that gives up keeps the index it holds, and the caller is told.
LEMMA FailKeeps ==
  ASSUME Lanes!FetchAssumption, FetchInv, NEW g \in Lanes!Fetch, NEW l \in Lane, Lanes!RequestFails(g, l)
  PROVE  FetchInv'
<1>1. /\ lane[g][l].place \in Lanes!Asking /\ g <= fetch /\ fetch' = fetch /\ UNCHANGED <<taken, results>>
  BY DEF Lanes!RequestFails, Lanes!At
<1>2. CASE Lanes!MayRetry(lane[g][l].attempt)
  <2> DEFINE r == [lane[g][l] EXCEPT !.attempt = lane[g][l].attempt + 1]
  <2>1. lane' = [lane EXCEPT ![g][l] = r] /\ verdict' = verdict
    BY <1>2 DEF Lanes!RequestFails
  <2>2. /\ r \in LaneState /\ lane[g][l] \in LaneState
        /\ r.place = lane[g][l].place /\ r.idx = lane[g][l].idx
    <3>1. lane[g][l] \in LaneState /\ MaxRetries \in Nat
      BY FetchTypes
    <3>2. lane[g][l].attempt + 1 \in 0..MaxRetries
      BY <1>2, <3>1 DEF LaneState, Lanes!MayRetry
    <3> QED
      BY <3>1, <3>2 DEF LaneState
  <2> HIDE DEF r
  <2>3. Moved(g, l, r)
    BY <1>1, <2>1, <2>2, FetchTypes, LaneSet DEF Moved
  <2>4. \A m \in Lane : lane'[g][m].place = lane[g][m].place /\ lane'[g][m].idx = lane[g][m].idx
    BY <2>2, <2>3 DEF Moved
  <2>5. Claims(g)' /\ Promises(g)'
    <3>1. \A k \in 1..Blocks : Claimant(g, k) => Claimant(g, k)'
      BY <2>4 DEF Claimant
    <3>2. Claims(g)'
      <4>1. \A k \in 1..Blocks :
              /\ results'[g][k] \in {0, k}
              /\ results'[g][k] # 0 => k <= taken'[g]
              /\ k <= taken'[g] => results'[g][k] = k \/ Claimant(g, k)'
        BY <1>1, <3>1, FetchTypes DEF Claims
      <4>2. \A m \in Lane : lane'[g][m].place \in Lanes!Asking =>
              lane'[g][m].idx \in 1..taken'[g] /\ results'[g][lane'[g][m].idx] = 0
        <5> SUFFICES ASSUME NEW m \in Lane, lane'[g][m].place \in Lanes!Asking
                     PROVE  lane'[g][m].idx \in 1..taken'[g] /\ results'[g][lane'[g][m].idx] = 0
          OBVIOUS
        <5>1. lane[g][m].place \in Lanes!Asking /\ lane'[g][m].idx = lane[g][m].idx
          BY <2>4
        <5>2. lane[g][m].idx \in 1..taken[g] /\ results[g][lane[g][m].idx] = 0
          BY <5>1, FetchTypes DEF Claims
        <5> QED
          BY <1>1, <5>1, <5>2
      <4>3. \A k, m \in Lane : k # m /\ lane'[g][k].place \in Lanes!Asking /\ lane'[g][m].place \in Lanes!Asking =>
              lane'[g][k].idx # lane'[g][m].idx
        <5> SUFFICES ASSUME NEW k \in Lane, NEW m \in Lane, k # m,
                            lane'[g][k].place \in Lanes!Asking, lane'[g][m].place \in Lanes!Asking
                     PROVE  lane'[g][k].idx # lane'[g][m].idx
          OBVIOUS
        <5>1. lane[g][k].place \in Lanes!Asking /\ lane[g][m].place \in Lanes!Asking
          BY <2>4
        <5>2. lane[g][k].idx # lane[g][m].idx
          BY <5>1, FetchTypes DEF Claims
        <5> QED
          BY <2>4, <5>2
      <4> QED
        BY <4>1, <4>2, <4>3 DEF Claims
    <3> QED
      BY <1>1, <2>1, <2>4, <3>2, FetchTypes DEF Promises
  <2> QED
    BY <1>1, <2>1, <2>3, <2>5, FetchTypes, LaneKept
<1>3. CASE ~Lanes!MayRetry(lane[g][l].attempt)
  <2> DEFINE r == [lane[g][l] EXCEPT !.place = "threw"]
             verdict1 == IF verdict[g] = "open" THEN "rejected" ELSE verdict[g]
  <2>1. lane' = [lane EXCEPT ![g][l] = r] /\ verdict' = [verdict EXCEPT ![g] = verdict1]
    BY <1>3 DEF Lanes!RequestFails, Lanes!Rejects
  <2>2. /\ r \in LaneState /\ lane[g][l] \in LaneState /\ r.place = "threw" /\ r.idx = lane[g][l].idx
    <3>1. lane[g][l] \in LaneState
      BY FetchTypes
    <3> QED
      BY <3>1 DEF LaneState
  <2> HIDE DEF r
  <2>3. Moved(g, l, r)
    BY <1>1, <2>1, <2>2, FetchTypes, LaneSet DEF Moved
  <2>4. /\ \A m \in Lane : m # l => lane'[g][m] = lane[g][m]
        /\ lane'[g][l].place = "threw" /\ lane'[g][l].idx = lane[g][l].idx
    BY <2>2, <2>3 DEF Moved
  <2>5. verdict'[g] = verdict1 /\ verdict' \in [Lanes!Fetch -> {"unasked", "open", "resolved", "rejected"}]
    BY <2>1, FetchTypes
  <2>6. Claims(g)'
    <3>1. \A k \in 1..Blocks : Claimant(g, k) => Claimant(g, k)'
      BY <2>4 DEF Claimant
    <3>2. \A m \in Lane : lane'[g][m].place \in Lanes!Asking => lane'[g][m] = lane[g][m]
      BY <2>4 DEF Lanes!Asking
    <3> QED
      BY <1>1, <3>1, <3>2, FetchTypes DEF Claims
  <2>7. Promises(g)'
    <3>1. verdict'[g] # "open" /\ (verdict'[g] = "resolved" => verdict[g] = "resolved")
      BY <2>5
    <3>2. verdict[g] # "resolved"
      BY <1>1, FetchTypes DEF Promises, Lanes!Asking
    <3> QED
      BY <1>1, <2>3, <2>4, <3>1, <3>2, FetchTypes DEF Promises, Moved
  <2> QED
    BY <1>1, <2>1, <2>3, <2>5, <2>6, <2>7, FetchTypes, LaneKept
<1> QED
  BY <1>2, <1>3

\* Every step of fetchBlocks keeps the claims of the lanes apart.
LEMMA FetchNext ==
  ASSUME Lanes!FetchAssumption, FetchInv, [Lanes!Next]_(Lanes!vars)
  PROVE  FetchInv'
<1>1. CASE UNCHANGED Lanes!vars
  BY <1>1 DEF Lanes!vars, FetchInv, Lanes!TypeOK, Claims, Promises, Claimant
<1>2. CASE Lanes!Start
  <2>1. /\ fetch' = fetch + 1 /\ fetch < MaxFetches /\ UNCHANGED <<taken, lane, results>>
        /\ verdict' = [verdict EXCEPT ![fetch + 1] = "open"]
        /\ fetch \in 0..MaxFetches /\ MaxFetches \in Nat /\ Lane # {}
        /\ verdict \in [Lanes!Fetch -> {"unasked", "open", "resolved", "rejected"}]
    BY <1>2 DEF Lanes!Start, FetchInv, Lanes!TypeOK, Lanes!FetchAssumption
  <2>2. Lanes!TypeOK'
    <3>1. fetch' \in 0..MaxFetches
      BY <2>1
    <3>2. verdict' \in [Lanes!Fetch -> {"unasked", "open", "resolved", "rejected"}]
      BY <2>1
    <3> QED
      BY <2>1, <3>1, <3>2 DEF FetchInv, Lanes!TypeOK
  <2>3. ASSUME NEW g \in Lanes!Fetch PROVE Claims(g)' /\ Promises(g)'
    <3>1. Claims(g) /\ Promises(g) /\ g \in Nat
      BY DEF FetchInv, Lanes!Fetch
    <3>2. Claims(g)'
      BY <2>1, <3>1 DEF Claims, Claimant
    <3>3. verdict'[g] = IF g = fetch + 1 THEN "open" ELSE verdict[g]
      BY <2>1, <3>1
    <3>4. Promises(g)'
      BY <2>1, <3>1, <3>3 DEF Promises
    <3> QED
      BY <3>2, <3>4
  <2> QED
    BY <2>2, <2>3 DEF FetchInv
<1> QED
  BY <1>1, <1>2, TakeKeeps, ReturnKeeps, HashKeeps, BlockKeeps, FailKeeps DEF Lanes!Next, Lanes!Step

\* No lane has taken a block before the first fetch.
LEMMA FetchInit == ASSUME Lanes!FetchAssumption, Lanes!Init PROVE FetchInv
<1>1. Lanes!TypeOK
  BY DEF Lanes!Init, Lanes!TypeOK, Lanes!FetchAssumption, Lanes!AtTop
<1>2. \A g \in Lanes!Fetch : /\ taken[g] = 0 /\ verdict[g] = "unasked"
                             /\ \A l \in Lane : lane[g][l].place = "top"
                             /\ \A k \in 1..Blocks : results[g][k] = 0
  BY DEF Lanes!Init, Lanes!AtTop
<1> QED
  BY <1>1, <1>2 DEF FetchInv, Claims, Promises, Lanes!FetchAssumption, Lanes!Asking

\* A batch that resolves has every block it was asked for in its place, no height
\* is asked for twice, and the caller is told of the first lane that gives up,
\* although the lanes of a rejected fetch go on beside the next one (fetchBlocks
\* and call of rpc.js).
THEOREM FetchesResolveComplete ==
  ASSUME Lanes!FetchAssumption
  PROVE  Lanes!Spec => []Lanes!ResolvedIsComplete
<1>1. Lanes!Init => FetchInv
  BY FetchInit
<1>2. FetchInv /\ [Lanes!Next]_(Lanes!vars) => FetchInv'
  BY FetchNext
<1>3. FetchInv => Lanes!ResolvedIsComplete
  <2> SUFFICES ASSUME FetchInv PROVE Lanes!ResolvedIsComplete
    OBVIOUS
  <2>1. Lane # {} /\ Blocks \in Nat /\ taken \in [Lanes!Fetch -> 0..Blocks]
    BY DEF Lanes!FetchAssumption, FetchInv, Lanes!TypeOK
  <2>2. Lanes!NoHole
    <3> SUFFICES ASSUME NEW g \in Lanes!Fetch, verdict[g] = "resolved", NEW k \in 1..Blocks
                 PROVE  results[g][k] = k
      BY DEF Lanes!NoHole
    <3>1. taken[g] = Blocks /\ \A l \in Lane : lane[g][l].place = "returned"
      BY <2>1 DEF FetchInv, Promises
    <3>2. ~Claimant(g, k)
      BY <3>1 DEF Claimant
    <3> QED
      BY <3>1, <3>2 DEF FetchInv, Claims
  <2>3. Lanes!NoHeightTwice /\ Lanes!CallerIsTold
    BY DEF FetchInv, Claims, Promises, Lanes!NoHeightTwice, Lanes!CallerIsTold
  <2> QED
    BY <2>2, <2>3 DEF Lanes!ResolvedIsComplete
<1> QED
  BY <1>1, <1>2, <1>3, PTL DEF Lanes!Spec

---------------------------------------------------------------------------
(* Watchdog: for any threshold with the margin the defaults have.          *)

CONSTANTS Threshold, CheckEvery, CallBudget, StageMax, Nap, Probes, Batch, PassCap
VARIABLES stage, elapsed, left, idle, due, orphans, silence, strained, sincePass
Dog == INSTANCE Watchdog

DogTypes ==
  /\ stage \in Dog!Calls \cup Dog!Work \cup Dog!Pauses \cup {"exited"}
  /\ elapsed \in Nat /\ left \in Nat /\ idle \in Nat /\ due \in 0..CheckEvery
  /\ orphans \in Nat /\ silence \in Nat /\ strained \in BOOLEAN /\ sincePass \in Nat

\* How long the watchdog of a healthy worker may have waited when the stage began.
Before ==
  IF stage = "block" THEN CallBudget
  ELSE IF stage = "prices" THEN Nap
  ELSE IF stage = "probe" THEN Nap + StageMax
  ELSE 0

\* A call ends within its budget, a pause within its length.
InTime == /\ stage \in Dog!Calls => elapsed <= CallBudget
          /\ stage \in Dog!Pauses => elapsed <= Nap

\* What the stages since the last touch add up to, as long as none was slow.
Healthy ==
  ~strained => /\ stage # "exited" /\ idle <= Before + elapsed
               /\ stage \in Dog!Work => idle <= Before + StageMax

\* What the timer has not seen yet is what passed since it last looked.
Watched ==
  /\ silence <= idle
  /\ stage # "exited" => idle <= Threshold + due
  /\ stage = "exited" => idle <= Threshold + CheckEvery

DogInv == DogTypes /\ InTime /\ Healthy /\ Watched

DogBudgets ==
  /\ Threshold \in Nat /\ CheckEvery \in Nat \ {0} /\ CallBudget \in Nat /\ StageMax \in Nat /\ Nap \in Nat
  /\ Probes \in Nat /\ Batch \in Nat /\ PassCap \in Nat
  /\ 2 * CallBudget <= Threshold /\ Nap + StageMax + CallBudget <= Threshold

\* A healthy worker has not been silent for longer than the threshold.
LEMMA HealthyIsHeard ==
  ASSUME DogBudgets, DogInv, ~strained
  PROVE  idle <= Threshold
BY DEF DogBudgets, DogInv, DogTypes, InTime, Healthy, Before, Dog!Calls, Dog!Work, Dog!Pauses

\* Time passes in the stage that is under way.
LEMMA TickKeeps == ASSUME DogBudgets, DogInv, Dog!Tick PROVE DogInv'
<1>1. /\ stage # "exited" /\ due < CheckEvery /\ stage' = stage
      /\ idle' = idle + 1 /\ silence' = silence + 1 /\ due' = due + 1
      /\ left' = left /\ orphans' = orphans
  BY DEF Dog!Tick
<1>2. /\ elapsed' \in Nat /\ elapsed' <= elapsed + 1 /\ strained' \in BOOLEAN
      /\ stage \in Dog!Work /\ elapsed < StageMax => elapsed' = elapsed + 1
      /\ stage \in Dog!Work /\ ~strained' => elapsed < StageMax
      /\ stage \notin Dog!Work => elapsed < Dog!Limit /\ elapsed' = elapsed + 1
      /\ ~strained' => ~strained
  <2>1. elapsed \in Nat /\ StageMax \in Nat /\ Dog!Limit \in Nat /\ strained \in BOOLEAN
    BY DEF DogBudgets, DogInv, DogTypes, Dog!Limit
  <2> HIDE DEF Dog!Limit
  <2>2. /\ stage \notin Dog!Work => elapsed < Dog!Limit
        /\ elapsed' = Dog!AtMost(elapsed + 1, IF stage \in Dog!Work THEN StageMax + 1 ELSE Dog!Limit)
        /\ strained' = (strained \/ (stage \in Dog!Work /\ elapsed >= StageMax))
    BY DEF Dog!Tick
  <2>3. strained' \in BOOLEAN /\ (~strained' => ~strained)
    BY <2>2, Zenon
  <2>4. stage \in Dog!Work /\ ~strained' => elapsed < StageMax
    <3>1. stage \in Dog!Work /\ elapsed >= StageMax => strained'
      BY <2>2
    <3> QED
      BY <2>1, <3>1
  <2>5. stage \in Dog!Work => elapsed' = Dog!AtMost(elapsed + 1, StageMax + 1)
    BY <2>2
  <2>6. stage \notin Dog!Work => elapsed < Dog!Limit /\ elapsed' = Dog!AtMost(elapsed + 1, Dog!Limit)
    BY <2>2
  <2>7. stage \in Dog!Work => /\ elapsed' \in Nat /\ elapsed' <= elapsed + 1
                              /\ elapsed < StageMax => elapsed' = elapsed + 1
    BY ONLY <2>1, <2>5 DEF Dog!AtMost
  <2>8. stage \notin Dog!Work => elapsed' \in Nat /\ elapsed < Dog!Limit /\ elapsed' = elapsed + 1
    BY ONLY <2>1, <2>6 DEF Dog!AtMost
  <2> QED
    BY ONLY <2>1, <2>3, <2>4, <2>7, <2>8
<1>3. sincePass' \in Nat
  BY DEF Dog!Tick, Dog!AtMost, DogBudgets, DogInv, DogTypes
<1>4. DogTypes'
  BY <1>1, <1>2, <1>3 DEF DogBudgets, DogInv, DogTypes
<1>5. InTime'
  BY <1>1, <1>2 DEF DogBudgets, DogInv, DogTypes, InTime, Dog!Limit, Dog!Calls, Dog!Work, Dog!Pauses
<1>6. Healthy'
  <2>1. Before' = Before /\ Before \in Nat
    BY <1>1 DEF Before, DogBudgets
  <2>2. elapsed \in Nat /\ idle \in Nat /\ StageMax \in Nat
    BY DEF DogBudgets, DogInv, DogTypes
  <2>3. ~strained' => idle <= Before + elapsed
    BY <1>2 DEF DogInv, Healthy
  <2>4. ~strained' => elapsed' = elapsed + 1 /\ (stage \in Dog!Work => elapsed < StageMax)
    BY <1>2
  <2> HIDE DEF Before
  <2> QED
    BY <1>1, <2>1, <2>2, <2>3, <2>4 DEF Healthy
<1>7. Watched'
  BY <1>1 DEF DogBudgets, DogInv, DogTypes, Watched
<1> QED
  BY <1>4, <1>5, <1>6, <1>7 DEF DogInv

\* The timer fires: what it lets run has been heard of within the threshold.
LEMMA CheckKeeps == ASSUME DogBudgets, DogInv, Dog!Check PROVE DogInv'
<1>1. /\ stage # "exited" /\ due = CheckEvery /\ due' = 0
      /\ stage' = IF idle > Threshold THEN "exited" ELSE stage
      /\ UNCHANGED <<elapsed, left, idle, orphans, silence, strained, sincePass>>
  BY DEF Dog!Check, Dog!Stalled
<1>2. idle > Threshold => strained
  BY HealthyIsHeard DEF DogBudgets, DogInv, DogTypes
<1>3. DogTypes' /\ InTime'
  BY <1>1 DEF DogBudgets, DogInv, DogTypes, InTime, Dog!Calls, Dog!Pauses
<1>4. Healthy'
  <2>1. ~strained' => ~strained /\ stage' = stage
    BY <1>1, <1>2
  <2>2. stage' = stage => Before' = Before
    BY DEF Before
  <2> QED
    BY <1>1, <2>1, <2>2 DEF DogInv, Healthy
<1>5. Watched'
  BY <1>1 DEF DogBudgets, DogInv, DogTypes, Watched
<1> QED
  BY <1>3, <1>4, <1>5 DEF DogInv

\* A stage begins: nothing has elapsed in it, and the watchdog was told, or
\* waits on, or a call has given up.
LEMMA StageBegins ==
  ASSUME DogBudgets, DogInv, NEW next \in Dog!Calls \cup Dog!Work \cup Dog!Pauses, stage' = next,
         elapsed' = 0, left' \in Nat, orphans' \in Nat, due' \in {0, due}, sincePass' \in Nat,
         \/ idle' = 0 /\ silence' = 0 /\ strained' = FALSE
         \/ /\ stage # "exited" /\ due' = due /\ idle' = idle /\ silence' \in {0, silence}
            /\ strained' = strained /\ (~strained => idle <= Before')
         \/ /\ stage # "exited" /\ due' = due /\ idle' = idle /\ silence' = silence /\ strained' = TRUE
  PROVE  DogInv'
<1>1. stage' # "exited"
  BY DEF Dog!Calls, Dog!Work, Dog!Pauses
<1>2. DogTypes'
  <2>1. idle' \in Nat /\ silence' \in Nat /\ due' \in 0..CheckEvery
    BY DEF DogBudgets, DogInv, DogTypes
  <2>2. strained' \in BOOLEAN
    BY Zenon DEF DogInv, DogTypes
  <2>3. stage' \in Dog!Calls \cup Dog!Work \cup Dog!Pauses \cup {"exited"}
    OBVIOUS
  <2> QED
    BY <2>1, <2>2, <2>3 DEF DogTypes
<1>3. InTime'
  BY DEF InTime, DogBudgets
<1>4. Before' \in Nat /\ StageMax \in Nat
  BY DEF Before, DogBudgets
<1>5. Healthy'
  <2>1. ~strained' => idle' <= Before' /\ idle' \in Nat
    BY <1>4 DEF DogInv, DogTypes
  <2> QED
    BY <1>1, <1>4, <2>1 DEF Healthy
<1>6. Watched'
  BY <1>1 DEF DogBudgets, DogInv, DogTypes, Watched
<1> QED
  BY <1>2, <1>3, <1>5, <1>6 DEF DogInv

\* A block of a failed fetch lands: the watchdog is told and the stage goes on.
LEMMA OrphanKeeps == ASSUME DogBudgets, DogInv, Dog!OrphanLands PROVE DogInv'
<1>1. /\ stage # "exited" /\ stage' = stage /\ idle' = 0 /\ silence' = 0 /\ strained' = FALSE
      /\ orphans > 0 /\ orphans' = orphans - 1 /\ UNCHANGED <<elapsed, left, due, sincePass>>
  BY DEF Dog!OrphanLands, Dog!Touch
<1>2. DogTypes' /\ InTime' /\ Watched'
  <2>1. strained' \in BOOLEAN
    BY <1>1, Zenon
  <2>2. orphans' \in Nat
    BY <1>1 DEF DogInv, DogTypes
  <2>3. DogTypes'
    BY <1>1, <2>1, <2>2 DEF DogInv, DogTypes
  <2>4. InTime' /\ Watched'
    BY <1>1 DEF DogBudgets, DogInv, DogTypes, InTime, Watched
  <2> QED
    BY <2>3, <2>4
<1>3. Before' \in Nat /\ StageMax \in Nat /\ elapsed \in Nat
  BY DEF Before, DogBudgets, DogInv, DogTypes
<1>4. Healthy'
  <2>1. stage' # "exited" /\ idle' = 0 /\ elapsed' \in Nat
    BY <1>1, <1>3
  <2>2. idle' <= Before' + elapsed' /\ idle' <= Before' + StageMax
    <3>1. PICK b \in Nat : b = Before'
      BY <1>3, Zenon
    <3>2. PICK e \in Nat, s \in Nat : e = elapsed' /\ s = StageMax
      BY <1>3, <2>1, Zenon
    <3>3. 0 <= b + e /\ 0 <= b + s
      OBVIOUS
    <3> QED
      BY <2>1, <3>1, <3>2, <3>3, Zenon
  <2> QED
    BY ONLY <2>1, <2>2 DEF Healthy
<1> QED
  BY <1>2, <1>4 DEF DogInv

\* What the other steps of the worker begin.
LEMMA StageKeeps ==
  ASSUME DogBudgets, DogInv,
         \/ Dog!Restart \/ Dog!StartPass \/ Dog!PricesEnd \/ Dog!ProbeAnswers \/ Dog!ProbeFails
         \/ Dog!InfoAnswers \/ Dog!HashAnswers \/ Dog!BlockLands \/ Dog!PassFails \/ Dog!Commits \/ Dog!WorkFails
  PROVE  DogInv'
<1> USE DEF Dog!Enter, Dog!Touch, Dog!Quiet, Dog!GivesUp
<1>1. CASE Dog!Restart
  BY <1>1, StageBegins DEF Dog!Restart, Dog!Calls, DogBudgets, DogInv, DogTypes
<1>2. CASE Dog!StartPass
  <2>1. ~strained => idle <= Nap
    BY <1>2 DEF Dog!StartPass, DogBudgets, DogInv, DogTypes, InTime, Healthy, Before, Dog!Pauses
  <2>2. stage' \in {"probe", "prices"} /\ idle' = idle /\ Before' >= Nap
    BY <1>2 DEF Dog!StartPass, Before, DogBudgets
  <2>3. ~strained => idle <= Before'
    BY <2>1, <2>2 DEF Before, DogBudgets, DogInv, DogTypes
  <2>4. /\ elapsed' = 0 /\ left' \in Nat /\ UNCHANGED <<idle, silence, strained, due, orphans, sincePass>>
        /\ stage # "exited"
    BY <1>2 DEF Dog!StartPass, DogBudgets, Dog!Pauses
  <2> QED
    BY <2>2, <2>3, <2>4, StageBegins DEF Dog!Calls, Dog!Work, DogInv, DogTypes
<1>3. CASE Dog!PricesEnd
  <2>1. ~strained => idle <= Nap + StageMax
    BY <1>3 DEF Dog!PricesEnd, DogInv, Healthy, Before, Dog!Work
  <2>2. Before' = Nap + StageMax
    BY <1>3 DEF Dog!PricesEnd, Before
  <2> QED
    BY <1>3, <2>1, <2>2, StageBegins DEF Dog!PricesEnd, Dog!Calls, DogBudgets, DogInv, DogTypes
<1>4. CASE Dog!ProbeAnswers
  BY <1>4, StageBegins DEF Dog!ProbeAnswers, Dog!Calls, DogBudgets, DogInv, DogTypes
<1>5. CASE Dog!ProbeFails
  <2>1. stage' \in {"probe", "info"} /\ left' \in Nat /\ elapsed' = 0
    BY <1>5 DEF Dog!ProbeFails, DogInv, DogTypes
  <2> QED
    BY <1>5, <2>1, StageBegins DEF Dog!ProbeFails, Dog!Unanswered, Dog!Calls, DogBudgets, DogInv, DogTypes
<1>6. CASE Dog!InfoAnswers
  <2>1. /\ stage' \in {"hash", "poll"} /\ elapsed' = 0 /\ left' \in Nat /\ sincePass' \in Nat
        /\ idle' = 0 /\ silence' = 0 /\ strained' = FALSE /\ due' = due /\ orphans' \in Nat
    BY <1>6 DEF Dog!InfoAnswers, DogBudgets, DogInv, DogTypes
  <2> QED
    BY <2>1, StageBegins DEF Dog!Calls, Dog!Pauses
<1>7. CASE Dog!HashAnswers
  <2>1. ~strained => idle <= CallBudget
    BY <1>7 DEF Dog!HashAnswers, DogBudgets, DogInv, DogTypes, InTime, Healthy, Before, Dog!Calls
  <2>2. Before' = CallBudget
    BY <1>7 DEF Dog!HashAnswers, Before
  <2> QED
    BY <1>7, <2>1, <2>2, StageBegins DEF Dog!HashAnswers, Dog!Untold, Dog!Calls, DogBudgets, DogInv, DogTypes
<1>8. CASE Dog!BlockLands
  <2>1. stage' \in {"hash", "db"} /\ left' \in Nat /\ elapsed' = 0
    BY <1>8 DEF Dog!BlockLands, DogInv, DogTypes
  <2> QED
    BY <1>8, <2>1, StageBegins DEF Dog!BlockLands, Dog!Landed, Dog!Calls, Dog!Work, DogBudgets, DogInv, DogTypes
<1>9. CASE Dog!PassFails
  BY <1>9, StageBegins DEF Dog!PassFails, Dog!Pauses, DogBudgets, DogInv, DogTypes
<1>10. CASE Dog!Commits
  <2>1. /\ stage' \in {"db", "probe", "prices"} /\ elapsed' = 0 /\ left' \in Nat /\ sincePass' \in Nat
        /\ idle' = 0 /\ silence' = 0 /\ strained' = FALSE /\ due' = due /\ orphans' \in Nat
    BY <1>10 DEF Dog!Commits, DogBudgets, DogInv, DogTypes
  <2> QED
    BY <2>1, StageBegins DEF Dog!Calls, Dog!Work
<1>11. CASE Dog!WorkFails
  BY <1>11, StageBegins DEF Dog!WorkFails, Dog!Work, Dog!Pauses, DogBudgets, DogInv, DogTypes
<1> QED
  BY <1>1, <1>2, <1>3, <1>4, <1>5, <1>6, <1>7, <1>8, <1>9, <1>10, <1>11

\* The watchdog's invariant before the first step ...
LEMMA DogInit == ASSUME DogBudgets, Dog!Init PROVE DogInv
<1>1. DogTypes
  <2>1. strained \in BOOLEAN
    BY Zenon DEF Dog!Init
  <2>2. /\ stage \in Dog!Calls /\ elapsed \in Nat /\ left \in Nat /\ idle \in Nat /\ due \in 0..CheckEvery
        /\ orphans \in Nat /\ silence \in Nat /\ sincePass \in Nat
    BY DEF Dog!Init, DogBudgets, Dog!Calls
  <2> QED
    BY <2>1, <2>2 DEF DogTypes
<1>2. InTime /\ Healthy /\ Watched
  BY DEF Dog!Init, DogBudgets, InTime, Healthy, Watched, Before, Dog!Work, Dog!Pauses
<1> QED
  BY <1>1, <1>2 DEF DogInv

\* ... and after every step.
LEMMA DogNext == ASSUME DogBudgets, DogInv, [Dog!Next]_(Dog!vars) PROVE DogInv'
<1>1. CASE UNCHANGED Dog!vars
  BY <1>1 DEF Dog!vars, DogInv, DogTypes, InTime, Healthy, Watched, Before
<1> QED
  BY <1>1, TickKeeps, CheckKeeps, OrphanKeeps, StageKeeps DEF Dog!Next

\* The watchdog stops no worker whose calls answer within their budgets and
\* whose database and price stages are neither slow nor fail, and a worker that
\* hears nothing from the node and commits nothing is stopped within the
\* threshold and one check (createStallWatchdog and the loop of sync.js).
THEOREM WatchdogExitsExactly ==
  ASSUME Dog!WatchdogAssumption, Dog!MarginAssumption
  PROVE  Dog!Spec => []Dog!ExitsExactly
<1>1. DogBudgets
  BY DEF DogBudgets, Dog!WatchdogAssumption, Dog!MarginAssumption
<1>2. Dog!Init => DogInv
  BY <1>1, DogInit
<1>3. DogInv /\ [Dog!Next]_(Dog!vars) => DogInv'
  BY <1>1, DogNext
<1>4. DogInv => Dog!ExitsExactly
  BY <1>1 DEF DogBudgets, DogInv, DogTypes, Healthy, Watched, Dog!ExitsExactly, Dog!NoFalseExit, Dog!SilenceEndsInExit
<1> QED
  BY <1>2, <1>3, <1>4, PTL DEF Dog!Spec

---------------------------------------------------------------------------
(* RateWindow, for any number of addresses, requests and minutes.          *)

CONSTANTS Ip, Limit, MaxKeys, MaxWindows, MaxHits
VARIABLES win, hits, asked, passed
Rate == INSTANCE RateWindow

\* The counter of this minute is the number of requests; sweeps leave it alone.
RateInv ==
  /\ win \in 1..MaxWindows /\ DOMAIN hits \subseteq Ip \X (1..win)
  /\ asked \in [Ip -> Nat] /\ passed \in [Ip -> Nat]
  /\ \A i \in Ip : asked[i] = IF <<i, win>> \in DOMAIN hits THEN hits[<<i, win>>] ELSE 0
  /\ Rate!LimitIsExact

\* No request yet.
LEMMA RateInit == ASSUME Rate!RateAssumption, Rate!Init PROVE RateInv
<1>1. hits = <<>> /\ DOMAIN hits = {}
  BY DEF Rate!Init
<1> QED
  BY <1>1 DEF Rate!Init, RateInv, Rate!LimitIsExact, Rate!RateAssumption

\* A sweep keeps the counters of the minute.
LEMMA RateNext == ASSUME Rate!RateAssumption, RateInv, [Rate!Next]_(Rate!vars) PROVE RateInv'
<1>1. CASE Rate!NextMinute
  <2>1. win \in Nat /\ MaxWindows \in Nat /\ win' = win + 1 /\ win' \in 1..MaxWindows
    BY <1>1 DEF Rate!NextMinute, RateInv, Rate!RateAssumption
  <2>2. hits' = hits /\ DOMAIN hits' \subseteq Ip \X (1..win')
    BY <1>1, <2>1 DEF Rate!NextMinute, RateInv
  <2>3. \A i \in Ip : <<i, win'>> \notin DOMAIN hits'
    BY <1>1, <2>1 DEF Rate!NextMinute, RateInv
  <2> QED
    BY <1>1, <2>1, <2>2, <2>3 DEF Rate!NextMinute, RateInv, Rate!LimitIsExact, Rate!RateAssumption
<1>2. CASE UNCHANGED Rate!vars
  BY <1>2 DEF Rate!vars, RateInv, Rate!LimitIsExact
<1>3. ASSUME NEW ip \in Ip, Rate!Request(ip) PROVE RateInv'
  <2> DEFINE k == <<ip, win>>
             n == IF k \in DOMAIN hits THEN hits[k] + 1 ELSE 1
             all == DOMAIN hits \cup {k}
             keep == IF Rate!Cardinality(all) > MaxKeys THEN {x \in all : ~Rate!Stale(x)} ELSE all
  <2>1. /\ hits' = [x \in keep |-> IF x = k THEN n ELSE hits[x]]
        /\ asked' = [asked EXCEPT ![ip] = @ + 1] /\ win' = win
        /\ passed' = IF Limit > 0 /\ n > Limit THEN passed ELSE [passed EXCEPT ![ip] = @ + 1]
    BY <1>3 DEF Rate!Request, Rate!Counters
  <2>2. keep \subseteq all /\ \A x \in all : x[2] = win => x \in keep
    BY DEF Rate!Stale
  <2>3. n = asked[ip] + 1 /\ n \in Nat
    BY DEF RateInv
  <2> HIDE DEF n, keep
  <2>4. DOMAIN hits' = keep /\ keep \subseteq Ip \X (1..win)
    BY <2>1, <2>2 DEF RateInv
  <2>5. \A i \in Ip : asked'[i] = IF <<i, win>> \in DOMAIN hits' THEN hits'[<<i, win>>] ELSE 0
    <3> SUFFICES ASSUME NEW i \in Ip
                 PROVE asked'[i] = IF <<i, win>> \in DOMAIN hits' THEN hits'[<<i, win>>] ELSE 0
      OBVIOUS
    <3>1. CASE i = ip
      BY <2>1, <2>2, <2>3, <2>4, <3>1 DEF RateInv
    <3>2. CASE i # ip
      <4>1. <<i, win>> # k /\ (<<i, win>> \in keep <=> <<i, win>> \in DOMAIN hits)
        BY <2>2, <3>2
      <4> QED
        BY <2>1, <2>4, <3>2, <4>1 DEF RateInv
    <3> QED
      BY <3>1, <3>2
  <2>6. asked' \in [Ip -> Nat] /\ passed' \in [Ip -> Nat]
    BY <2>1 DEF RateInv
  <2>7. Rate!LimitIsExact'
    BY <2>1, <2>3 DEF RateInv, Rate!LimitIsExact, Rate!RateAssumption
  <2> QED
    BY <2>1, <2>4, <2>5, <2>6, <2>7 DEF RateInv
<1> QED
  BY <1>1, <1>2, <1>3 DEF Rate!Next

\* However often the map is swept in the middle of a minute, an address gets its
\* limit of that minute and no more, and a limit of 0 lets everything through
\* (publicRateLimit of explorer.js).
THEOREM LimitAlwaysExact ==
  ASSUME Rate!RateAssumption
  PROVE  Rate!Spec => []Rate!LimitIsExact
<1>1. Rate!Init => RateInv
  BY RateInit
<1>2. RateInv /\ [Rate!Next]_(Rate!vars) => RateInv'
  BY RateNext
<1>3. RateInv => Rate!LimitIsExact
  BY DEF RateInv
<1> QED
  BY <1>1, <1>2, <1>3, PTL DEF Rate!Spec

---------------------------------------------------------------------------
(* AccessKeys, for any number of admins, keys and requests in flight.      *)

CONSTANTS Root, Admin, Key, Request, MaxActs, MaxUses
VARIABLES admins, keys, request, counting, acts, served, lost, window, after
Keys == INSTANCE AccessKeys

KeysTypes ==
  /\ admins \in [Admin -> {"absent", "live", "revoked"}]
  /\ keys \in [Key -> [by : {Keys!NoOne, Root} \cup Admin, revoked : Nat, count : Nat]]
  /\ request \in [Request -> {Keys!Idle} \cup [who : {Root} \cup Admin, op : Keys!Ops]]
  /\ counting \in [Key -> Seq(Nat)]
  /\ acts \in Nat /\ served \in [Key -> Nat] /\ lost \in [Key -> Nat]
  /\ window \in [Admin -> Nat] /\ after \in [Admin -> Nat]

\* Who was let in to the routes about admins is root.
LetIn == \A r \in Request : request[r].op \in {"mint admin", "revoke admin"} => request[r].who = Root

\* What an admin did since its revocation was in flight then.
Bounded(x) ==
  /\ admins[x] # "revoked" => after[x] = 0
  /\ admins[x] = "revoked" => after[x] + Keys!InFlight(x) <= window[x]

Counts(k) == keys[k].count + Len(counting[k]) + lost[k] = served[k]

KeysInv == /\ KeysTypes /\ LetIn
           /\ \A x \in Admin : Bounded(x)
           /\ \A k \in Key : Counts(k)

Mine(x) == {r \in Request : request[r].who = x}

\* Requests in flight are counted as a finite set.
LEMMA InFlightCounts ==
  ASSUME Keys!KeysAssumption, NEW x
  PROVE  /\ Keys!InFlight(x) = Cardinality(Mine(x)) /\ Keys!InFlight(x)' = Cardinality(Mine(x)')
         /\ IsFiniteSet(Mine(x)) /\ IsFiniteSet(Mine(x)')
         /\ Keys!InFlight(x) \in Nat /\ Keys!InFlight(x)' \in Nat
<1>1. \A S : Keys!Cardinality(S) = Cardinality(S) /\ (Keys!IsFiniteSet(S) <=> IsFiniteSet(S))
  BY DEF Keys!Cardinality, Cardinality, Keys!IsFiniteSet, IsFiniteSet
<1>2. Keys!InFlight(x) = Cardinality(Mine(x)) /\ Keys!InFlight(x)' = Cardinality(Mine(x)')
  BY <1>1 DEF Keys!InFlight, Mine
<1>3. IsFiniteSet(Request)
  BY <1>1 DEF Keys!KeysAssumption
<1>4. IsFiniteSet(Mine(x)) /\ IsFiniteSet(Mine(x)')
  BY <1>3, FS_Subset DEF Mine
<1> QED
  BY <1>2, <1>4, FS_CardinalityType

\* A request is let in: its caller resolves, so it is not a revoked admin.
LEMMA EnterKeeps ==
  ASSUME Keys!KeysAssumption, KeysInv, NEW r \in Request, NEW who \in {Root} \cup Admin, NEW op \in Keys!Ops,
         Keys!Enter(r, who, op)
  PROVE  KeysInv'
<1> DEFINE q == [who |-> who, op |-> op]
<1>1. /\ request[r] = Keys!Idle /\ request' = [request EXCEPT ![r] = q]
      /\ who = Root \/ admins[who] = "live"
      /\ op \in {"mint admin", "revoke admin"} => who = Root
      /\ UNCHANGED <<admins, keys, counting, acts, served, lost, window, after>>
  BY DEF Keys!Enter, Keys!Resolves, Keys!Allowed
<1>2. KeysTypes'
  <2>1. q \in [who : {Root} \cup Admin, op : Keys!Ops]
    OBVIOUS
  <2> QED
    BY <1>1, <2>1 DEF KeysInv, KeysTypes
<1>3. LetIn'
  BY <1>1 DEF KeysInv, KeysTypes, LetIn
<1>4. ASSUME NEW x \in Admin PROVE Bounded(x)'
  <2>1. CASE admins[x] = "revoked"
    <3>1. Mine(x)' = Mine(x)
      <4>1. request \in [Request -> {Keys!Idle} \cup [who : {Root} \cup Admin, op : Keys!Ops]]
        BY DEF KeysInv, KeysTypes
      <4>2. request'[r].who = who /\ \A s \in Request : s # r => request'[s] = request[s]
        BY <1>1, <4>1
      <4>3. who # x /\ request[r].who # x
        <5>1. who # x
          BY <1>1, <2>1 DEF Keys!KeysAssumption
        <5>2. request[r].who = Keys!NoOne
          <6>1. Keys!Idle.who = Keys!NoOne
            BY DEF Keys!Idle
          <6> QED
            BY <1>1, <6>1
        <5> QED
          BY <5>1, <5>2 DEF Keys!KeysAssumption
      <4> QED
        BY <4>2, <4>3 DEF Mine
    <3> QED
      BY <1>1, <2>1, <3>1, InFlightCounts DEF KeysInv, Bounded
  <2>2. CASE admins[x] # "revoked"
    BY <1>1, <2>2 DEF KeysInv, Bounded
  <2> QED
    BY <2>1, <2>2
<1>5. \A k \in Key : Counts(k)'
  BY <1>1 DEF KeysInv, Counts
<1> QED
  BY <1>2, <1>3, <1>4, <1>5 DEF KeysInv

\* A request ends.  It is one less in flight for its caller, and one more done
\* since the revocation if its caller is a revoked admin.
LEMMA ActKeeps ==
  ASSUME Keys!KeysAssumption, KeysInv, NEW r \in Request, NEW op \in Keys!Ops, Keys!Act(r, op), Keys!Late(r),
         admins' \in [Admin -> {"absent", "live", "revoked"}],
         keys' \in [Key -> [by : {Keys!NoOne, Root} \cup Admin, revoked : Nat, count : Nat]],
         \A k \in Key : keys'[k].count = keys[k].count,
         window' \in [Admin -> Nat],
         \A x \in Admin : \/ admins'[x] = admins[x] /\ window'[x] = window[x]
                          \/ admins[x] # "revoked" /\ admins'[x] # "revoked"
                          \/ admins[x] = "live" /\ window'[x] = Keys!InFlight(x)
  PROVE  KeysInv'
<1>1. /\ request[r].op = op /\ acts' = acts + 1 /\ request' = [request EXCEPT ![r] = Keys!Idle]
      /\ UNCHANGED <<counting, served, lost>>
      /\ after' = [x \in Admin |-> IF x = request[r].who /\ admins[x] = "revoked" THEN after[x] + 1 ELSE after[x]]
  BY DEF Keys!Act, Keys!Late
<1>2. KeysTypes'
  BY <1>1 DEF KeysInv, KeysTypes
<1>3. LetIn'
  BY <1>1 DEF KeysInv, KeysTypes, LetIn, Keys!Idle
<1>4. ASSUME NEW x \in Admin PROVE Bounded(x)'
  <2> DEFINE n == Cardinality(Mine(x))
             m == Cardinality(Mine(x)')
             late == after[x]
             late1 == after'[x]
             bound == window[x]
  <2>1. Mine(x)' = Mine(x) \ {r}
    BY <1>1 DEF KeysInv, KeysTypes, Mine, Keys!Idle, Keys!KeysAssumption
  <2>2. m = (IF request[r].who = x THEN n - 1 ELSE n) /\ n \in Nat /\ m \in Nat
    <3>1. r \in Mine(x) <=> request[r].who = x
      BY DEF Mine
    <3> QED
      BY <2>1, <3>1, InFlightCounts, FS_RemoveElement, FS_CardinalityType
  <2>3. late1 = (IF x = request[r].who /\ admins[x] = "revoked" THEN late + 1 ELSE late)
    BY <1>1
  <2>4. late \in Nat /\ bound \in Nat
    BY DEF KeysInv, KeysTypes
  <2>5. /\ admins[x] # "revoked" => late = 0
        /\ admins[x] = "revoked" => late + n <= bound
    BY InFlightCounts DEF KeysInv, Bounded
  <2>6. Keys!InFlight(x) = n /\ Keys!InFlight(x)' = m
    BY InFlightCounts
  <2>7. \/ admins'[x] = admins[x] /\ window'[x] = bound
        \/ admins[x] # "revoked" /\ admins'[x] # "revoked"
        \/ admins[x] = "live" /\ window'[x] = n
    BY <2>6
  <2> HIDE DEF n, m, late, late1, bound
  <2>8. /\ admins'[x] # "revoked" => late1 = 0
        /\ admins'[x] = "revoked" => late1 + m <= window'[x]
    BY ONLY <2>2, <2>3, <2>4, <2>5, <2>7
  <2> QED
    BY <2>6, <2>8 DEF Bounded, late1
<1>5. \A k \in Key : Counts(k)'
  BY <1>1 DEF KeysInv, Counts
<1> QED
  BY <1>2, <1>3, <1>4, <1>5 DEF KeysInv

\* The four handlers.
LEMMA HandlersKeep ==
  ASSUME Keys!KeysAssumption, KeysInv, NEW r \in Request,
         Keys!MintKey(r) \/ Keys!RevokeKey(r) \/ Keys!MintAdmin(r) \/ Keys!RevokeAdmin(r)
  PROVE  KeysInv' /\ Keys!RevocationStands
<1> DEFINE Rec == [by : {Keys!NoOne, Root} \cup Admin, revoked : Nat, count : Nat]
<1>1. /\ keys \in [Key -> Rec] /\ admins \in [Admin -> {"absent", "live", "revoked"}]
      /\ window \in [Admin -> Nat] /\ acts \in Nat
      /\ request \in [Request -> {Keys!Idle} \cup [who : {Root} \cup Admin, op : Keys!Ops]]
  BY DEF KeysInv, KeysTypes
<1>2. CASE Keys!MintKey(r)
  <2>1. PICK k \in Key : keys' = [keys EXCEPT ![k].by = request[r].who]
    BY <1>2 DEF Keys!MintKey
  <2>2. request[r].who \in {Root} \cup Admin
    <3>1. request[r].op = "mint key"
      BY <1>2 DEF Keys!MintKey, Keys!Act
    <3>2. request[r] \in {Keys!Idle} \cup [who : {Root} \cup Admin, op : Keys!Ops] /\ Keys!Idle.op = "none"
      BY <1>1 DEF Keys!Idle
    <3> QED
      BY <3>1, <3>2
  <2>3. /\ keys' \in [Key -> Rec]
        /\ \A j \in Key : keys'[j].count = keys[j].count /\ keys'[j].revoked = keys[j].revoked
    <3>1. [keys[k] EXCEPT !.by = request[r].who] \in Rec
      BY <1>1, <2>2
    <3> QED
      BY <1>1, <2>1, <3>1
  <2>4. KeysInv'
    BY <1>1, <1>2, <2>3, ActKeeps DEF Keys!MintKey, Keys!Ops
  <2> QED
    BY <1>2, <2>3, <2>4 DEF Keys!MintKey, Keys!RevocationStands, Keys!KeepsRevocations, Keys!AdminsByRoot
<1>3. CASE Keys!RevokeKey(r)
  <2>1. PICK k \in Key : keys' = IF Keys!Revocable(k) THEN [keys EXCEPT ![k].revoked = acts'] ELSE keys
    BY <1>3 DEF Keys!RevokeKey
  <2>2. acts' \in Nat
    <3>1. acts' = acts + 1
      BY <1>3 DEF Keys!RevokeKey, Keys!Act
    <3> QED
      BY <1>1, <3>1
  <2>3. /\ keys' \in [Key -> Rec]
        /\ \A j \in Key : /\ keys'[j].count = keys[j].count
                          /\ keys[j].revoked # 0 => keys'[j].revoked = keys[j].revoked
    <3>1. [keys[k] EXCEPT !.revoked = acts'] \in Rec
      BY <1>1, <2>2
    <3> QED
      BY <1>1, <2>1, <3>1 DEF Keys!Revocable
  <2>4. KeysInv'
    BY <1>1, <1>3, <2>3, ActKeeps DEF Keys!RevokeKey, Keys!Ops
  <2> QED
    BY <1>3, <2>3, <2>4 DEF Keys!RevokeKey, Keys!RevocationStands, Keys!KeepsRevocations, Keys!AdminsByRoot
<1>4. ASSUME Keys!MintAdmin(r) \/ Keys!RevokeAdmin(r) PROVE Keys!RevocationStands
  <2>1. request[r].who = Root /\ keys' = keys /\ request' = [request EXCEPT ![r] = Keys!Idle]
    BY <1>4 DEF Keys!MintAdmin, Keys!RevokeAdmin, Keys!Act, KeysInv, LetIn
  <2> QED
    BY <1>1, <2>1 DEF Keys!RevocationStands, Keys!KeepsRevocations, Keys!AdminsByRoot
<1>5. CASE Keys!MintAdmin(r)
  <2>1. PICK x \in Admin : admins[x] = "absent" /\ admins' = [admins EXCEPT ![x] = "live"]
    BY <1>5 DEF Keys!MintAdmin
  <2>2. /\ admins' \in [Admin -> {"absent", "live", "revoked"}]
        /\ \A y \in Admin : admins'[y] = admins[y] \/ (admins[y] # "revoked" /\ admins'[y] # "revoked")
    BY <1>1, <2>1
  <2>3. KeysInv'
    BY <1>1, <1>5, <2>2, ActKeeps DEF Keys!MintAdmin, Keys!Ops
  <2> QED
    BY <1>4, <1>5, <2>3
<1>6. CASE Keys!RevokeAdmin(r)
  <2>1. PICK x \in Admin :
          IF admins[x] = "live"
          THEN admins' = [admins EXCEPT ![x] = "revoked"] /\ window' = [window EXCEPT ![x] = Keys!InFlight(x)]
          ELSE UNCHANGED <<admins, window>>
    BY <1>6 DEF Keys!RevokeAdmin
  <2>2. Keys!InFlight(x) \in Nat
    BY InFlightCounts
  <2>3. /\ admins' \in [Admin -> {"absent", "live", "revoked"}] /\ window' \in [Admin -> Nat]
        /\ \A y \in Admin : \/ admins'[y] = admins[y] /\ window'[y] = window[y]
                            \/ admins[y] = "live" /\ window'[y] = Keys!InFlight(y)
    BY <1>1, <2>1, <2>2
  <2>4. KeysInv'
    BY <1>1, <1>6, <2>3, ActKeeps DEF Keys!RevokeAdmin, Keys!Ops
  <2> QED
    BY <1>4, <1>6, <2>4
<1> QED
  BY <1>2, <1>3, <1>5, <1>6

\* A use of a key starts an update, and the update lands or is lost.
LEMMA UsesKeep ==
  ASSUME Keys!KeysAssumption, KeysInv, NEW k \in Key, Keys!Use(k) \/ Keys!CountLands(k) \/ Keys!CountFails(k)
  PROVE  KeysInv' /\ Keys!RevocationStands
<1> DEFINE Rec == [by : {Keys!NoOne, Root} \cup Admin, revoked : Nat, count : Nat]
<1>1. /\ keys \in [Key -> Rec] /\ counting \in [Key -> Seq(Nat)]
      /\ served \in [Key -> Nat] /\ lost \in [Key -> Nat] /\ \A j \in Key : Counts(j)
      /\ keys[k].count \in Nat
  BY DEF KeysInv, KeysTypes
<1>2. UNCHANGED <<admins, request, acts, window, after>>
  BY DEF Keys!Use, Keys!CountLands, Keys!CountFails
<1>3. /\ keys' \in [Key -> Rec] /\ counting' \in [Key -> Seq(Nat)]
      /\ served' \in [Key -> Nat] /\ lost' \in [Key -> Nat]
      /\ \A j \in Key : keys'[j].revoked = keys[j].revoked
      /\ \A j \in Key : j # k => /\ keys'[j] = keys[j] /\ counting'[j] = counting[j]
                                 /\ served'[j] = served[j] /\ lost'[j] = lost[j]
      /\ keys'[k].count + Len(counting'[k]) + lost'[k] = served'[k]
  <2>1. CASE Keys!Use(k)
    <3>1. /\ keys' = keys /\ lost' = lost /\ served' = [served EXCEPT ![k] = @ + 1]
          /\ counting' = [counting EXCEPT ![k] = Append(@, keys[k].count)]
      BY <2>1 DEF Keys!Use
    <3>2. Append(counting[k], keys[k].count) \in Seq(Nat) /\ Len(Append(counting[k], keys[k].count)) = Len(counting[k]) + 1
      BY <1>1
    <3>3. counting'[k] = Append(counting[k], keys[k].count) /\ counting' \in [Key -> Seq(Nat)]
      BY <1>1, <3>1, <3>2
    <3>4. keys[k].count + Len(counting[k]) + lost[k] = served[k] /\ Len(counting[k]) \in Nat
      BY <1>1 DEF Counts
    <3>5. keys'[k].count + Len(counting'[k]) + lost'[k] = served'[k]
      <4>1. /\ keys'[k].count = keys[k].count /\ Len(counting'[k]) = Len(counting[k]) + 1
            /\ lost'[k] = lost[k] /\ served'[k] = served[k] + 1
        BY <1>1, <3>1, <3>2, <3>3
      <4>2. keys[k].count \in Nat /\ lost[k] \in Nat /\ served[k] \in Nat
        BY <1>1
      <4> QED
        BY ONLY <3>4, <4>1, <4>2
    <3> QED
      BY <1>1, <3>1, <3>3, <3>5
  <2>2. CASE Keys!CountLands(k) \/ Keys!CountFails(k)
    <3>1. counting[k] # <<>> /\ counting' = [counting EXCEPT ![k] = Tail(@)] /\ served' = served
      BY <2>2 DEF Keys!CountLands, Keys!CountFails
    <3>2. counting[k] \in Seq(Nat)
      BY <1>1
    <3>3. Tail(counting[k]) \in Seq(Nat) /\ Len(Tail(counting[k])) = Len(counting[k]) - 1
      BY <3>1, <3>2
    <3>4. counting'[k] = Tail(counting[k]) /\ counting' \in [Key -> Seq(Nat)]
      BY <1>1, <3>1, <3>3
    <3>5. keys[k].count + Len(counting[k]) + lost[k] = served[k] /\ Len(counting[k]) \in Nat
      BY <1>1 DEF Counts
    <3>6. CASE Keys!CountLands(k)
      <4>1. keys' = [keys EXCEPT ![k].count = keys[k].count + 1] /\ lost' = lost
        BY <3>6 DEF Keys!CountLands, Keys!Counted
      <4>2. [keys[k] EXCEPT !.count = keys[k].count + 1] \in Rec
        <5>1. keys[k] \in Rec /\ keys[k].count + 1 \in Nat
          BY <1>1
        <5> QED
          BY <5>1
      <4>3. keys' \in [Key -> Rec] /\ keys'[k].count = keys[k].count + 1 /\ keys'[k].revoked = keys[k].revoked
        BY <1>1, <4>1, <4>2
      <4> QED
        BY <1>1, <3>1, <3>3, <3>4, <3>5, <4>1, <4>3
    <3>7. CASE Keys!CountFails(k)
      <4>1. keys' = keys /\ lost' = [lost EXCEPT ![k] = @ + 1]
        BY <3>7 DEF Keys!CountFails
      <4> QED
        BY <1>1, <3>1, <3>3, <3>4, <3>5, <4>1
    <3> QED
      BY <2>2, <3>6, <3>7
  <2> QED
    BY <2>1, <2>2
<1> HIDE DEF Rec
<1>4. KeysTypes'
  BY <1>2, <1>3 DEF KeysInv, KeysTypes, Rec
<1>5. \A j \in Key : Counts(j)'
  BY <1>1, <1>3 DEF Counts
<1>6. LetIn' /\ \A x \in Admin : Bounded(x)'
  BY <1>2 DEF KeysInv, LetIn, Bounded, Keys!InFlight
<1>7. Keys!RevocationStands
  BY <1>2, <1>3 DEF Keys!RevocationStands, Keys!KeepsRevocations, Keys!AdminsByRoot
<1> QED
  BY <1>4, <1>5, <1>6, <1>7 DEF KeysInv

\* Every request and every count keeps the bound on revoked admins, and no step
\* takes a revocation back.
LEMMA KeysNext ==
  ASSUME Keys!KeysAssumption, KeysInv, [Keys!Next]_(Keys!vars)
  PROVE  KeysInv' /\ [Keys!RevocationStands]_(Keys!vars)
<1>1. CASE UNCHANGED Keys!vars
  BY <1>1 DEF Keys!vars, KeysInv, KeysTypes, LetIn, Bounded, Keys!InFlight, Counts
<1>2. ASSUME NEW r \in Request, NEW who \in {Root} \cup Admin, NEW op \in Keys!Ops, Keys!Enter(r, who, op)
      PROVE  Keys!RevocationStands
  BY <1>2 DEF Keys!Enter, Keys!RevocationStands, Keys!KeepsRevocations, Keys!AdminsByRoot
<1> QED
  BY <1>1, <1>2, EnterKeeps, HandlersKeep, UsesKeep DEF Keys!Next

\* No key and no admin yet.
LEMMA KeysStart ==
  ASSUME Keys!KeysAssumption, Keys!Init
  PROVE  KeysInv
<1>1. KeysTypes
  BY DEF Keys!Init, KeysTypes, Keys!Absent, Keys!KeysAssumption
<1>2. LetIn
  BY DEF Keys!Init, LetIn, Keys!Idle
<1>3. \A x \in Admin : Bounded(x)
  BY DEF Keys!Init, Bounded
<1>4. \A k \in Key : Counts(k)
  BY DEF Keys!Init, Counts, Keys!Absent
<1> QED
  BY <1>1, <1>2, <1>3, <1>4 DEF KeysInv

\* A revoked admin finishes at most the requests that were past adminAuth when it
\* was revoked, and every use of an API key is counted, is being counted or lost
\* its count, whatever requests overlap (resolveAdmin, revokeAdmin and
\* requireApiKey of keys.js).
THEOREM RevocationAlwaysBinds ==
  ASSUME Keys!KeysAssumption
  PROVE  Keys!Spec => []Keys!RevocationBinds
<1>1. Keys!Init => KeysInv
  BY KeysStart
<1>2. KeysInv /\ [Keys!Next]_(Keys!vars) => KeysInv'
  BY KeysNext
<1>3. KeysInv => Keys!RevocationBinds
  BY DEF KeysInv, Bounded, Counts, Keys!RevocationBinds, Keys!BoundedByInFlight, Keys!EveryUseCounted
<1> QED
  BY <1>1, <1>2, <1>3, PTL DEF Keys!Spec

\* No step undoes the revocation of a key or moves its time, and only root's
\* requests make and unmake admins (rootOnly and revokeApiKey of keys.js).
THEOREM RevocationAlwaysStands ==
  ASSUME Keys!KeysAssumption
  PROVE  Keys!Spec => [][Keys!RevocationStands]_(Keys!vars)
<1>1. Keys!Init => KeysInv
  BY KeysStart
<1>2. KeysInv /\ [Keys!Next]_(Keys!vars) => KeysInv' /\ [Keys!RevocationStands]_(Keys!vars)
  BY KeysNext
<1> QED
  BY <1>1, <1>2, PTL DEF Keys!Spec

---------------------------------------------------------------------------
(* TxLookup: one transaction page, for any chains, reorganizations and     *)
(* moments of pruning.                                                     *)

CONSTANTS Chains, TxIn, Synced0, TxIndex, MaxFaults, MaxAsks
VARIABLES txNode, synced, pruned, lookup, txAnswer, lookups, txFaults
Tx == INSTANCE TxLookup WITH
  node <- txNode, request <- lookup, answer <- txAnswer, asks <- lookups, faults <- txFaults

\* The height an answer may show with a block.
Shows(hash, height) == height \in (IF hash = 0 THEN {0} ELSE {0, Tx!Height(hash)})

Fields == {"at", "created", "scope", "found", "hash", "height", "late", "moved"}

\* What a request has learnt belongs together, as long as the index stands still.
Learnt ==
  lookup.moved = FALSE =>
    /\ lookup.at \in {"up", "where", "fetch"} => lookup.created = Tx!Created
    /\ lookup.at = "fetch" /\ lookup.created # 0 => lookup.scope = Tx!Home(synced)
    /\ lookup.at = "end" /\ lookup.found => Shows(lookup.hash, lookup.height)

LookupInv ==
  /\ DOMAIN lookup = Fields /\ lookup = [f \in Fields |-> lookup[f]]
  /\ lookup.moved \in BOOLEAN /\ lookup.found \in BOOLEAN
  /\ lookup.at \in {"idle", "block", "up", "where", "fetch"} => lookup.found = FALSE
  /\ lookup.at = "height" => lookup.hash # 0
  /\ Learnt
  /\ Tx!HeightIsHashs

\* The fields of a request that has not started.
LEMMA IdleLookup ==
  /\ DOMAIN Tx!Idle = Fields /\ Tx!Idle = [f \in Fields |-> Tx!Idle[f]]
  /\ Tx!Idle.at = "idle" /\ Tx!Idle.moved = FALSE /\ Tx!Idle.found = FALSE
BY DEF Tx!Idle, Fields

\* Outputs that are tracked were created in the block of the synced chain.
LEMMA CreatedAtHome ==
  ASSUME Tx!Created # 0
  PROVE  Tx!Home(synced) # 0 /\ Tx!Created = Tx!Height(Tx!Home(synced))
BY DEF Tx!Created

\* A request that starts has read what is tracked.
LEMMA AsksKeep ==
  ASSUME LookupInv, NEW place \in {"up", "block"},
         lookup' = [Tx!Idle EXCEPT !.at = place, !.created = Tx!Created],
         UNCHANGED <<synced, pruned>>, Tx!HeightIsHashs'
  PROVE  LookupInv'
<1>1. /\ DOMAIN lookup' = Fields /\ lookup' = [f \in Fields |-> lookup'[f]]
      /\ lookup'.at = place /\ lookup'.created = Tx!Created /\ lookup'.moved = FALSE /\ lookup'.found = FALSE
  BY IdleLookup DEF Fields
<1>2. Tx!Created' = Tx!Created
  BY DEF Tx!Created, Tx!Home
<1>3. Learnt'
  BY <1>1, <1>2 DEF Learnt
<1>4. lookup'.moved \in BOOLEAN /\ lookup'.found \in BOOLEAN
  BY <1>1, Zenon
<1>5. lookup'.at # "height"
  BY <1>1
<1> QED
  BY <1>1, <1>3, <1>4, <1>5, Zenon DEF LookupInv

\* The index moves: nothing is promised for the request under way.
LEMMA MovesKeep ==
  ASSUME LookupInv, Tx!Sync \/ Tx!Prune
  PROVE  LookupInv'
<1>1. lookup' = [lookup EXCEPT !.moved = TRUE] /\ txAnswer' = txAnswer
  BY DEF Tx!Sync, Tx!Prune
<1>2. /\ DOMAIN lookup' = Fields /\ lookup' = [f \in Fields |-> lookup'[f]] /\ lookup'.moved = TRUE
      /\ lookup'.at = lookup.at /\ lookup'.found = lookup.found /\ lookup'.hash = lookup.hash
  BY <1>1 DEF LookupInv, Fields
<1>3. Learnt' /\ Tx!HeightIsHashs'
  BY <1>1, <1>2 DEF Learnt, LookupInv, Tx!HeightIsHashs
<1>4. lookup'.moved \in BOOLEAN /\ lookup'.found \in BOOLEAN
  BY <1>2, Zenon DEF LookupInv
<1> QED
  BY <1>2, <1>3, <1>4 DEF LookupInv

\* An answer is a full one only when the transaction was found.
LEMMA AnswerKeeps ==
  ASSUME LookupInv, NEW kind \in {"block", "pending", "indexed", "not found", "full"}, Tx!Answer(kind),
         kind = "full" => lookup.at = "end" /\ lookup.found
  PROVE  Tx!HeightIsHashs'
<1>1. CASE kind = "full"
  <2>1. /\ txAnswer'.hash = lookup.hash /\ txAnswer'.height = lookup.height
        /\ txAnswer'.moved = lookup.moved /\ txAnswer'.kind = "full"
    BY <1>1 DEF Tx!Answer
  <2>2. lookup.moved = FALSE => Shows(lookup.hash, lookup.height)
    BY <1>1 DEF LookupInv, Learnt
  <2>3. lookup.moved \in BOOLEAN
    BY DEF LookupInv
  <2> QED
    BY <2>1, <2>2, <2>3 DEF Tx!HeightIsHashs, Shows
<1>2. CASE kind # "full"
  BY <1>2 DEF Tx!Answer, Tx!HeightIsHashs
<1> QED
  BY <1>1, <1>2

\* The steps of a request while the index stands still.
LEMMA RequestKeeps ==
  ASSUME LookupInv, UNCHANGED <<synced, pruned>>, NEW ok \in BOOLEAN,
         Tx!Up(ok) \/ Tx!Where \/ Tx!Fetch(ok) \/ Tx!HeightOf(ok)
  PROVE  LookupInv'
<1>1. Tx!HeightIsHashs'
  BY DEF Tx!Up, Tx!Where, Tx!Fetch, Tx!HeightOf, LookupInv, Tx!HeightIsHashs
<1>2. Tx!Created' = Tx!Created /\ Tx!Home(synced)' = Tx!Home(synced)
  BY DEF Tx!Created, Tx!Home
<1>3. DOMAIN lookup = Fields /\ lookup = [f \in Fields |-> lookup[f]] /\ lookup.moved \in BOOLEAN
  BY DEF LookupInv
<1>4. CASE Tx!Up(ok)
  <2>1. PICK place \in {"where", "end"} : lookup' = [lookup EXCEPT !.at = place]
    BY <1>4 DEF Tx!Up
  <2>2. /\ DOMAIN lookup' = Fields /\ lookup' = [f \in Fields |-> lookup'[f]]
        /\ lookup'.at = place /\ lookup'.created = lookup.created /\ lookup'.moved = lookup.moved
        /\ lookup'.found = lookup.found
    BY <1>3, <2>1 DEF Fields
  <2>3. lookup.found = FALSE /\ lookup.at = "up"
    BY <1>4 DEF LookupInv, Tx!Up
  <2>4. Learnt'
    BY <1>2, <2>2, <2>3 DEF Learnt, LookupInv
  <2> QED
    BY <1>1, <1>3, <2>2, <2>3, <2>4 DEF LookupInv
<1>5. CASE Tx!Where
  <2>1. lookup' = [lookup EXCEPT !.at = "fetch", !.scope = Tx!Scope] /\ lookup.at = "where"
    BY <1>5 DEF Tx!Where
  <2>2. /\ DOMAIN lookup' = Fields /\ lookup' = [f \in Fields |-> lookup'[f]]
        /\ lookup'.at = "fetch" /\ lookup'.created = lookup.created /\ lookup'.moved = lookup.moved
        /\ lookup'.found = lookup.found /\ lookup'.scope = Tx!Scope
    BY <1>3, <2>1 DEF Fields
  <2>3. lookup.found = FALSE
    BY <2>1 DEF LookupInv
  <2>4. Learnt'
    BY <1>2, <2>1, <2>2, <2>3 DEF Learnt, LookupInv, Tx!Scope
  <2> QED
    BY <1>1, <1>3, <2>2, <2>3, <2>4 DEF LookupInv
<1>6. CASE Tx!Fetch(ok)
  <2>1. lookup.at = "fetch" /\ lookup.found = FALSE
    BY <1>6 DEF Tx!Fetch, LookupInv
  <2>2. CASE lookup' = [lookup EXCEPT !.at = "end"]
    <3>1. /\ DOMAIN lookup' = Fields /\ lookup' = [f \in Fields |-> lookup'[f]]
          /\ lookup'.at = "end" /\ lookup'.moved = lookup.moved /\ lookup'.found = FALSE
      BY <1>3, <2>1, <2>2 DEF Fields
    <3> QED
      BY <1>1, <1>3, <3>1 DEF LookupInv, Learnt
  <2>3. CASE lookup' # [lookup EXCEPT !.at = "end"]
    <3>1. PICK hash, place :
            /\ lookup' = [lookup EXCEPT !.found = TRUE, !.hash = hash, !.height = lookup.created, !.at = place]
            /\ lookup.scope # 0 => hash = lookup.scope
            /\ place = IF lookup.created = 0 /\ hash # 0 THEN "height" ELSE "end"
      BY <1>6, <2>3 DEF Tx!Fetch
    <3>2. /\ DOMAIN lookup' = Fields /\ lookup' = [f \in Fields |-> lookup'[f]]
          /\ lookup'.at = place /\ lookup'.moved = lookup.moved /\ lookup'.found = TRUE
          /\ lookup'.hash = hash /\ lookup'.height = lookup.created
      BY <1>3, <3>1 DEF Fields
    <3>3. ASSUME lookup.moved = FALSE, place = "end" PROVE Shows(hash, lookup.created)
      <4>1. CASE lookup.created = 0
        BY <3>1, <3>3, <4>1 DEF Shows
      <4>2. CASE lookup.created # 0
        <5>1. lookup.created = Tx!Created /\ lookup.scope = Tx!Home(synced)
          BY <2>1, <3>3, <4>2 DEF LookupInv, Learnt
        <5>2. Tx!Home(synced) # 0 /\ lookup.created = Tx!Height(Tx!Home(synced))
          BY <4>2, <5>1, CreatedAtHome
        <5> QED
          BY <3>1, <5>1, <5>2 DEF Shows
      <4> QED
        BY <4>1, <4>2
    <3>4. Learnt'
      <4>1. place \in {"height", "end"}
        BY <3>1
      <4>2. lookup'.at \notin {"up", "where", "fetch"}
        BY <3>2, <4>1
      <4>3. lookup'.moved = FALSE /\ lookup'.at = "end" => Shows(lookup'.hash, lookup'.height)
        BY <3>2, <3>3
      <4> QED
        BY <4>2, <4>3, Zenon DEF Learnt, Shows
    <3>5. lookup'.moved \in BOOLEAN /\ lookup'.found \in BOOLEAN
      BY <1>3, <3>2, Zenon
    <3>6. /\ lookup'.at \notin {"idle", "block", "up", "where", "fetch"}
          /\ lookup'.at = "height" => lookup'.hash # 0
      BY <3>1, <3>2
    <3> QED
      BY <1>1, <3>2, <3>4, <3>5, <3>6, Zenon DEF LookupInv
  <2> QED
    BY <2>2, <2>3
<1>7. CASE Tx!HeightOf(ok)
  <2>1. lookup' = [lookup EXCEPT !.at = "end", !.height = IF ok THEN Tx!Height(lookup.hash) ELSE 0]
        /\ lookup.at = "height"
    BY <1>7 DEF Tx!HeightOf
  <2>2. /\ DOMAIN lookup' = Fields /\ lookup' = [f \in Fields |-> lookup'[f]]
        /\ lookup'.at = "end" /\ lookup'.moved = lookup.moved /\ lookup'.found = lookup.found
        /\ lookup'.hash = lookup.hash /\ lookup'.height \in {0, Tx!Height(lookup.hash)}
    BY <1>3, <2>1 DEF Fields
  <2>3. lookup.hash # 0
    BY <2>1 DEF LookupInv
  <2>4. Learnt'
    BY <2>2, <2>3 DEF Learnt, Shows
  <2> QED
    BY <1>1, <1>3, <2>2, <2>4 DEF LookupInv
<1> QED
  BY <1>4, <1>5, <1>6, <1>7

\* Every step of the node, of the worker and of a lookup keeps its height right.
LEMMA LookupNext ==
  ASSUME LookupInv, [Tx!Next]_(Tx!vars)
  PROVE  LookupInv'
<1>1. CASE UNCHANGED Tx!vars \/ Tx!NodeMoves
  <2>1. UNCHANGED <<synced, pruned, lookup, txAnswer>>
    BY <1>1 DEF Tx!vars, Tx!NodeMoves
  <2>2. Learnt' /\ Tx!HeightIsHashs'
    BY <2>1 DEF LookupInv, Learnt, Shows, Tx!HeightIsHashs, Tx!Created, Tx!Home
  <2> QED
    BY <2>1, <2>2 DEF LookupInv
<1>2. CASE Tx!Ask \/ Tx!Search
  <2>1. Tx!HeightIsHashs'
    BY <1>2 DEF Tx!Ask, Tx!Search, Tx!NoAnswer, Tx!HeightIsHashs
  <2> QED
    <3>1. PICK place \in {"up", "block"} : lookup' = [Tx!Idle EXCEPT !.at = place, !.created = Tx!Created]
      BY <1>2 DEF Tx!Ask, Tx!Search
    <3>2. UNCHANGED <<synced, pruned>>
      BY <1>2 DEF Tx!Ask, Tx!Search, Tx!Env
    <3> QED
      BY <2>1, <3>1, <3>2, AsksKeep
<1>3. ASSUME NEW ok \in BOOLEAN, Tx!SearchBlock(ok) PROVE LookupInv'
  <2>1. CASE ok
    <3>1. lookup' = [Tx!Idle EXCEPT !.at = "up", !.created = Tx!Created] /\ txAnswer' = txAnswer
      BY <1>3, <2>1 DEF Tx!SearchBlock
    <3>2. Tx!HeightIsHashs'
      BY <3>1 DEF LookupInv, Tx!HeightIsHashs
    <3> QED
      BY <1>3, <3>1, <3>2, AsksKeep DEF Tx!SearchBlock, Tx!Env
  <2>2. CASE ~ok
    <3>1. lookup' = Tx!Idle /\ Tx!Answer("block")
      BY <1>3, <2>2 DEF Tx!SearchBlock
    <3> QED
      BY <3>1, AnswerKeeps, IdleLookup DEF LookupInv, Learnt
  <2> QED
    BY <2>1, <2>2
<1>4. CASE Tx!Deadline
  <2>1. lookup' = [lookup EXCEPT !.late = TRUE] /\ Tx!Answer("pending") /\ UNCHANGED <<synced, pruned>>
    BY <1>4 DEF Tx!Deadline, Tx!Env
  <2>2. /\ DOMAIN lookup' = Fields /\ lookup' = [f \in Fields |-> lookup'[f]]
        /\ \A f \in Fields : f # "late" => lookup'[f] = lookup[f]
    BY <2>1 DEF LookupInv, Fields
  <2>3. /\ lookup'.at = lookup.at /\ lookup'.created = lookup.created /\ lookup'.scope = lookup.scope
        /\ lookup'.found = lookup.found /\ lookup'.hash = lookup.hash /\ lookup'.height = lookup.height
        /\ lookup'.moved = lookup.moved
    BY <2>2 DEF Fields
  <2>4. Tx!HeightIsHashs'
    BY <2>1, AnswerKeeps
  <2>5. Learnt'
    BY <2>1, <2>3 DEF LookupInv, Learnt, Shows, Tx!Created, Tx!Home
  <2> QED
    BY <2>2, <2>3, <2>4, <2>5 DEF LookupInv
<1>5. CASE Tx!End
  <2>1. lookup' = Tx!Idle /\ lookup.at = "end"
    BY <1>5 DEF Tx!End
  <2>2. Tx!HeightIsHashs'
    <3>1. CASE lookup.late
      BY <1>5, <3>1 DEF Tx!End, LookupInv, Tx!HeightIsHashs
    <3>2. CASE ~lookup.late
      <4>1. PICK kind \in {"full", "indexed", "not found"} :
              Tx!Answer(kind) /\ (kind = "full" => lookup.found)
        BY <1>5, <3>2 DEF Tx!End
      <4> QED
        BY <2>1, <4>1, AnswerKeeps
    <3> QED
      BY <3>1, <3>2
  <2> QED
    BY <2>1, <2>2, IdleLookup DEF LookupInv, Learnt
<1>6. ASSUME NEW ok \in BOOLEAN, Tx!Up(ok) \/ Tx!Where \/ Tx!Fetch(ok) \/ Tx!HeightOf(ok) PROVE LookupInv'
  <2>1. UNCHANGED <<synced, pruned>>
    BY <1>6 DEF Tx!Up, Tx!Where, Tx!Fetch, Tx!HeightOf, Tx!Env
  <2> QED
    BY <1>6, <2>1, RequestKeeps
<1> QED
  BY <1>1, <1>2, <1>3, <1>4, <1>5, <1>6, MovesKeep DEF Tx!Next

\* When the index stood still during a request, the height of its answer is that
\* of its block, whatever the node did meanwhile (getTx and blockHashForTx of
\* explorer.js).
THEOREM HeightAlwaysHashs == Tx!Spec => []Tx!HeightIsHashs
<1>1. Tx!Init => LookupInv
  <2> SUFFICES ASSUME Tx!Init PROVE LookupInv
    OBVIOUS
  <2>1. lookup = Tx!Idle /\ txAnswer.kind = "none"
    BY DEF Tx!Init, Tx!NoAnswer
  <2>2. Learnt /\ Tx!HeightIsHashs /\ lookup.at # "height"
    BY <2>1, IdleLookup DEF Learnt, Tx!HeightIsHashs
  <2>3. lookup.moved \in BOOLEAN /\ lookup.found \in BOOLEAN
    BY <2>1, IdleLookup, Zenon
  <2> QED
    BY <2>1, <2>2, <2>3, IdleLookup, Zenon DEF LookupInv
<1>2. LookupInv /\ [Tx!Next]_(Tx!vars) => LookupInv'
  BY LookupNext
<1>3. LookupInv => Tx!HeightIsHashs
  BY DEF LookupInv
<1> QED
  BY <1>1, <1>2, <1>3, PTL DEF Tx!Spec

---------------------------------------------------------------------------
(* AddressView: an address page and the pages' limiter, for any outputs,   *)
(* list length and chain, and what the explorer's answers promise.         *)

CONSTANTS Coin, ListMax, Price, MaxTip
VARIABLES tip, spent, read, tips
Addresses == INSTANCE AddressView WITH MaxHeight <- MaxTip, seen <- tips

Queries == {"balance", "list", "price"}
OfTip(h) == h \in Nat /\ h <= tip

\* The newest coins of a set.
Newest(list, S) == list \subseteq S /\ \A c \in list, d \in S \ list : c > d

\* The worker never goes back here, so that what was unspent at a tip is settled.
Settled == tip \in Nat /\ spent \in [Coin -> Nat] /\ \A c \in Coin : spent[c] <= tip

\* What a statement returned belongs to the tip it saw.
PartsOfTips ==
  /\ tips["balance"] # Addresses!Null =>
       LET S == Addresses!UnspentAt(tips["balance"]) IN
       read.sat = Addresses!Total(S) /\ read.n = Addresses!Cardinality(S) /\ read.basis = Addresses!BasisOf(S)
  /\ tips["list"] # Addresses!Null => Newest(read.list, Addresses!UnspentAt(tips["list"]))

AddressInv ==
  /\ Settled
  /\ DOMAIN read = {"sat", "n", "basis", "list", "price"}
  /\ tips \in [Queries -> Int] /\ \A q \in Queries : tips[q] # Addresses!Null => OfTip(tips[q])
  /\ PartsOfTips

\* What is unspent now is what was unspent at this tip.
LEMMA UnspentNow ==
  ASSUME Settled
  PROVE  Addresses!UnspentAt(tip) = Addresses!Unspent
BY DEF Settled, Addresses!UnspentAt, Addresses!Unspent

\* The list has the newest coins: a coin below another has all above it that the
\* other has, and the other.
LEMMA ListedIsNewest ==
  ASSUME Addresses!ViewAssumption, Settled
  PROVE  Newest(Addresses!Listed, Addresses!Unspent)
<1> DEFINE U == Addresses!Unspent
           Above(c) == {d \in U : d > c}
<1>1. U \subseteq 1..tip /\ U \subseteq Nat /\ ListMax \in Nat
  <2>1. Coin \subseteq Nat \ {0} /\ ListMax \in Nat /\ tip \in Nat
    BY DEF Settled, Addresses!ViewAssumption
  <2>2. \A c \in U : c \in Coin /\ c <= tip
    BY DEF Addresses!Unspent
  <2>3. ASSUME NEW c \in U PROVE c \in 1..tip /\ c \in Nat
    <3>1. c \in Coin /\ c <= tip
      BY <2>2
    <3>2. c \in Nat \ {0}
      BY <2>1, <3>1
    <3> QED
      BY <2>1, <3>1, <3>2
  <2> HIDE DEF U
  <2> QED
    BY <2>1, <2>3
<1>2. IsFiniteSet(1..tip)
  BY <1>1, FS_Interval DEF Settled
<1>3. \A S \in SUBSET U : IsFiniteSet(S) /\ Cardinality(S) \in Nat
  BY <1>1, <1>2, FS_Subset, FS_CardinalityType
<1>4. \A c \in U : c \in Addresses!Listed <=> Cardinality(Above(c)) < ListMax
  <2>1. \A S : Addresses!Cardinality(S) = Cardinality(S)
    BY DEF Addresses!Cardinality, Cardinality
  <2> QED
    BY <2>1 DEF Addresses!Listed
<1> SUFFICES ASSUME NEW c \in Addresses!Listed, NEW d \in U \ Addresses!Listed
             PROVE  c > d
  BY DEF Newest, Addresses!Listed
<1>5. c \in U /\ d \in U /\ tip \in Nat
  BY DEF Addresses!Listed, Settled
<1> HIDE DEF U
<1>6. Cardinality(Above(c)) < ListMax /\ ~(Cardinality(Above(d)) < ListMax)
  BY <1>4, <1>5
<1>7. Above(c) \in SUBSET U /\ Above(d) \in SUBSET U
  OBVIOUS
<1>8. CASE c <= d
  <2>1. Above(d) \in SUBSET Above(c)
    <3>1. \A e \in U : e \in Nat
      BY <1>1
    <3>2. c \in Nat /\ d \in Nat
      BY <1>5, <3>1
    <3>3. \A e \in U : e > d => e > c
      BY <1>8, <3>1, <3>2
    <3> QED
      BY <3>3
  <2>2. Cardinality(Above(d)) <= Cardinality(Above(c))
    BY <1>3, <1>7, <2>1, FS_Subset
  <2>3. Cardinality(Above(d)) \in Nat /\ Cardinality(Above(c)) \in Nat
    BY <1>3, <1>7
  <2> HIDE DEF Above
  <2> QED
    BY <1>1, <1>6, <2>2, <2>3
<1> QED
  BY <1>1, <1>5, <1>8

\* A block leaves what was unspent at past tips as it was.
LEMMA BlockSettles ==
  ASSUME AddressInv, NEW S \in SUBSET Addresses!Unspent, Addresses!Block(S)
  PROVE  AddressInv'
<1>1. /\ tip' = tip + 1 /\ read' = read /\ tips' = tips
      /\ spent' = [c \in Coin |-> IF c \in S THEN tip + 1 ELSE spent[c]]
      /\ \A c \in S : c \in Coin /\ spent[c] = 0
  BY DEF Addresses!Block, Addresses!Unspent
<1>2. Settled'
  BY <1>1 DEF AddressInv, Settled
<1>3. ASSUME NEW q \in Queries, tips[q] # Addresses!Null
      PROVE  Addresses!UnspentAt(tips[q])' = Addresses!UnspentAt(tips[q]) /\ OfTip(tips[q])'
  <2>1. PICK h \in Nat : h = tips[q] /\ h <= tip /\ tips'[q] = h
    BY <1>1, <1>3 DEF AddressInv, OfTip
  <2>2. \A c \in Coin : spent'[c] = 0 \/ spent'[c] > h <=> spent[c] = 0 \/ spent[c] > h
    BY <1>1, <2>1 DEF AddressInv, Settled
  <2>3. Addresses!UnspentAt(tips[q])' = Addresses!UnspentAt(tips[q])
    BY <2>1, <2>2 DEF Addresses!UnspentAt
  <2> QED
    BY <1>1, <2>1, <2>3 DEF AddressInv, Settled, OfTip
<1>4. PartsOfTips'
  <2>1. CASE tips["balance"] # Addresses!Null
    <3>1. Addresses!UnspentAt(tips["balance"])' = Addresses!UnspentAt(tips["balance"])
      BY <1>3, <2>1 DEF Queries
    <3> QED
      BY <1>1, <1>3, <2>1, <3>1 DEF AddressInv, PartsOfTips, Queries
  <2>2. CASE tips["balance"] = Addresses!Null
    BY <1>1, <1>3, <2>2 DEF AddressInv, PartsOfTips, Queries
  <2> QED
    BY <2>1, <2>2
<1> QED
  BY <1>1, <1>2, <1>3, <1>4 DEF AddressInv

\* A statement returns what is there at the tip it sees.
LEMMA StatementsRead ==
  ASSUME Addresses!ViewAssumption, AddressInv,
         Addresses!ReadBalance \/ Addresses!ReadList \/ Addresses!ReadPrice
  PROVE  AddressInv'
<1>1. PICK q \in Queries : tips' = [tips EXCEPT ![q] = tip] /\ tips[q] = Addresses!Null
  BY DEF Addresses!ReadBalance, Addresses!ReadList, Addresses!ReadPrice, Addresses!See, Queries
<1>2. Settled' /\ tip' = tip /\ spent' = spent
  BY DEF Addresses!ReadBalance, Addresses!ReadList, Addresses!ReadPrice, AddressInv, Settled
<1>3. tip \in Nat /\ tips \in [Queries -> Int] /\ DOMAIN read = {"sat", "n", "basis", "list", "price"}
  BY DEF AddressInv, Settled
<1>4. /\ tips' \in [Queries -> Int] /\ tips'[q] = tip
      /\ \A p \in Queries : p # q => tips'[p] = tips[p]
      /\ \A p \in Queries : tips'[p] # Addresses!Null => OfTip(tips[p])'
  BY <1>1, <1>2, <1>3 DEF AddressInv, OfTip
<1>5. Addresses!UnspentAt(tip) = Addresses!Unspent
  BY UnspentNow DEF AddressInv
<1>6. Addresses!UnspentAt(tips["balance"])' =
        (IF q = "balance" THEN Addresses!Unspent ELSE Addresses!UnspentAt(tips["balance"]))
  BY <1>2, <1>4, <1>5 DEF Addresses!UnspentAt, Queries
<1>7. Addresses!UnspentAt(tips["list"])' =
        (IF q = "list" THEN Addresses!Unspent ELSE Addresses!UnspentAt(tips["list"]))
  BY <1>2, <1>4, <1>5 DEF Addresses!UnspentAt, Queries
<1>8. PartsOfTips' /\ DOMAIN read' = {"sat", "n", "basis", "list", "price"}
  <2>1. CASE Addresses!ReadBalance
    <3>1. /\ read' = [read EXCEPT !.sat = Addresses!Total(Addresses!Unspent),
                                  !.n = Addresses!Cardinality(Addresses!Unspent),
                                  !.basis = Addresses!BasisOf(Addresses!Unspent)]
          /\ tips["balance"] = Addresses!Null /\ tips' = [tips EXCEPT !["balance"] = tip]
      BY <2>1 DEF Addresses!ReadBalance, Addresses!See, Addresses!Counted
    <3>2. q = "balance"
      BY <1>1, <1>3, <3>1 DEF Queries, Addresses!Null
    <3>3. /\ read'.sat = Addresses!Total(Addresses!Unspent) /\ read'.n = Addresses!Cardinality(Addresses!Unspent)
          /\ read'.basis = Addresses!BasisOf(Addresses!Unspent)
          /\ read'.list = read.list /\ DOMAIN read' = {"sat", "n", "basis", "list", "price"}
      BY <1>3, <3>1
    <3> QED
      BY <1>4, <1>6, <1>7, <3>2, <3>3 DEF AddressInv, PartsOfTips, Queries
  <2>2. CASE Addresses!ReadList
    <3>1. /\ read' = [read EXCEPT !.list = Addresses!Listed]
          /\ tips["list"] = Addresses!Null /\ tips' = [tips EXCEPT !["list"] = tip]
      BY <2>2 DEF Addresses!ReadList, Addresses!See
    <3>2. q = "list"
      BY <1>1, <1>3, <3>1 DEF Queries, Addresses!Null
    <3>3. /\ read'.sat = read.sat /\ read'.n = read.n /\ read'.basis = read.basis
          /\ read'.list = Addresses!Listed /\ DOMAIN read' = {"sat", "n", "basis", "list", "price"}
      BY <1>3, <3>1
    <3>4. Newest(Addresses!Listed, Addresses!Unspent)
      BY ListedIsNewest DEF AddressInv
    <3> QED
      BY <1>4, <1>6, <1>7, <3>2, <3>3, <3>4 DEF AddressInv, PartsOfTips, Queries, Newest
  <2>3. CASE Addresses!ReadPrice
    <3>1. /\ read' = [read EXCEPT !.price = Price[tip]]
          /\ tips["price"] = Addresses!Null /\ tips' = [tips EXCEPT !["price"] = tip]
      BY <2>3 DEF Addresses!ReadPrice, Addresses!See
    <3>2. q = "price"
      BY <1>1, <1>3, <3>1 DEF Queries, Addresses!Null
    <3>3. /\ read'.sat = read.sat /\ read'.n = read.n /\ read'.basis = read.basis
          /\ read'.list = read.list /\ DOMAIN read' = {"sat", "n", "basis", "list", "price"}
      BY <1>3, <3>1
    <3> QED
      BY <1>4, <1>6, <1>7, <3>2, <3>3 DEF AddressInv, PartsOfTips, Queries, Newest
  <2> QED
    BY <2>1, <2>2, <2>3
<1> QED
  BY <1>2, <1>4, <1>8 DEF AddressInv

\* Every commit and every statement keeps the parts of a page those of a tip.
LEMMA AddressNext ==
  ASSUME Addresses!ViewAssumption, AddressInv, [Addresses!Next]_(Addresses!vars)
  PROVE  AddressInv'
<1>1. CASE UNCHANGED Addresses!vars
  <2>1. UNCHANGED <<tip, spent, read, tips>>
    BY <1>1 DEF Addresses!vars
  <2>2. PartsOfTips'
    BY <2>1 DEF AddressInv, PartsOfTips, Addresses!UnspentAt, Newest
  <2> QED
    BY <2>1, <2>2 DEF AddressInv, Settled, OfTip
<1>2. CASE Addresses!Reply
  <2>1. /\ DOMAIN read' = {"sat", "n", "basis", "list", "price"}
        /\ tips' = [q \in Queries |-> Addresses!Null] /\ tip' = tip /\ spent' = spent
    BY <1>2 DEF Addresses!Reply, Addresses!Unread, Addresses!Nothing, Queries
  <2>2. PartsOfTips'
    BY <2>1 DEF PartsOfTips, Queries
  <2> QED
    BY <2>1, <2>2 DEF AddressInv, Settled, Addresses!Null
<1> QED
  BY <1>1, <1>2, BlockSettles, StatementsRead DEF Addresses!Next

\* Nothing has been read before the first request.
LEMMA AddressInit == ASSUME Addresses!ViewAssumption, Addresses!Init PROVE AddressInv
<1>1. /\ DOMAIN read = {"sat", "n", "basis", "list", "price"} /\ tips = [q \in Queries |-> Addresses!Null]
      /\ tip = 0 /\ spent = [c \in Coin |-> 0]
  BY DEF Addresses!Init, Addresses!Unread, Addresses!Nothing, Queries
<1>2. PartsOfTips
  BY <1>1 DEF PartsOfTips, Queries
<1> QED
  BY <1>1, <1>2 DEF AddressInv, Settled, Addresses!Null

\* The balance of an address page, its count and its basis are those of one tip,
\* and its list is the newest coins of a tip, whatever the worker commits between
\* the three statements (getAddress of explorer.js).
THEOREM PartsAlwaysOfTips ==
  ASSUME Addresses!ViewAssumption
  PROVE  Addresses!Spec => []Addresses!EachPartIsOfATip
<1>1. Addresses!Init => AddressInv
  BY AddressInit
<1>2. AddressInv /\ [Addresses!Next]_(Addresses!vars) => AddressInv'
  BY AddressNext
<1>3. AddressInv => Addresses!EachPartIsOfATip
  <2> SUFFICES ASSUME AddressInv, Addresses!Whole PROVE Addresses!EachPartIsOfATip
    BY DEF Addresses!EachPartIsOfATip
  <2>1. tips["balance"] # Addresses!Null /\ tips["list"] # Addresses!Null
    BY DEF AddressInv, Addresses!Whole, Queries
  <2> QED
    BY <2>1 DEF AddressInv, PartsOfTips, Newest, Addresses!EachPartIsOfATip
<1> QED
  BY <1>1, <1>2, <1>3, PTL DEF Addresses!Spec

---------------------------------------------------------------------------
(* Alerts, for any number of alerts, checks, days and rewinds.             *)

CONSTANTS Alert, Above, Checker, MaxAlerts, MaxDays, Nulls, MaxRewinds, MaxSendFaults
VARIABLES state, counted, mailed, fired, values, check, alarms, reported, takenBack, sendFaults
Alarm == INSTANCE Alerts WITH
  Limit <- MaxAlerts, MaxFaults <- MaxSendFaults, series <- values, inbox <- alarms,
  rewinds <- takenBack, faults <- sendFaults

\* The day a check takes for today, and that day's neighbours.
DayOf(k) == Alarm!Today(k.days).day
IsLatest(d) == d \in Alarm!NonNull /\ \A e \in Alarm!NonNull : e <= d
Precedes(e, d) == e < d /\ \A f \in Alarm!NonNull : f < d => f <= e
PastFails(a, d) == \A e \in Alarm!NonNull : Precedes(e, d) => ~Alarm!Satisfies(a, values[e])

\* Both days have the same value in this state and the next, or neither has one.
SameDay(d) ==
  /\ d \in DOMAIN values <=> d \in DOMAIN values'
  /\ d \in DOMAIN values => values'[d] = values[d]

CheckRecords ==
  [at : {"idle", "rows", "send", "mark"}, listed : SUBSET Alert, todo : SUBSET Alert,
   marks : [Alert -> Int], days : SUBSET [day : Alarm!Day, v : Alarm!Value],
   mailing : SUBSET Alert, clean : BOOLEAN]

AlarmTypes ==
  /\ values \in Seq(Alarm!Value) /\ Len(values) <= MaxDays
  /\ fired \in [Alert -> Int] /\ alarms \in [Alert -> [Alarm!Day -> Nat]]
  /\ check \in [Checker -> CheckRecords]
  /\ reported \subseteq Alert \X Alarm!Day
  /\ takenBack \in Nat /\ sendFaults \in Nat

\* Mail goes to the confirmed only.
Consent ==
  /\ \A a \in counted : state[a] = "absent"
  /\ state \in [Alert -> {"absent", "pending", "active", "gone"}]
  /\ \A a \in Alert : Alarm!Mailed(a) # {} => state[a] \in {"active", "gone"}
  /\ \A c \in Checker : \A a \in check[c].listed : state[a] \in {"active", "gone"}

\* Where the loop of check k is.
Loop(k) ==
  /\ k.mailing \subseteq k.todo /\ k.todo \subseteq k.listed
  /\ k.at = "rows" => k.todo = k.listed
  /\ k.at # "mark" => k.mailing = {}
  /\ k.at \in {"idle", "rows"} => k.days = {}
  /\ k.at = "idle" => k.listed = {}
  /\ k.days # {} => DayOf(k) \in Alarm!Day
  /\ \A a \in k.mailing : Alarm!Crossed(a, k.days)

Loops == \A c \in Checker : Loop(check[c])

\* What check k, in time, has gone through was mailed, and a mark is of a mail.
Reports(k) ==
  /\ \A a \in k.mailing : DayOf(k) \in Alarm!Mailed(a)
  /\ \A a \in k.todo : k.marks[a] # 0 => k.marks[a] \in Alarm!Mailed(a)
  /\ k.at \in {"send", "mark"} /\ k.clean /\ k.days # {} =>
       /\ DayOf(k) \in DOMAIN values
       /\ \A a \in Alert : Alarm!Crossed(a, k.days) <=> Alarm!Crossing(a, DayOf(k))
       /\ \A a \in k.listed \ k.todo : Alarm!Crossed(a, k.days) => DayOf(k) \in Alarm!Mailed(a)

Reporting ==
  /\ Alarm!CrossingsReported /\ \A r \in reported : r[2] \in DOMAIN values
  /\ \A a \in Alert : fired[a] # 0 => fired[a] \in Alarm!Mailed(a)
  /\ \A c \in Checker : Reports(check[c])

\* No day was rewound: what a check takes for a crossing is one and stays one.
Genuine ==
  /\ Alarm!MailMeansCrossing
  /\ \A c \in Checker : \A a \in Alert :
       Alarm!Crossed(a, check[c].days) => Alarm!Crossing(a, DayOf(check[c]))

\* A single checker that never fails: last[a] is the day of the newest mail of a,
\* marked or about to be.  After one rewind that day may be finalized again, but
\* the days before it may not, and its crossing is not reported again.
LastMail(last, a) ==
  /\ last[a] <= Len(values) + takenBack /\ PastFails(a, last[a])
  /\ \A d \in Alarm!Day : alarms[a][d] <= 1 /\ (alarms[a][d] # 0 => d <= last[a])
  /\ (\A c \in Checker : a \notin check[c].mailing) => fired[a] = last[a]

LoopAlone(last, k) ==
  /\ \A a \in k.mailing : last[a] = DayOf(k)
  /\ \A a \in k.todo : k.marks[a] = fired[a]
  /\ \A a \in Alert : Alarm!Crossed(a, k.days) =>
       /\ DayOf(k) <= Len(values) + takenBack /\ PastFails(a, DayOf(k))
       /\ a \in k.todo => last[a] <= DayOf(k)

Once == \E last \in [Alert -> Nat] :
  /\ \A a \in Alert : LastMail(last, a)
  /\ \A c \in Checker : LoopAlone(last, check[c])

AlarmInv ==
  /\ AlarmTypes /\ Loops /\ Consent /\ Reporting
  /\ takenBack = 0 => Genuine
  /\ Alarm!OneChecker /\ sendFaults = 0 /\ takenBack <= 1 => Once

---------------------------------------------------------------------------
(* What the operators of checkAlerts return. *)

\* A bounded set of naturals has a greatest element.
LEMMA GreatestNatural ==
  ASSUME NEW S, S \subseteq Nat, S # {}, NEW n \in Nat, \A x \in S : x <= n
  PROVE  \E x \in S : \A y \in S : y <= x
<1> DEFINE gaps == {n - x : x \in S}
<1>1. gaps \subseteq Nat /\ gaps # {}
  <2>1. \A x \in S : n - x \in Nat
    OBVIOUS
  <2>2. \E x \in S : n - x \in gaps
    OBVIOUS
  <2> QED
    BY <2>1, <2>2
<1>2. PICK g \in gaps : \A h \in gaps : <<h, g>> \notin OpToRel(<, Nat)
  BY <1>1, NatLessThanWellFounded, WFMin
<1>3. PICK x \in S : g = n - x
  OBVIOUS
<1>4. ASSUME NEW y \in S PROVE y <= x
  <2>1. n - y \in gaps
    OBVIOUS
  <2>2. ~(n - y < g)
    BY <1>1, <1>2, <2>1 DEF OpToRel
  <2> QED
    BY <1>3, <2>2
<1> QED
  BY <1>4

\* Fewer than two elements are one element.
LEMMA FewerThanTwo ==
  ASSUME NEW S, IsFiniteSet(S)
  PROVE  Cardinality(S) < 2 <=> \A x, y \in S : x = y
<1>1. CASE S = {}
  BY <1>1, FS_EmptySet
<1>2. ASSUME NEW x \in S PROVE Cardinality(S) < 2 <=> \A y, z \in S : y = z
  <2>1. IsFiniteSet(S \ {x}) /\ Cardinality(S \ {x}) = Cardinality(S) - 1
    BY <1>2, FS_RemoveElement
  <2>2. Cardinality(S) \in Nat /\ Cardinality(S \ {x}) \in Nat
    BY <2>1, FS_CardinalityType
  <2>3. Cardinality(S \ {x}) = 0 <=> S \ {x} = {}
    BY <2>1, FS_EmptySet
  <2>4. Cardinality(S) < 2 <=> S \ {x} = {}
    BY <2>1, <2>2, <2>3
  <2> QED
    BY <1>2, <2>4
<1> QED
  BY <1>1, <1>2

\* The days with a value are days of the series.
LEMMA DaysWithValue ==
  ASSUME AlarmTypes, Alarm!AlertsAssumption
  PROVE  /\ Alarm!NonNull \subseteq 1..Len(values) /\ Len(values) \in Nat
         /\ \A d \in Alarm!NonNull : d \in Alarm!Day /\ values[d] \in Alarm!Value
<1>1. DOMAIN values = 1..Len(values) /\ Len(values) \in Nat /\ Len(values) <= MaxDays
  BY DEF AlarmTypes
<1>2. \A d \in 1..Len(values) : values[d] \in Alarm!Value
  BY <1>1 DEF AlarmTypes
<1>3. Alarm!NonNull \subseteq 1..Len(values)
  BY <1>1 DEF Alarm!NonNull
<1>4. ASSUME NEW d \in 1..Len(values) PROVE d \in Alarm!Day
  BY <1>1, <1>4 DEF Alarm!Day, Alarm!AlertsAssumption
<1> QED
  BY <1>1, <1>2, <1>3, <1>4

\* The newest day with a value, if any has one.
LEMMA LatestExists ==
  ASSUME AlarmTypes, Alarm!AlertsAssumption, Alarm!NonNull # {}
  PROVE  \E m \in Nat : IsLatest(m)
<1>1. Alarm!NonNull \subseteq Nat /\ Len(values) \in Nat /\ \A d \in Alarm!NonNull : d <= Len(values)
  BY DaysWithValue
<1> QED
  BY <1>1, GreatestNatural DEF IsLatest

\* The rows that checkAlerts reads are the newest day with a value and the one
\* before it.
LEMMA RowsRead ==
  ASSUME AlarmTypes, Alarm!AlertsAssumption, NEW m \in Nat, IsLatest(m)
  PROVE  Alarm!LatestTwo =
           {[day |-> e, v |-> values[e]] : e \in {f \in Alarm!NonNull : f = m \/ Precedes(f, m)}}
<1>1. Alarm!NonNull \subseteq 1..Len(values) /\ Len(values) \in Nat
  BY DaysWithValue
<1>2. ASSUME NEW e \in Alarm!NonNull
      PROVE  Alarm!Cardinality({f \in Alarm!NonNull : f > e}) < 2 <=> e = m \/ Precedes(e, m)
  <2> DEFINE later == {f \in Alarm!NonNull : f > e}
  <2>1. IsFiniteSet(1..Len(values))
    BY <1>1, FS_Interval
  <2>2. later \subseteq 1..Len(values)
    BY <1>1
  <2>3. IsFiniteSet(later)
    BY <2>1, <2>2, FS_Subset
  <2>4. Alarm!Cardinality(later) = Cardinality(later)
    BY DEF Alarm!Cardinality, Cardinality
  <2>5. Cardinality(later) < 2 <=> \A f, g \in later : f = g
    BY <2>3, FewerThanTwo
  <2>6. ASSUME \A f, g \in later : f = g PROVE e = m \/ Precedes(e, m)
    <3>1. CASE e = m
      BY <3>1
    <3>2. CASE e # m
      <4>1. m \in later
        BY <1>1, <3>2 DEF IsLatest
      <4>2. ASSUME NEW f \in Alarm!NonNull, f < m PROVE f <= e
        <5>1. f \notin later
          BY <1>1, <2>6, <4>1, <4>2
        <5> QED
          BY <1>1, <5>1
      <4> QED
        BY <1>1, <4>1, <4>2 DEF Precedes
    <3> QED
      BY <3>1, <3>2
  <2>7. ASSUME e = m \/ Precedes(e, m) PROVE \A f \in later : f = m
    BY <1>1, <2>7 DEF Precedes, IsLatest
  <2> HIDE DEF later
  <2> QED
    BY <2>4, <2>5, <2>6, <2>7 DEF later
<1> QED
  BY <1>2 DEF Alarm!LatestTwo

\* What a check makes of these rows: it fires when the newest value satisfies
\* the condition and the one before it does not.
LEMMA TodayRead ==
  ASSUME AlarmTypes, Alarm!AlertsAssumption, NEW m \in Nat, IsLatest(m)
  PROVE  /\ Alarm!LatestTwo # {} /\ Alarm!Today(Alarm!LatestTwo) = [day |-> m, v |-> values[m]]
         /\ \A a \in Alert : Alarm!Crossed(a, Alarm!LatestTwo) <=>
              Alarm!Satisfies(a, values[m]) /\ PastFails(a, m)
<1> DEFINE row(e) == [day |-> e, v |-> values[e]]
           last == {f \in Alarm!NonNull : f = m \/ Precedes(f, m)}
<1>1. Alarm!NonNull \subseteq 1..Len(values) /\ Len(values) \in Nat /\ m \in last
      /\ \A e \in last : e <= m /\ e \in Nat
  BY DaysWithValue DEF IsLatest
<1>2. Alarm!LatestTwo = {row(e) : e \in last}
  BY RowsRead
<1>3. \A e \in last : row(e).day = e /\ row(e).v = values[e]
  OBVIOUS
<1> HIDE DEF row, last
<1>4. \A r \in Alarm!LatestTwo : (\A s \in Alarm!LatestTwo : s.day <= r.day) <=> r = row(m)
  BY <1>1, <1>2, <1>3
<1>5. row(m) \in Alarm!LatestTwo
  BY <1>1, <1>2
<1>6. Alarm!Today(Alarm!LatestTwo) = row(m)
  BY <1>4, <1>5 DEF Alarm!Today
<1>7. ASSUME NEW a \in Alert
      PROVE  Alarm!Crossed(a, Alarm!LatestTwo) <=> Alarm!Satisfies(a, values[m]) /\ PastFails(a, m)
  <2>1. (\A r \in Alarm!LatestTwo \ {row(m)} : ~Alarm!Satisfies(a, r.v)) <=>
          \A e \in last : e # m => ~Alarm!Satisfies(a, values[e])
    BY <1>1, <1>2, <1>3
  <2>2. \A e \in Alarm!NonNull : e \in last /\ e # m <=> Precedes(e, m)
    BY <1>1 DEF last, Precedes
  <2>3. \A e \in last : e \in Alarm!NonNull
    BY DEF last
  <2> QED
    BY <1>1, <1>3, <1>5, <1>6, <2>1, <2>2, <2>3 DEF Alarm!Crossed, PastFails
<1> QED
  BY <1>5, <1>6, <1>7 DEF row

\* Without a value there is nothing to read.
LEMMA NothingRead == ASSUME Alarm!NonNull = {} PROVE Alarm!LatestTwo = {}
BY DEF Alarm!LatestTwo

\* A crossing, in the same words.
LEMMA CrossingIs ==
  ASSUME AlarmTypes, Alarm!AlertsAssumption, NEW a, NEW d \in Nat
  PROVE  Alarm!Crossing(a, d) <=>
           d \in Alarm!NonNull /\ Alarm!Satisfies(a, values[d]) /\ PastFails(a, d)
<1> DEFINE before == {e \in Alarm!NonNull : e < d}
<1>1. Alarm!NonNull \subseteq 1..Len(values) /\ Len(values) \in Nat
  BY DaysWithValue
<1>4. \A y \in Alarm!NonNull : y \in Nat
  BY <1>1
<1>5. \A y : y \in before <=> y \in Alarm!NonNull /\ y < d
  OBVIOUS
<1>2. CASE before = {}
  BY <1>2 DEF Alarm!Crossing, PastFails, Precedes
<1>3. CASE before # {}
  <2> HIDE DEF before
  <2>0. before \subseteq Nat /\ \A y \in before : y <= d
    BY <1>4, <1>5
  <2>1. PICK x \in before : \A y \in before : y <= x
    BY <1>3, <2>0, GreatestNatural
  <2>2. Alarm!Max(before) \in before /\ \A y \in before : Alarm!Max(before) >= y
    BY <1>1, <2>1 DEF Alarm!Max
  <2> DEFINE m == Alarm!Max(before)
  <2>3. ASSUME NEW e \in Alarm!NonNull PROVE Precedes(e, d) <=> e = m
    <3>1. m \in Alarm!NonNull /\ m < d /\ m \in Nat /\ e \in Nat
      BY <1>4, <1>5, <2>2
    <3>2. \A f \in Alarm!NonNull : f < d => f <= m
      BY <1>4, <1>5, <2>2
    <3> HIDE DEF m
    <3>3. Precedes(e, d) => m <= e /\ e <= m
      BY <3>1, <3>2 DEF Precedes
    <3> QED
      BY <3>1, <3>2, <3>3 DEF Precedes
  <2>4. PastFails(a, d) <=> ~Alarm!Satisfies(a, values[Alarm!Max(before)])
    BY <1>5, <2>2, <2>3 DEF PastFails
  <2> QED
    BY <1>3, <2>4 DEF Alarm!Crossing, before
<1> QED
  BY <1>2, <1>3

---------------------------------------------------------------------------
(* What the steps do. *)

\* Days of the series that stay leave what was compared with them as it was.
LEMMA SameDays ==
  ASSUME Alarm!AlertsAssumption, AlarmTypes, AlarmTypes', NEW n \in Nat, \A d \in 1..n : SameDay(d)
  PROVE  /\ \A a \in Alert, d \in Nat : d <= n + 1 => (PastFails(a, d) <=> PastFails(a, d)')
         /\ \A a \in Alert, d \in Nat : d <= n => (Alarm!Crossing(a, d) <=> Alarm!Crossing(a, d)')
<1>1. DOMAIN values = 1..Len(values) /\ Len(values) \in Nat
      /\ DOMAIN values' = 1..Len(values') /\ Len(values') \in Nat
  BY DEF AlarmTypes
<1>2. /\ \A d \in Alarm!NonNull : d \in Nat /\ d >= 1
      /\ \A d \in Alarm!NonNull' : d \in Nat /\ d >= 1
  BY <1>1 DEF Alarm!NonNull
<1>3. ASSUME NEW d \in Nat, d >= 1, d <= n
      PROVE  /\ d \in Alarm!NonNull <=> d \in Alarm!NonNull'
             /\ d \in Alarm!NonNull => values'[d] = values[d]
  <2>1. d \in 1..n
    BY <1>3
  <2> QED
    BY <2>1 DEF SameDay, Alarm!NonNull
<1>4. ASSUME NEW a \in Alert, NEW d \in Nat, d <= n + 1 PROVE PastFails(a, d) <=> PastFails(a, d)'
  <2>1. \A e \in Alarm!NonNull : e < d => e \in Alarm!NonNull' /\ values'[e] = values[e]
    BY <1>2, <1>3, <1>4
  <2>2. \A e \in Alarm!NonNull' : e < d => e \in Alarm!NonNull /\ values'[e] = values[e]
    BY <1>2, <1>3, <1>4
  <2>3. \A v : Alarm!Satisfies(a, v) <=> Alarm!Satisfies(a, v)'
    BY DEF Alarm!Satisfies
  <2> QED
    BY <2>1, <2>2, <2>3 DEF PastFails, Precedes, Alarm!Satisfies
<1>5. ASSUME NEW a \in Alert, NEW d \in Nat, d <= n
      PROVE  Alarm!Crossing(a, d) <=> Alarm!Crossing(a, d)'
  <2> DEFINE before == {e \in Alarm!NonNull : e < d}
             upTo == {e \in Alarm!NonNull' : e < d}
  <2>1. before = upTo
    BY <1>2, <1>3, <1>5
  <2>2. d \in Alarm!NonNull => d >= 1 /\ d <= n
    BY <1>2, <1>5
  <2>3. d \in Alarm!NonNull' => d >= 1 /\ d <= n
    BY <1>2, <1>5
  <2>4. (d \in Alarm!NonNull <=> d \in Alarm!NonNull') /\ (d \in Alarm!NonNull => values'[d] = values[d])
    BY <1>3, <2>2, <2>3
  <2>5. ASSUME before # {} PROVE values'[Alarm!Max(before)] = values[Alarm!Max(before)]
    <3>1. before \subseteq Nat /\ \A y \in before : y <= d
      BY <1>2
    <3>2. PICK x \in before : \A y \in before : y <= x
      <4> HIDE DEF before
      <4> QED
        BY <2>5, <3>1, GreatestNatural
    <3>3. Alarm!Max(before) \in before
      <4> HIDE DEF before
      <4> QED
        BY <3>1, <3>2 DEF Alarm!Max
    <3>4. \A e \in before : values'[e] = values[e]
      BY <1>2, <1>3, <1>5
    <3> QED
      BY <3>3, <3>4
  <2> HIDE DEF before, upTo
  <2>6. Alarm!Crossing(a, d) <=> d \in Alarm!NonNull /\ Alarm!Satisfies(a, values[d])
          /\ (before # {} => ~Alarm!Satisfies(a, values[Alarm!Max(before)]))
    BY DEF Alarm!Crossing, before
  <2>7. Alarm!Crossing(a, d)' <=> d \in Alarm!NonNull' /\ Alarm!Satisfies(a, values'[d])
          /\ (upTo # {} => ~Alarm!Satisfies(a, values'[Alarm!Max(upTo)]))
    BY DEF Alarm!Crossing, upTo, Alarm!Satisfies
  <2> QED
    BY <2>1, <2>4, <2>5, <2>6, <2>7
<1> QED
  BY <1>4, <1>5

\* A day more, or a day less.
LEMMA FinalizeIs ==
  ASSUME Alarm!AlertsAssumption, AlarmTypes, NEW v \in Alarm!Value, Alarm!Finalize(v)
  PROVE  /\ Len(values) \in Nat /\ Len(values') = Len(values) + 1 /\ AlarmTypes'
         /\ \A d \in 1..Len(values) : SameDay(d)
         /\ \A c \in Checker : check'[c] = [check[c] EXCEPT !.clean = FALSE]
<1>1. /\ values' = Append(values, v) /\ Len(values) < MaxDays
      /\ check' = [c \in Checker |-> [check[c] EXCEPT !.clean = FALSE]]
      /\ UNCHANGED <<fired, alarms, reported, takenBack, sendFaults>>
  BY DEF Alarm!Finalize
<1>2. Len(values) \in Nat /\ MaxDays \in Nat /\ values \in Seq(Alarm!Value)
  BY DEF AlarmTypes, Alarm!AlertsAssumption
<1>3. values' \in Seq(Alarm!Value) /\ Len(values') = Len(values) + 1
      /\ \A d \in 1..Len(values) : values'[d] = values[d]
  BY <1>1, <1>2
<1>4. \A d \in 1..Len(values) : SameDay(d)
  BY <1>2, <1>3 DEF SameDay
<1>5. check' \in [Checker -> CheckRecords]
  BY <1>1 DEF AlarmTypes, CheckRecords
<1>6. CheckRecords' = CheckRecords /\ Alarm!Value' = Alarm!Value /\ Alarm!Day' = Alarm!Day
  BY DEF CheckRecords, Alarm!Value, Alarm!Day
<1>7. fired' = fired /\ alarms' = alarms /\ sendFaults' = sendFaults /\ takenBack' \in Nat
      /\ reported' \subseteq Alert \X Alarm!Day
  BY <1>1 DEF AlarmTypes
<1>8. Len(values') <= MaxDays
  BY <1>1, <1>2, <1>3
<1>9. AlarmTypes'
  BY <1>3, <1>5, <1>6, <1>7, <1>8 DEF AlarmTypes
<1> QED
  BY <1>1, <1>2, <1>3, <1>4, <1>9

\* A rewind takes the last day back and leaves the days before it.
LEMMA RewindIs ==
  ASSUME Alarm!AlertsAssumption, AlarmTypes, Alarm!Rewind
  PROVE  /\ Len(values) \in Nat \ {0} /\ Len(values') = Len(values) - 1 /\ AlarmTypes'
         /\ \A d \in 1..(Len(values) - 1) : SameDay(d)
         /\ \A c \in Checker : check'[c] = [check[c] EXCEPT !.clean = FALSE]
<1>1. /\ values' = SubSeq(values, 1, Len(values) - 1) /\ values # <<>>
      /\ check' = [c \in Checker |-> [check[c] EXCEPT !.clean = FALSE]]
      /\ takenBack' = takenBack + 1 /\ reported' \subseteq reported
      /\ UNCHANGED <<fired, alarms, sendFaults>>
  BY DEF Alarm!Rewind
<1>2. Len(values) \in Nat \ {0} /\ MaxDays \in Nat /\ values \in Seq(Alarm!Value)
      /\ Len(values) <= MaxDays
  BY <1>1 DEF AlarmTypes, Alarm!AlertsAssumption
<1>3. values' \in Seq(Alarm!Value) /\ Len(values') = Len(values) - 1
      /\ \A d \in 1..(Len(values) - 1) : values'[d] = values[d]
  <2>1. PICK n \in Nat : n = Len(values) - 1
    BY <1>2
  <2>2. values' = SubSeq(values, 1, n) /\ n <= Len(values) /\ Len(values) \in Nat
    BY <1>1, <1>2, <2>1
  <2>3. \A i \in 1..n : values[i] \in Alarm!Value
    BY <1>2, <2>2
  <2>4. values' = [i \in 1..n |-> values[i]]
    BY <2>2
  <2> QED
    BY <2>1, <2>3, <2>4
<1>4. \A d \in 1..(Len(values) - 1) : SameDay(d)
  BY <1>2, <1>3 DEF SameDay
<1>5. check' \in [Checker -> CheckRecords]
  BY <1>1 DEF AlarmTypes, CheckRecords
<1>6. CheckRecords' = CheckRecords /\ Alarm!Value' = Alarm!Value /\ Alarm!Day' = Alarm!Day
  BY DEF CheckRecords, Alarm!Value, Alarm!Day
<1>7. fired' = fired /\ alarms' = alarms /\ sendFaults' = sendFaults /\ takenBack' \in Nat
      /\ reported' \subseteq Alert \X Alarm!Day
  BY <1>1 DEF AlarmTypes
<1>8. Len(values') <= MaxDays
  BY <1>1, <1>2, <1>3
<1>9. AlarmTypes'
  BY <1>3, <1>5, <1>6, <1>7, <1>8 DEF AlarmTypes
<1> QED
  BY <1>1, <1>2, <1>3, <1>4, <1>9

\* A check that did not move, while mails came and no day went, is where it was.
LEMMA ReportsStay ==
  ASSUME AlarmTypes, NEW c \in Checker, Reports(check[c]), check'[c] = check[c],
         UNCHANGED values, \A a \in Alert : Alarm!Mailed(a) \subseteq Alarm!Mailed(a)'
  PROVE  Reports(check[c])'
<1>1. check[c] \in CheckRecords
  BY DEF AlarmTypes
<1>2. \A a \in Alert : \A d : Alarm!Crossing(a, d)' <=> Alarm!Crossing(a, d)
  BY DEF Alarm!Crossing, Alarm!NonNull, Alarm!Satisfies
<1>3. PICK k \in CheckRecords : k = check[c] /\ k = check'[c]
  BY <1>1
<1>4. k.mailing \subseteq Alert /\ k.todo \subseteq Alert /\ k.listed \subseteq Alert
  BY <1>1, <1>3 DEF CheckRecords
<1> QED
  BY <1>2, <1>3, <1>4 DEF Reports, DayOf

\* A day that comes or goes while a check is at it makes the check late.
LEMMA ReportsLate ==
  ASSUME AlarmTypes, NEW c \in Checker, Reports(check[c]),
         check'[c] = [check[c] EXCEPT !.clean = FALSE], UNCHANGED alarms
  PROVE  Reports(check[c])'
<1>1. check[c] \in CheckRecords
  BY DEF AlarmTypes
<1>2. \A a \in Alert : Alarm!Mailed(a)' = Alarm!Mailed(a)
  BY DEF Alarm!Mailed, Alarm!Day
<1>3. /\ check'[c].mailing = check[c].mailing /\ check'[c].todo = check[c].todo
      /\ check'[c].marks = check[c].marks /\ check'[c].days = check[c].days
      /\ check'[c].clean = FALSE
  BY <1>1 DEF CheckRecords
<1>4. check[c].mailing \subseteq Alert /\ check[c].todo \subseteq Alert
  BY <1>1 DEF CheckRecords
<1> QED
  BY <1>2, <1>3, <1>4 DEF Reports, DayOf

---------------------------------------------------------------------------
(* Every step keeps the invariant. *)

\* Nothing is listed, mailed or read.
LEMMA AlarmInit == ASSUME Alarm!AlertsAssumption, Alarm!Init PROVE AlarmInv
<1>1. /\ state = [a \in Alert |-> "absent"] /\ counted = {}
      /\ fired = [a \in Alert |-> 0] /\ values = <<>> /\ check = [c \in Checker |-> Alarm!Idle]
      /\ alarms = [a \in Alert |-> [d \in Alarm!Day |-> 0]]
      /\ reported = {} /\ takenBack = 0 /\ sendFaults = 0
  BY DEF Alarm!Init
<1>2. \A a \in Alert : Alarm!Mailed(a) = {}
  BY <1>1 DEF Alarm!Mailed
<1>3. Alarm!Idle \in CheckRecords
  BY DEF Alarm!Idle, CheckRecords
<1>4. AlarmTypes
  BY <1>1, <1>3 DEF AlarmTypes, Alarm!AlertsAssumption
<1>5. Loops
  BY <1>1 DEF Loops, Loop, Alarm!Idle
<1>6. Consent
  BY <1>1, <1>2 DEF Consent, Alarm!Idle
<1>7. Reporting
  BY <1>1 DEF Reporting, Reports, Alarm!Idle, Alarm!CrossingsReported
<1>8. Genuine
  BY <1>1, <1>2 DEF Genuine, Alarm!Idle, Alarm!Crossed, Alarm!MailMeansCrossing
<1>9. Once
  <2> DEFINE last == [a \in Alert |-> 0]
  <2>1. last \in [Alert -> Nat] /\ Len(values) = 0
    BY <1>1
  <2>2. \A a \in Alert : LastMail(last, a)
    BY <1>1, <2>1 DEF LastMail, PastFails, Alarm!NonNull
  <2>3. \A c \in Checker : LoopAlone(last, check[c])
    BY <1>1 DEF LoopAlone, Alarm!Idle, Alarm!Crossed
  <2> QED
    BY <2>1, <2>2, <2>3 DEF Once
<1> QED
  BY <1>4, <1>5, <1>6, <1>7, <1>8, <1>9 DEF AlarmInv

\* The routes count, insert, confirm and unsubscribe; a request that fails on the
\* way is a fault.
LEMMA RoutesKeep ==
  ASSUME Alarm!AlertsAssumption, AlarmInv, UNCHANGED <<fired, values, check, alarms, reported, takenBack>>,
         \/ UNCHANGED <<state, counted, mailed, sendFaults>>
         \/ \E a \in Alert : Alarm!Count(a) \/ Alarm!Confirm(a) \/ Alarm!Unsubscribe(a)
         \/ \E a \in Alert, o \in Alarm!Outcomes : Alarm!Create(a, o)
  PROVE  AlarmInv'
<1>1. sendFaults' = sendFaults \/ sendFaults' = sendFaults + 1
  BY DEF Alarm!Count, Alarm!Confirm, Alarm!Unsubscribe, Alarm!Create, Alarm!Fault
<1>2. sendFaults \in Nat /\ sendFaults' \in Nat /\ (sendFaults' = 0 => sendFaults = 0)
  BY <1>1 DEF AlarmInv, AlarmTypes
<1>3. AlarmTypes'
  BY <1>2 DEF AlarmInv, AlarmTypes, CheckRecords, Alarm!Day, Alarm!Value
<1>4. \A a \in Alert : Alarm!Mailed(a)' = Alarm!Mailed(a)
  BY DEF Alarm!Mailed, Alarm!Day
<1>5. Loops'
  BY DEF AlarmInv, Loops, Loop, DayOf, Alarm!Day
<1>6. Consent'
  <2>1. check \in [Checker -> CheckRecords]
    BY DEF AlarmInv, AlarmTypes
  <2>2. \A c \in Checker : check[c].listed \subseteq Alert
    BY <2>1 DEF CheckRecords
  <2>3. state' \in [Alert -> {"absent", "pending", "active", "gone"}]
        /\ (\A a \in counted' : state'[a] = "absent")
        /\ \A a \in Alert : state[a] \in {"active", "gone"} => state'[a] \in {"active", "gone"}
    <3>1. CASE UNCHANGED <<state, counted, mailed, sendFaults>>
      BY <3>1 DEF AlarmInv, Consent
    <3>2. ASSUME NEW a \in Alert, Alarm!Count(a) \/ Alarm!Confirm(a) \/ Alarm!Unsubscribe(a)
          PROVE  state' \in [Alert -> {"absent", "pending", "active", "gone"}]
                 /\ (\A b \in counted' : state'[b] = "absent")
                 /\ \A b \in Alert : state[b] \in {"active", "gone"} => state'[b] \in {"active", "gone"}
      <4>1. CASE Alarm!Count(a)
        BY <4>1 DEF AlarmInv, Consent, Alarm!Count
      <4>2. CASE Alarm!Confirm(a)
        BY <4>2 DEF AlarmInv, Consent, Alarm!Confirm
      <4>3. CASE Alarm!Unsubscribe(a)
        BY <4>3 DEF AlarmInv, Consent, Alarm!Unsubscribe
      <4> QED
        BY <3>2, <4>1, <4>2, <4>3
    <3>3. ASSUME NEW a \in Alert, NEW o \in Alarm!Outcomes, Alarm!Create(a, o)
          PROVE  state' \in [Alert -> {"absent", "pending", "active", "gone"}]
                 /\ (\A b \in counted' : state'[b] = "absent")
                 /\ \A b \in Alert : state[b] \in {"active", "gone"} => state'[b] \in {"active", "gone"}
      BY <3>3 DEF AlarmInv, Consent, Alarm!Create
    <3> QED
      BY <3>1, <3>2, <3>3
  <2> QED
    BY <1>4, <2>2, <2>3 DEF AlarmInv, Consent
<1>7. \A a \in Alert : \A d : Alarm!Crossing(a, d)' <=> Alarm!Crossing(a, d)
  BY DEF Alarm!Crossing, Alarm!NonNull, Alarm!Satisfies
<1>8. Reporting'
  <2>1. ASSUME NEW c \in Checker PROVE Reports(check[c])'
    BY <1>4, ReportsStay DEF AlarmInv, Reporting
  <2>2. \A r \in reported : r[1] \in Alert
    BY DEF AlarmInv, AlarmTypes
  <2> QED
    BY <1>4, <1>7, <2>1, <2>2 DEF AlarmInv, Reporting, Alarm!CrossingsReported
<1>9. Genuine => Genuine'
  BY <1>4, <1>7 DEF Genuine, Alarm!MailMeansCrossing, DayOf
<1>10. Once => Once'
  BY DEF Once, LastMail, LoopAlone, PastFails, Precedes, Alarm!NonNull, Alarm!Satisfies, DayOf, Alarm!Day
<1> QED
  BY <1>2, <1>3, <1>5, <1>6, <1>8, <1>9, <1>10 DEF AlarmInv, Alarm!OneChecker

\* A day is finalized: what was compared with earlier days stays compared.
LEMMA FinalizeKeeps ==
  ASSUME Alarm!AlertsAssumption, AlarmInv, NEW v \in Alarm!Value, Alarm!Finalize(v)
  PROVE  AlarmInv'
<1>1. UNCHANGED <<state, counted, mailed, fired, alarms, reported, takenBack, sendFaults>>
  BY DEF Alarm!Finalize, Alarm!table
<1>2. PICK n \in Nat :
        /\ n = Len(values) /\ Len(values') = n + 1 /\ \A d \in 1..n : SameDay(d)
  BY FinalizeIs DEF AlarmInv
<1>3. AlarmTypes /\ AlarmTypes' /\ Loops /\ Reporting /\ Consent
      /\ \A c \in Checker : check'[c] = [check[c] EXCEPT !.clean = FALSE]
  BY FinalizeIs DEF AlarmInv
<1>4. \A c \in Checker :
        /\ check[c] \in CheckRecords
        /\ check'[c].at = check[c].at /\ check'[c].listed = check[c].listed
        /\ check'[c].mailing = check[c].mailing /\ check'[c].todo = check[c].todo
        /\ check'[c].marks = check[c].marks /\ check'[c].days = check[c].days
  BY <1>3 DEF AlarmTypes, CheckRecords
<1>5. \A a \in Alert : Alarm!Mailed(a)' = Alarm!Mailed(a)
  BY <1>1 DEF Alarm!Mailed, Alarm!Day
<1>6. /\ \A a \in Alert, d \in Nat : d <= n + 1 => (PastFails(a, d) <=> PastFails(a, d)')
      /\ \A a \in Alert, d \in Nat : d <= n => (Alarm!Crossing(a, d) <=> Alarm!Crossing(a, d)')
  BY <1>2, <1>3, SameDays
<1>7. Loops'
  BY <1>3, <1>4 DEF Loops, Loop, DayOf, Alarm!Day
<1>8. Consent'
  <2>1. \A c \in Checker : check[c].listed \subseteq Alert
    BY <1>4 DEF CheckRecords
  <2> QED
    BY <1>1, <1>3, <1>4, <1>5, <2>1 DEF Consent
<1>9. DOMAIN values = 1..n /\ DOMAIN values' = 1..(n + 1)
  BY <1>2, <1>3 DEF AlarmTypes
<1>10. Reporting'
  <2>1. ASSUME NEW c \in Checker PROVE Reports(check[c])'
    BY <1>1, <1>3, ReportsLate DEF Reporting
  <2>2. ASSUME NEW r \in reported, r[2] \in DOMAIN values', Alarm!Crossing(r[1], r[2])'
        PROVE  r[2] \in Alarm!Mailed(r[1])'
    <3>1. r[1] \in Alert /\ r[2] \in 1..n
      BY <1>3, <1>9 DEF AlarmTypes, Reporting
    <3>2. Alarm!Crossing(r[1], r[2])
      BY <1>6, <2>2, <3>1
    <3> QED
      BY <1>3, <1>5, <1>9, <3>1, <3>2 DEF Reporting, Alarm!CrossingsReported
  <2>3. \A r \in reported : r[2] \in DOMAIN values'
    BY <1>3, <1>9 DEF Reporting
  <2> QED
    BY <1>1, <1>3, <1>5, <2>1, <2>2, <2>3 DEF Reporting, Alarm!CrossingsReported
<1>11. ASSUME NEW a \in Alert, NEW d, Alarm!Crossing(a, d) PROVE Alarm!Crossing(a, d)'
  <2>1. d \in 1..n
    BY <1>9, <1>11 DEF Alarm!Crossing, Alarm!NonNull
  <2> QED
    BY <1>6, <1>11, <2>1
<1>12. Genuine => Genuine'
  BY <1>4, <1>5, <1>11 DEF Genuine, Alarm!MailMeansCrossing, DayOf
<1>13. ASSUME Once, takenBack <= 1 PROVE Once'
  <2>1. PICK last \in [Alert -> Nat] :
          (\A a \in Alert : LastMail(last, a)) /\ \A c \in Checker : LoopAlone(last, check[c])
    BY <1>13 DEF Once
  <2>2. takenBack \in Nat /\ takenBack' = takenBack
    BY <1>1, <1>3 DEF AlarmTypes
  <2>3. ASSUME NEW a \in Alert PROVE LastMail(last, a)'
    <3>1. last[a] \in Nat /\ last[a] <= n + 1 /\ PastFails(a, last[a])
      BY <1>2, <1>13, <2>1, <2>2 DEF LastMail
    <3>2. PastFails(a, last[a])'
      BY <1>6, <3>1
    <3>3. last[a] <= Len(values') + takenBack'
      BY <1>2, <2>2, <3>1
    <3> QED
      BY <1>1, <1>4, <2>1, <3>2, <3>3 DEF LastMail, Alarm!Day
  <2>4. ASSUME NEW c \in Checker PROVE LoopAlone(last, check[c])'
    <3>1. ASSUME NEW a \in Alert, Alarm!Crossed(a, check[c].days)
          PROVE  DayOf(check[c]) <= Len(values') + takenBack' /\ PastFails(a, DayOf(check[c]))'
      <4>1. DayOf(check[c]) \in Nat
        BY <1>3, <3>1 DEF Loops, Loop, Alarm!Crossed, Alarm!Day
      <4>2. DayOf(check[c]) <= n + 1 /\ PastFails(a, DayOf(check[c]))
        BY <1>2, <1>13, <2>1, <2>2, <3>1, <4>1 DEF LoopAlone
      <4>3. PICK d \in Nat : d = DayOf(check[c])
        BY <4>1
      <4>4. d = DayOf(check'[c])
        BY <1>4, <4>3 DEF DayOf
      <4>5. PastFails(a, d)'
        BY <1>6, <4>2, <4>3
      <4> QED
        BY <1>2, <2>2, <4>2, <4>3, <4>4, <4>5 DEF PastFails
    <3>2. check[c].todo \subseteq Alert /\ check[c].mailing \subseteq Alert
      BY <1>4 DEF CheckRecords
    <3> QED
      BY <1>1, <1>4, <2>1, <3>1, <3>2 DEF LoopAlone, DayOf
  <2> QED
    BY <2>3, <2>4 DEF Once
<1> QED
  BY <1>1, <1>3, <1>7, <1>8, <1>10, <1>12, <1>13 DEF AlarmInv, Alarm!OneChecker

\* The newest day is rewound: a mark on it stays, and so does what it was
\* compared with.
LEMMA RewindKeeps ==
  ASSUME Alarm!AlertsAssumption, AlarmInv, Alarm!Rewind
  PROVE  AlarmInv'
<1>1. /\ UNCHANGED <<state, counted, mailed, fired, alarms, sendFaults>> /\ takenBack' = takenBack + 1
      /\ reported' = {r \in reported : r[2] < Len(values)}
  BY DEF Alarm!Rewind, Alarm!table
<1>2. PICK n \in Nat :
        /\ Len(values) = n + 1 /\ Len(values') = n /\ \A d \in 1..n : SameDay(d)
  <2>1. Len(values) \in Nat \ {0} /\ Len(values') = Len(values) - 1
        /\ \A d \in 1..(Len(values) - 1) : SameDay(d)
    BY RewindIs DEF AlarmInv
  <2>2. PICK n \in Nat : n = Len(values) - 1
    BY <2>1
  <2>3. Len(values) = n + 1 /\ Len(values') = n /\ \A d \in 1..n : SameDay(d)
    BY <2>1, <2>2
  <2> QED
    BY <2>3
<1>3. AlarmTypes /\ AlarmTypes' /\ Loops /\ Reporting /\ Consent
      /\ \A c \in Checker : check'[c] = [check[c] EXCEPT !.clean = FALSE]
  BY RewindIs DEF AlarmInv
<1>4. \A c \in Checker :
        /\ check[c] \in CheckRecords
        /\ check'[c].at = check[c].at /\ check'[c].listed = check[c].listed
        /\ check'[c].mailing = check[c].mailing /\ check'[c].todo = check[c].todo
        /\ check'[c].marks = check[c].marks /\ check'[c].days = check[c].days
  BY <1>3 DEF AlarmTypes, CheckRecords
<1>5. \A a \in Alert : Alarm!Mailed(a)' = Alarm!Mailed(a)
  BY <1>1 DEF Alarm!Mailed, Alarm!Day
<1>6. /\ \A a \in Alert, d \in Nat : d <= n + 1 => (PastFails(a, d) <=> PastFails(a, d)')
      /\ \A a \in Alert, d \in Nat : d <= n => (Alarm!Crossing(a, d) <=> Alarm!Crossing(a, d)')
  BY <1>2, <1>3, SameDays
<1>7. Loops'
  BY <1>3, <1>4 DEF Loops, Loop, DayOf, Alarm!Day
<1>8. Consent'
  <2>1. \A c \in Checker : check[c].listed \subseteq Alert
    BY <1>4 DEF CheckRecords
  <2> QED
    BY <1>1, <1>3, <1>4, <1>5, <2>1 DEF Consent
<1>9. DOMAIN values = 1..(n + 1) /\ DOMAIN values' = 1..n
  BY <1>2, <1>3 DEF AlarmTypes
<1>10. Reporting'
  <2>1. ASSUME NEW c \in Checker PROVE Reports(check[c])'
    BY <1>1, <1>3, ReportsLate DEF Reporting
  <2>2. ASSUME NEW r \in reported', r[2] \in DOMAIN values', Alarm!Crossing(r[1], r[2])'
        PROVE  r[2] \in Alarm!Mailed(r[1])'
    <3>1. r \in reported /\ r[1] \in Alert /\ r[2] \in 1..n
      BY <1>1, <1>3, <1>9, <2>2 DEF AlarmTypes
    <3>2. Alarm!Crossing(r[1], r[2])
      BY <1>6, <2>2, <3>1
    <3> QED
      BY <1>3, <1>5, <1>9, <3>1, <3>2 DEF Reporting, Alarm!CrossingsReported
  <2>3. \A r \in reported' : r[2] \in DOMAIN values'
    BY <1>1, <1>2, <1>3, <1>9 DEF Reporting
  <2> QED
    BY <1>1, <1>3, <1>5, <2>1, <2>2, <2>3 DEF Reporting, Alarm!CrossingsReported
<1>11. ASSUME Once, takenBack' <= 1 PROVE Once'
  <2>1. PICK last \in [Alert -> Nat] :
          (\A a \in Alert : LastMail(last, a)) /\ \A c \in Checker : LoopAlone(last, check[c])
    BY <1>11 DEF Once
  <2>2. takenBack = 0 /\ takenBack' = 1
    BY <1>1, <1>3, <1>11 DEF AlarmTypes
  <2>3. ASSUME NEW a \in Alert PROVE LastMail(last, a)'
    <3>1. last[a] \in Nat /\ last[a] <= n + 1 /\ PastFails(a, last[a])
      BY <1>2, <1>11, <2>1, <2>2 DEF LastMail
    <3>2. PastFails(a, last[a])'
      BY <1>6, <3>1
    <3>3. last[a] <= Len(values') + takenBack'
      BY <1>2, <2>2, <3>1
    <3> QED
      BY <1>1, <1>4, <2>1, <3>2, <3>3 DEF LastMail, Alarm!Day
  <2>4. ASSUME NEW c \in Checker PROVE LoopAlone(last, check[c])'
    <3>1. ASSUME NEW a \in Alert, Alarm!Crossed(a, check[c].days)
          PROVE  DayOf(check[c]) <= Len(values') + takenBack' /\ PastFails(a, DayOf(check[c]))'
      <4>1. DayOf(check[c]) \in Nat
        BY <1>3, <3>1 DEF Loops, Loop, Alarm!Crossed, Alarm!Day
      <4>2. DayOf(check[c]) <= n + 1 /\ PastFails(a, DayOf(check[c]))
        BY <1>2, <1>11, <2>1, <2>2, <3>1, <4>1 DEF LoopAlone
      <4>3. PICK d \in Nat : d = DayOf(check[c])
        BY <4>1
      <4>4. d = DayOf(check'[c])
        BY <1>4, <4>3 DEF DayOf
      <4>5. PastFails(a, d)'
        BY <1>6, <4>2, <4>3
      <4> QED
        BY <1>2, <2>2, <4>2, <4>3, <4>4, <4>5 DEF PastFails
    <3>2. check[c].todo \subseteq Alert /\ check[c].mailing \subseteq Alert
      BY <1>4 DEF CheckRecords
    <3> QED
      BY <1>1, <1>4, <2>1, <3>1, <3>2 DEF LoopAlone, DayOf
  <2> QED
    BY <2>3, <2>4 DEF Once
<1>12. takenBack \in Nat /\ takenBack' # 0 /\ (takenBack' <= 1 => takenBack <= 1)
  BY <1>1, <1>3 DEF AlarmTypes
<1> QED
  BY <1>1, <1>3, <1>7, <1>8, <1>10, <1>11, <1>12 DEF AlarmInv, Alarm!OneChecker

\* A step of check c, whose mails are of what it lists: the others are where they
\* were, and so is what has been reported.
LEMMA CheckMoves ==
  ASSUME Alarm!AlertsAssumption, AlarmInv, NEW c \in Checker,
         UNCHANGED <<state, counted, mailed, values, takenBack>>,
         check' \in [Checker -> CheckRecords], \A b \in Checker : b # c => check'[b] = check[b],
         fired' \in [Alert -> Int], alarms' \in [Alert -> [Alarm!Day -> Nat]], sendFaults' \in Nat,
         reported' \subseteq Alert \X Alarm!Day, Loop(check[c])', Reports(check[c])',
         \A a \in Alert : Alarm!Mailed(a) \subseteq Alarm!Mailed(a)',
         \A a \in Alert : Alarm!Mailed(a)' # Alarm!Mailed(a) => a \in check[c].listed,
         \A a \in check'[c].listed : a \in check[c].listed \/ state[a] = "active",
         \A a \in Alert : fired'[a] = fired[a] \/ fired'[a] \in Alarm!Mailed(a)',
         \A r \in reported' : r \in reported \/
           (r[2] \in DOMAIN values /\ (Alarm!Crossing(r[1], r[2]) => r[2] \in Alarm!Mailed(r[1])'))
  PROVE  AlarmTypes' /\ Loops' /\ Consent' /\ Reporting'
<1>1. AlarmTypes'
  BY DEF AlarmInv, AlarmTypes, CheckRecords, Alarm!Day, Alarm!Value
<1>2. check \in [Checker -> CheckRecords] /\ \A b \in Checker : check[b].listed \subseteq Alert
      /\ check'[b].listed \subseteq Alert
  BY DEF AlarmInv, AlarmTypes, CheckRecords
<1>3. Loops'
  <2>1. ASSUME NEW b \in Checker, b # c PROVE Loop(check[b])'
    BY <2>1 DEF AlarmInv, Loops, Loop, DayOf, Alarm!Day
  <2> QED
    BY <2>1 DEF Loops
<1>4. Consent'
  <2>1. ASSUME NEW a \in Alert, Alarm!Mailed(a)' # {} PROVE state'[a] \in {"active", "gone"}
    <3>1. Alarm!Mailed(a) # {} \/ a \in check[c].listed
      BY <2>1
    <3> QED
      BY <3>1 DEF AlarmInv, Consent
  <2>2. ASSUME NEW b \in Checker, NEW a \in check'[b].listed PROVE state'[a] \in {"active", "gone"}
    <3>1. CASE b = c
      BY <1>2, <2>2, <3>1 DEF AlarmInv, Consent
    <3>2. CASE b # c
      BY <2>2, <3>2 DEF AlarmInv, Consent
    <3> QED
      BY <3>1, <3>2
  <2> QED
    BY <2>1, <2>2 DEF AlarmInv, Consent
<1>5. \A a, d : Alarm!Crossing(a, d)' <=> Alarm!Crossing(a, d)
  BY DEF Alarm!Crossing, Alarm!NonNull, Alarm!Satisfies
<1>6. Reporting'
  <2>1. ASSUME NEW b \in Checker, b # c PROVE Reports(check[b])'
    BY <2>1, ReportsStay DEF AlarmInv, Reporting
  <2>2. ASSUME NEW r \in reported'
        PROVE  r[2] \in DOMAIN values' /\ (Alarm!Crossing(r[1], r[2])' => r[2] \in Alarm!Mailed(r[1])')
    <3>1. r[1] \in Alert
      BY <2>2
    <3> QED
      BY <1>5, <2>2, <3>1 DEF AlarmInv, Reporting, Alarm!CrossingsReported
  <2>3. ASSUME NEW a \in Alert, fired'[a] # 0 PROVE fired'[a] \in Alarm!Mailed(a)'
    BY <2>3 DEF AlarmInv, Reporting
  <2> QED
    BY <2>1, <2>2, <2>3 DEF Reporting, Alarm!CrossingsReported
<1> QED
  BY <1>1, <1>3, <1>4, <1>6

\* Nothing but the list and the marks is read, or nothing at all.
LEMMA ReadAlertsKeeps ==
  ASSUME Alarm!AlertsAssumption, AlarmInv, NEW c \in Checker, Alarm!ReadAlerts(c)
  PROVE  AlarmInv'
<1> DEFINE k == [Alarm!Idle EXCEPT !.at = "rows", !.listed = Alarm!Armed, !.todo = Alarm!Armed,
                   !.marks = fired]
<1>1. /\ check' = [check EXCEPT ![c] = k] /\ check[c].at = "idle"
      /\ UNCHANGED <<state, counted, mailed, fired, values, alarms, reported, takenBack, sendFaults>>
  BY DEF Alarm!ReadAlerts, Alarm!table
<1>2. AlarmTypes /\ check \in [Checker -> CheckRecords] /\ Reporting
  BY DEF AlarmInv, AlarmTypes
<1>3. Alarm!Armed \subseteq Alert /\ \A a \in Alarm!Armed : state[a] = "active"
  BY DEF Alarm!Armed, Alarm!Active
<1>4. /\ k \in CheckRecords /\ k.at = "rows" /\ k.listed = Alarm!Armed /\ k.todo = Alarm!Armed
      /\ k.marks = fired /\ k.days = {} /\ k.mailing = {}
  BY <1>2, <1>3 DEF Alarm!Idle, CheckRecords, AlarmTypes
<1> HIDE DEF k
<1>5. /\ check'[c] = k /\ \A b \in Checker : b # c => check'[b] = check[b]
      /\ check' \in [Checker -> CheckRecords]
  BY <1>1, <1>2, <1>4
<1>6. Loop(check[c])'
  BY <1>4, <1>5 DEF Loop
<1>7. \A a \in Alert : Alarm!Mailed(a)' = Alarm!Mailed(a)
  BY <1>1 DEF Alarm!Mailed, Alarm!Day
<1>8. Reports(check[c])'
  BY <1>2, <1>3, <1>4, <1>5, <1>7 DEF Reports, Reporting
<1>9. AlarmTypes' /\ Loops' /\ Consent' /\ Reporting'
  BY <1>1, <1>2, <1>3, <1>4, <1>5, <1>6, <1>7, <1>8, CheckMoves DEF AlarmTypes
<1>10. ASSUME Genuine PROVE Genuine'
  <2>1. \A a, d : Alarm!Crossing(a, d)' <=> Alarm!Crossing(a, d)
    BY <1>1 DEF Alarm!Crossing, Alarm!NonNull, Alarm!Satisfies
  <2> QED
    BY <1>4, <1>5, <1>7, <1>10, <2>1 DEF Genuine, Alarm!MailMeansCrossing, Alarm!Crossed, DayOf
<1>11. ASSUME Alarm!OneChecker, Once PROVE Once'
  <2>1. PICK last \in [Alert -> Nat] :
          (\A a \in Alert : LastMail(last, a)) /\ \A b \in Checker : LoopAlone(last, check[b])
    BY <1>11 DEF Once
  <2>2. check[c].mailing = {} /\ \A b \in Checker : b = c
    BY <1>1, <1>11 DEF AlarmInv, Loops, Loop, Alarm!OneChecker
  <2>3. ASSUME NEW a \in Alert PROVE LastMail(last, a)'
    BY <1>1, <2>1, <2>2 DEF LastMail, PastFails, Precedes, Alarm!NonNull, Alarm!Satisfies, Alarm!Day
  <2>4. ASSUME NEW b \in Checker PROVE LoopAlone(last, check[b])'
    BY <1>1, <1>4, <1>5, <2>2 DEF LoopAlone, Alarm!Crossed
  <2> QED
    BY <2>3, <2>4 DEF Once
<1> QED
  BY <1>1, <1>9, <1>10, <1>11 DEF AlarmInv, Alarm!OneChecker

\* What a check reads is the newest crossing, if there is one: the days before it
\* fail the condition, and no mail is of a later one.
LEMMA ReadRowsKeeps ==
  ASSUME Alarm!AlertsAssumption, AlarmInv, NEW c \in Checker, Alarm!ReadRows(c)
  PROVE  AlarmInv'
<1> DEFINE k == [check[c] EXCEPT !.at = "send", !.days = Alarm!LatestTwo, !.clean = TRUE]
<1>1. /\ check' = [check EXCEPT ![c] = k] /\ check[c].at = "rows"
      /\ UNCHANGED <<state, counted, mailed, fired, values, alarms, reported, takenBack, sendFaults>>
  BY DEF Alarm!ReadRows, Alarm!table
<1>2. AlarmTypes /\ check \in [Checker -> CheckRecords] /\ Reporting /\ Loop(check[c]) /\ Reports(check[c])
      /\ check[c] \in CheckRecords
  BY DEF AlarmInv, AlarmTypes, Loops, Reporting
<1>3. Alarm!LatestTwo \subseteq [day : Alarm!Day, v : Alarm!Value]
  <2>1. \A e \in Alarm!NonNull : [day |-> e, v |-> values[e]] \in [day : Alarm!Day, v : Alarm!Value]
    BY <1>2, DaysWithValue
  <2> QED
    BY <2>1 DEF Alarm!LatestTwo
<1>4. /\ k \in CheckRecords /\ k.at = "send" /\ k.listed = check[c].listed /\ k.todo = check[c].todo
      /\ k.marks = check[c].marks /\ k.days = Alarm!LatestTwo /\ k.mailing = check[c].mailing
  BY <1>2, <1>3 DEF CheckRecords
<1> HIDE DEF k
<1>5. /\ check'[c] = k /\ \A b \in Checker : b # c => check'[b] = check[b]
      /\ check' \in [Checker -> CheckRecords]
  BY <1>1, <1>2, <1>4
<1>6. check[c].mailing = {} /\ check[c].todo = check[c].listed /\ check[c].todo \subseteq Alert
  BY <1>1, <1>2 DEF Loop, CheckRecords
<1>7. \A a \in Alert : Alarm!Mailed(a)' = Alarm!Mailed(a)
  BY <1>1 DEF Alarm!Mailed, Alarm!Day
<1>8. ASSUME Alarm!LatestTwo # {}
      PROVE  \E m \in Nat :
               /\ IsLatest(m) /\ m <= Len(values) /\ m \in Alarm!NonNull /\ m \in Alarm!Day
               /\ DayOf(k) = m /\ \A a \in Alert : /\ Alarm!Crossed(a, k.days) <=> Alarm!Crossing(a, m)
                                                   /\ Alarm!Crossed(a, k.days) => PastFails(a, m)
                                                        /\ Alarm!Satisfies(a, values[m])
  <2>1. PICK m \in Nat : IsLatest(m)
    BY <1>2, <1>8, NothingRead, LatestExists
  <2>2. m \in Alarm!NonNull /\ m \in Alarm!Day /\ m <= Len(values)
    BY <1>2, <2>1, DaysWithValue DEF IsLatest
  <2>3. Alarm!Today(Alarm!LatestTwo).day = m
        /\ \A a \in Alert : Alarm!Crossed(a, Alarm!LatestTwo) <=>
              Alarm!Satisfies(a, values[m]) /\ PastFails(a, m)
    BY <1>2, <2>1, TodayRead
  <2>4. \A a \in Alert : Alarm!Crossing(a, m) <=>
           m \in Alarm!NonNull /\ Alarm!Satisfies(a, values[m]) /\ PastFails(a, m)
    BY <1>2, CrossingIs
  <2>5. DayOf(k) = m
    BY <1>4, <2>3 DEF DayOf
  <2> QED
    BY <1>4, <2>1, <2>2, <2>3, <2>4, <2>5
<1>9. \A a \in Alert : \A d : Alarm!Crossing(a, d)' <=> Alarm!Crossing(a, d)
  BY <1>1 DEF Alarm!Crossing, Alarm!NonNull, Alarm!Satisfies
<1>10. DayOf(check[c])' = DayOf(k) /\ (Alarm!LatestTwo # {} => DayOf(k) \in Alarm!Day)
  BY <1>5, <1>8 DEF DayOf
<1>11. Loop(check[c])'
  BY <1>4, <1>5, <1>6, <1>10 DEF Loop, Alarm!Day
<1>12. Reports(check[c])'
  <2>1. ASSUME Alarm!LatestTwo # {}
        PROVE  DayOf(k) \in DOMAIN values /\ \A a \in Alert : Alarm!Crossed(a, k.days) <=> Alarm!Crossing(a, DayOf(k))
    <3>1. PICK m \in Nat : m \in Alarm!NonNull /\ DayOf(k) = m
            /\ \A a \in Alert : Alarm!Crossed(a, k.days) <=> Alarm!Crossing(a, m)
      BY <1>8, <2>1
    <3> QED
      BY <3>1 DEF Alarm!NonNull
  <2>3. PICK d : d = DayOf(k) /\ d = DayOf(check'[c])
    BY <1>5
  <2>4. \A a \in Alert : Alarm!Crossing(a, d)' <=> Alarm!Crossing(a, d)
    BY <1>9
  <2>5. \A a \in check[c].todo : check[c].marks[a] # 0 => check[c].marks[a] \in Alarm!Mailed(a)'
    BY <1>2, <1>6, <1>7 DEF Reports
  <2>6. k.days # {} => d \in DOMAIN values'
          /\ \A a \in Alert : Alarm!Crossed(a, k.days) <=> Alarm!Crossing(a, d)'
    BY <1>1, <1>4, <2>1, <2>3, <2>4
  <2> QED
    BY <1>4, <1>5, <1>6, <2>3, <2>5, <2>6 DEF Reports
<1>13. AlarmTypes' /\ Loops' /\ Consent' /\ Reporting'
  BY <1>1, <1>2, <1>4, <1>5, <1>7, <1>11, <1>12, CheckMoves DEF AlarmTypes
<1>14. ASSUME Genuine PROVE Genuine'
  <2>1. ASSUME NEW a \in Alert, Alarm!Crossed(a, k.days) PROVE Alarm!Crossing(a, DayOf(k))
    BY <1>4, <1>8, <2>1 DEF Alarm!Crossed
  <2>2. ASSUME NEW b \in Checker, NEW a \in Alert, Alarm!Crossed(a, check'[b].days)
        PROVE  Alarm!Crossing(a, DayOf(check[b]))'
    <3>1. PICK d : d = DayOf(check'[b])
      OBVIOUS
    <3>2. Alarm!Crossing(a, d)
      BY <1>5, <1>14, <2>1, <2>2, <3>1 DEF Genuine
    <3>3. Alarm!Crossing(a, d)'
      BY <1>9, <3>2
    <3> QED
      BY <3>1, <3>3 DEF Alarm!Crossing, DayOf
  <2> QED
    BY <1>7, <1>9, <1>14, <2>2 DEF Genuine, Alarm!MailMeansCrossing, Alarm!Crossed
<1>15. ASSUME Alarm!OneChecker, Once PROVE Once'
  <2>1. PICK last \in [Alert -> Nat] :
          (\A a \in Alert : LastMail(last, a)) /\ \A b \in Checker : LoopAlone(last, check[b])
    BY <1>15 DEF Once
  <2>2. \A b \in Checker : b = c
    BY <1>15 DEF Alarm!OneChecker
  <2>3. ASSUME NEW a \in Alert PROVE LastMail(last, a)'
    BY <1>1, <1>4, <1>5, <2>1, <2>2 DEF LastMail, PastFails, Precedes, Alarm!NonNull, Alarm!Satisfies, Alarm!Day
  <2>4. ASSUME NEW a \in Alert, Alarm!Crossed(a, k.days)
        PROVE  /\ DayOf(k) <= Len(values') + takenBack' /\ PastFails(a, DayOf(k)) /\ last[a] <= DayOf(k)
    <3>1. PICK m \in Nat : IsLatest(m) /\ m <= Len(values) /\ m \in Alarm!NonNull /\ DayOf(k) = m
                           /\ PastFails(a, m) /\ Alarm!Satisfies(a, values[m])
      BY <1>4, <1>8, <2>4 DEF Alarm!Crossed
    <3>2. PastFails(a, last[a]) /\ last[a] \in Nat
      BY <2>1 DEF LastMail
    <3>3. ~Precedes(m, last[a])
      BY <3>1, <3>2 DEF PastFails
    <3>4. last[a] <= m
      BY <3>1, <3>2, <3>3 DEF Precedes, IsLatest
    <3>5. takenBack \in Nat /\ Len(values) \in Nat
      BY <1>2 DEF AlarmTypes
    <3> QED
      BY <1>1, <3>1, <3>4, <3>5
  <2>5. \A a \in Alert : \A d : PastFails(a, d)' <=> PastFails(a, d)
    BY <1>1 DEF PastFails, Precedes, Alarm!NonNull, Alarm!Satisfies
  <2>6. LoopAlone(last, check[c])'
    <3>1. PICK d : d = DayOf(k) /\ d = DayOf(check'[c])
      BY <1>5
    <3>2. ASSUME NEW a \in Alert, Alarm!Crossed(a, k.days)
          PROVE  d <= Len(values') + takenBack' /\ PastFails(a, d)' /\ last[a] <= d
      BY <2>4, <2>5, <3>1, <3>2
    <3>3. \A a \in check[c].todo : check[c].marks[a] = fired'[a]
      BY <1>1, <2>1 DEF LoopAlone
    <3> QED
      BY <1>4, <1>5, <1>6, <3>1, <3>2, <3>3 DEF LoopAlone, PastFails
  <2> QED
    BY <2>2, <2>3, <2>6 DEF Once
<1> QED
  BY <1>1, <1>13, <1>14, <1>15 DEF AlarmInv, Alarm!OneChecker

\* `continue': nothing to report, or the mark says that it was.
LEMMA SkipKeeps ==
  ASSUME Alarm!AlertsAssumption, AlarmInv, NEW c \in Checker, NEW a \in Alert, Alarm!Skip(c, a)
  PROVE  AlarmInv'
<1> DEFINE k == [check[c] EXCEPT !.todo = check[c].todo \ {a}]
<1>1. /\ check' = [check EXCEPT ![c] = k] /\ check[c].at = "send" /\ a \in check[c].todo
      /\ ~Alarm!Fires(c, a)
      /\ UNCHANGED <<state, counted, mailed, fired, values, alarms, reported, takenBack, sendFaults>>
  BY DEF Alarm!Skip, Alarm!table, Alarm!Passed
<1>2. AlarmTypes /\ check \in [Checker -> CheckRecords] /\ Reporting /\ Loop(check[c]) /\ Reports(check[c])
      /\ check[c] \in CheckRecords
  BY DEF AlarmInv, AlarmTypes, Loops, Reporting
<1>3. /\ k \in CheckRecords /\ k.at = "send" /\ k.listed = check[c].listed /\ k.todo = check[c].todo \ {a}
      /\ k.marks = check[c].marks /\ k.days = check[c].days /\ k.mailing = check[c].mailing
      /\ k.clean = check[c].clean
  BY <1>1, <1>2 DEF CheckRecords
<1> HIDE DEF k
<1>4. /\ check'[c] = k /\ \A b \in Checker : b # c => check'[b] = check[b]
      /\ check' \in [Checker -> CheckRecords] /\ \A b \in Checker : check'[b].days = check[b].days
  BY <1>1, <1>2, <1>3
<1>5. check[c].mailing = {} /\ check[c].todo \subseteq Alert
  BY <1>1, <1>2 DEF Loop, CheckRecords
<1>6. \A b \in Alert : Alarm!Mailed(b)' = Alarm!Mailed(b)
  BY <1>1 DEF Alarm!Mailed, Alarm!Day
<1>7. Loop(check[c])'
  BY <1>1, <1>2, <1>3, <1>4, <1>5 DEF Loop, DayOf, Alarm!Day
<1>8. ASSUME Alarm!Crossed(a, check[c].days) PROVE DayOf(check[c]) \in Alarm!Mailed(a)
  <2>1. check[c].marks[a] = DayOf(check[c])
    BY <1>1, <1>8 DEF Alarm!Fires, Alarm!MarkedSince, DayOf
  <2>2. DayOf(check[c]) \in Alarm!Day
    BY <1>2, <1>8 DEF Loop, Alarm!Crossed
  <2>3. DayOf(check[c]) # 0
    BY <2>2 DEF Alarm!Day
  <2> QED
    BY <1>1, <1>2, <2>1, <2>3 DEF Reports
<1>9. \A b \in Alert : \A d : Alarm!Crossing(b, d)' <=> Alarm!Crossing(b, d)
  BY <1>1 DEF Alarm!Crossing, Alarm!NonNull, Alarm!Satisfies
<1>10. Reports(check[c])'
  <2>1. PICK d : d = DayOf(check[c]) /\ d = DayOf(check'[c])
    BY <1>3, <1>4 DEF DayOf
  <2>2. check[c].listed \ k.todo \subseteq (check[c].listed \ check[c].todo) \cup {a}
        /\ check[c].listed \subseteq Alert
    BY <1>2, <1>3 DEF CheckRecords
  <2> QED
    BY <1>1, <1>2, <1>3, <1>4, <1>5, <1>6, <1>8, <1>9, <2>1, <2>2 DEF Reports
<1>11. AlarmTypes' /\ Loops' /\ Consent' /\ Reporting'
  BY <1>1, <1>2, <1>3, <1>4, <1>6, <1>7, <1>10, CheckMoves DEF AlarmTypes
<1>12. ASSUME Genuine PROVE Genuine'
  BY <1>4, <1>6, <1>9, <1>12 DEF Genuine, Alarm!MailMeansCrossing, DayOf
<1>13. ASSUME Alarm!OneChecker, Once PROVE Once'
  <2>1. PICK last \in [Alert -> Nat] :
          (\A b \in Alert : LastMail(last, b)) /\ \A b \in Checker : LoopAlone(last, check[b])
    BY <1>13 DEF Once
  <2>2. \A b \in Checker : b = c
    BY <1>13 DEF Alarm!OneChecker
  <2>3. \A b \in Alert : \A d : PastFails(b, d)' <=> PastFails(b, d)
    BY <1>1 DEF PastFails, Precedes, Alarm!NonNull, Alarm!Satisfies
  <2>4. ASSUME NEW b \in Alert PROVE LastMail(last, b)'
    BY <1>1, <1>3, <1>4, <2>1, <2>2, <2>3 DEF LastMail, Alarm!Day
  <2>5. LoopAlone(last, check[c])'
    <3>1. PICK d : d = DayOf(check[c]) /\ d = DayOf(check'[c])
      BY <1>3, <1>4 DEF DayOf
    <3>2. ASSUME NEW b \in Alert, Alarm!Crossed(b, check[c].days)
          PROVE  d <= Len(values') + takenBack' /\ PastFails(b, d)'
                 /\ (b \in check[c].todo => last[b] <= d)
      BY <1>1, <2>1, <2>3, <3>1, <3>2 DEF LoopAlone
    <3>3. \A b \in check[c].todo : check[c].marks[b] = fired'[b]
      BY <1>1, <2>1 DEF LoopAlone
    <3>4. k.todo \subseteq check[c].todo
      BY <1>3
    <3> QED
      BY <1>3, <1>4, <1>5, <3>1, <3>2, <3>3, <3>4 DEF LoopAlone, PastFails
  <2> QED
    BY <2>2, <2>4, <2>5 DEF Once
<1> QED
  BY <1>1, <1>11, <1>12, <1>13 DEF AlarmInv, Alarm!OneChecker

\* A mail of a crossing that is not marked: of a day after the last mail.
LEMMA SendKeeps ==
  ASSUME Alarm!AlertsAssumption, AlarmInv, NEW c \in Checker, NEW a \in Alert,
         NEW o \in Alarm!Outcomes, Alarm!Send(c, a, o)
  PROVE  AlarmInv'
<1> DEFINE k == IF o = "sent" THEN [check[c] EXCEPT !.at = "mark", !.mailing = {a}]
                ELSE [check[c] EXCEPT !.todo = check[c].todo \ {a}, !.clean = FALSE]
           t == DayOf(check[c])
<1>1. /\ check' = [check EXCEPT ![c] = k] /\ check[c].at = "send" /\ a \in check[c].todo
      /\ Alarm!Crossed(a, check[c].days) /\ check[c].marks[a] # t
      /\ alarms' = [alarms EXCEPT ![a][t] = IF o # "refused" THEN @ + 1 ELSE @]
      /\ UNCHANGED <<state, counted, mailed, fired, values, reported, takenBack>>
  BY DEF Alarm!Send, Alarm!table, Alarm!Passed, Alarm!Returns, Alarm!Delivered, Alarm!Fires,
         Alarm!MarkedSince, DayOf
<1>2. AlarmTypes /\ check \in [Checker -> CheckRecords] /\ Reporting /\ Loop(check[c]) /\ Reports(check[c])
      /\ check[c] \in CheckRecords
  BY DEF AlarmInv, AlarmTypes, Loops, Reporting
<1>3. sendFaults' \in Nat /\ (sendFaults' = 0 => sendFaults = 0 /\ o = "sent")
  BY <1>2 DEF Alarm!Send, Alarm!Fault, AlarmTypes
<1>4. t \in Alarm!Day /\ t # 0
  <2>1. t \in Alarm!Day
    BY <1>1, <1>2 DEF Loop, Alarm!Crossed
  <2> QED
    BY <2>1 DEF Alarm!Day
<1>5. /\ k \in CheckRecords /\ k.listed = check[c].listed
      /\ k.marks = check[c].marks /\ k.days = check[c].days
      /\ o = "sent" => k.at = "mark" /\ k.todo = check[c].todo /\ k.mailing = {a} /\ k.clean = check[c].clean
      /\ o # "sent" => k.at = "send" /\ k.todo = check[c].todo \ {a} /\ k.mailing = check[c].mailing
                       /\ k.clean = FALSE
  BY <1>1, <1>2 DEF CheckRecords
<1> HIDE DEF k
<1>6. /\ check'[c] = k /\ \A b \in Checker : b # c => check'[b] = check[b]
      /\ check' \in [Checker -> CheckRecords] /\ \A b \in Checker : check'[b].days = check[b].days
  BY <1>1, <1>2, <1>5
<1>7. check[c].mailing = {} /\ check[c].todo \subseteq Alert /\ check[c].todo \subseteq check[c].listed
  BY <1>1, <1>2 DEF Loop, CheckRecords
<1>8. DayOf(k) = t /\ DayOf(check[c])' = t
  BY <1>5, <1>6 DEF DayOf
<1> HIDE DEF t
<1>9. alarms' \in [Alert -> [Alarm!Day -> Nat]]
      /\ \A b \in Alert, d \in Alarm!Day : alarms'[b][d] =
           IF b = a /\ d = t /\ o # "refused" THEN alarms[b][d] + 1 ELSE alarms[b][d]
  BY <1>1, <1>2, <1>4 DEF AlarmTypes
<1>10. /\ \A b \in Alert : Alarm!Mailed(b) \subseteq Alarm!Mailed(b)'
       /\ \A b \in Alert : \A d \in Alarm!Mailed(b)' : d \in Alarm!Mailed(b) \/ (b = a /\ d = t)
       /\ o = "sent" => t \in Alarm!Mailed(a)'
  <2>1. alarms \in [Alert -> [Alarm!Day -> Nat]] /\ Alarm!Day' = Alarm!Day
    BY <1>2 DEF AlarmTypes, Alarm!Day
  <2>2. \A b \in Alert : Alarm!Mailed(b)' = {d \in Alarm!Day : alarms'[b][d] > 0}
    BY <2>1 DEF Alarm!Mailed
  <2> QED
    BY <1>4, <1>9, <2>1, <2>2 DEF Alarm!Mailed
<1>11. Loop(check[c])'
  BY <1>1, <1>2, <1>4, <1>5, <1>6, <1>7, <1>8 DEF Loop, Alarm!Day
<1>12. \A b \in Alert : \A d : Alarm!Crossing(b, d)' <=> Alarm!Crossing(b, d)
  BY <1>1 DEF Alarm!Crossing, Alarm!NonNull, Alarm!Satisfies
<1>13. Reports(check[c])'
  <2>1. check[c].listed \subseteq Alert
    BY <1>2 DEF CheckRecords
  <2>2. PICK d : d = t /\ d = DayOf(check[c]) /\ d = DayOf(check'[c])
    BY <1>6, <1>8 DEF DayOf, t
  <2>3. \A b \in k.mailing : d \in Alarm!Mailed(b)'
    BY <1>5, <1>7, <1>10, <2>2
  <2>4. \A b \in k.todo : k.marks[b] # 0 => k.marks[b] \in Alarm!Mailed(b)'
    BY <1>2, <1>5, <1>7, <1>10 DEF Reports
  <2>5. ASSUME k.clean PROVE o = "sent" /\ check[c].clean /\ check[c].days # {}
    BY <1>1, <1>5, <2>5 DEF Alarm!Crossed
  <2>6. ASSUME k.clean
        PROVE  /\ d \in DOMAIN values'
               /\ \A b \in Alert : Alarm!Crossed(b, k.days) <=> Alarm!Crossing(b, d)'
               /\ \A b \in k.listed \ k.todo : Alarm!Crossed(b, k.days) => d \in Alarm!Mailed(b)'
    BY <1>1, <1>2, <1>5, <1>10, <1>12, <2>1, <2>2, <2>5, <2>6 DEF Reports
  <2> QED
    BY <1>6, <2>2, <2>3, <2>4, <2>6 DEF Reports
<1>14. AlarmTypes' /\ Loops' /\ Consent' /\ Reporting'
  <2>1. \A b \in Alert : Alarm!Mailed(b)' # Alarm!Mailed(b) => b \in check[c].listed
    BY <1>1, <1>7, <1>10
  <2> QED
    BY <1>1, <1>2, <1>3, <1>5, <1>6, <1>9, <1>10, <1>11, <1>13, <2>1, CheckMoves DEF AlarmTypes
<1>15. ASSUME Genuine PROVE Genuine'
  <2>1. Alarm!Crossing(a, t)
    BY <1>1, <1>15 DEF Genuine, t
  <2> QED
    BY <1>6, <1>10, <1>12, <1>15, <2>1 DEF Genuine, Alarm!MailMeansCrossing, DayOf
<1>16. ASSUME Alarm!OneChecker, Once, o = "sent" PROVE Once'
  <2>1. PICK last \in [Alert -> Nat] :
          (\A b \in Alert : LastMail(last, b)) /\ \A b \in Checker : LoopAlone(last, check[b])
    BY <1>16 DEF Once
  <2>2. \A b \in Checker : b = c
    BY <1>16 DEF Alarm!OneChecker
  <2>3. \A b \in Alert : \A d : PastFails(b, d)' <=> PastFails(b, d)
    BY <1>1 DEF PastFails, Precedes, Alarm!NonNull, Alarm!Satisfies
  <2>4. /\ last[a] <= t /\ t <= Len(values) + takenBack /\ PastFails(a, t)
        /\ check[c].marks[a] = fired[a] /\ fired[a] = last[a] /\ t \in Nat
    <3>1. fired[a] = last[a]
      BY <1>7, <2>1, <2>2 DEF LastMail
    <3> QED
      BY <1>1, <1>4, <2>1, <3>1 DEF LoopAlone, t, Alarm!Day
  <2>5. last[a] < t /\ alarms[a][t] = 0
    <3>1. last[a] < t
      BY <1>1, <2>4 DEF t
    <3> QED
      BY <1>4, <2>1, <2>4, <3>1 DEF LastMail
  <2>6. PICK next \in [Alert -> Nat] : next[a] = t /\ \A b \in Alert : b # a => next[b] = last[b]
    <3>1. [last EXCEPT ![a] = t] \in [Alert -> Nat]
      BY <2>1, <2>4
    <3> QED
      BY <2>1, <3>1
  <2>7. (\A d \in Alarm!Day : d \in Nat) /\ \A b \in Alert, d \in Alarm!Day : alarms[b][d] \in Nat
    <3>1. \A d \in Alarm!Day : d \in Nat
      BY DEF Alarm!Day
    <3>2. alarms \in [Alert -> [Alarm!Day -> Nat]]
      BY <1>2 DEF AlarmTypes
    <3> QED
      BY <3>1, <3>2
  <2>8. ASSUME NEW b \in Alert PROVE LastMail(next, b)'
    <3>1. CASE b = a
      <4>1. \A d \in Alarm!Day : alarms'[a][d] <= 1 /\ (alarms'[a][d] # 0 => d <= t)
        <5>1. \A d \in Alarm!Day : alarms[a][d] <= 1 /\ (alarms[a][d] # 0 => d <= last[a])
          BY <2>1 DEF LastMail
        <5>2. ASSUME NEW d \in Alarm!Day
              PROVE  alarms'[a][d] <= 1 /\ (alarms'[a][d] # 0 => d <= t)
          <6>1. d \in Nat /\ last[a] \in Nat /\ alarms[a][d] \in Nat
            BY <2>1, <2>7
          <6> QED
            BY <1>9, <2>4, <2>5, <5>1, <6>1
        <5> QED
          BY <5>2
      <4>2. a \in check'[c].mailing
        BY <1>5, <1>6, <1>16
      <4> QED
        BY <1>1, <2>3, <2>4, <2>6, <3>1, <4>1, <4>2 DEF LastMail, Alarm!Day
    <3>2. CASE b # a
      <4>1. \A d \in Alarm!Day : alarms'[b][d] = alarms[b][d]
        BY <1>9, <3>2
      <4> QED
        BY <1>1, <1>7, <2>1, <2>2, <2>3, <2>6, <3>2, <4>1 DEF LastMail, Alarm!Day
    <3> QED
      BY <3>1, <3>2
  <2>9. LoopAlone(next, check[c])'
    <3>1. PICK d : d = t /\ d = DayOf(check[c]) /\ d = DayOf(check'[c])
      BY <1>6, <1>8 DEF DayOf, t
    <3>2. /\ check'[c].mailing = {a} /\ check'[c].todo = check[c].todo
          /\ check'[c].marks = check[c].marks /\ check'[c].days = check[c].days
      BY <1>5, <1>6, <1>16
    <3>3. ASSUME NEW b \in Alert, Alarm!Crossed(b, check[c].days)
          PROVE  d <= Len(values') + takenBack' /\ PastFails(b, d)'
                 /\ (b \in check[c].todo => next[b] <= d)
      <4>1. d <= Len(values) + takenBack /\ PastFails(b, d) /\ (b \in check[c].todo => last[b] <= d)
        BY <2>1, <3>1, <3>3 DEF LoopAlone
      <4> QED
        BY <1>1, <2>3, <2>4, <2>6, <3>1, <4>1
    <3>4. \A b \in check[c].todo : check[c].marks[b] = fired'[b]
      BY <1>1, <2>1 DEF LoopAlone
    <3> QED
      BY <2>6, <3>1, <3>2, <3>3, <3>4 DEF LoopAlone, PastFails
  <2> QED
    BY <2>2, <2>6, <2>8, <2>9 DEF Once
<1> QED
  BY <1>1, <1>3, <1>14, <1>15, <1>16 DEF AlarmInv, Alarm!OneChecker

\* The mark is set to the day of the mail, unless the update fails.
LEMMA MarkKeeps ==
  ASSUME Alarm!AlertsAssumption, AlarmInv, NEW c \in Checker, NEW fails \in BOOLEAN,
         Alarm!Mark(c, fails)
  PROVE  AlarmInv'
<1> DEFINE k == [check[c] EXCEPT !.at = "send", !.mailing = {}, !.todo = check[c].todo \ check[c].mailing]
           t == DayOf(check[c])
<1>1. /\ check' = [check EXCEPT ![c] = k] /\ check[c].at = "mark"
      /\ UNCHANGED <<state, counted, mailed, values, alarms, reported, takenBack>>
      /\ fails => fired' = fired /\ sendFaults' = sendFaults + 1
      /\ ~fails => sendFaults' = sendFaults /\ fired' = [a \in Alert |-> IF a \in check[c].mailing THEN t ELSE fired[a]]
  BY DEF Alarm!Mark, Alarm!table, DayOf
<1>2. AlarmTypes /\ check \in [Checker -> CheckRecords] /\ Reporting /\ Loop(check[c]) /\ Reports(check[c])
      /\ check[c] \in CheckRecords
  BY DEF AlarmInv, AlarmTypes, Loops, Reporting
<1>3. sendFaults' \in Nat /\ (sendFaults' = 0 => sendFaults = 0 /\ ~fails)
  BY <1>1, <1>2 DEF AlarmTypes
<1>4. /\ k \in CheckRecords /\ k.listed = check[c].listed /\ k.at = "send" /\ k.mailing = {}
      /\ k.marks = check[c].marks /\ k.days = check[c].days /\ k.clean = check[c].clean
      /\ k.todo = check[c].todo \ check[c].mailing
  BY <1>1, <1>2 DEF CheckRecords
<1> HIDE DEF k
<1>5. /\ check'[c] = k /\ \A b \in Checker : b # c => check'[b] = check[b]
      /\ check' \in [Checker -> CheckRecords] /\ \A b \in Checker : check'[b].days = check[b].days
  BY <1>1, <1>2, <1>4
<1>6. check[c].mailing \subseteq check[c].todo /\ check[c].todo \subseteq check[c].listed
      /\ check[c].listed \subseteq Alert
  BY <1>2 DEF Loop, CheckRecords
<1>7. \A a \in check[c].mailing : Alarm!Crossed(a, check[c].days) /\ t \in Alarm!Day /\ t \in Alarm!Mailed(a)
  BY <1>2 DEF Loop, Reports, Alarm!Crossed
<1> HIDE DEF t
<1>8. /\ fired' \in [Alert -> Int]
      /\ \A a \in Alert : fired'[a] = IF ~fails /\ a \in check[c].mailing THEN t ELSE fired[a]
  <2>1. \A a \in check[c].mailing : t \in Int
    BY <1>7 DEF Alarm!Day
  <2> QED
    BY <1>1, <1>2, <2>1 DEF AlarmTypes
<1>9. \A a \in Alert : Alarm!Mailed(a)' = Alarm!Mailed(a)
  BY <1>1 DEF Alarm!Mailed, Alarm!Day
<1>10. \A b \in Alert : \A d : Alarm!Crossing(b, d)' <=> Alarm!Crossing(b, d)
  BY <1>1 DEF Alarm!Crossing, Alarm!NonNull, Alarm!Satisfies
<1>11. PICK d : d = t /\ d = DayOf(check[c]) /\ d = DayOf(check'[c])
  BY <1>4, <1>5 DEF DayOf, t
<1>12. Loop(check[c])'
  BY <1>2, <1>4, <1>5, <1>6, <1>11 DEF Loop, DayOf, Alarm!Day
<1>13. Reports(check[c])'
  <2>1. check[c].listed \ k.todo = (check[c].listed \ check[c].todo) \cup check[c].mailing
    BY <1>4, <1>6
  <2>2. ASSUME k.clean, k.days # {}
        PROVE  /\ d \in DOMAIN values'
               /\ \A b \in Alert : Alarm!Crossed(b, k.days) <=> Alarm!Crossing(b, d)'
               /\ \A b \in k.listed \ k.todo : Alarm!Crossed(b, k.days) => d \in Alarm!Mailed(b)'
    BY <1>1, <1>2, <1>4, <1>6, <1>7, <1>9, <1>10, <1>11, <2>1, <2>2 DEF Reports
  <2>3. \A b \in k.todo : k.marks[b] # 0 => k.marks[b] \in Alarm!Mailed(b)'
    BY <1>2, <1>4, <1>6, <1>9 DEF Reports
  <2> QED
    BY <1>4, <1>5, <1>11, <2>2, <2>3 DEF Reports
<1>14. AlarmTypes' /\ Loops' /\ Consent' /\ Reporting'
  <2>1. \A a \in Alert : fired'[a] = fired[a] \/ fired'[a] \in Alarm!Mailed(a)'
    BY <1>7, <1>8, <1>9
  <2> QED
    BY <1>1, <1>2, <1>3, <1>4, <1>5, <1>8, <1>9, <1>12, <1>13, <2>1, CheckMoves DEF AlarmTypes
<1>15. ASSUME Genuine PROVE Genuine'
  BY <1>5, <1>9, <1>10, <1>15 DEF Genuine, Alarm!MailMeansCrossing, DayOf
<1>16. ASSUME Alarm!OneChecker, Once, ~fails PROVE Once'
  <2>1. PICK last \in [Alert -> Nat] :
          (\A b \in Alert : LastMail(last, b)) /\ \A b \in Checker : LoopAlone(last, check[b])
    BY <1>16 DEF Once
  <2>2. \A b \in Checker : b = c
    BY <1>16 DEF Alarm!OneChecker
  <2>3. \A b \in Alert : \A e : PastFails(b, e)' <=> PastFails(b, e)
    BY <1>1 DEF PastFails, Precedes, Alarm!NonNull, Alarm!Satisfies
  <2>4. ASSUME NEW b \in Alert PROVE fired'[b] = last[b]
    <3>1. CASE b \in check[c].mailing
      BY <1>8, <1>16, <2>1, <3>1 DEF LoopAlone, t
    <3>2. CASE b \notin check[c].mailing
      BY <1>8, <2>1, <2>2, <3>2 DEF LastMail
    <3> QED
      BY <3>1, <3>2
  <2>5. ASSUME NEW b \in Alert PROVE LastMail(last, b)'
    BY <1>1, <2>1, <2>3, <2>4 DEF LastMail, Alarm!Day
  <2>6. LoopAlone(last, check[c])'
    <3>1. ASSUME NEW b \in Alert, Alarm!Crossed(b, check[c].days)
          PROVE  d <= Len(values') + takenBack' /\ PastFails(b, d)'
                 /\ (b \in check[c].todo => last[b] <= d)
      BY <1>1, <1>11, <2>1, <2>3, <3>1 DEF LoopAlone
    <3>2. ASSUME NEW b \in k.todo PROVE check[c].marks[b] = fired'[b]
      <4>1. b \in check[c].todo /\ b \notin check[c].mailing /\ b \in Alert
        BY <1>4, <1>6, <3>2
      <4> QED
        BY <1>8, <2>1, <4>1 DEF LoopAlone
    <3>3. k.todo \subseteq check[c].todo
      BY <1>4
    <3> QED
      BY <1>4, <1>5, <1>11, <3>1, <3>2, <3>3 DEF LoopAlone, PastFails
  <2> QED
    BY <2>2, <2>5, <2>6 DEF Once
<1> QED
  BY <1>1, <1>3, <1>14, <1>15, <1>16 DEF AlarmInv, Alarm!OneChecker

\* The check is through: all it listed is reported, if it was in time.
LEMMA DoneKeeps ==
  ASSUME Alarm!AlertsAssumption, AlarmInv, NEW c \in Checker, Alarm!Done(c)
  PROVE  AlarmInv'
<1>1. /\ check' = [check EXCEPT ![c] = Alarm!Idle] /\ check[c].at = "send" /\ check[c].todo = {}
      /\ UNCHANGED <<state, counted, mailed, fired, values, alarms, takenBack, sendFaults>>
      /\ \A r \in reported' : r \in reported \/
           /\ check[c].clean /\ check[c].days # {} /\ r \in check[c].listed \X {DayOf(check[c])}
  BY DEF Alarm!Done, Alarm!table, DayOf
<1>2. AlarmTypes /\ check \in [Checker -> CheckRecords] /\ Reporting /\ Loop(check[c]) /\ Reports(check[c])
      /\ check[c] \in CheckRecords
  BY DEF AlarmInv, AlarmTypes, Loops, Reporting
<1>3. /\ Alarm!Idle \in CheckRecords /\ Alarm!Idle.at = "idle" /\ Alarm!Idle.listed = {}
      /\ Alarm!Idle.todo = {} /\ Alarm!Idle.mailing = {} /\ Alarm!Idle.days = {}
  BY DEF Alarm!Idle, CheckRecords
<1>4. /\ check'[c] = Alarm!Idle /\ \A b \in Checker : b # c => check'[b] = check[b]
      /\ check' \in [Checker -> CheckRecords]
  BY <1>1, <1>2, <1>3
<1>5. \A a \in Alert : Alarm!Mailed(a)' = Alarm!Mailed(a)
  BY <1>1 DEF Alarm!Mailed, Alarm!Day
<1>6. \A b \in Alert : \A d : Alarm!Crossing(b, d)' <=> Alarm!Crossing(b, d)
  BY <1>1 DEF Alarm!Crossing, Alarm!NonNull, Alarm!Satisfies
<1>7. Loop(check[c])' /\ Reports(check[c])'
  BY <1>3, <1>4 DEF Loop, Reports
<1>8. ASSUME NEW r \in reported'
      PROVE  r \in Alert \X Alarm!Day /\ (r \in reported \/
               (r[2] \in DOMAIN values /\ (Alarm!Crossing(r[1], r[2]) => r[2] \in Alarm!Mailed(r[1])')))
  <2>1. CASE r \in reported
    BY <1>2, <2>1 DEF AlarmTypes
  <2>2. CASE check[c].clean /\ check[c].days # {} /\ r \in check[c].listed \X {DayOf(check[c])}
    <3>1. r = <<r[1], r[2]>> /\ r[1] \in check[c].listed /\ r[1] \in Alert /\ r[2] = DayOf(check[c])
      BY <1>2, <2>2 DEF CheckRecords
    <3>2. DayOf(check[c]) \in Alarm!Day
      BY <1>2, <2>2 DEF Loop
    <3>3. /\ DayOf(check[c]) \in DOMAIN values
          /\ Alarm!Crossing(r[1], DayOf(check[c])) => DayOf(check[c]) \in Alarm!Mailed(r[1])
      BY <1>1, <1>2, <2>2, <3>1 DEF Reports
    <3> QED
      BY <1>5, <3>1, <3>2, <3>3
  <2> QED
    BY <1>1, <2>1, <2>2
<1>9. AlarmTypes' /\ Loops' /\ Consent' /\ Reporting'
  BY <1>1, <1>2, <1>3, <1>4, <1>5, <1>7, <1>8, CheckMoves DEF AlarmTypes
<1>10. ASSUME Genuine PROVE Genuine'
  BY <1>3, <1>4, <1>5, <1>6, <1>10 DEF Genuine, Alarm!MailMeansCrossing, DayOf, Alarm!Crossed
<1>11. ASSUME Alarm!OneChecker, Once PROVE Once'
  <2>1. PICK last \in [Alert -> Nat] :
          (\A b \in Alert : LastMail(last, b)) /\ \A b \in Checker : LoopAlone(last, check[b])
    BY <1>11 DEF Once
  <2>2. (\A b \in Checker : b = c) /\ check[c].mailing = {}
    BY <1>1, <1>2, <1>11 DEF Alarm!OneChecker, Loop
  <2>3. ASSUME NEW b \in Alert PROVE LastMail(last, b)'
    BY <1>1, <2>1, <2>2 DEF LastMail, PastFails, Precedes, Alarm!NonNull, Alarm!Satisfies, Alarm!Day
  <2>4. LoopAlone(last, check[c])'
    BY <1>3, <1>4 DEF LoopAlone, Alarm!Crossed
  <2> QED
    BY <2>2, <2>3, <2>4 DEF Once
<1> QED
  BY <1>1, <1>9, <1>10, <1>11 DEF AlarmInv, Alarm!OneChecker

\* A restart takes the checks, and leaves the mails and the marks.
LEMMA RestartKeeps ==
  ASSUME Alarm!AlertsAssumption, AlarmInv, Alarm!Crash
  PROVE  AlarmInv'
<1>1. /\ check' = [c \in Checker |-> Alarm!Idle] /\ sendFaults' = sendFaults + 1
      /\ UNCHANGED <<state, counted, mailed, fired, values, alarms, reported, takenBack>>
  BY DEF Alarm!Crash, Alarm!table
<1>2. AlarmTypes /\ Reporting /\ sendFaults \in Nat
  BY DEF AlarmInv, AlarmTypes
<1>3. /\ Alarm!Idle \in CheckRecords /\ Alarm!Idle.at = "idle" /\ Alarm!Idle.listed = {}
      /\ Alarm!Idle.todo = {} /\ Alarm!Idle.mailing = {} /\ Alarm!Idle.days = {}
  BY DEF Alarm!Idle, CheckRecords
<1>4. \A c \in Checker : check'[c] = Alarm!Idle
  BY <1>1
<1>5. \A a \in Alert : Alarm!Mailed(a)' = Alarm!Mailed(a)
  BY <1>1 DEF Alarm!Mailed, Alarm!Day
<1>6. \A b \in Alert : \A d : Alarm!Crossing(b, d)' <=> Alarm!Crossing(b, d)
  BY <1>1 DEF Alarm!Crossing, Alarm!NonNull, Alarm!Satisfies
<1>7. AlarmTypes'
  BY <1>1, <1>2, <1>3 DEF AlarmTypes, CheckRecords, Alarm!Day, Alarm!Value
<1>8. Loops' /\ (\A c \in Checker : Reports(check[c])')
  BY <1>3, <1>4 DEF Loops, Loop, Reports
<1>9. Consent'
  BY <1>1, <1>3, <1>4, <1>5 DEF AlarmInv, Consent
<1>10. Reporting'
  <2>1. \A r \in reported : r[1] \in Alert
    BY <1>2 DEF AlarmTypes
  <2> QED
    BY <1>1, <1>2, <1>5, <1>6, <1>8, <2>1 DEF Reporting, Alarm!CrossingsReported
<1>11. Genuine => Genuine'
  BY <1>3, <1>4, <1>5, <1>6 DEF Genuine, Alarm!MailMeansCrossing, DayOf, Alarm!Crossed
<1> QED
  BY <1>1, <1>2, <1>7, <1>8, <1>9, <1>10, <1>11 DEF AlarmInv

\* Every step is one of these.
LEMMA AlarmNext ==
  ASSUME Alarm!AlertsAssumption, AlarmInv, [Alarm!Next]_(Alarm!vars)
  PROVE  AlarmInv'
<1>1. ASSUME NEW a \in Alert, Alarm!Count(a) \/ Alarm!Confirm(a) \/ Alarm!Unsubscribe(a) PROVE AlarmInv'
  <2>1. UNCHANGED <<fired, values, check, alarms, reported, takenBack>>
    BY <1>1 DEF Alarm!Count, Alarm!Confirm, Alarm!Unsubscribe
  <2> QED
    BY <1>1, <2>1, RoutesKeep
<1>2. ASSUME NEW a \in Alert, NEW o \in Alarm!Outcomes, Alarm!Create(a, o) PROVE AlarmInv'
  <2>1. UNCHANGED <<fired, values, check, alarms, reported, takenBack>>
    BY <1>2 DEF Alarm!Create
  <2> QED
    BY <1>2, <2>1, RoutesKeep
<1>3. CASE UNCHANGED Alarm!vars
  BY <1>3, RoutesKeep DEF Alarm!vars
<1>4. ASSUME NEW c \in Checker, Alarm!ReadAlerts(c) \/ Alarm!ReadRows(c) \/ Alarm!Done(c) PROVE AlarmInv'
  BY <1>4, ReadAlertsKeeps, ReadRowsKeeps, DoneKeeps
<1>5. ASSUME NEW c \in Checker, NEW a \in Alert,
             Alarm!Skip(c, a) \/ \E o \in Alarm!Outcomes : Alarm!Send(c, a, o)
      PROVE  AlarmInv'
  BY <1>5, SkipKeeps, SendKeeps
<1>6. ASSUME NEW c \in Checker, NEW fails \in BOOLEAN, Alarm!Mark(c, fails) PROVE AlarmInv'
  BY <1>6, MarkKeeps
<1> QED
  BY <1>1, <1>2, <1>3, <1>4, <1>5, <1>6, FinalizeKeeps, RewindKeeps, RestartKeeps DEF Alarm!Next

\* Whatever fails and however checks overlap, mail goes to the confirmed and a check
\* that went through in time left no crossing out; what is mailed is a crossing,
\* until a day is rewound, and one checker that never fails mails it once, also when
\* its day is rewound and finalized again (checkAlerts of alerts.js).
THEOREM CrossingsAlwaysMailed ==
  ASSUME Alarm!AlertsAssumption
  PROVE  Alarm!Spec => []Alarm!CrossingsMailed
<1>1. Alarm!Init => AlarmInv
  BY AlarmInit
<1>2. AlarmInv /\ [Alarm!Next]_(Alarm!vars) => AlarmInv'
  BY AlarmNext
<1>3. AlarmInv => Alarm!CrossingsMailed
  <2> SUFFICES ASSUME AlarmInv PROVE Alarm!CrossingsMailed
    OBVIOUS
  <2>1. Alarm!ConsentFirst /\ Alarm!CrossingsReported /\ (takenBack = 0 => Alarm!MailMeansCrossing)
    BY DEF AlarmInv, Consent, Reporting, Genuine, Alarm!ConsentFirst
  <2>2. Once => Alarm!OncePerCrossing
    BY DEF Once, LastMail, Alarm!OncePerCrossing
  <2> QED
    BY <2>1, <2>2 DEF AlarmInv, Alarm!CrossingsMailed
<1> QED
  BY <1>1, <1>2, <1>3, PTL DEF Alarm!Spec

---------------------------------------------------------------------------
(* ExplorerPage, for any number of routes, pages, polls and searches.      *)

CONSTANTS Views, Ids, TxCount, TxPage, PendingPolls, MaxNav, MaxSearches
VARIABLES route, page, shown, err, effect, mount, flight, timers, searches, box, busy
Screen == INSTANCE ExplorerPage

PageNumbers == {p \in Nat : p * TxPage < TxCount}
Requests == [effect : Nat, mount : Nat, view : Views, id : Ids \cup {0}, page : PageNumbers,
             attempt : 0..PendingPolls]
AskedNow == {f \in flight : f.effect = effect}

\* Who asked before the route changed is known by the effect, who is of another
\* view by the mount; and a page that was asked for exists.
ScreenTypes ==
  /\ route \in Screen!Routes /\ page \in PageNumbers
  /\ effect \in Nat /\ mount \in Nat /\ box \in Nat /\ busy \in BOOLEAN
  /\ flight \subseteq Requests /\ timers \subseteq Requests
  /\ searches \subseteq [box : Nat, to : Screen!Routes]

Asked(f) ==
  /\ f.effect <= effect /\ f.mount <= mount
  /\ f.mount = mount => f.view = route.view
  /\ f.effect = effect => f.mount = mount /\ f.id = route.id

ScreenInv ==
  /\ ScreenTypes /\ \A f \in flight \cup timers : Asked(f)
  /\ shown # Screen!Null => shown.page \in PageNumbers
  /\ Screen!ShownIsTheRoute
  /\ \A t \in timers : t.effect = effect
  /\ AskedNow \cap timers = {} /\ \A f, g \in AskedNow \cup timers : f = g
  /\ Screen!BusyIsASearch /\ \A s \in searches : s.box <= box

\* Sets without two elements.
LEMMA AtMostOne ==
  ASSUME NEW S, NEW T, S \cap T = {}, \A x, y \in S \cup T : x = y
  PROVE  Cardinality(S) + Cardinality(T) <= 1
<1>1. ASSUME NEW x \in S \cup T PROVE Cardinality(S) + Cardinality(T) <= 1
  <2>1. (S = {x} /\ T = {}) \/ (S = {} /\ T = {x})
    OBVIOUS
  <2>2. Cardinality({x}) = 1 /\ Cardinality({}) = 0
    BY FS_EmptySet, FS_Singleton
  <2> QED
    BY <2>1, <2>2
<1>2. CASE S \cup T = {}
  BY <1>2, FS_EmptySet
<1> QED
  BY <1>1, <1>2

\* The first request of a view is of its first page.
LEMMA ScreenInit == ASSUME Screen!PageAssumption, Screen!Init PROVE ScreenInv
<1>1. /\ route \in Screen!Routes /\ page = 0 /\ shown = Screen!Null /\ effect = 1 /\ mount = 1
      /\ flight = {Screen!Request(route, 0, 1, 1)} /\ timers = {} /\ searches = {} /\ box = 1 /\ busy = FALSE
  BY DEF Screen!Init
<1>2. 0 \in PageNumbers /\ PendingPolls \in Nat
  BY DEF PageNumbers, Screen!PageAssumption
<1>3. route.view \in Views /\ route.id \in Ids \cup {0}
  BY <1>1 DEF Screen!Routes
<1>4. Screen!Request(route, 0, 1, 1) \in Requests
  BY <1>2, <1>3 DEF Requests, Screen!Request
<1>5. ScreenTypes
  BY <1>1, <1>2, <1>4 DEF ScreenTypes
<1>6. \A f \in flight : Asked(f)
  BY <1>1 DEF Asked, Screen!Request
<1> QED
  BY <1>1, <1>5, <1>6 DEF ScreenInv, AskedNow, Screen!ShownIsTheRoute, Screen!BusyIsASearch

\* The views of the routes.
LEMMA RouteViews == \A r \in Screen!Routes : r.view \in Views /\ r.id \in Ids \cup {0}
BY DEF Screen!Routes

\* A new effect: what was under way is of an older one.
LEMMA EffectBegins ==
  ASSUME Screen!PageAssumption, ScreenInv, NEW r \in Screen!Routes, NEW p \in PageNumbers,
         route' = r, page' = p, effect' = effect + 1, mount' \in {mount, mount + 1},
         mount' = mount => r.view = route.view,
         timers' = {}, flight' = flight \cup {Screen!Request(r, p, effect', mount')}
  PROVE  /\ flight' \subseteq Requests /\ \A f \in flight' : Asked(f)'
         /\ (AskedNow \cap timers = {})' /\ (\A f, g \in AskedNow \cup timers : f = g)'
<1>0. PICK new : new = Screen!Request(r, p, effect', mount')
  OBVIOUS
<1>1. ScreenTypes /\ effect \in Nat /\ mount \in Nat /\ flight \subseteq Requests
  BY DEF ScreenInv, ScreenTypes
<1>2. /\ new.effect = effect + 1 /\ new.mount = mount' /\ new.view = r.view /\ new.id = r.id
      /\ new \in Requests
  <2>1. r.view \in Views /\ r.id \in Ids \cup {0} /\ effect' \in Nat /\ mount' \in Nat /\ PendingPolls \in Nat
    BY <1>1, RouteViews DEF Screen!PageAssumption
  <2> QED
    BY <1>0, <2>1 DEF Screen!Request, Requests
<1>3. ASSUME NEW f \in flight PROVE Asked(f)' /\ f.effect # effect'
  <2>1. f.effect \in Nat /\ f.mount \in Nat /\ Asked(f)
    BY <1>1, <1>3 DEF Requests, ScreenInv
  <2> QED
    BY <1>1, <2>1 DEF Asked
<1>4. Asked(new)'
  BY <1>1, <1>2 DEF Asked
<1>5. flight' = flight \cup {new}
  BY <1>0
<1>6. AskedNow' = {new}
  BY <1>1, <1>2, <1>3, <1>5 DEF AskedNow
<1> QED
  BY <1>1, <1>2, <1>3, <1>4, <1>5, <1>6

\* A route is opened, by hand or from a search.
LEMMA GoKeeps ==
  ASSUME Screen!PageAssumption, ScreenInv, NEW r \in Screen!Routes, Screen!Go(r),
         searches' \subseteq searches,
         busy' = (Screen!BoxFor(r) = box /\ \E s \in searches' : s.box = box)
  PROVE  ScreenInv'
<1>1. /\ route' = r /\ page' = 0 /\ shown' = Screen!Null /\ effect' = effect + 1
      /\ mount' = Screen!MountFor(r) /\ box' = Screen!BoxFor(r) /\ timers' = {}
      /\ flight' = flight \cup {Screen!Request(r, 0, effect', mount')}
  BY DEF Screen!Go, Screen!Cleaned
<1>2. 0 \in PageNumbers
  BY DEF PageNumbers, Screen!PageAssumption
<1>3. /\ mount' \in {mount, mount + 1} /\ box' \in {box, box + 1}
      /\ mount \in Nat /\ effect \in Nat /\ box \in Nat /\ searches \subseteq [box : Nat, to : Screen!Routes]
      /\ \A s \in searches : s.box <= box
  BY <1>1 DEF Screen!MountFor, Screen!BoxFor, ScreenInv, ScreenTypes
<1>4. mount' = mount => r.view = route.view
  BY <1>1, <1>3 DEF Screen!MountFor
<1>5. /\ flight' \subseteq Requests /\ \A f \in flight' : Asked(f)'
      /\ (AskedNow \cap timers = {})' /\ (\A f, g \in AskedNow \cup timers : f = g)'
  BY <1>1, <1>2, <1>3, <1>4, EffectBegins
<1>6. ASSUME NEW s \in searches' PROVE s.box \in Nat /\ s.box <= box /\ s.box <= box'
  BY <1>3, <1>6
<1>7. Screen!BusyIsASearch'
  <2>1. \A s, t \in searches' : s.box = t.box => s = t
    BY DEF ScreenInv, Screen!BusyIsASearch
  <2>2. busy' <=> box' = box /\ \E s \in searches' : s.box = box
    BY <1>1, Zenon
  <2>3. box' # box => \A s \in searches' : s.box # box'
    BY <1>3, <1>6
  <2> QED
    BY <2>1, <2>2, <2>3 DEF Screen!BusyIsASearch
<1>8. ScreenTypes'
  <2>1. busy' \in BOOLEAN
    OBVIOUS
  <2>2. Screen!Routes' = Screen!Routes /\ effect' \in Nat /\ mount' \in Nat /\ box' \in Nat
    BY <1>1, <1>3 DEF Screen!Routes
  <2> QED
    BY <1>1, <1>2, <1>3, <1>5, <2>1, <2>2 DEF ScreenTypes
<1> QED
  BY <1>1, <1>5, <1>6, <1>7, <1>8 DEF ScreenInv, Screen!ShownIsTheRoute

\* A page that exists is turned to, from whatever listing is on the screen.
LEMMA PageTurned ==
  ASSUME Screen!PageAssumption, page \in PageNumbers, shown.page \in PageNumbers,
         NEW p \in Nat, (p = page + 1 /\ Screen!HasNext) \/ p = page - 1
  PROVE  p \in PageNumbers
<1>1. TxCount \in Nat \ {0} /\ TxPage \in Nat \ {0} /\ page \in Nat /\ shown.page \in Nat
      /\ page * TxPage < TxCount /\ shown.page * TxPage < TxCount
  BY DEF Screen!PageAssumption, PageNumbers
<1>2. PICK q \in Nat, n \in Nat, m \in Nat : q = shown.page /\ n = page * TxPage /\ m = q * TxPage
  BY <1>1
<1>3. (page + 1) * TxPage = n + TxPage /\ (q + 1) * TxPage = m + TxPage
  BY <1>1, <1>2
<1>4. CASE p = page - 1
  <2>1. p * TxPage = n - TxPage
    BY <1>1, <1>2, <1>4
  <2> QED
    BY <1>1, <1>2, <2>1 DEF PageNumbers
<1>5. CASE p = page + 1 /\ Screen!HasNext
  <2>1. n + (IF m + TxPage <= TxCount THEN TxPage ELSE TxCount - m) < TxCount
    BY <1>1, <1>2, <1>3, <1>5 DEF Screen!HasNext, Screen!Listed
  <2>2. CASE m + TxPage <= TxCount
    BY <1>1, <1>2, <1>3, <1>5, <2>1, <2>2 DEF PageNumbers
  <2>3. CASE ~(m + TxPage <= TxCount)
    <3>1. n < m
      BY <1>1, <2>1, <2>3
    <3>2. ASSUME q <= page PROVE FALSE
      <4>1. q * TxPage <= page * TxPage
        BY <1>1, <3>2
      <4> QED
        BY <1>2, <3>1, <4>1
    <3>3. page + 1 <= q
      BY <1>1, <3>2
    <3>4. (page + 1) * TxPage <= q * TxPage
      BY <1>1, <3>3
    <3>5. p * TxPage <= m /\ m < TxCount
      BY <1>1, <1>2, <1>5, <3>4
    <3> QED
      BY <1>1, <3>5 DEF PageNumbers
  <2> QED
    BY <2>2, <2>3
<1> QED
  BY <1>4, <1>5

\* The pager, whose listing may be that of another page.
LEMMA TurnKeeps ==
  ASSUME Screen!PageAssumption, ScreenInv, NEW p \in 0..(TxCount + 1), Screen!Turn(p)
  PROVE  ScreenInv'
<1>1. /\ page' = p /\ effect' = effect + 1 /\ timers' = {}
      /\ flight' = flight \cup {Screen!Request(route, p, effect', mount)}
      /\ UNCHANGED <<route, shown, mount, searches, box, busy>> /\ shown # Screen!Null
      /\ (p = page + 1 /\ Screen!HasNext) \/ p = page - 1
  BY DEF Screen!Turn, Screen!Cleaned
<1>2. ScreenTypes /\ page \in PageNumbers /\ shown.page \in PageNumbers /\ route \in Screen!Routes
  BY <1>1 DEF ScreenInv, ScreenTypes
<1>3. p \in Nat
  BY DEF Screen!PageAssumption
<1>4. p \in PageNumbers
  BY <1>1, <1>2, <1>3, PageTurned
<1>5. /\ flight' \subseteq Requests /\ \A f \in flight' : Asked(f)'
      /\ (AskedNow \cap timers = {})' /\ (\A f, g \in AskedNow \cup timers : f = g)'
  <2>1. PICK r \in Screen!Routes : r = route /\ r = route'
    BY <1>1, <1>2
  <2>2. flight' = flight \cup {Screen!Request(r, p, effect', mount')}
    BY <1>1, <2>1
  <2> QED
    BY <1>1, <1>4, <2>1, <2>2, EffectBegins
<1>6. ScreenTypes'
  BY <1>1, <1>2, <1>4, <1>5 DEF ScreenTypes, Screen!Routes
<1> QED
  BY <1>1, <1>5, <1>6 DEF ScreenInv, Screen!ShownIsTheRoute, Screen!BusyIsASearch

\* An answer reaches the view that asked, or none.
LEMMA AnswersKeep ==
  ASSUME Screen!PageAssumption, ScreenInv, NEW f \in flight,
         Screen!Fail(f) \/ \E kind \in Screen!Kinds : Screen!Reply(f, kind)
  PROVE  ScreenInv'
<1>1. /\ flight' = flight \ {f} /\ UNCHANGED <<route, page, effect, mount, searches, box, busy>>
  BY DEF Screen!Fail, Screen!Reply
<1>2. ScreenTypes /\ f \in Requests /\ Asked(f) /\ 0 \in PageNumbers
  BY DEF ScreenInv, ScreenTypes, PageNumbers, Screen!PageAssumption
<1>3. \/ timers' = timers
      \/ /\ timers' = timers \cup {[f EXCEPT !.attempt = @ + 1]}
         /\ f.attempt < PendingPolls /\ f.effect = effect
  <2>1. CASE Screen!Fail(f)
    BY <2>1 DEF Screen!Fail
  <2>2. ASSUME NEW kind \in Screen!Kinds, Screen!Reply(f, kind)
        PROVE \/ timers' = timers
              \/ /\ timers' = timers \cup {[f EXCEPT !.attempt = @ + 1]}
                 /\ f.attempt < PendingPolls /\ f.effect = effect
    BY <2>2 DEF Screen!Reply, Screen!Live, Screen!PollsOn
  <2> QED
    BY <2>1, <2>2
<1>4. \/ shown' = shown
      \/ shown'.page \in PageNumbers /\ (route.view \in {"block", "tx"} => shown'.id = route.id)
  <2>1. Screen!Live(f) => f.view = route.view /\ (f.view \in {"block", "tx"} => f.id = route.id)
    BY <1>2 DEF Screen!Live, Asked
  <2>2. CASE Screen!Fail(f)
    BY <1>2, <2>1, <2>2 DEF Screen!Fail
  <2>3. ASSUME NEW kind \in Screen!Kinds, Screen!Reply(f, kind)
        PROVE  \/ shown' = shown
               \/ shown'.page \in PageNumbers /\ (route.view \in {"block", "tx"} => shown'.id = route.id)
    <3>1. f.page \in PageNumbers
      BY <1>2 DEF Requests
    <3> QED
      BY <2>1, <2>3, <3>1 DEF Screen!Reply
  <2> QED
    BY <2>2, <2>3
<1>5. ASSUME timers' = timers \cup {[f EXCEPT !.attempt = @ + 1]}, f.attempt < PendingPolls, f.effect = effect
      PROVE  /\ timers' \subseteq Requests /\ \A t \in timers' : Asked(t) /\ t.effect = effect
             /\ AskedNow' \cap timers' = {} /\ \A g, h \in AskedNow' \cup timers' : g = h
  <2>1. PICK t : t = [f EXCEPT !.attempt = @ + 1]
    OBVIOUS
  <2>2. /\ t \in Requests /\ t.effect = f.effect /\ t.mount = f.mount /\ t.view = f.view /\ t.id = f.id
        /\ f.attempt \in Nat /\ t.attempt = f.attempt + 1
    BY <1>2, <1>5, <2>1 DEF Requests, Screen!PageAssumption
  <2>3. Asked(t)
    BY <1>2, <2>2 DEF Asked
  <2>4. AskedNow = {f} /\ timers = {}
    BY <1>5 DEF ScreenInv, AskedNow
  <2>5. AskedNow' = {} /\ timers' = {t}
    BY <1>1, <1>5, <2>1, <2>4 DEF AskedNow
  <2> QED
    BY <1>5, <2>2, <2>3, <2>5
<1>6. ASSUME timers' = timers
      PROVE  /\ timers' \subseteq Requests /\ \A t \in timers' : Asked(t) /\ t.effect = effect
             /\ AskedNow' \cap timers' = {} /\ \A g, h \in AskedNow' \cup timers' : g = h
  BY <1>1, <1>2, <1>6 DEF ScreenInv, ScreenTypes, AskedNow
<1>7. /\ timers' \subseteq Requests /\ (\A t \in timers' : Asked(t) /\ t.effect = effect)
      /\ AskedNow' \cap timers' = {} /\ \A g, h \in AskedNow' \cup timers' : g = h
  BY <1>3, <1>5, <1>6
<1>8. ScreenTypes'
  BY <1>1, <1>2, <1>7 DEF ScreenTypes, Screen!Routes
<1>9. \A g \in flight' \cup timers' : Asked(g)'
  BY <1>1, <1>7 DEF ScreenInv, Asked
<1> QED
  BY <1>1, <1>4, <1>7, <1>8, <1>9 DEF ScreenInv, Screen!ShownIsTheRoute, Screen!BusyIsASearch

\* The timer of the view becomes its request.
LEMMA PollKeeps == ASSUME ScreenInv, NEW t \in timers, Screen!Poll(t) PROVE ScreenInv'
<1>1. /\ timers' = timers \ {t} /\ flight' = flight \cup {t}
      /\ UNCHANGED <<route, page, shown, effect, mount, searches, box, busy>>
  BY DEF Screen!Poll
<1>2. timers = {t} /\ AskedNow = {} /\ t.effect = effect /\ Asked(t) /\ t \in Requests
  BY DEF ScreenInv, ScreenTypes
<1>3. AskedNow' = {t} /\ timers' = {}
  BY <1>1, <1>2 DEF AskedNow
<1>4. ScreenTypes'
  BY <1>1, <1>2 DEF ScreenInv, ScreenTypes, Screen!Routes
<1>5. \A g \in flight' \cup timers' : Asked(g)'
  BY <1>1, <1>2 DEF ScreenInv, Asked
<1> QED
  BY <1>1, <1>3, <1>4, <1>5 DEF ScreenInv, Screen!ShownIsTheRoute, Screen!BusyIsASearch

\* The search box waits for its own search.
LEMMA SearchesKeep ==
  ASSUME Screen!PageAssumption, ScreenInv,
         \/ \E r \in Screen!Routes : Screen!Enter(r) \/ Screen!Submit(r)
         \/ \E s \in searches : Screen!Found(s) \/ Screen!Missed(s)
  PROVE  ScreenInv'
<1>1. ScreenTypes /\ (\A s \in searches : s.box \in Nat /\ s.box <= box) /\ box \in Nat /\ busy \in BOOLEAN
      /\ (busy <=> \E s \in searches : s.box = box) /\ (\A s, t \in searches : s.box = t.box => s = t)
      /\ \A s \in searches : s.to \in Screen!Routes
  BY DEF ScreenInv, ScreenTypes, Screen!BusyIsASearch
<1>2. ASSUME NEW r \in Screen!Routes, Screen!Enter(r) PROVE ScreenInv'
  <2>1. Screen!Go(r) /\ searches' = searches /\ busy' = (busy /\ Screen!BoxFor(r) = box)
    BY <1>2 DEF Screen!Enter
  <2>2. busy' = (Screen!BoxFor(r) = box /\ \E s \in searches' : s.box = box)
    BY <1>1, <2>1
  <2> QED
    BY <2>1, <2>2, GoKeeps
<1>3. ASSUME busy' \in BOOLEAN, searches' \subseteq [box : Nat, to : Screen!Routes], Screen!BusyIsASearch',
             \A s \in searches' : s.box <= box,
             UNCHANGED <<route, page, shown, err, effect, mount, flight, timers, box>>
      PROVE  ScreenInv'
  BY <1>3 DEF ScreenInv, ScreenTypes, Asked, AskedNow, Screen!Routes, Screen!ShownIsTheRoute
<1>4. ASSUME NEW r \in Screen!Routes, Screen!Submit(r) PROVE ScreenInv'
  <2>1. ~busy /\ busy' = TRUE /\ searches' = searches \cup {[box |-> box, to |-> r]}
        /\ UNCHANGED <<route, page, shown, err, effect, mount, flight, timers, box>>
    BY <1>4 DEF Screen!Submit
  <2>2. searches' \subseteq [box : Nat, to : Screen!Routes] /\ \A s \in searches' : s.box <= box
    BY <1>1, <2>1 DEF ScreenTypes
  <2>3. busy' /\ box' = box
    BY <2>1, Zenon
  <2>4. PICK n : n = [box |-> box, to |-> r]
    OBVIOUS
  <2>5. n.box = box /\ searches' = searches \cup {n} /\ \A s \in searches : s.box # box
    BY <1>1, <2>1, <2>4
  <2>6. Screen!BusyIsASearch'
    BY <1>1, <2>3, <2>5 DEF Screen!BusyIsASearch
  <2> QED
    BY <1>3, <2>1, <2>2, <2>6
<1>5. ASSUME NEW s \in searches, searches' = searches \ {s}
      PROVE  /\ Screen!Done(s) = (\E t \in searches' : t.box = box)
             /\ searches' \subseteq [box : Nat, to : Screen!Routes]
  <2>1. Screen!Done(s) <=> \E t \in searches' : t.box = box
    BY <1>1, <1>5 DEF Screen!Done
  <2> QED
    BY <1>1, <1>5, <2>1 DEF Screen!Done, ScreenTypes
<1>6. ASSUME NEW s \in searches, searches' = searches \ {s}, busy' = Screen!Done(s),
             UNCHANGED <<route, page, shown, err, effect, mount, flight, timers, box>>
      PROVE  ScreenInv'
  <2>1. busy' \in BOOLEAN
    BY <1>6 DEF Screen!Done
  <2>2. Screen!BusyIsASearch'
    <3>1. busy' <=> \E t \in searches' : t.box = box
      BY <1>5, <1>6, Zenon
    <3> QED
      BY <1>1, <1>6, <3>1 DEF Screen!BusyIsASearch
  <2>3. \A t \in searches' : t.box <= box
    BY <1>1, <1>6
  <2> QED
    BY <1>3, <1>5, <1>6, <2>1, <2>2, <2>3
<1>7. ASSUME NEW s \in searches, Screen!Missed(s) PROVE ScreenInv'
  BY <1>6, <1>7 DEF Screen!Missed
<1>8. ASSUME NEW s \in searches, Screen!Found(s) PROVE ScreenInv'
  <2>1. searches' = searches \ {s}
    BY <1>8 DEF Screen!Found
  <2>2. CASE s.to = route
    BY <1>6, <1>8, <2>2 DEF Screen!Found
  <2>3. CASE s.to # route
    <3>1. Screen!Go(s.to) /\ busy' = (Screen!Done(s) /\ Screen!BoxFor(s.to) = box)
      BY <1>8, <2>3 DEF Screen!Found
    <3>2. PICK r \in Screen!Routes : r = s.to
      BY <1>1
    <3>3. Screen!Go(r) /\ busy' = (Screen!BoxFor(r) = box /\ \E t \in searches' : t.box = box)
      BY <1>5, <2>1, <3>1, <3>2
    <3> QED
      BY <2>1, <3>3, GoKeeps
  <2> QED
    BY <2>2, <2>3
<1> QED
  BY <1>2, <1>4, <1>7, <1>8

\* Every step is one of these.
LEMMA ScreenNext ==
  ASSUME Screen!PageAssumption, ScreenInv, [Screen!Next]_(Screen!vars)
  PROVE  ScreenInv'
<1>1. CASE UNCHANGED Screen!vars
  BY <1>1 DEF Screen!vars, ScreenInv, ScreenTypes, Asked, AskedNow, Screen!Routes, Screen!ShownIsTheRoute, Screen!BusyIsASearch
<1>2. CASE Screen!Answered
  BY <1>2, AnswersKeep DEF Screen!Answered
<1> QED
  BY <1>1, <1>2, SearchesKeep, TurnKeeps, PollKeeps DEF Screen!Next

\* The explorer shows what its address says although answers come late and in any
\* order, turns to pages that exist, and polls for one view at a time; the search
\* box waits for the search it started (Explorer.jsx).
THEOREM ScreenIsAlwaysTheRoute ==
  ASSUME Screen!PageAssumption
  PROVE  Screen!Spec => [](/\ Screen!ShownIsTheRoute /\ Screen!PageExists /\ Screen!OnePoller
                           /\ Screen!BusyIsASearch)
<1>1. Screen!Init => ScreenInv
  BY ScreenInit
<1>2. ScreenInv /\ [Screen!Next]_(Screen!vars) => ScreenInv'
  BY ScreenNext
<1>3. ScreenInv => Screen!ShownIsTheRoute /\ Screen!PageExists /\ Screen!OnePoller /\ Screen!BusyIsASearch
  <2> SUFFICES ASSUME ScreenInv PROVE Screen!PageExists /\ Screen!OnePoller
    BY DEF ScreenInv
  <2>1. Screen!PageExists
    BY DEF ScreenInv, ScreenTypes, PageNumbers, Screen!PageExists
  <2>2. \A f \in flight \cup timers : f.attempt <= PendingPolls
    BY DEF ScreenInv, ScreenTypes, Requests, Screen!PageAssumption
  <2>3. Cardinality(AskedNow) + Cardinality(timers) <= 1
    BY AtMostOne DEF ScreenInv
  <2>4. Screen!Cardinality(AskedNow) = Cardinality(AskedNow) /\ Screen!Cardinality(timers) = Cardinality(timers)
    BY DEF Screen!Cardinality, Cardinality
  <2> QED
    BY <2>1, <2>2, <2>3, <2>4 DEF ScreenInv, AskedNow, Screen!OnePoller
<1> QED
  BY <1>1, <1>2, <1>3, PTL DEF Screen!Spec

---------------------------------------------------------------------------
(* BlockPages, for any requests, chains, cache and page.                   *)

CONSTANTS Asker, BestChains, Wanted, Rows0, NTx, Paged, CacheMax, MaxNodeFaults, MaxPageAsks
VARIABLES node, blocks, memo, inflight, entries, cached, asker, answer, asks, nodeFaults
Pages == INSTANCE BlockPages WITH
  Request <- Asker, Chains <- BestChains, TxPage <- Paged, MaxFaults <- MaxNodeFaults,
  MaxAsks <- MaxPageAsks, request <- asker, faults <- nodeFaults

Lists == Seq(Nat \X Nat)
PageMaps == UNION {[D -> Lists] : D \in SUBSET Nat}
CacheEntries == [hash : Nat, next : Nat, pages : PageMaps]
BlockRows == [hash : Nat, size : Nat]
Calls == [key : {"block", "txs"} \X Nat \X Nat, entry : Nat]
Stages == Pages!Waiting \cup {"idle", "end"}
Questions == [at : Stages, height : Nat, hash : Nat, row : BlockRows, start : Nat,
              late : BOOLEAN, entry : Nat, txs : Lists, asked : Nat]
Answers == [kind : {"none", "not found", "pending", "indexed", "full"}, hash : Nat, row : Nat,
            next : Nat, txs : Lists, start : Nat, asked : Nat]

PagesTypes ==
  /\ node \in DOMAIN BestChains /\ blocks \in Seq(BlockRows)
  /\ entries \in Seq(CacheEntries) /\ cached \in Seq(Nat) /\ inflight \in Seq(Calls)
  /\ asker \in [Asker -> Questions] /\ answer \in [Asker -> Answers]

Page(b, start) == Pages!Slice(Pages!Txids(b), start)
Old(b) == \E h \in 1..Rows0 : b = BestChains[1][h]

\* Only the rows from before the size columns have no size.
RowsStand ==
  \A h \in DOMAIN blocks :
    /\ blocks[h].hash # 0 /\ blocks[h].size \in {0, blocks[h].hash}
    /\ blocks[h].size = 0 => h \in 1..Rows0 /\ blocks[h].hash = BestChains[1][h]

\* An entry keeps the pages of its block, the cache one entry per block, and the
\* calls fill the entries they are for.
ListingsStand(es) ==
  \A e \in DOMAIN es : \A start \in DOMAIN es[e].pages : es[e].pages[start] = Page(es[e].hash, start)
HeldStand(held, es) ==
  /\ Len(held) <= CacheMax /\ \A i \in DOMAIN held : held[i] \in DOMAIN es
  /\ \A i, j \in DOMAIN held : es[held[i]].hash = es[held[j]].hash => i = j
CallsStand(calls, es) ==
  /\ \A i, j \in DOMAIN calls : calls[i].key = calls[j].key => i = j
  /\ \A i \in DOMAIN calls : calls[i].key[1] = "txs" =>
       calls[i].entry \in DOMAIN es /\ es[calls[i].entry].hash = calls[i].key[2]
CacheStands == ListingsStand(entries) /\ HeldStand(cached, entries) /\ CallsStand(inflight, entries)

\* What a request has learnt belongs to its row.
Coherent(q, es) ==
  /\ q.entry # 0 => q.entry \in DOMAIN es /\ es[q.entry].hash = q.hash
  /\ q.at \in {"page", "paging"} => q.entry # 0
  /\ q.at \notin {"page", "paging", "end"} => q.entry = 0
  /\ q.row.hash # 0 /\ (q.at \in {"block", "fetching"} \/ q.entry # 0) => q.hash = q.row.hash
  /\ q.at = "end" /\ q.entry # 0 => q.txs = Page(q.hash, q.start)
  /\ q.row.hash # 0 /\ q.row.size = 0 => Old(q.row.hash)
  /\ q.at # "idle" /\ q.hash = 0 => q.height # 0

Learning == \A r \in Asker : Coherent(asker[r], entries)

PagesInv == PagesTypes /\ RowsStand /\ CacheStands /\ Pages!AnswerIsTheQuestion /\ Learning

\* A sequence without the element at one place.
LEMMA Removed ==
  ASSUME NEW S, NEW s \in Seq(S), NEW i \in DOMAIN s
  PROVE  /\ Pages!RemoveAt(s, i) \in Seq(S) /\ Len(Pages!RemoveAt(s, i)) = Len(s) - 1
         /\ \A j \in 1..(Len(s) - 1) : Pages!RemoveAt(s, i)[j] = s[IF j < i THEN j ELSE j + 1]
<1>1. Len(s) \in Nat /\ i \in 1..Len(s)
  OBVIOUS
<1>2. SubSeq(s, 1, i - 1) \in Seq(S) /\ Len(SubSeq(s, 1, i - 1)) = i - 1
      /\ \A j \in 1..(i - 1) : SubSeq(s, 1, i - 1)[j] = s[j]
  BY <1>1
<1>3. SubSeq(s, i + 1, Len(s)) \in Seq(S) /\ Len(SubSeq(s, i + 1, Len(s))) = Len(s) - i
      /\ \A j \in 1..(Len(s) - i) : SubSeq(s, i + 1, Len(s))[j] = s[i + j]
  BY <1>1
<1> DEFINE a == SubSeq(s, 1, i - 1)
           b == SubSeq(s, i + 1, Len(s))
<1>4. Pages!RemoveAt(s, i) = a \o b
  BY DEF Pages!RemoveAt
<1> HIDE DEF a, b
<1>5. a \in Seq(S) /\ b \in Seq(S) /\ Len(a) = i - 1 /\ Len(b) = Len(s) - i
  BY <1>2, <1>3 DEF a, b
<1>6. a \o b \in Seq(S) /\ Len(a \o b) = Len(s) - 1
  BY <1>1, <1>5
<1>7. ASSUME NEW j \in 1..(Len(s) - 1) PROVE (a \o b)[j] = s[IF j < i THEN j ELSE j + 1]
  <2>1. (a \o b)[j] = IF j <= Len(a) THEN a[j] ELSE b[j - Len(a)]
    BY <1>1, <1>5
  <2>2. CASE j < i
    BY <1>1, <1>2, <1>5, <2>1, <2>2 DEF a
  <2>3. CASE ~(j < i)
    <3>1. j - (i - 1) \in 1..(Len(s) - i) /\ i + (j - (i - 1)) = j + 1 /\ ~(j <= i - 1)
      BY <1>1, <2>3
    <3> QED
      BY <1>1, <1>3, <1>5, <2>1, <2>3, <3>1 DEF b
  <2> QED
    BY <2>2, <2>3
<1> QED
  BY <1>4, <1>6, <1>7

\* What is distinct stays so when one is removed.
LEMMA RemovedDistinct ==
  ASSUME NEW S, NEW s \in Seq(S), NEW i \in DOMAIN s, NEW key,
         \A j, k \in DOMAIN s : key[s[j]] = key[s[k]] => j = k,
         NEW t, t = Pages!RemoveAt(s, i)
  PROVE  /\ \A j, k \in DOMAIN t : key[t[j]] = key[t[k]] => j = k
         /\ \A j \in DOMAIN t : \E k \in DOMAIN s : t[j] = s[k] /\ key[t[j]] # key[s[i]]
<1>1. Len(s) \in Nat /\ i \in 1..Len(s) /\ DOMAIN s = 1..Len(s)
  OBVIOUS
<1> DEFINE p(j) == IF j < i THEN j ELSE j + 1
<1>2. DOMAIN t = 1..(Len(s) - 1) /\ \A j \in DOMAIN t : t[j] = s[p(j)]
  <2>1. t \in Seq(S) /\ Len(t) = Len(s) - 1 /\ \A j \in 1..(Len(s) - 1) : t[j] = s[IF j < i THEN j ELSE j + 1]
    BY Removed
  <2> QED
    BY <2>1
<1>3. \A j \in DOMAIN t : p(j) \in DOMAIN s /\ p(j) # i
  BY <1>1, <1>2
<1>4. \A j, k \in DOMAIN t : p(j) = p(k) => j = k
  BY <1>1, <1>2
<1> HIDE DEF p
<1> QED
  BY <1>2, <1>3, <1>4

\* A block is where its chains have it.
LEMMA HeightIs ==
  ASSUME Pages!PagesAssumption, NEW n \in DOMAIN BestChains, NEW k \in DOMAIN BestChains[n]
  PROVE  Pages!Height(BestChains[n][k]) = k
<1>1. BestChains[n] \in Pages!Range(BestChains)
  BY DEF Pages!Range
<1> DEFINE b == BestChains[n][k]
           Is(h) == \E c \in Pages!Range(BestChains) : h \in DOMAIN c /\ c[h] = b
           All == UNION {DOMAIN c : c \in Pages!Range(BestChains)}
<1>2. k \in All /\ Is(k)
  BY <1>1
<1>3. \A h : Is(h) => h = k
  BY <1>1 DEF Pages!PagesAssumption
<1>4. Pages!Height(b) = CHOOSE h \in All : Is(h)
  BY DEF Pages!Height
<1> HIDE DEF b, Is, All
<1>5. Pages!Height(b) = k
  BY <1>2, <1>3, <1>4
<1> QED
  BY <1>5 DEF b

\* The chain the node is on.
LEMMA ChainIs ==
  ASSUME Pages!PagesAssumption, node \in DOMAIN BestChains
  PROVE  /\ Len(Pages!Chain) \in Nat /\ DOMAIN Pages!Chain = 1..Len(Pages!Chain)
         /\ \A h \in 1..Len(Pages!Chain) : Pages!Chain[h] \in Nat \ {0}
         /\ \A b : Pages!Next1(b) \in Nat
<1>1. Pages!Chain \in Seq(Nat \ {0})
  BY DEF Pages!Chain, Pages!PagesAssumption
<1>2. /\ Len(Pages!Chain) \in Nat /\ DOMAIN Pages!Chain = 1..Len(Pages!Chain)
      /\ \A h \in 1..Len(Pages!Chain) : Pages!Chain[h] \in Nat \ {0}
  BY <1>1
<1>3. ASSUME NEW h \in 1..Len(Pages!Chain) PROVE Pages!Height(Pages!Chain[h]) = h
  BY <1>2, HeightIs DEF Pages!Chain
<1>4. ASSUME NEW b PROVE Pages!Next1(b) \in Nat
  BY <1>2, <1>3 DEF Pages!Next1
<1> QED
  BY <1>2, <1>4

\* A page of a block is a list of its transactions.
LEMMA PageIsList ==
  ASSUME Pages!PagesAssumption, NEW b \in Nat, NEW start \in Nat
  PROVE  Page(b, start) \in Lists
<1>1. NTx \in Nat /\ Paged \in Nat
  BY DEF Pages!PagesAssumption
<1> DEFINE ids == Pages!Txids(b)
<1>2. ids \in Lists /\ Len(ids) = NTx
  BY <1>1 DEF Pages!Txids, Lists
<1> HIDE DEF ids
<1>3. PICK last \in Nat : last <= Len(ids) /\ Page(b, start) = SubSeq(ids, start + 1, last)
  BY <1>1, <1>2 DEF Page, Pages!Slice, ids
<1>4. \A i \in (start + 1)..last : ids[i] \in Nat \X Nat
  BY <1>2, <1>3 DEF Lists
<1> QED
  BY <1>3, <1>4 DEF Lists

\* Items in any order are matched by their ids.
LEMMA MatchedIsPage ==
  ASSUME NEW ids \in Lists, NEW reply \in Pages!Replies(ids), Pages!Whole(reply, Len(ids))
  PROVE  Pages!Matched(reply, Len(ids)) = ids
<1>1. \A x \in Pages!Range(reply) : x.tx = ids[x.id]
  BY DEF Pages!Replies, Pages!Range
<1>2. ASSUME NEW i \in 1..Len(ids)
      PROVE  (CHOOSE x \in Pages!Range(reply) : x.id = i).tx = ids[i]
  BY <1>1 DEF Pages!Whole
<1>3. Pages!Matched(reply, Len(ids)) = [i \in 1..Len(ids) |-> ids[i]]
  BY <1>2 DEF Pages!Matched
<1> QED
  BY <1>3 DEF Lists

---------------------------------------------------------------------------
(* The steps of the explorer. *)

\* No page is listed yet.
LEMMA NoPages == <<>> \in PageMaps /\ <<>> \in Lists /\ DOMAIN <<>> = {}
<1>1. <<>> \in [{} -> Lists] /\ {} \in SUBSET Nat
  OBVIOUS
<1>2. <<>> \in PageMaps
  BY <1>1 DEF PageMaps
<1>3. <<>> \in Lists
  BY DEF Lists
<1>4. DOMAIN <<>> = {}
  OBVIOUS
<1> QED
  BY <1>2, <1>3, <1>4

\* Nothing is cached, fetched or asked before the first request.
LEMMA PagesInit == ASSUME Pages!PagesAssumption, Pages!Init PROVE PagesInv
<1>1. /\ node = 1 /\ blocks = [h \in 1..Rows0 |-> Pages!Row(BestChains[1][h], 0)]
      /\ inflight = <<>> /\ entries = <<>> /\ cached = <<>>
      /\ asker = [r \in Asker |-> Pages!Idle] /\ answer = [r \in Asker |-> Pages!NoAnswer]
  BY DEF Pages!Init
<1>2. 1 \in DOMAIN BestChains /\ Rows0 \in Nat /\ \A h \in 1..Rows0 : BestChains[1][h] \in Nat \ {0}
  BY DEF Pages!PagesAssumption
<1>3. Pages!Idle \in Questions /\ Pages!NoAnswer \in Answers
  BY NoPages DEF Pages!Idle, Pages!NoAnswer, Pages!Row, Questions, Answers, BlockRows, Stages
<1>4. PagesTypes
  <2>1. \A h \in 1..Rows0 : Pages!Row(BestChains[1][h], 0) \in BlockRows
    BY <1>2 DEF Pages!Row, BlockRows
  <2> QED
    BY <1>1, <1>2, <1>3, <2>1 DEF PagesTypes
<1>5. RowsStand
  BY <1>1, <1>2 DEF RowsStand, Pages!Row
<1>6. CacheStands
  BY <1>1 DEF CacheStands, ListingsStand, HeldStand, CallsStand, Pages!PagesAssumption
<1>7. Learning /\ Pages!AnswerIsTheQuestion
  BY <1>1 DEF Learning, Coherent, Pages!Idle, Pages!Row, Pages!NoAnswer, Pages!AnswerIsTheQuestion
<1> QED
  BY <1>4, <1>5, <1>6, <1>7 DEF PagesInv

\* Steps that change no call, entry or row.
LEMMA AskersMove ==
  ASSUME PagesInv, node' \in DOMAIN BestChains, UNCHANGED <<blocks, inflight, entries, cached>>,
         asker' \in [Asker -> Questions], \A r \in Asker : Coherent(asker'[r], entries),
         answer' \in [Asker -> Answers], \A r \in Asker : answer'[r] = answer[r] \/ answer'[r].kind # "full"
  PROVE  PagesInv'
<1>1. PagesTypes'
  BY DEF PagesInv, PagesTypes
<1>2. RowsStand' /\ CacheStands'
  BY DEF PagesInv, RowsStand, CacheStands
<1>3. Learning' /\ Pages!AnswerIsTheQuestion'
  BY DEF PagesInv, Learning, Pages!AnswerIsTheQuestion
<1> QED
  BY <1>1, <1>2, <1>3 DEF PagesInv

\* A request goes on to its next stage.
LEMMA GotoKeeps ==
  ASSUME PagesInv, NEW rs \in SUBSET Asker, NEW at \in Stages, 
         asker' = [r \in Asker |-> IF r \in rs THEN [asker[r] EXCEPT !.at = at] ELSE asker[r]],
         \A r \in rs : \/ (asker[r].entry = 0 /\ asker[r].at # "idle" /\ at \in {"hash", "probing", "end"})
                        \/ (asker[r].at = "block" /\ at = "fetching")
                        \/ (asker[r].at = "page" /\ at = "paging")
  PROVE  asker' \in [Asker -> Questions] /\ \A r \in Asker : Coherent(asker'[r], entries)
<1>1. ASSUME NEW r \in Asker PROVE asker'[r] \in Questions /\ Coherent(asker'[r], entries)
  <2>1. asker[r] \in Questions /\ Coherent(asker[r], entries)
    BY DEF PagesInv, PagesTypes, Learning
  <2>2. CASE r \notin rs
    BY <2>1, <2>2
  <2>3. CASE r \in rs
    <3>1. PICK q \in Questions : q = asker[r]
      BY <2>1
    <3>2. PICK n : n = [q EXCEPT !.at = at]
      OBVIOUS
    <3>3. n \in Questions /\ n.at = at /\ n.entry = q.entry /\ n.hash = q.hash /\ n.row = q.row
          /\ n.height = q.height /\ n.txs = q.txs /\ n.start = q.start
      BY <3>1, <3>2 DEF Questions
    <3>4. asker'[r] = n
      BY <2>3, <3>1, <3>2
    <3>5. Coherent(n, entries)
      BY <2>1, <2>3, <3>1, <3>3 DEF Coherent
    <3> QED
      BY <3>3, <3>4, <3>5
  <2> QED
    BY <2>2, <2>3
<1> QED
  BY <1>1

\* The node, the worker and the probe go their ways.
LEMMA OthersKeep ==
  ASSUME Pages!PagesAssumption, PagesInv,
         \/ Pages!NodeMoves \/ Pages!Expire \/ (\E ok \in BOOLEAN : Pages!Probed(ok))
         \/ (\E r \in Asker : Pages!Probe(r))
  PROVE  PagesInv'
<1>1. PagesTypes /\ Learning
  BY DEF PagesInv
<1>2. CASE Pages!NodeMoves \/ Pages!Expire
  <2>1. node' \in DOMAIN BestChains
    BY <1>1, <1>2 DEF Pages!NodeMoves, Pages!Expire, Pages!store, PagesTypes, Pages!PagesAssumption
  <2>2. UNCHANGED <<blocks, inflight, entries, cached, asker, answer>>
    BY <1>2 DEF Pages!NodeMoves, Pages!Expire, Pages!store
  <2> QED
    BY <1>1, <2>1, <2>2, AskersMove DEF PagesTypes, Learning
<1>3. ASSUME NEW rs \in SUBSET Asker, NEW at \in {"hash", "probing", "end"}, Pages!Goto(rs, at),
             \A r \in rs : asker[r].at \in {"probe", "probing"},
             UNCHANGED <<node, blocks, inflight, entries, cached, answer>>
      PROVE  PagesInv'
  <2>1. at \in Stages /\ \A r \in rs : asker[r].entry = 0 /\ asker[r].at # "idle"
    BY <1>1, <1>3 DEF Stages, Pages!Waiting, Learning, Coherent
  <2>2. asker' \in [Asker -> Questions] /\ \A r \in Asker : Coherent(asker'[r], entries)
    BY <1>3, <2>1, GotoKeeps DEF Pages!Goto
  <2> QED
    BY <1>1, <1>3, <2>2, AskersMove DEF PagesTypes
<1>4. ASSUME NEW ok \in BOOLEAN, Pages!Probed(ok) PROVE PagesInv'
  BY <1>3, <1>4 DEF Pages!Probed, Pages!store, Pages!At
<1>5. ASSUME NEW r \in Asker, Pages!Probe(r) PROVE PagesInv'
  BY <1>3, <1>5 DEF Pages!Probe, Pages!store, Pages!At
<1> QED
  BY <1>2, <1>4, <1>5

\* The first elements of a sequence.
LEMMA PrefixIsSequence ==
  ASSUME NEW S, NEW s \in Seq(S), NEW n \in 0..Len(s)
  PROVE  /\ SubSeq(s, 1, n) \in Seq(S) /\ Len(SubSeq(s, 1, n)) = n
         /\ \A i \in 1..n : SubSeq(s, 1, n)[i] = s[i]
OBVIOUS

\* The worker stores rows with their sizes and takes them back.
LEMMA SyncKeeps == ASSUME Pages!PagesAssumption, PagesInv, Pages!Sync PROVE PagesInv'
<1>1. /\ UNCHANGED <<node, inflight, entries, cached, asker, answer>>
      /\ PagesTypes /\ RowsStand /\ Len(blocks) \in Nat
  BY DEF Pages!Sync, PagesInv, PagesTypes
<1>2. ASSUME blocks' = Pages!Front(blocks), blocks # <<>>
      PROVE  blocks' \in Seq(BlockRows) /\ RowsStand'
  <2>0. Len(blocks) \in Nat \ {0}
    BY <1>1, <1>2 DEF PagesTypes
  <2>1. PICK n \in Nat : n = Len(blocks) - 1 /\ n \in 0..Len(blocks)
    BY <2>0
  <2>2. blocks' = SubSeq(blocks, 1, n)
    BY <1>2, <2>1 DEF Pages!Front
  <2>3. blocks' \in Seq(BlockRows) /\ Len(blocks') = n /\ \A h \in 1..n : blocks'[h] = blocks[h]
    BY <1>1, <2>1, <2>2, PrefixIsSequence DEF PagesTypes
  <2>4. DOMAIN blocks' = 1..n /\ \A h \in 1..n : h \in DOMAIN blocks
    BY <1>1, <2>1, <2>3 DEF PagesTypes
  <2> QED
    BY <1>1, <2>3, <2>4 DEF RowsStand
<1>3. ASSUME NEW b \in Nat \ {0}, blocks' = Append(blocks, Pages!Row(b, b))
      PROVE  blocks' \in Seq(BlockRows) /\ RowsStand'
  <2>1. Pages!Row(b, b) \in BlockRows /\ Pages!Row(b, b).hash = b /\ Pages!Row(b, b).size = b
    BY DEF Pages!Row, BlockRows
  <2>2. PICK n \in BlockRows : n = Pages!Row(b, b) /\ n.hash = b /\ n.size = b
    BY <2>1
  <2>3. /\ blocks' \in Seq(BlockRows) /\ Len(blocks') = Len(blocks) + 1 /\ blocks'[Len(blocks) + 1] = n
        /\ \A h \in 1..Len(blocks) : blocks'[h] = blocks[h]
    BY <1>1, <1>3, <2>2 DEF PagesTypes
  <2>4. DOMAIN blocks = 1..Len(blocks) /\ DOMAIN blocks' = 1..(Len(blocks) + 1)
    BY <1>1, <2>3 DEF PagesTypes
  <2> QED
    BY <1>1, <2>2, <2>3, <2>4 DEF RowsStand
<1>4. blocks' \in Seq(BlockRows) /\ RowsStand'
  <2>1. CASE Len(blocks) < Len(Pages!Chain) /\ blocks' = Append(blocks, Pages!Row(Pages!Chain[Len(blocks) + 1], Pages!Chain[Len(blocks) + 1]))
    <3>1. Pages!Chain[Len(blocks) + 1] \in Nat \ {0}
      BY <1>1, <2>1, ChainIs DEF PagesTypes
    <3> QED
      BY <1>3, <2>1, <3>1
  <2> QED
    BY <1>2, <2>1 DEF Pages!Sync
<1>5. CacheStands' /\ Learning' /\ Pages!AnswerIsTheQuestion'
  BY <1>1 DEF PagesInv, CacheStands, Learning, Pages!AnswerIsTheQuestion
<1> QED
  BY <1>1, <1>4, <1>5 DEF PagesInv, PagesTypes

\* One request goes on.
LEMMA OneAsks ==
  ASSUME PagesInv, NEW r \in Asker, NEW n \in Questions, asker' = [asker EXCEPT ![r] = n], Coherent(n, entries)
  PROVE  asker' \in [Asker -> Questions] /\ \A a \in Asker : Coherent(asker'[a], entries)
BY DEF PagesInv, PagesTypes, Learning

\* The first row of a set.
LEMMA LeastRow ==
  ASSUME NEW S, S \subseteq Nat, S # {}
  PROVE  Pages!Min(S) \in S
<1>1. PICK x \in S : \A y \in S : <<y, x>> \notin OpToRel(<, Nat)
  BY NatLessThanWellFounded, WFMin
<1>2. ASSUME NEW y \in S PROVE x <= y
  <2>1. x \in Nat /\ y \in Nat
    OBVIOUS
  <2>2. ~(y < x)
    BY <1>1, <2>1 DEF OpToRel
  <2> QED
    BY <2>1, <2>2
<1> QED
  BY <1>2 DEF Pages!Min

\* A request begins with the row of its height or hash.
LEMMA AskKeeps ==
  ASSUME Pages!PagesAssumption, PagesInv, NEW r \in Asker, NEW w \in Wanted, Pages!Ask(r, w[1], w[2], w[3])
  PROVE  PagesInv'
<1>1. w[1] \in Nat /\ w[2] \in Nat /\ w[3] \in Nat /\ (w[2] = 0 => w[1] # 0)
  BY DEF Pages!PagesAssumption
<1>2. PICK height \in Nat, hash \in Nat, start \in Nat :
        /\ height = w[1] /\ hash = w[2] /\ start = w[3] /\ (hash = 0 => height # 0)
        /\ Pages!Ask(r, height, hash, start)
  BY <1>1
<1> DEFINE found == {h \in DOMAIN blocks : h = height \/ blocks[h].hash = hash}
           row == IF found = {} THEN Pages!Row(0, 0) ELSE blocks[Pages!Min(found)]
<1>3. PagesTypes /\ node \in Nat /\ DOMAIN blocks = 1..Len(blocks) /\ Len(blocks) \in Nat
      /\ \A h \in DOMAIN blocks : blocks[h] \in BlockRows
  <2> HIDE DEF found, row
  <2>1. PagesTypes /\ node \in DOMAIN BestChains /\ blocks \in Seq(BlockRows)
    BY DEF PagesInv, PagesTypes
  <2>2. node \in Nat
    BY <2>1 DEF Pages!PagesAssumption
  <2>3. /\ DOMAIN blocks = 1..Len(blocks) /\ Len(blocks) \in Nat
        /\ \A h \in DOMAIN blocks : blocks[h] \in BlockRows
    BY <2>1
  <2> QED
    BY <2>1, <2>2, <2>3
<1>4. row \in BlockRows /\ (row.hash # 0 /\ row.size = 0 => Old(row.hash))
  <2>1. CASE found = {}
    BY <2>1 DEF Pages!Row, BlockRows
  <2>2. CASE found # {}
    <3>1. Pages!Min(found) \in found
      <4>1. found \subseteq Nat
        BY <1>3
      <4> QED
        BY <2>2, <4>1, LeastRow
    <3>2. PICK h \in DOMAIN blocks : row = blocks[h]
      BY <2>2, <3>1
    <3>3. blocks[h].size = 0 => h \in 1..Rows0 /\ blocks[h].hash = BestChains[1][h]
      BY DEF PagesInv, RowsStand
    <3> QED
      BY <1>3, <3>2, <3>3 DEF Old
  <2> QED
    BY <2>1, <2>2
<1> HIDE DEF row
<1>5. PICK n : /\ n = [Pages!Idle EXCEPT !.at = "probe", !.asked = node, !.height = height, !.hash = hash,
                                       !.start = start, !.row = row]
               /\ asker' = [asker EXCEPT ![r] = n] /\ answer' = [answer EXCEPT ![r] = Pages!NoAnswer]
               /\ UNCHANGED <<node, blocks, inflight, entries, cached>>
  BY <1>2 DEF Pages!Ask, Pages!store, row
<1>6. Pages!Idle \in Questions /\ Pages!Idle.entry = 0
  BY NoPages DEF Pages!Idle, Pages!Row, Questions, BlockRows, Stages
<1>7. n \in Questions /\ n.at = "probe" /\ n.height = height /\ n.hash = hash /\ n.row = row /\ n.entry = 0
  BY <1>3, <1>4, <1>5, <1>6 DEF Questions, Stages, Pages!Waiting
<1>8. Coherent(n, entries)
  BY <1>2, <1>4, <1>7 DEF Coherent
<1>9. asker' \in [Asker -> Questions] /\ \A a \in Asker : Coherent(asker'[a], entries)
  BY <1>5, <1>7, <1>8, OneAsks
<1>10. answer' \in [Asker -> Answers] /\ \A a \in Asker : answer'[a] = answer[a] \/ answer'[a].kind # "full"
  <2>1. Pages!NoAnswer \in Answers /\ Pages!NoAnswer.kind # "full"
    BY NoPages DEF Pages!NoAnswer, Answers
  <2> QED
    BY <1>3, <1>5, <2>1 DEF PagesTypes
<1> QED
  BY <1>3, <1>5, <1>9, <1>10, AskersMove DEF PagesTypes

\* The hash of a row is taken for the block's.
LEMMA FoundHashKeeps ==
  ASSUME Pages!PagesAssumption, PagesInv, NEW r \in Asker, Pages!Hash(r)
  PROVE  PagesInv'
<1>1. PICK q \in Questions : q = asker[r] /\ Coherent(q, entries)
  BY DEF PagesInv, PagesTypes, Learning
<1>2. PagesTypes /\ q.at = "hash" /\ UNCHANGED <<node, blocks, inflight, entries, cached, answer>>
  BY <1>1 DEF Pages!Hash, Pages!store, PagesInv
<1>3. PICK b \in Nat : /\ asker' = [asker EXCEPT ![r] = [q EXCEPT !.hash = b, !.at = IF b = 0 THEN "end" ELSE "block"]]
                       /\ (b # 0 /\ q.row.hash # 0 => b = q.row.hash) /\ (b = 0 => q.hash = 0)
  <2>1. q.hash \in Nat /\ q.row.hash \in Nat /\ q.height \in Nat /\ (q.hash = 0 => q.height # 0)
    BY <1>1, <1>2 DEF Questions, BlockRows, Coherent
  <2>2. \A h \in Nat : h # 0 /\ h <= Len(Pages!Chain) => Pages!Chain[h] \in Nat
    BY <1>2, ChainIs DEF PagesTypes
  <2> DEFINE known == IF q.row.hash # 0 THEN q.row.hash ELSE q.hash
             B(ok) == IF known # 0 THEN known ELSE IF ok /\ q.height <= Len(Pages!Chain) THEN Pages!Chain[q.height] ELSE 0
  <2>3. PICK ok \in BOOLEAN :
          asker' = [asker EXCEPT ![r].hash = B(ok), ![r].at = IF B(ok) = 0 THEN "end" ELSE "block"]
    BY <1>1 DEF Pages!Hash
  <2>4. B(ok) \in Nat /\ (B(ok) # 0 /\ q.row.hash # 0 => B(ok) = q.row.hash) /\ (B(ok) = 0 => q.hash = 0)
    BY <2>1, <2>2
  <2> HIDE DEF B
  <2>5. asker' = [asker EXCEPT ![r] = [q EXCEPT !.hash = B(ok), !.at = IF B(ok) = 0 THEN "end" ELSE "block"]]
    BY <1>1, <1>2, <2>3 DEF PagesTypes
  <2> QED
    BY <2>4, <2>5
<1>4. PICK n : n = [q EXCEPT !.hash = b, !.at = IF b = 0 THEN "end" ELSE "block"]
  OBVIOUS
<1>5. /\ n \in Questions /\ n.at = (IF b = 0 THEN "end" ELSE "block") /\ n.hash = b /\ n.entry = q.entry
      /\ n.row = q.row /\ n.height = q.height
  BY <1>4 DEF Questions, Stages, Pages!Waiting
<1>6. Coherent(n, entries)
  BY <1>1, <1>2, <1>3, <1>5 DEF Coherent
<1>7. asker' \in [Asker -> Questions] /\ \A a \in Asker : Coherent(asker'[a], entries)
  BY <1>3, <1>4, <1>5, <1>6, OneAsks
<1> QED
  BY <1>2, <1>7, AskersMove DEF PagesTypes

\* Entries are made and filled, and keep their blocks.
Grown(es, fs) == DOMAIN es \subseteq DOMAIN fs /\ \A e \in DOMAIN es : fs[e].hash = es[e].hash

\* A step that makes or fills an entry keeps what the others hold of it.
LEMMA EntriesGrow ==
  ASSUME PagesInv, UNCHANGED <<node, blocks, answer>>,
         entries' \in Seq(CacheEntries), Grown(entries, entries'), ListingsStand(entries'),
         cached' \in Seq(Nat), HeldStand(cached', entries'),
         inflight' \in Seq(Calls), CallsStand(inflight', entries'),
         asker' \in [Asker -> Questions],
         \A r \in Asker : asker'[r] = asker[r] \/ Coherent(asker'[r], entries')
  PROVE  PagesInv'
<1>1. \A q : Coherent(q, entries) => Coherent(q, entries')
  BY DEF Coherent, Grown
<1>2. Learning'
  BY <1>1 DEF PagesInv, Learning
<1>3. PagesTypes' /\ RowsStand' /\ CacheStands' /\ Pages!AnswerIsTheQuestion'
  BY DEF PagesInv, PagesTypes, RowsStand, CacheStands, Pages!AnswerIsTheQuestion
<1> QED
  BY <1>2, <1>3 DEF PagesInv

\* What the cache holds stays an entry.
LEMMA HeldStays ==
  ASSUME NEW es, NEW fs, NEW held, HeldStand(held, es), Grown(es, fs)
  PROVE  HeldStand(held, fs)
BY DEF HeldStand, Grown

\* So does what a call is for.
LEMMA CallsStay ==
  ASSUME NEW es, NEW fs, NEW calls, CallsStand(calls, es), Grown(es, fs)
  PROVE  CallsStand(calls, fs)
BY DEF CallsStand, Grown

\* A call is shared or started.
LEMMA LaunchKeeps ==
  ASSUME PagesInv, NEW key \in {"block", "txs"} \X Nat \X Nat, NEW entry \in Nat, Pages!Launch(key, entry),
         key[1] = "txs" => entry \in DOMAIN entries /\ entries[entry].hash = key[2]
  PROVE  inflight' \in Seq(Calls) /\ CallsStand(inflight', entries)
<1>1. inflight \in Seq(Calls) /\ CallsStand(inflight, entries)
  BY DEF PagesInv, PagesTypes, CacheStands
<1>2. CASE Pages!Joined(key)
  BY <1>1, <1>2 DEF Pages!Launch
<1>3. CASE ~Pages!Joined(key)
  <2>1. PICK call \in Calls : call.key = key /\ call.entry = entry /\ inflight' = Append(inflight, call)
    BY <1>3 DEF Pages!Launch, Calls
  <2>2. /\ inflight' \in Seq(Calls) /\ DOMAIN inflight' = 1..(Len(inflight) + 1)
        /\ inflight'[Len(inflight) + 1] = call /\ \A i \in 1..Len(inflight) : inflight'[i] = inflight[i]
        /\ Len(inflight) \in Nat /\ DOMAIN inflight = 1..Len(inflight)
    BY <1>1, <2>1
  <2>3. \A i \in 1..Len(inflight) : inflight[i].key # key
    BY <1>3, <2>2 DEF Pages!Joined
  <2> QED
    BY <1>1, <2>1, <2>2, <2>3 DEF CallsStand
<1> QED
  BY <1>2, <1>3

\* An answer that comes is for one call.
LEMMA CallEnds ==
  ASSUME PagesInv, NEW i \in DOMAIN inflight, NEW t, t = Pages!RemoveAt(inflight, i)
  PROVE  t \in Seq(Calls) /\ CallsStand(t, entries)
<1>1. inflight \in Seq(Calls) /\ CallsStand(inflight, entries)
  BY DEF PagesInv, PagesTypes, CacheStands
<1> DEFINE key == [c \in Calls |-> c.key]
<1>2. \A c \in Calls : key[c] = c.key
  BY DEF Calls
<1> HIDE DEF key
<1>3. \A j \in DOMAIN inflight : inflight[j] \in Calls
  BY <1>1
<1>4. \A j, k \in DOMAIN inflight : key[inflight[j]] = key[inflight[k]] => j = k
  BY <1>1, <1>2, <1>3 DEF CallsStand
<1>5. t \in Seq(Calls)
  BY <1>1, Removed
<1>6. /\ \A j, k \in DOMAIN t : key[t[j]] = key[t[k]] => j = k
      /\ \A j \in DOMAIN t : \E k \in DOMAIN inflight : t[j] = inflight[k]
  BY <1>1, <1>2, <1>4, RemovedDistinct
<1>7. \A j \in DOMAIN t : t[j] \in Calls
  BY <1>5
<1>8. \A j, k \in DOMAIN t : t[j].key = t[k].key => j = k
  BY <1>2, <1>6, <1>7
<1> QED
  BY <1>1, <1>5, <1>6, <1>8 DEF CallsStand

\* An entry is replaced by one of the same block.
LEMMA EntryReplaced ==
  ASSUME NEW es \in Seq(CacheEntries), NEW e \in DOMAIN es, NEW new \in CacheEntries, new.hash = es[e].hash,
         ListingsStand(es), \A start \in DOMAIN new.pages :
           new.pages[start] = Page(new.hash, start) \/ (start \in DOMAIN es[e].pages /\ new.pages[start] = es[e].pages[start])
  PROVE  LET fs == [es EXCEPT ![e] = new] IN fs \in Seq(CacheEntries) /\ Grown(es, fs) /\ ListingsStand(fs)
<1> DEFINE fs == [es EXCEPT ![e] = new]
<1>1. fs \in Seq(CacheEntries) /\ DOMAIN fs = DOMAIN es /\ fs[e] = new /\ \A d \in DOMAIN es : d # e => fs[d] = es[d]
  OBVIOUS
<1> HIDE DEF fs
<1>2. Grown(es, fs)
  BY <1>1 DEF Grown
<1>3. ListingsStand(fs)
  BY <1>1 DEF ListingsStand
<1> QED
  BY <1>1, <1>2, <1>3 DEF fs

\* A cached block is taken with its successor asked for, another is fetched.
LEMMA NodeBlockKeeps ==
  ASSUME Pages!PagesAssumption, PagesInv, NEW r \in Asker, Pages!NodeBlock(r)
  PROVE  PagesInv'
<1>1. PICK q \in Questions : q = asker[r] /\ Coherent(q, entries) /\ q.at = "block" /\ q.hash \in Nat
  BY DEF Pages!NodeBlock, PagesInv, PagesTypes, Learning, Questions
<1>2. PagesTypes /\ CacheStands /\ UNCHANGED <<node, blocks, cached, answer>>
  BY DEF Pages!NodeBlock, Pages!store, PagesInv
<1>3. ASSUME NEW e \in Pages!Find(q.hash), NEW ok \in BOOLEAN, inflight' = inflight,
             asker' = [asker EXCEPT ![r].at = "page", ![r].entry = e],
             entries' = IF entries[e].next = 0 /\ ok THEN [entries EXCEPT ![e].next = Pages!Next1(q.hash)] ELSE entries
      PROVE  PagesInv'
  <2>1. e \in DOMAIN entries /\ entries[e].hash = q.hash /\ e \in Nat \ {0}
    BY <1>2, <1>3 DEF Pages!Find, Pages!Range, CacheStands, HeldStand, PagesTypes
  <2>2. entries \in Seq(CacheEntries) /\ entries[e] \in CacheEntries /\ Pages!Next1(q.hash) \in Nat
    BY <1>2, <2>1, ChainIs DEF PagesTypes
  <2>3. PICK new : new = [entries[e] EXCEPT !.next = Pages!Next1(q.hash)]
    OBVIOUS
  <2>4. new \in CacheEntries /\ new.hash = entries[e].hash /\ new.pages = entries[e].pages
    BY <2>2, <2>3 DEF CacheEntries
  <2>5. entries' \in Seq(CacheEntries) /\ Grown(entries, entries') /\ ListingsStand(entries')
    <3>1. CASE entries' = entries
      BY <1>2, <3>1 DEF Grown, CacheStands, PagesTypes
    <3>2. CASE entries' = [entries EXCEPT ![e] = new]
      BY <1>2, <2>1, <2>4, <3>2, EntryReplaced DEF CacheStands, PagesTypes
    <3>3. entries' = entries \/ entries' = [entries EXCEPT ![e] = new]
      BY <1>3, <2>2, <2>3
    <3> QED
      BY <3>1, <3>2, <3>3
  <2>6. PICK n : n = [q EXCEPT !.at = "page", !.entry = e]
    OBVIOUS
  <2>7. /\ n \in Questions /\ n.at = "page" /\ n.entry = e /\ n.hash = q.hash /\ n.row = q.row
        /\ n.height = q.height
    BY <2>1, <2>6 DEF Questions, Stages, Pages!Waiting
  <2>8. asker' = [asker EXCEPT ![r] = n]
    BY <1>1, <1>2, <1>3, <2>6 DEF PagesTypes
  <2>9. Coherent(n, entries')
    BY <1>1, <2>1, <2>5, <2>7 DEF Coherent, Grown
  <2>10. asker' \in [Asker -> Questions] /\ \A a \in Asker : asker'[a] = asker[a] \/ Coherent(asker'[a], entries')
    BY <1>2, <2>7, <2>8, <2>9 DEF PagesTypes
  <2>11. HeldStand(cached', entries') /\ CallsStand(inflight', entries')
    BY <1>2, <1>3, <2>5, HeldStays, CallsStay DEF CacheStands
  <2> QED
    BY <1>2, <1>3, <2>5, <2>10, <2>11, EntriesGrow DEF PagesTypes
<1>4. ASSUME Pages!Goto({r}, "fetching"), Pages!Launch(Pages!BlockKey(q.hash), 0), entries' = entries
      PROVE  PagesInv'
  <2>0. PICK key : key = Pages!BlockKey(q.hash)
    OBVIOUS
  <2>1. key \in {"block", "txs"} \X Nat \X Nat /\ key[1] = "block"
    BY <1>1, <2>0 DEF Pages!BlockKey
  <2>2. inflight' \in Seq(Calls) /\ CallsStand(inflight', entries)
    BY <1>4, <2>0, <2>1, LaunchKeeps
  <2>3. asker' \in [Asker -> Questions] /\ \A a \in Asker : Coherent(asker'[a], entries)
    BY <1>1, <1>4, GotoKeeps DEF Pages!Goto, Stages, Pages!Waiting
  <2> QED
    BY <1>2, <1>4, <2>2, <2>3, EntriesGrow DEF PagesTypes, CacheStands, Grown
<1> QED
  BY <1>1, <1>3, <1>4 DEF Pages!NodeBlock

\* A page of an entry is there, or is fetched into it.
LEMMA TxPageKeeps ==
  ASSUME Pages!PagesAssumption, PagesInv, NEW r \in Asker, Pages!TxPageOf(r)
  PROVE  PagesInv'
<1>1. PICK q \in Questions : /\ q = asker[r] /\ Coherent(q, entries) /\ q.at = "page"
                             /\ q.hash \in Nat /\ q.start \in Nat /\ q.entry \in Nat
  BY DEF Pages!TxPageOf, PagesInv, PagesTypes, Learning, Questions
<1>2. PagesTypes /\ CacheStands /\ UNCHANGED <<node, blocks, entries, cached, answer>>
  BY DEF Pages!TxPageOf, Pages!store, PagesInv
<1>3. q.entry \in DOMAIN entries /\ entries[q.entry].hash = q.hash
  BY <1>1 DEF Coherent
<1> DEFINE ids == Pages!Slice(Pages!Txids(entries[q.entry].hash), q.start)
<1>4. ids = Page(q.hash, q.start) /\ ids \in Lists
  BY <1>1, <1>3, PageIsList DEF Page
<1> HIDE DEF ids
<1>5. ASSUME q.start \in DOMAIN entries[q.entry].pages \/ ids = <<>>, inflight' = inflight,
             asker' = [asker EXCEPT ![r].at = "end", ![r].txs = IF ids = <<>> THEN <<>> ELSE entries[q.entry].pages[q.start]]
      PROVE  PagesInv'
  <2>1. (IF ids = <<>> THEN <<>> ELSE entries[q.entry].pages[q.start]) = ids
    BY <1>2, <1>3, <1>4, <1>5 DEF CacheStands, ListingsStand
  <2>2. PICK n : n = [q EXCEPT !.at = "end", !.txs = ids]
    OBVIOUS
  <2>3. /\ n \in Questions /\ n.at = "end" /\ n.txs = ids /\ n.entry = q.entry /\ n.hash = q.hash
        /\ n.row = q.row /\ n.height = q.height /\ n.start = q.start
    BY <1>4, <2>2 DEF Questions, Stages
  <2>4. Coherent(n, entries)
    BY <1>1, <1>4, <2>3 DEF Coherent
  <2>5. asker' = [asker EXCEPT ![r] = n]
    BY <1>1, <1>2, <1>5, <2>1, <2>2 DEF PagesTypes
  <2>6. asker' \in [Asker -> Questions] /\ \A a \in Asker : Coherent(asker'[a], entries)
    BY <2>3, <2>4, <2>5, OneAsks
  <2> QED
    BY <1>2, <1>5, <2>6, AskersMove DEF PagesTypes
<1>6. ASSUME Pages!Goto({r}, "paging"), Pages!Launch(Pages!PageKey(entries[q.entry].hash, q.start), q.entry)
      PROVE  PagesInv'
  <2>0. PICK key : key = Pages!PageKey(entries[q.entry].hash, q.start)
    OBVIOUS
  <2>1. key \in {"block", "txs"} \X Nat \X Nat /\ key[2] = entries[q.entry].hash
    BY <1>1, <1>3, <2>0 DEF Pages!PageKey
  <2>2. inflight' \in Seq(Calls) /\ CallsStand(inflight', entries)
    BY <1>1, <1>3, <1>6, <2>0, <2>1, LaunchKeeps
  <2>3. asker' \in [Asker -> Questions] /\ \A a \in Asker : Coherent(asker'[a], entries)
    BY <1>1, <1>6, GotoKeeps DEF Pages!Goto, Stages, Pages!Waiting
  <2> QED
    BY <1>2, <1>6, <2>2, <2>3, EntriesGrow DEF PagesTypes, CacheStands, Grown
<1> QED
  BY <1>1, <1>5, <1>6 DEF Pages!TxPageOf, ids

\* The cache without a block has the others still.
LEMMA WithoutKeeps ==
  ASSUME PagesInv, NEW b, NEW t, t = Pages!Without(b)
  PROVE  /\ t \in Seq(Nat) /\ Len(t) \in Nat /\ Len(t) <= Len(cached)
         /\ \A i \in DOMAIN t : t[i] \in DOMAIN entries /\ entries[t[i]].hash # b
         /\ \A i, j \in DOMAIN t : entries[t[i]].hash = entries[t[j]].hash => i = j
<1>1. cached \in Seq(Nat) /\ HeldStand(cached, entries) /\ DOMAIN cached = 1..Len(cached) /\ Len(cached) \in Nat
  BY DEF PagesInv, PagesTypes, CacheStands
<1>2. CASE Pages!Find(b) = {}
  <2>1. t = cached /\ \A i \in DOMAIN cached : entries[cached[i]].hash # b
    BY <1>2 DEF Pages!Without, Pages!Find, Pages!Range
  <2> QED
    BY <1>1, <2>1 DEF HeldStand
<1>3. CASE Pages!Find(b) # {}
  <2>1. \E i \in DOMAIN cached : cached[i] \in Pages!Find(b)
    BY <1>3 DEF Pages!Find, Pages!Range
  <2>2. PICK i \in DOMAIN cached : cached[i] \in Pages!Find(b) /\ t = Pages!RemoveAt(cached, i)
    BY <1>3, <2>1 DEF Pages!Without
  <2>3. entries[cached[i]].hash = b
    BY <2>2 DEF Pages!Find
  <2> DEFINE key == [e \in Nat |-> entries[e].hash]
  <2>4. \A e \in Nat : key[e] = entries[e].hash
    OBVIOUS
  <2> HIDE DEF key
  <2>5. \A j \in DOMAIN cached : cached[j] \in Nat
    BY <1>1
  <2>6. \A j, k \in DOMAIN cached : key[cached[j]] = key[cached[k]] => j = k
    BY <1>1, <2>4, <2>5 DEF HeldStand
  <2>7. t \in Seq(Nat) /\ Len(t) = Len(cached) - 1
    BY <1>1, <2>2, Removed
  <2>8. /\ \A j, k \in DOMAIN t : key[t[j]] = key[t[k]] => j = k
        /\ \A j \in DOMAIN t : \E k \in DOMAIN cached : t[j] = cached[k] /\ key[t[j]] # key[cached[i]]
    <3>1. cached \in Seq(Nat) /\ i \in DOMAIN cached /\ t = Pages!RemoveAt(cached, i)
      BY <1>1, <2>2
    <3> QED
      BY <2>6, <3>1, RemovedDistinct
  <2>9. \A j \in DOMAIN t : t[j] \in Nat
    BY <2>7
  <2>10. \A j \in DOMAIN t : t[j] \in DOMAIN entries /\ entries[t[j]].hash # b
    BY <1>1, <2>3, <2>4, <2>5, <2>8 DEF HeldStand
  <2>11. \A j, k \in DOMAIN t : entries[t[j]].hash = entries[t[k]].hash => j = k
    BY <2>4, <2>8, <2>9
  <2> QED
    BY <1>1, <2>7, <2>10, <2>11
<1> QED
  BY <1>2, <1>3

\* A sequence without its first element.
LEMMA TailIs ==
  ASSUME NEW S, NEW s \in Seq(S), Len(s) \in Nat \ {0}
  PROVE  /\ Tail(s) \in Seq(S) /\ Len(Tail(s)) = Len(s) - 1
         /\ \A i \in 1..(Len(s) - 1) : Tail(s)[i] = s[i + 1]
OBVIOUS

\* blockCachePut: the new entry takes the place of an old one of its block, or of the
\* oldest.
LEMMA PutKeeps ==
  ASSUME Pages!PagesAssumption, PagesInv, NEW new \in CacheEntries, NEW fs, fs = Append(entries, new),
         NEW held, held = Pages!Kept(Append(Pages!Without(new.hash), Len(entries) + 1))
  PROVE  /\ fs \in Seq(CacheEntries) /\ Grown(entries, fs)
         /\ Len(entries) + 1 \in DOMAIN fs /\ fs[Len(entries) + 1] = new
         /\ held \in Seq(Nat) /\ HeldStand(held, fs)
<1>1. entries \in Seq(CacheEntries) /\ Len(cached) <= CacheMax /\ CacheMax \in Nat \ {0} /\ cached \in Seq(Nat)
  BY DEF PagesInv, PagesTypes, CacheStands, HeldStand, Pages!PagesAssumption
<1>2. PICK e \in Nat : e = Len(entries) + 1 /\ e \notin DOMAIN entries
  BY <1>1
<1>3. /\ fs \in Seq(CacheEntries) /\ DOMAIN fs = DOMAIN entries \cup {e} /\ fs[e] = new
      /\ \A d \in DOMAIN entries : fs[d] = entries[d]
  BY <1>1, <1>2
<1>4. PICK t : t = Pages!Without(new.hash)
  OBVIOUS
<1>5. /\ t \in Seq(Nat) /\ Len(t) \in Nat /\ Len(t) <= CacheMax
      /\ \A i \in DOMAIN t : t[i] \in DOMAIN entries /\ entries[t[i]].hash # new.hash
      /\ \A i, j \in DOMAIN t : entries[t[i]].hash = entries[t[j]].hash => i = j
  <2>1. /\ t \in Seq(Nat) /\ Len(t) \in Nat /\ Len(t) <= Len(cached)
        /\ \A i \in DOMAIN t : t[i] \in DOMAIN entries /\ entries[t[i]].hash # new.hash
        /\ \A i, j \in DOMAIN t : entries[t[i]].hash = entries[t[j]].hash => i = j
    BY <1>4, WithoutKeeps
  <2>2. Len(cached) \in Nat
    BY <1>1
  <2> QED
    BY <1>1, <2>1, <2>2
<1>6. PICK u : u = Append(t, e)
  OBVIOUS
<1>7. /\ u \in Seq(Nat) /\ Len(u) = Len(t) + 1 /\ DOMAIN u = 1..(Len(t) + 1) /\ u[Len(t) + 1] = e
      /\ \A i \in 1..Len(t) : u[i] = t[i]
  BY <1>2, <1>5, <1>6
<1>8. \A i \in DOMAIN u : u[i] \in DOMAIN fs
  <2>1. DOMAIN t = 1..Len(t)
    BY <1>5
  <2>2. ASSUME NEW i \in DOMAIN t PROVE u[i] \in DOMAIN fs
    <3>1. u[i] = t[i] /\ t[i] \in DOMAIN entries
      BY <1>5, <1>7, <2>1
    <3> QED
      BY <1>3, <3>1
  <2>3. u[Len(t) + 1] \in DOMAIN fs
    BY <1>3, <1>7
  <2>4. \A i \in DOMAIN u : i \in DOMAIN t \/ i = Len(t) + 1
    BY <1>5, <1>7, <2>1
  <2> QED
    BY <2>2, <2>3, <2>4
<1>9. \A i, j \in DOMAIN u : fs[u[i]].hash = fs[u[j]].hash => i = j
  <2>1. DOMAIN t = 1..Len(t)
    BY <1>5
  <2>2. \A i \in 1..Len(t) : fs[u[i]].hash = entries[t[i]].hash /\ fs[u[i]].hash # new.hash
    BY <1>3, <1>5, <1>7, <2>1
  <2>3. fs[u[Len(t) + 1]].hash = new.hash
    BY <1>3, <1>7
  <2>4. ASSUME NEW i \in DOMAIN u, NEW j \in DOMAIN u, fs[u[i]].hash = fs[u[j]].hash PROVE i = j
    <3>1. (i \in DOMAIN t \/ i = Len(t) + 1) /\ (j \in DOMAIN t \/ j = Len(t) + 1)
      BY <1>5, <1>7, <2>1
    <3>2. CASE i \in DOMAIN t /\ j \in DOMAIN t
      BY <1>3, <1>5, <1>7, <2>1, <2>4, <3>2
    <3> QED
      BY <2>1, <2>2, <2>3, <2>4, <3>1, <3>2
  <2> QED
    BY <2>4
<1>10. held = IF Len(u) > CacheMax THEN Tail(u) ELSE u
  BY <1>2, <1>4, <1>6 DEF Pages!Kept
<1>11. held \in Seq(Nat) /\ HeldStand(held, fs)
  <2>1. CASE Len(u) > CacheMax
    <3>1. Len(u) = CacheMax + 1 /\ held = Tail(u)
      BY <1>1, <1>5, <1>7, <1>10, <2>1
    <3>2. /\ held \in Seq(Nat) /\ Len(held) = CacheMax /\ DOMAIN held = 1..CacheMax
          /\ \A i \in 1..CacheMax : held[i] = u[i + 1] /\ i + 1 \in DOMAIN u
      <4>1. u \in Seq(Nat) /\ Len(u) - 1 = CacheMax /\ Len(u) \in Nat \ {0} /\ CacheMax \in Nat
        BY <1>1, <1>7, <3>1
      <4>2. held \in Seq(Nat) /\ Len(held) = Len(u) - 1 /\ \A i \in 1..(Len(u) - 1) : held[i] = u[i + 1]
        BY <3>1, <4>1, TailIs
      <4>3. DOMAIN u = 1..(CacheMax + 1) /\ DOMAIN held = 1..CacheMax
        BY <1>7, <4>1, <4>2
      <4>4. \A i \in 1..CacheMax : i + 1 \in DOMAIN u
        BY <4>1, <4>3
      <4>5. Len(u) - 1 = CacheMax /\ Len(held) = CacheMax /\ \A i \in 1..CacheMax : held[i] = u[i + 1]
        BY <4>1, <4>2
      <4> QED
        BY <4>2, <4>3, <4>4, <4>5
    <3>3. \A i, j \in DOMAIN held : fs[held[i]].hash = fs[held[j]].hash => i = j
      <4>1. ASSUME NEW i \in 1..CacheMax, NEW j \in 1..CacheMax, fs[held[i]].hash = fs[held[j]].hash
            PROVE  i = j
        <5>1. i + 1 = j + 1
          BY <1>9, <3>2, <4>1
        <5> QED
          BY <1>1, <5>1
      <4> QED
        BY <3>2, <4>1
    <3>4. \A i \in DOMAIN held : held[i] \in DOMAIN fs
      BY <1>8, <3>2
    <3> QED
      BY <1>1, <3>2, <3>3, <3>4 DEF HeldStand
  <2>2. CASE ~(Len(u) > CacheMax)
    <3>1. held = u /\ Len(u) <= CacheMax
      BY <1>1, <1>5, <1>7, <1>10, <2>2
    <3> QED
      BY <1>7, <1>8, <1>9, <3>1 DEF HeldStand
  <2> QED
    BY <2>1, <2>2
<1> QED
  BY <1>2, <1>3, <1>11 DEF Grown

\* A block, or the failure to fetch it, reaches all who wait for it.
LEMMA BlockArrivesKeeps ==
  ASSUME Pages!PagesAssumption, PagesInv, NEW i \in DOMAIN inflight, NEW ok \in BOOLEAN, Pages!BlockArrives(i, ok)
  PROVE  PagesInv'
<1>1. PagesTypes /\ CacheStands /\ UNCHANGED <<node, blocks, answer>> /\ inflight' = Pages!RemoveAt(inflight, i)
  BY DEF Pages!BlockArrives, Pages!store, PagesInv
<1>2. PICK b \in Nat : b = inflight[i].key[2]
  <2>1. inflight[i] \in Calls
    BY <1>1 DEF PagesTypes
  <2>2. inflight[i].key \in {"block", "txs"} \X Nat \X Nat
    BY <2>1 DEF Calls
  <2> QED
    BY <2>2
<1> DEFINE waiters == {r \in Pages!At("fetching") : asker[r].hash = b}
           e == Len(entries) + 1
<1>3. /\ entries' = IF ok THEN Append(entries, [hash |-> b, next |-> Pages!Next1(b), pages |-> <<>>]) ELSE entries
      /\ cached' = IF ok THEN Pages!Kept(Append(Pages!Without(b), e)) ELSE cached
      /\ asker' = [r \in Asker |-> IF r \notin waiters THEN asker[r] ELSE
                     [asker[r] EXCEPT !.at = IF ok THEN "page" ELSE "end", !.entry = IF ok THEN e ELSE 0]]
  BY <1>2 DEF Pages!BlockArrives
<1>4. inflight' \in Seq(Calls) /\ CallsStand(inflight', entries)
  BY <1>1, CallEnds
<1>5. ASSUME NEW fs, Grown(entries, fs), NEW k \in Nat, NEW at \in {"page", "end"},
             at = "end" => k = 0, at = "page" => k # 0 /\ k \in DOMAIN fs /\ fs[k].hash = b,
             asker' = [r \in Asker |-> IF r \notin waiters THEN asker[r] ELSE [asker[r] EXCEPT !.at = at, !.entry = k]]
      PROVE  asker' \in [Asker -> Questions] /\ \A r \in Asker : asker'[r] = asker[r] \/ Coherent(asker'[r], fs)
  <2>1. ASSUME NEW r \in waiters PROVE r \in Asker /\ asker'[r] \in Questions /\ Coherent(asker'[r], fs)
    <3>1. PICK q \in Questions : q = asker[r] /\ Coherent(q, entries) /\ q.at = "fetching" /\ q.hash = b /\ r \in Asker
      BY <1>1, <2>1 DEF Pages!At, PagesTypes, PagesInv, Learning
    <3>2. PICK n : n = [q EXCEPT !.at = at, !.entry = k]
      OBVIOUS
    <3>3. /\ n \in Questions /\ n.at = at /\ n.entry = k /\ n.hash = q.hash /\ n.row = q.row /\ n.height = q.height
      BY <3>1, <3>2 DEF Questions, Stages, Pages!Waiting
    <3>4. Coherent(n, fs)
      BY <1>5, <3>1, <3>3 DEF Coherent
    <3> QED
      BY <1>5, <2>1, <3>1, <3>2, <3>3, <3>4
  <2>2. \A r \in Asker : r \notin waiters => asker'[r] = asker[r] /\ asker[r] \in Questions
    BY <1>1, <1>5 DEF PagesTypes
  <2> HIDE DEF waiters
  <2>3. asker' \in [Asker -> Questions]
    BY <1>5, <2>1, <2>2
  <2> QED
    BY <2>1, <2>2, <2>3
<1>6. CASE ~ok
  <2>1. entries' = entries /\ cached' = cached /\ Grown(entries, entries)
    BY <1>3, <1>6 DEF Grown
  <2>2. asker' = [r \in Asker |-> IF r \notin waiters THEN asker[r] ELSE [asker[r] EXCEPT !.at = "end", !.entry = 0]]
    BY <1>3, <1>6
  <2> HIDE DEF waiters
  <2>3. asker' \in [Asker -> Questions] /\ \A r \in Asker : asker'[r] = asker[r] \/ Coherent(asker'[r], entries')
    BY <1>5, <2>1, <2>2
  <2> QED
    BY <1>1, <1>4, <2>1, <2>3, EntriesGrow DEF PagesTypes, CacheStands
<1>7. CASE ok
  <2>1. PICK new : new = [hash |-> b, next |-> Pages!Next1(b), pages |-> <<>>]
    OBVIOUS
  <2>2. new \in CacheEntries /\ new.hash = b /\ new.pages = <<>>
    BY <1>1, <1>2, <2>1, ChainIs, NoPages DEF CacheEntries, PagesTypes
  <2>3. entries' = Append(entries, new) /\ cached' = Pages!Kept(Append(Pages!Without(new.hash), Len(entries) + 1))
    BY <1>3, <1>7, <2>1, <2>2
  <2>4. /\ entries' \in Seq(CacheEntries) /\ Grown(entries, entries')
        /\ e \in DOMAIN entries' /\ entries'[e] = new /\ cached' \in Seq(Nat) /\ HeldStand(cached', entries')
    BY <2>2, <2>3, PutKeeps
  <2>5. ListingsStand(entries')
    <3>1. \A d \in DOMAIN entries' : d \in DOMAIN entries \/ d = e
      BY <1>1, <2>2, <2>3 DEF PagesTypes
    <3>2. \A d \in DOMAIN entries : entries'[d] = entries[d]
      BY <1>1, <2>2, <2>3 DEF PagesTypes
    <3>3. DOMAIN new.pages = {}
      BY <2>2, NoPages
    <3> QED
      BY <1>1, <2>4, <3>1, <3>2, <3>3 DEF ListingsStand, CacheStands
  <2>6. CallsStand(inflight', entries')
    BY <1>4, <2>4, CallsStay
  <2>7. e \in Nat /\ e # 0
    BY <1>1 DEF PagesTypes
  <2>8. asker' = [r \in Asker |-> IF r \notin waiters THEN asker[r] ELSE [asker[r] EXCEPT !.at = "page", !.entry = e]]
    BY <1>3, <1>7
  <2> HIDE DEF waiters, e
  <2>9. asker' \in [Asker -> Questions] /\ \A r \in Asker : asker'[r] = asker[r] \/ Coherent(asker'[r], entries')
    BY <1>5, <2>2, <2>4, <2>7, <2>8
  <2> QED
    BY <1>1, <1>4, <2>4, <2>5, <2>6, <2>9, EntriesGrow
<1> QED
  BY <1>6, <1>7

\* A page, or the failure to fetch it, reaches all who wait for it; the page is the one
\* that was asked for in whatever order its items come.
LEMMA PageArrivesKeeps ==
  ASSUME Pages!PagesAssumption, PagesInv, NEW i \in DOMAIN inflight, inflight[i].key[1] = "txs",
         NEW reply \in Pages!Replies(Pages!Slice(Pages!Txids(inflight[i].key[2]), inflight[i].key[3])),
         Pages!PageArrives(i, reply)
  PROVE  PagesInv'
<1>1. PagesTypes /\ CacheStands /\ UNCHANGED <<node, blocks, cached, answer>> /\ inflight' = Pages!RemoveAt(inflight, i)
  BY DEF Pages!PageArrives, Pages!store, PagesInv
<1>2. PICK b \in Nat, start \in Nat, e \in Nat :
        b = inflight[i].key[2] /\ start = inflight[i].key[3] /\ e = inflight[i].entry
  <2>1. inflight[i] \in Calls
    BY <1>1 DEF PagesTypes
  <2>2. inflight[i].key \in {"block", "txs"} \X Nat \X Nat /\ inflight[i].entry \in Nat
    BY <2>1 DEF Calls
  <2> QED
    BY <2>2
<1>3. e \in DOMAIN entries /\ entries[e].hash = b /\ entries[e] \in CacheEntries
  BY <1>1, <1>2 DEF CacheStands, CallsStand, PagesTypes
<1>4. PICK ids \in Lists : ids = Page(b, start)
  BY <1>2, PageIsList
<1> DEFINE n == Len(ids)
           ok == Pages!Whole(reply, n)
           waiters == {r \in Pages!At("paging") : asker[r].hash = b /\ asker[r].start = start}
<1>5. ids = Pages!Slice(Pages!Txids(b), start) /\ (ok => Pages!Matched(reply, n) = ids)
  BY <1>2, <1>4, MatchedIsPage DEF Page
<1>6. /\ entries' = IF ok THEN [entries EXCEPT ![e].pages =
                       [s \in DOMAIN @ \cup {start} |-> IF s = start THEN Pages!Matched(reply, n) ELSE @[s]]] ELSE entries
      /\ asker' = [r \in Asker |-> IF r \notin waiters THEN asker[r] ELSE
                     [asker[r] EXCEPT !.at = "end", !.entry = IF ok THEN @ ELSE 0,
                                      !.txs = IF ok THEN Pages!Matched(reply, n) ELSE <<>>]]
  BY <1>2, <1>5 DEF Pages!PageArrives
<1>7. inflight' \in Seq(Calls) /\ CallsStand(inflight', entries)
  BY <1>1, CallEnds
<1> HIDE DEF n, ok
<1>8. Grown(entries, entries') /\ entries' \in Seq(CacheEntries) /\ ListingsStand(entries')
  <2>1. CASE ~ok
    BY <1>1, <1>6, <2>1 DEF Grown, PagesTypes, CacheStands
  <2>2. CASE ok
    <3>1. PICK pages : pages = entries[e].pages
      OBVIOUS
    <3>2. PICK more : more = [s \in DOMAIN pages \cup {start} |-> IF s = start THEN ids ELSE pages[s]]
      OBVIOUS
    <3>3. PICK new : new = [entries[e] EXCEPT !.pages = more]
      OBVIOUS
    <3>4. entries' = [entries EXCEPT ![e] = new]
      BY <1>1, <1>3, <1>5, <1>6, <2>2, <3>1, <3>2, <3>3 DEF PagesTypes
    <3>5. pages \in PageMaps
      BY <1>3, <3>1 DEF CacheEntries
    <3>6. more \in PageMaps
      <4>1. PICK D \in SUBSET Nat : pages \in [D -> Lists]
        BY <3>5 DEF PageMaps
      <4>2. more \in [D \cup {start} -> Lists] /\ D \cup {start} \in SUBSET Nat
        BY <1>2, <1>4, <3>2, <4>1
      <4> QED
        BY <4>2 DEF PageMaps
    <3>7. new \in CacheEntries /\ new.hash = entries[e].hash /\ new.pages = more
      BY <1>3, <3>3, <3>6 DEF CacheEntries
    <3>8. \A s \in DOMAIN more : more[s] = Page(b, s) \/ (s \in DOMAIN pages /\ more[s] = pages[s])
      BY <1>4, <3>2
    <3>9. entries \in Seq(CacheEntries) /\ ListingsStand(entries)
      BY <1>1 DEF PagesTypes, CacheStands
    <3> QED
      BY <1>3, <3>1, <3>4, <3>7, <3>8, <3>9, EntryReplaced
  <2> QED
    BY <2>1, <2>2
<1>9. asker' \in [Asker -> Questions] /\ \A r \in Asker : asker'[r] = asker[r] \/ Coherent(asker'[r], entries')
  <2>1. ASSUME NEW r \in waiters PROVE r \in Asker /\ asker'[r] \in Questions /\ Coherent(asker'[r], entries')
    <3>1. PICK q \in Questions : q = asker[r] /\ Coherent(q, entries) /\ q.at = "paging" /\ q.hash = b /\ q.start = start /\ r \in Asker
      BY <1>1, <2>1 DEF Pages!At, PagesTypes, PagesInv, Learning
    <3>2. PICK k \in Nat, txs \in Lists : (k = 0 \/ (k = q.entry /\ txs = ids)) /\ asker'[r] = [q EXCEPT !.at = "end", !.entry = k, !.txs = txs]
      <4>1. asker'[r] = [q EXCEPT !.at = "end", !.entry = IF ok THEN q.entry ELSE 0, !.txs = IF ok THEN ids ELSE <<>>]
        BY <1>5, <1>6, <2>1, <3>1
      <4>2. q.entry \in Nat /\ <<>> \in Lists
        BY <3>1, NoPages DEF Questions
      <4>3. CASE ok
        BY <1>4, <4>1, <4>2, <4>3
      <4>4. CASE ~ok
        BY <4>1, <4>2, <4>4
      <4> QED
        BY <4>3, <4>4
    <3>3. PICK m : m = [q EXCEPT !.at = "end", !.entry = k, !.txs = txs]
      OBVIOUS
    <3>4. /\ m \in Questions /\ m.at = "end" /\ m.entry = k /\ m.txs = txs /\ m.hash = q.hash /\ m.row = q.row
          /\ m.height = q.height /\ m.start = q.start
      BY <3>1, <3>2, <3>3 DEF Questions, Stages
    <3>5. Coherent(m, entries')
      BY <1>4, <1>8, <3>1, <3>2, <3>4 DEF Coherent, Grown
    <3> QED
      BY <3>1, <3>2, <3>3, <3>4, <3>5
  <2>2. \A r \in Asker : r \notin waiters => asker'[r] = asker[r] /\ asker[r] \in Questions
    BY <1>1, <1>6 DEF PagesTypes
  <2> HIDE DEF waiters
  <2>3. asker' \in [Asker -> Questions]
    BY <1>6, <2>1, <2>2
  <2> QED
    BY <2>1, <2>2, <2>3
<1>10. HeldStand(cached', entries') /\ CallsStand(inflight', entries')
  BY <1>1, <1>7, <1>8, HeldStays, CallsStay DEF CacheStands
<1> QED
  BY <1>1, <1>7, <1>8, <1>9, <1>10, EntriesGrow DEF PagesTypes

\* The reader has an answer at the deadline, and the request goes on.
LEMMA DeadlineKeeps ==
  ASSUME Pages!PagesAssumption, PagesInv, NEW r \in Asker, Pages!Deadline(r)
  PROVE  PagesInv'
<1>1. PICK q \in Questions : q = asker[r] /\ Coherent(q, entries)
  BY DEF PagesInv, PagesTypes, Learning
<1>2. PICK n : n = [q EXCEPT !.late = TRUE]
  OBVIOUS
<1>3. /\ n \in Questions /\ n.at = q.at /\ n.entry = q.entry /\ n.hash = q.hash /\ n.row = q.row
      /\ n.height = q.height /\ n.txs = q.txs /\ n.start = q.start
  BY <1>2 DEF Questions
<1>4. PagesTypes /\ asker' = [asker EXCEPT ![r] = n] /\ UNCHANGED <<node, blocks, inflight, entries, cached>>
  BY <1>1, <1>2 DEF Pages!Deadline, Pages!store, PagesInv, PagesTypes
<1>5. Coherent(n, entries)
  BY <1>1, <1>3 DEF Coherent
<1>6. asker' \in [Asker -> Questions] /\ \A a \in Asker : Coherent(asker'[a], entries)
  BY <1>3, <1>4, <1>5, OneAsks
<1>7. PICK a : a \in Answers /\ a.kind # "full" /\ answer' = [answer EXCEPT ![r] = a]
  <2>1. PICK a : a = [kind |-> "pending", row |-> q.row.hash, start |-> q.start, asked |-> q.asked,
                      hash |-> IF q.row.hash # 0 THEN q.row.hash ELSE q.hash, next |-> 0, txs |-> <<>>]
    OBVIOUS
  <2>2. a \in Answers /\ a.kind # "full"
    BY <2>1, NoPages DEF Answers, Questions, BlockRows
  <2>3. answer' = [answer EXCEPT ![r] = a]
    BY <1>1, <2>1 DEF Pages!Deadline, Pages!Answer
  <2> QED
    BY <2>2, <2>3
<1>8. answer' \in [Asker -> Answers] /\ \A x \in Asker : answer'[x] = answer[x] \/ answer'[x].kind # "full"
  BY <1>4, <1>7 DEF PagesTypes
<1> QED
  BY <1>4, <1>6, <1>8, AskersMove DEF PagesTypes

\* The request is done: the next of its reader begins anew.
LEMMA RequestRests ==
  ASSUME PagesInv, NEW r \in Asker, asker' = [asker EXCEPT ![r] = Pages!Idle]
  PROVE  asker' \in [Asker -> Questions] /\ \A a \in Asker : Coherent(asker'[a], entries)
<1>1. Pages!Idle \in Questions
  BY NoPages DEF Pages!Idle, Pages!Row, Questions, BlockRows, Stages
<1>2. Coherent(Pages!Idle, entries)
  BY DEF Coherent, Pages!Idle, Pages!Row, Pages!Waiting
<1>3. PICK n \in Questions : n = Pages!Idle
  BY <1>1
<1> QED
  BY <1>2, <1>3, OneAsks

\* A function on an initial segment is a sequence.
LEMMA ListOf == ASSUME NEW S, NEW n \in Nat, NEW f \in [1..n -> S] PROVE f \in Seq(S)
  OBVIOUS

\* Rows that differ from the table's in a size, which is that of their block.
Resized(sized) ==
  /\ sized \in Seq(BlockRows) /\ DOMAIN sized = DOMAIN blocks
  /\ \A h \in DOMAIN blocks : sized[h].hash = blocks[h].hash
                               /\ (sized[h].size = blocks[h].size \/ sized[h].size = sized[h].hash)

\* The row that has no size is the one that was read.
LEMMA BackfillKeeps ==
  ASSUME Pages!PagesAssumption, PagesInv, NEW b \in Nat, Old(b), NEW at, at = Pages!Height(b),
         Pages!Backfills(at), NEW sized, sized = [blocks EXCEPT ![at].size = b]
  PROVE  Resized(sized)
<1>1. blocks \in Seq(BlockRows) /\ RowsStand
  BY DEF PagesInv, PagesTypes
<1>2. PICK k \in 1..Rows0 : b = BestChains[1][k]
  BY DEF Old
<1>3. 1 \in DOMAIN BestChains /\ k \in DOMAIN BestChains[1]
  BY DEF Pages!PagesAssumption
<1>4. at = k
  BY <1>2, <1>3, HeightIs
<1>5. k \in DOMAIN blocks /\ blocks[k].size = 0 /\ blocks[k].hash = b /\ blocks[k] \in BlockRows
  BY <1>1, <1>2, <1>4 DEF Pages!Backfills, RowsStand
<1>6. PICK new : new = [blocks[k] EXCEPT !.size = b]
  OBVIOUS
<1>7. new \in BlockRows /\ new.hash = b /\ new.size = b
  BY <1>5, <1>6 DEF BlockRows
<1>8. sized = [blocks EXCEPT ![k] = new]
  BY <1>1, <1>4, <1>5, <1>6
<1>9. DOMAIN sized = DOMAIN blocks /\ sized[k] = new /\ \A h \in DOMAIN blocks : h # k => sized[h] = blocks[h]
  BY <1>1, <1>5, <1>8
<1>10. sized \in Seq(BlockRows)
  <2>1. PICK n \in Nat : DOMAIN blocks = 1..n
    BY <1>1
  <2>2. \A h \in 1..n : sized[h] \in BlockRows
    BY <1>1, <1>7, <1>9, <2>1
  <2>3. sized = [h \in 1..n |-> sized[h]]
    BY <1>8, <2>1
  <2>4. sized \in [1..n -> BlockRows]
    BY <2>2, <2>3, Zenon
  <2> QED
    BY <2>4, ListOf
<1>11. ASSUME NEW h \in DOMAIN blocks
       PROVE  sized[h].hash = blocks[h].hash /\ (sized[h].size = blocks[h].size \/ sized[h].size = sized[h].hash)
  BY <1>5, <1>7, <1>9
<1> QED
  BY <1>9, <1>10, <1>11 DEF Resized

\* The answer at the end of a request.
LEMMA EndKeeps ==
  ASSUME Pages!PagesAssumption, PagesInv, NEW r \in Asker, Pages!End(r) \/ Pages!EndLate(r)
  PROVE  PagesInv'
<1>1. PICK q \in Questions : q = asker[r] /\ Coherent(q, entries) /\ q.at = "end"
  BY DEF Pages!End, Pages!EndLate, PagesInv, PagesTypes, Learning
<1>2. /\ PagesTypes /\ RowsStand /\ CacheStands /\ asker' = [asker EXCEPT ![r] = Pages!Idle]
      /\ UNCHANGED <<node, inflight, entries, cached>>
  BY DEF Pages!End, Pages!EndLate, Pages!store, PagesInv
<1>3. asker' \in [Asker -> Questions] /\ \A a \in Asker : Coherent(asker'[a], entries)
  BY <1>2, RequestRests
<1>4. CASE Pages!EndLate(r)
  <2>1. blocks' = blocks /\ answer' = answer
    BY <1>4 DEF Pages!EndLate, Pages!store
  <2> QED
    BY <1>2, <1>3, <2>1, AskersMove DEF PagesTypes
<1>5. CASE Pages!End(r)
  <2>1. q.hash \in Nat /\ q.start \in Nat /\ q.row.hash \in Nat /\ q.row.size \in Nat /\ q.txs \in Lists
        /\ q.asked \in Nat /\ q.entry \in Nat
    BY <1>1 DEF Questions, BlockRows
  <2>2. q.entry # 0 => /\ entries[q.entry].hash = q.hash /\ entries[q.entry].next \in Nat
                       /\ q.txs = Page(q.hash, q.start)
                       /\ (q.row.hash # 0 => q.hash = q.row.hash)
    <3>1. SUFFICES ASSUME q.entry # 0
                   PROVE  /\ entries[q.entry].hash = q.hash /\ entries[q.entry].next \in Nat
                          /\ q.txs = Page(q.hash, q.start)
                          /\ (q.row.hash # 0 => q.hash = q.row.hash)
      OBVIOUS
    <3>2. q.entry \in DOMAIN entries /\ entries[q.entry].hash = q.hash
      BY <1>1, <3>1 DEF Coherent
    <3>3. entries[q.entry].next \in Nat
      <4>1. entries[q.entry] \in CacheEntries
        BY <1>2, <3>2 DEF PagesTypes
      <4> QED
        BY <4>1 DEF CacheEntries
    <3>4. q.txs = Page(q.hash, q.start)
      BY <1>1, <3>1 DEF Coherent
    <3>5. q.row.hash # 0 => q.hash = q.row.hash
      BY <1>1, <3>1 DEF Coherent
    <3> QED
      BY <3>2, <3>3, <3>4, <3>5
  <2>3. PICK a : /\ a \in Answers /\ answer' = [answer EXCEPT ![r] = a]
                 /\ a.kind = "full" => (a.row # 0 => a.hash = a.row) /\ a.txs = Page(a.hash, a.start)
    <3>1. PICK kind : kind = IF q.entry # 0 THEN "full" ELSE IF q.row.hash # 0 THEN "indexed" ELSE "not found"
      OBVIOUS
    <3>2. PICK a : a = [kind |-> kind, row |-> q.row.hash, start |-> q.start, asked |-> q.asked,
                        hash |-> IF kind = "full" THEN entries[q.entry].hash ELSE IF q.row.hash # 0 THEN q.row.hash ELSE q.hash,
                        next |-> IF kind = "full" THEN entries[q.entry].next ELSE 0,
                        txs |-> IF kind = "full" THEN q.txs ELSE <<>>]
      OBVIOUS
    <3>3. answer' = [answer EXCEPT ![r] = a]
      BY <1>1, <1>5, <3>1, <3>2 DEF Pages!End, Pages!Answer
    <3>4. CASE q.entry # 0
      <4>1. /\ a.kind = "full" /\ a.hash = q.hash /\ a.row = q.row.hash /\ a.start = q.start
            /\ a.txs = q.txs /\ a.next = entries[q.entry].next /\ a.asked = q.asked
        BY <2>2, <3>1, <3>2, <3>4
      <4>2. a \in Answers
        BY <2>1, <2>2, <3>1, <3>2, <3>4 DEF Answers
      <4>3. (a.row # 0 => a.hash = a.row) /\ a.txs = Page(a.hash, a.start)
        BY <2>2, <3>4, <4>1
      <4> QED
        BY <3>3, <4>2, <4>3
    <3>5. CASE q.entry = 0
      <4>1. a.kind = kind /\ kind \in {"indexed", "not found"}
        BY <3>1, <3>2, <3>5
      <4>2. a \in Answers
        BY <2>1, <3>1, <3>2, <3>5, NoPages DEF Answers
      <4> QED
        BY <3>3, <4>1, <4>2
    <3> QED
      BY <3>4, <3>5
  <2>4. answer' \in [Asker -> Answers] /\ Pages!AnswerIsTheQuestion'
    BY <1>2, <2>3 DEF PagesInv, PagesTypes, Pages!AnswerIsTheQuestion, Page
  <2>5. blocks' \in Seq(BlockRows) /\ RowsStand'
    <3>1. CASE blocks' = blocks
      BY <1>2, <3>1 DEF PagesTypes, RowsStand
    <3>2. CASE blocks' # blocks
      <4>1. /\ q.entry # 0 /\ q.row.hash # 0 /\ q.row.size = 0
            /\ Pages!Backfills(Pages!Height(entries[q.entry].hash))
            /\ blocks' = [blocks EXCEPT ![Pages!Height(entries[q.entry].hash)].size = entries[q.entry].hash]
        BY <1>1, <1>5, <3>2 DEF Pages!End
      <4>2. PICK b \in Nat : b = entries[q.entry].hash /\ Old(b)
        BY <1>1, <2>1, <2>2, <4>1 DEF Coherent
      <4>3. /\ blocks' \in Seq(BlockRows) /\ DOMAIN blocks' = DOMAIN blocks
            /\ \A h \in DOMAIN blocks : blocks'[h].hash = blocks[h].hash
                  /\ (blocks'[h].size = blocks[h].size \/ blocks'[h].size = blocks'[h].hash)
        <5>1. PICK sized : sized = blocks'
          OBVIOUS
        <5>2. PICK at : at = Pages!Height(b)
          OBVIOUS
        <5>3. sized = [blocks EXCEPT ![at].size = b] /\ Pages!Backfills(at)
          BY <4>1, <4>2, <5>1, <5>2
        <5>4. b \in Nat /\ Old(b)
          BY <4>2
        <5>5. Resized(sized)
          BY <5>2, <5>3, <5>4, BackfillKeeps
        <5> QED
          BY <5>1, <5>5 DEF Resized
      <4> QED
        BY <1>2, <4>3 DEF RowsStand
    <3> QED
      BY <3>1, <3>2
  <2>6. Learning' /\ CacheStands'
    BY <1>2, <1>3 DEF Learning, CacheStands
  <2> QED
    BY <1>2, <1>3, <2>4, <2>5, <2>6 DEF PagesInv, PagesTypes
<1> QED
  BY <1>4, <1>5

\* Every step is one of these.
LEMMA PagesNext ==
  ASSUME Pages!PagesAssumption, PagesInv, [Pages!Next]_(Pages!vars)
  PROVE  PagesInv'
<1>1. CASE UNCHANGED Pages!vars
  <2>1. UNCHANGED <<node, blocks, inflight, entries, cached, asker, answer>>
    BY <1>1 DEF Pages!vars, Pages!store
  <2> QED
    BY <2>1, AskersMove DEF PagesInv, PagesTypes, Learning
<1>2. ASSUME NEW i \in DOMAIN inflight, Pages!Arrival(i) PROVE PagesInv'
  BY <1>2, BlockArrivesKeeps, PageArrivesKeeps DEF Pages!Arrival
<1>3. ASSUME NEW r \in Asker, Pages!Step(r) PROVE PagesInv'
  BY <1>3, OthersKeep, FoundHashKeeps, NodeBlockKeeps, TxPageKeeps, EndKeeps DEF Pages!Step
<1>4. CASE Pages!NodeMoves \/ Pages!Sync \/ Pages!Expire \/ \E ok \in BOOLEAN : Pages!Probed(ok)
  BY <1>4, OthersKeep, SyncKeeps
<1>5. ASSUME NEW r \in Asker, (\E w \in Wanted : Pages!Ask(r, w[1], w[2], w[3])) \/ Pages!Deadline(r)
      PROVE  PagesInv'
  BY <1>5, AskKeeps, DeadlineKeeps
<1> QED
  BY <1>1, <1>2, <1>3, <1>4, <1>5 DEF Pages!Next

\* However requests, answers, reorganizations and the deadline interleave, a call per
\* key is under way, the cache is within its bound, a full answer is of the block and
\* page asked for, and a row has the size of its own block (explorer.js:22-215).
THEOREM PagesAlwaysShare ==
  ASSUME Pages!PagesAssumption
  PROVE  Pages!Spec => [](/\ Pages!OneCallPerKey /\ Pages!CacheBounded
                          /\ Pages!AnswerIsTheQuestion /\ Pages!SizeIsTheRows)
<1>1. Pages!Init => PagesInv
  BY PagesInit
<1>2. PagesInv /\ [Pages!Next]_(Pages!vars) => PagesInv'
  BY PagesNext
<1>3. PagesInv => /\ Pages!OneCallPerKey /\ Pages!CacheBounded
                  /\ Pages!AnswerIsTheQuestion /\ Pages!SizeIsTheRows
  BY DEF PagesInv, CacheStands, HeldStand, CallsStand, RowsStand, Pages!OneCallPerKey, Pages!CacheBounded, Pages!SizeIsTheRows
<1> QED
  BY <1>1, <1>2, <1>3, PTL DEF Pages!Spec

---------------------------------------------------------------------------
(* The type invariants.  The bounds of the counters are not those of the   *)
(* invariants above, and most need them: a counter stays within its bound  *)
(* because what it counts does.                                            *)

\* The line is the waiting workers, each once.
InLine(l, places) ==
  /\ l \in Seq(Worker)
  /\ \A i, j \in DOMAIN l : l[i] = l[j] => i = j
  /\ \A w \in Worker : places[w] = "waiting" <=> \E i \in DOMAIN l : l[i] = w

\* A pass that will store a block started below the end of the node's chain.
PassBounds(places, starts) ==
  /\ starts \in [Worker -> 0..MaxHeight]
  /\ \A w \in Worker : /\ places[w] \in {"guard", "rollup", "store", "flush"} => starts[w] < MaxHeight
                       /\ places[w] \in {"guard", "rollup"} => starts[w] > 0

\* Where the workers stand in the line and in their passes, and what the tables may hold.
LockShape ==
  /\ holder \in Worker \cup {Lock!Nobody}
  /\ pc \in [Worker -> Lock!Places] /\ InLine(line, pc) /\ PassBounds(pc, seen)
  /\ stored \subseteq Lock!Height /\ rows \subseteq Lock!Height
  /\ counter \in Int /\ coinDays \in Int /\ base \in [Worker -> Int]
  /\ reorgs \in 0..MaxReorgs /\ drops \in 0..SessionDrops /\ stops \in 0..MaxStops

\* The greatest of some numbers up to n is one of them.
LEMMA MaxUpTo ==
  ASSUME NEW n \in Nat, NEW S, S \subseteq 1..n, S # {}
  PROVE  Lock!Max(S) \in S
<1> DEFINE below == {n - x : x \in S}
<1>1. below \subseteq Nat /\ below # {}
  <2>1. \A x \in S : n - x \in Nat
    OBVIOUS
  <2> QED
    BY <2>1
<1> HIDE DEF below
<1>2. PICK m \in below : \A b \in below : <<b, m>> \notin OpToRel(<, Nat)
  BY <1>1, NatLessThanWellFounded, WFMin
<1>3. PICK x \in S : m = n - x
  BY DEF below
<1>4. ASSUME NEW y \in S PROVE x >= y
  <2>1. n - y \in below /\ n - y \in Nat /\ m \in Nat
    BY <1>1 DEF below
  <2>2. ~(n - y < m)
    BY <1>2, <2>1 DEF OpToRel
  <2> QED
    BY <1>3, <2>1, <2>2
<1> QED
  BY <1>4 DEF Lock!Max

\* The tip is a height, or none.
LEMMA TipBounded == ASSUME Lock!LockAssumption, LockShape PROVE Lock!Tip \in 0..MaxHeight
<1>1. stored \subseteq 1..MaxHeight /\ MaxHeight \in Nat
  BY DEF LockShape, Lock!Height, Lock!LockAssumption
<1>2. CASE stored = {}
  BY <1>1, <1>2 DEF Lock!Tip
<1>3. CASE stored # {}
  <2>1. Lock!Max(stored) \in 1..MaxHeight
    BY <1>1, <1>3, MaxUpTo
  <2> QED
    BY <1>1, <1>3, <2>1 DEF Lock!Tip
<1> QED
  BY <1>2, <1>3

\* A worker that was not waiting joins at the end.
LEMMA Joins ==
  ASSUME NEW l, NEW places, InLine(l, places), places \in [Worker -> Lock!Places], NEW w \in Worker, places[w] # "waiting"
  PROVE  InLine(Append(l, w), [places EXCEPT ![w] = "waiting"])
<1> DEFINE t == Append(l, w)
           p == [places EXCEPT ![w] = "waiting"]
<1>1. l \in Seq(Worker) /\ \A i \in DOMAIN l : l[i] # w
  BY DEF InLine
<1>2. PICK n : n \in Nat /\ n = Len(l) /\ DOMAIN l = 1..n
  BY <1>1
<1>3. t \in Seq(Worker) /\ DOMAIN t = 1..(n + 1) /\ t[n + 1] = w /\ \A i \in 1..n : t[i] = l[i]
  BY <1>1, <1>2
<1> HIDE DEF t
<1>4. \A i, j \in DOMAIN t : t[i] = t[j] => i = j
  BY <1>1, <1>2, <1>3 DEF InLine
<1>5. ASSUME NEW v \in Worker PROVE p[v] = "waiting" <=> \E i \in DOMAIN t : t[i] = v
  <2>1. n + 1 \in DOMAIN t /\ \A i \in DOMAIN t : i = n + 1 \/ i \in 1..n
    BY <1>2, <1>3
  <2>2. \A i \in 1..n : i \in DOMAIN t
    BY <1>2, <1>3
  <2>3. CASE v = w
    BY <1>3, <2>1, <2>3
  <2>4. CASE v # w
    BY <1>2, <1>3, <2>1, <2>2, <2>4 DEF InLine
  <2> QED
    BY <2>3, <2>4
<1> QED
  BY <1>3, <1>4, <1>5 DEF InLine, t

\* The first of the line leaves it by being granted the lock, another one
\* because its process ends.
LEMMA TakenFromLine ==
  ASSUME NEW l, NEW places, InLine(l, places), places \in [Worker -> Lock!Places],
         NEW k \in DOMAIN l, NEW place \in Lock!Places, place # "waiting"
  PROVE  InLine(Lock!RemoveAt(l, k), [places EXCEPT ![l[k]] = place])
<1> DEFINE t == Lock!RemoveAt(l, k)
           p == [places EXCEPT ![l[k]] = place]
           q(j) == IF j < k THEN j ELSE j + 1
<1>1. l \in Seq(Worker) /\ l[k] \in Worker
  BY DEF InLine
<1>2. PICK n : n \in Nat /\ n = Len(l) /\ DOMAIN l = 1..n /\ k \in 1..n
  BY <1>1
<1>3. t \in Seq(Worker) /\ Len(t) = n - 1 /\ \A j \in 1..(n - 1) : t[j] = l[q(j)]
  <2>1. t = Pages!RemoveAt(l, k)
    BY DEF Lock!RemoveAt, Pages!RemoveAt
  <2> HIDE DEF t
  <2> QED
    BY <1>1, <1>2, <2>1, Removed
<1> HIDE DEF t
<1>4. DOMAIN t = 1..(n - 1)
  BY <1>2, <1>3
<1>5. \A j \in 1..(n - 1) : q(j) \in 1..n /\ q(j) # k
  BY <1>2
<1>6. \A i, j \in 1..(n - 1) : q(i) = q(j) => i = j
  BY <1>2
<1>7. ASSUME NEW i \in 1..n, i # k PROVE \E j \in 1..(n - 1) : q(j) = i
  <2>1. CASE i < k
    BY <1>2, <2>1
  <2>2. CASE ~(i < k)
    <3>1. i - 1 \in 1..(n - 1) /\ ~(i - 1 < k)
      BY <1>2, <1>7, <2>2
    <3> QED
      BY <3>1
  <2> QED
    BY <2>1, <2>2
<1> HIDE DEF q
<1>8. \A i, j \in DOMAIN t : t[i] = t[j] => i = j
  BY <1>2, <1>3, <1>4, <1>5, <1>6 DEF InLine
<1>9. ASSUME NEW v \in Worker PROVE p[v] = "waiting" <=> \E i \in DOMAIN t : t[i] = v
  <2>1. CASE v = l[k]
    <3>1. p[v] = place
      BY <1>1, <2>1
    <3>2. \A i \in DOMAIN t : t[i] # v
      BY <1>2, <1>3, <1>4, <1>5, <2>1 DEF InLine
    <3> QED
      BY <3>1, <3>2
  <2>2. CASE v # l[k]
    <3>1. p[v] = places[v]
      BY <2>2
    <3>2. ASSUME NEW i \in DOMAIN l, l[i] = v PROVE \E j \in DOMAIN t : t[j] = v
      <4>1. PICK j \in 1..(n - 1) : q(j) = i
        BY <1>2, <1>7, <2>2, <3>2
      <4> QED
        BY <1>3, <1>4, <3>2, <4>1
    <3>3. ASSUME NEW j \in DOMAIN t, t[j] = v PROVE \E i \in DOMAIN l : l[i] = v
      BY <1>2, <1>3, <1>4, <1>5, <3>3
    <3> QED
      BY <3>1, <3>2, <3>3 DEF InLine
  <2> QED
    BY <2>1, <2>2
<1> QED
  BY <1>3, <1>8, <1>9 DEF InLine, t

\* A worker past the lock changes its place without the line.
LEMMA LineStays ==
  ASSUME NEW l, NEW places, InLine(l, places), places \in [Worker -> Lock!Places],
         NEW w \in Worker, places[w] # "waiting", NEW place \in Lock!Places, place # "waiting"
  PROVE  InLine(l, [places EXCEPT ![w] = place])
BY DEF InLine

\* A process that ends leaves the line, if it stood in it.
LEMMA LeavesLine ==
  ASSUME NEW w \in Worker, InLine(line, pc), pc \in [Worker -> Lock!Places]
  PROVE  InLine(Lock!Leaves(w), [pc EXCEPT ![w] = "down"])
<1>1. "down" \in Lock!Places /\ "down" # "waiting"
  BY DEF Lock!Places
<1>2. CASE w \in Lock!Range(line)
  <2>1. PICK k : k = (CHOOSE i \in DOMAIN line : line[i] = w)
    OBVIOUS
  <2>2. k \in DOMAIN line /\ line[k] = w
    BY <1>2, <2>1 DEF Lock!Range
  <2>3. Lock!Leaves(w) = Lock!RemoveAt(line, k)
    BY <1>2, <2>1 DEF Lock!Leaves
  <2>4. InLine(Lock!RemoveAt(line, k), [pc EXCEPT ![line[k]] = "down"])
    BY <1>1, <2>2, TakenFromLine
  <2> QED
    BY <2>2, <2>3, <2>4
<1>3. CASE w \notin Lock!Range(line)
  <2>1. Lock!Leaves(w) = line
    BY <1>3 DEF Lock!Leaves
  <2>2. pc[w] # "waiting"
    BY <1>3 DEF InLine, Lock!Range
  <2> QED
    BY <1>1, <2>1, <2>2, LineStays
<1> QED
  BY <1>2, <1>3

\* The types hold before any worker starts.
LEMMA LockTypesInit == ASSUME Lock!LockAssumption, Lock!Init PROVE LockShape
<1>1. line = <<>> /\ pc = [w \in Worker |-> "down"] /\ seen = [w \in Worker |-> 0]
  BY DEF Lock!Init
<1>2. <<>> \in Seq(Worker) /\ DOMAIN <<>> = {}
  OBVIOUS
<1>3. InLine(line, pc)
  BY <1>1, <1>2 DEF InLine
<1>4. PassBounds(pc, seen)
  BY <1>1 DEF PassBounds, Lock!LockAssumption
<1> QED
  BY <1>3, <1>4 DEF Lock!Init, LockShape, Lock!LockAssumption, Lock!Places, Lock!Height

\* A worker comes to a place where its pass promises nothing of its tip.
LEMMA MovesOn ==
  ASSUME LockShape, NEW w \in Worker, NEW place \in {"down", "waiting", "pass", "cut"}
  PROVE  /\ [pc EXCEPT ![w] = place] \in [Worker -> Lock!Places]
         /\ PassBounds([pc EXCEPT ![w] = place], seen)
<1> DEFINE p == [pc EXCEPT ![w] = place]
<1>1. p \in [Worker -> Lock!Places] /\ p[w] = place /\ \A v \in Worker \ {w} : p[v] = pc[v]
  BY DEF LockShape, Lock!Places, Lock!Writing
<1> HIDE DEF p
<1>2. PassBounds(p, seen)
  BY <1>1 DEF LockShape, PassBounds
<1> QED
  BY <1>1, <1>2 DEF p

\* The steps that take and lose the lock keep the types.
LEMMA HoldTypes ==
  ASSUME Lock!LockAssumption, LockShape, NEW w \in Worker,
         Lock!Acquire(w) \/ Lock!Granted(w) \/ Lock!Stopped(w) \/ Lock!Replaced(w) \/ Lock!NoticesLoss(w)
  PROVE  LockShape'
<1>1. /\ UNCHANGED <<stored, counter, rows, coinDays, seen, base, reorgs, drops>>
      /\ holder' \in {holder, w, Lock!Nobody} /\ stops' \in 0..MaxStops
  <2>1. stops' = stops \/ (stops < MaxStops /\ stops' = stops + 1)
    BY DEF Lock!Acquire, Lock!Granted, Lock!Stopped, Lock!Replaced, Lock!NoticesLoss, Lock!Ends, Lock!bounds
  <2>2. UNCHANGED <<stored, counter, rows, coinDays, seen, base, reorgs, drops>> /\ holder' \in {holder, w, Lock!Nobody}
    BY DEF Lock!Acquire, Lock!Granted, Lock!Stopped, Lock!Replaced, Lock!NoticesLoss, Lock!Ends, Lock!bounds, Lock!tables
  <2> QED
    BY <2>1, <2>2 DEF LockShape, Lock!LockAssumption
<1>2. ASSUME InLine(line', pc'), NEW place \in {"down", "waiting", "pass", "cut"}, pc' = [pc EXCEPT ![w] = place]
      PROVE  LockShape'
  <2>1. pc' \in [Worker -> Lock!Places] /\ PassBounds(pc', seen)
    BY <1>2, MovesOn
  <2> QED
    BY <1>1, <1>2, <2>1 DEF LockShape, Lock!Height
<1>3. InLine(line, pc) /\ pc \in [Worker -> Lock!Places] /\ line \in Seq(Worker)
  BY DEF LockShape, InLine
<1>4. CASE Lock!Acquire(w)
  <2>1. pc[w] = "down"
    BY <1>4 DEF Lock!Acquire
  <2>2. CASE holder = Lock!Nobody /\ line = <<>>
    <3>1. pc' = [pc EXCEPT ![w] = "pass"] /\ line' = line
      BY <1>4, <2>2 DEF Lock!Acquire, Lock!Goes
    <3> QED
      BY <1>2, <1>3, <2>1, <3>1, LineStays DEF Lock!Places, Lock!Writing
  <2>3. CASE ~(holder = Lock!Nobody /\ line = <<>>)
    <3>1. pc' = [pc EXCEPT ![w] = "waiting"] /\ line' = Append(line, w)
      BY <1>4, <2>3 DEF Lock!Acquire, Lock!Goes
    <3> QED
      BY <1>2, <1>3, <2>1, <3>1, Joins
  <2> QED
    BY <2>2, <2>3
<1>5. CASE Lock!Granted(w)
  <2>1. line # <<>> /\ w = Head(line) /\ line' = Tail(line) /\ pc' = [pc EXCEPT ![w] = "pass"]
    BY <1>5 DEF Lock!Granted, Lock!Goes
  <2>2. 1 \in DOMAIN line /\ line[1] = w
    BY <1>3, <2>1
  <2>3. Lock!RemoveAt(line, 1) = Tail(line)
    <3>1. Pages!RemoveAt(line, 1) = Lock!RemoveAt(line, 1)
      BY DEF Lock!RemoveAt, Pages!RemoveAt
    <3>2. PICK t, u : t = Lock!RemoveAt(line, 1) /\ u = Tail(line)
      OBVIOUS
    <3>3. PICK n : n \in Nat /\ n = Len(line) /\ n > 0
      BY <1>3, <2>1
    <3>4. t \in Seq(Worker) /\ Len(t) = n - 1 /\ \A j \in 1..(n - 1) : t[j] = line[IF j < 1 THEN j ELSE j + 1]
      <4>1. PICK r : r = Pages!RemoveAt(line, 1)
        OBVIOUS
      <4>2. r \in Seq(Worker) /\ Len(r) = Len(line) - 1 /\ \A j \in 1..(Len(line) - 1) : r[j] = line[IF j < 1 THEN j ELSE j + 1]
        BY <1>3, <2>2, <4>1, Removed
      <4>3. r = t
        BY <3>1, <3>2, <4>1
      <4> QED
        BY <3>3, <4>2, <4>3
    <3>5. u \in Seq(Worker) /\ Len(u) = n - 1 /\ \A j \in 1..(n - 1) : u[j] = line[j + 1]
      BY <1>3, <2>1, <3>2, <3>3
    <3>6. \A j \in 1..(n - 1) : t[j] = u[j]
      BY <3>3, <3>4, <3>5
    <3>7. t = u
      BY ONLY <3>3, <3>4, <3>5, <3>6
    <3> QED
      BY <3>2, <3>7
  <2>4. InLine(Lock!RemoveAt(line, 1), [pc EXCEPT ![line[1]] = "pass"])
    BY <1>3, <2>2, TakenFromLine DEF Lock!Places, Lock!Writing
  <2> QED
    BY <1>2, <2>1, <2>2, <2>3, <2>4
<1>6. CASE Lock!Stopped(w) \/ Lock!Replaced(w) \/ Lock!NoticesLoss(w)
  <2>1. pc' = [pc EXCEPT ![w] = "down"] /\ line' = Lock!Leaves(w)
    BY <1>6 DEF Lock!Stopped, Lock!Replaced, Lock!NoticesLoss, Lock!Ends, Lock!Goes
  <2> QED
    BY <1>2, <1>3, <2>1, LeavesLine
<1> QED
  BY <1>4, <1>5, <1>6

\* So do the steps of the loop.
LEMMA LoopTypes ==
  ASSUME Lock!LockAssumption, LockShape, NEW w \in Worker,
         \/ Lock!StartPass(w) \/ Lock!Guard(w) \/ Lock!RollupRereads(w) \/ Lock!Rollup(w)
         \/ Lock!StoreReads(w) \/ Lock!StoreCommits(w) \/ Lock!CutReads(w) \/ Lock!CutCommits(w)
  PROVE  LockShape'
<1>1. UNCHANGED <<holder, line, drops, stops>> /\ pc[w] \in Lock!Writing
  BY DEF Lock!StartPass, Lock!Guard, Lock!RollupRereads, Lock!Rollup, Lock!StoreReads, Lock!StoreCommits, Lock!CutReads,
         Lock!CutCommits, Lock!Writing, Lock!bounds
<1>2. PICK m : m = MaxHeight /\ m \in Nat
  BY DEF Lock!LockAssumption
<1>3. PICK top : top = Lock!Tip /\ top \in 0..m
  BY <1>2, TipBounded
<1>4. PICK here : here = pc[w] /\ here \in Lock!Writing /\ here # "waiting"
  BY <1>1 DEF Lock!Writing
<1>5. PICK at : at = seen[w] /\ at \in 0..m
              /\ (here \in {"guard", "rollup", "store", "flush"} => at < m) /\ (here \in {"guard", "rollup"} => at > 0)
  BY <1>2, <1>4 DEF LockShape, PassBounds
<1>6. PICK held : held = base[w] /\ held \in Int
  BY DEF LockShape
\* So that each action only has to say what it changes.
<1>7. ASSUME NEW place \in Lock!Writing, pc' = [pc EXCEPT ![w] = place],
             NEW start \in 0..m, seen' = [seen EXCEPT ![w] = start],
             place \in {"guard", "rollup", "store", "flush"} => start < m, place \in {"guard", "rollup"} => start > 0,
             base' \in [Worker -> Int], stored' \subseteq 1..m, rows' \subseteq 1..m, counter' \in Int, coinDays' \in Int,
             reorgs' \in 0..MaxReorgs
      PROVE  LockShape'
  <2>1. place \in Lock!Places /\ place # "waiting"
    BY <1>7 DEF Lock!Writing, Lock!Places
  <2>2. pc' \in [Worker -> Lock!Places]
    BY <1>7, <2>1 DEF LockShape
  <2>3. InLine(line, pc')
    BY <1>1, <1>4, <1>7, <2>1, LineStays DEF LockShape
  <2>4. PassBounds(pc', seen')
    BY <1>2, <1>7 DEF LockShape, PassBounds
  <2> QED
    BY <1>1, <1>2, <1>7, <2>2, <2>3, <2>4 DEF LockShape, Lock!Height
<1>8. /\ stored \subseteq 1..m /\ rows \subseteq 1..m /\ counter \in Int /\ coinDays \in Int /\ base \in [Worker -> Int]
      /\ reorgs \in 0..MaxReorgs /\ seen \in [Worker -> 0..m] /\ seen = [seen EXCEPT ![w] = at]
  BY <1>2, <1>5 DEF LockShape, Lock!Height, PassBounds
<1>9. CASE Lock!StartPass(w)
  <2>1. /\ UNCHANGED <<stored, rows, counter, coinDays, base, reorgs>> /\ seen' = [seen EXCEPT ![w] = top]
        /\ top < m /\ pc' = [pc EXCEPT ![w] = IF top > 0 THEN "guard" ELSE "store"]
    BY <1>2, <1>3, <1>9 DEF Lock!StartPass, Lock!Goes, Lock!tables, Lock!bounds
  <2>2. PICK place : place = (IF top > 0 THEN "guard" ELSE "store")
    OBVIOUS
  <2>3. place \in {"guard", "store"} /\ (place = "guard" => top > 0)
    BY <2>2
  <2> QED
    BY <1>3, <1>7, <1>8, <2>1, <2>2, <2>3 DEF Lock!Writing
<1>10. CASE Lock!Guard(w)
  <2>1. /\ UNCHANGED <<stored, rows, counter, coinDays, seen, reorgs>> /\ here = "guard"
        /\ \/ pc' = [pc EXCEPT ![w] = "store"] /\ base' = base
           \/ pc' = [pc EXCEPT ![w] = "rollup"] /\ base' = [base EXCEPT ![w] = coinDays]
    BY <1>4, <1>10 DEF Lock!Guard, Lock!Goes, Lock!tables, Lock!bounds
  <2>2. base' \in [Worker -> Int] /\ seen' = [seen EXCEPT ![w] = at]
    BY <1>8, <2>1
  <2> QED
    BY <1>5, <1>7, <1>8, <2>1, <2>2 DEF Lock!Writing
<1>11. CASE Lock!RollupRereads(w)
  <2>1. /\ UNCHANGED <<stored, rows, counter, coinDays, seen, reorgs>> /\ here = "rollup" /\ pc' = pc
        /\ base' = [base EXCEPT ![w] = coinDays]
    BY <1>4, <1>11 DEF Lock!RollupRereads, Lock!tables, Lock!bounds
  <2>2. base' \in [Worker -> Int] /\ seen' = [seen EXCEPT ![w] = at] /\ pc' = [pc EXCEPT ![w] = "rollup"]
    BY <1>4, <1>8, <2>1 DEF LockShape
  <2> QED
    BY <1>5, <1>7, <1>8, <2>1, <2>2 DEF Lock!Writing
<1>12. CASE Lock!Rollup(w)
  <2>1. /\ UNCHANGED <<stored, counter, seen, base, reorgs>> /\ here = "rollup" /\ pc' = [pc EXCEPT ![w] = "store"]
        /\ rows' = rows \cup {at} /\ coinDays' = held + 1
    BY <1>4, <1>5, <1>6, <1>12 DEF Lock!Rollup, Lock!Goes, Lock!bounds
  <2>2. at \in 1..m /\ at < m
    BY <1>2, <1>5, <2>1
  <2>3. rows' \subseteq 1..m /\ coinDays' \in Int /\ seen' = [seen EXCEPT ![w] = at]
    BY <1>6, <1>8, <2>1, <2>2
  <2> QED
    BY <1>5, <1>7, <1>8, <2>1, <2>2, <2>3 DEF Lock!Writing
<1>13. CASE Lock!StoreReads(w)
  <2>1. /\ UNCHANGED <<stored, rows, counter, coinDays, seen, reorgs>> /\ here = "store" /\ pc' = [pc EXCEPT ![w] = "flush"]
        /\ base' = [base EXCEPT ![w] = counter]
    BY <1>4, <1>13 DEF Lock!StoreReads, Lock!Goes, Lock!tables, Lock!bounds
  <2>2. base' \in [Worker -> Int] /\ seen' = [seen EXCEPT ![w] = at]
    BY <1>8, <2>1
  <2> QED
    BY <1>5, <1>7, <1>8, <2>1, <2>2 DEF Lock!Writing
<1>14. CASE Lock!StoreCommits(w)
  <2>1. /\ UNCHANGED <<rows, coinDays, seen, base, reorgs>> /\ here = "flush" /\ pc' = [pc EXCEPT ![w] = "pass"]
        /\ \/ stored' = stored /\ counter' = counter
           \/ stored' = stored \cup {at + 1} /\ counter' = held + 1
    BY <1>4, <1>5, <1>6, <1>14 DEF Lock!StoreCommits, Lock!Goes, Lock!bounds
  <2>2. at + 1 \in 1..m
    BY <1>2, <1>5, <2>1
  <2>3. stored' \subseteq 1..m /\ counter' \in Int
    <3>1. stored' \subseteq 1..m
      BY <1>8, <2>1, <2>2
    <3>2. counter' \in Int
      BY <1>6, <1>8, <2>1
    <3> QED
      BY <3>1, <3>2
  <2>4. seen' = [seen EXCEPT ![w] = at]
    BY <1>8, <2>1
  <2> QED
    BY <1>5, <1>7, <1>8, <2>1, <2>3, <2>4 DEF Lock!Writing
<1>15. CASE Lock!CutReads(w)
  <2>1. /\ UNCHANGED <<stored, rows, counter, coinDays>> /\ pc' = [pc EXCEPT ![w] = "cut"] /\ top > 1
        /\ seen' = [seen EXCEPT ![w] = top - 1] /\ base' = [base EXCEPT ![w] = 1]
        /\ reorgs < MaxReorgs /\ reorgs' = reorgs + 1
    BY <1>3, <1>15 DEF Lock!CutReads, Lock!Goes, Lock!tables
  <2>2. top - 1 \in 0..m
    BY <1>2, <1>3, <2>1
  <2>3. base' \in [Worker -> Int]
    BY <1>8, <2>1
  <2>4. reorgs' \in 0..MaxReorgs
    BY <1>8, <2>1 DEF Lock!LockAssumption
  <2> QED
    BY <1>7, <1>8, <2>1, <2>2, <2>3, <2>4 DEF Lock!Writing
<1>16. CASE Lock!CutCommits(w)
  <2>1. /\ UNCHANGED <<seen, base, reorgs>> /\ pc' = [pc EXCEPT ![w] = "pass"]
        /\ stored' \subseteq stored /\ rows' \subseteq rows /\ counter' = counter - held
        /\ coinDays' = Lock!Cardinality(rows')
    BY <1>6, <1>16 DEF Lock!CutCommits, Lock!Goes, Lock!bounds
  <2>2. coinDays' \in Int
    <3>1. IsFiniteSet(1..m)
      BY <1>2, FS_Interval
    <3>2. IsFiniteSet(rows')
      BY <1>8, <2>1, <3>1, FS_Subset
    <3>3. Cardinality(rows') \in Nat
      BY <3>2, FS_CardinalityType
    <3> QED
      BY <2>1, <3>3 DEF Lock!Cardinality, Cardinality
  <2>3. stored' \subseteq 1..m /\ rows' \subseteq 1..m /\ counter' \in Int /\ seen' = [seen EXCEPT ![w] = at]
    BY <1>6, <1>8, <2>1
  <2> QED
    BY <1>5, <1>7, <1>8, <2>1, <2>2, <2>3 DEF Lock!Writing
<1> QED
  BY <1>9, <1>10, <1>11, <1>12, <1>13, <1>14, <1>15, <1>16

\* The types of the lock and the writing workers.
LEMMA LockTypesHold == ASSUME Lock!LockAssumption PROVE Lock!Spec => []Lock!TypeOK
<1>1. Lock!Init => LockShape
  BY LockTypesInit
<1>2. LockShape /\ [Lock!Next]_(Lock!vars) => LockShape'
  <2> SUFFICES ASSUME LockShape, [Lock!Next]_(Lock!vars) PROVE LockShape'
    OBVIOUS
  <2>1. CASE UNCHANGED Lock!vars
    BY <2>1 DEF Lock!vars, LockShape, Lock!Height
  <2>2. CASE Lock!SessionDropped
    BY <2>2 DEF Lock!SessionDropped, Lock!tables, LockShape, Lock!LockAssumption, Lock!Height
  <2>3. ASSUME NEW w \in Worker, Lock!Step(w) PROVE LockShape'
    BY <2>3, HoldTypes, LoopTypes DEF Lock!Step
  <2> QED
    BY <2>1, <2>2, <2>3 DEF Lock!Next
<1>3. LockShape => Lock!TypeOK
  <2> SUFFICES ASSUME LockShape PROVE Lock!TypeOK
    OBVIOUS
  <2>1. line \in Seq(Worker) /\ \A i \in DOMAIN line : line[i] \in Worker
    BY DEF LockShape, InLine
  <2>2. Lock!Range(line) = {w \in Worker : pc[w] = "waiting"}
    BY <2>1 DEF LockShape, InLine, Lock!Range
  <2> QED
    BY <2>1, <2>2 DEF LockShape, PassBounds, Lock!TypeOK
<1> QED
  BY <1>1, <1>2, <1>3, PTL DEF Lock!Spec

\* Bounds of the limiter's counters.
RateBounds ==
  /\ asked \in [Ip -> 0..MaxHits]
  /\ \A k \in DOMAIN hits : hits[k] \in 1..MaxHits

\* The types of the fetching lanes.
LEMMA FetchTypesHold == ASSUME Lanes!FetchAssumption PROVE Lanes!Spec => []Lanes!TypeOK
<1>1. Lanes!Init => FetchInv
  BY FetchInit
<1>2. FetchInv /\ [Lanes!Next]_(Lanes!vars) => FetchInv'
  BY FetchNext
<1>3. FetchInv => Lanes!TypeOK
  BY DEF FetchInv
<1> QED
  BY <1>1, <1>2, <1>3, PTL DEF Lanes!Spec

\* Every request counts once, of MaxHits an address makes.
LEMMA RateBoundsKept ==
  ASSUME Rate!RateAssumption, RateInv, RateBounds, [Rate!Next]_(Rate!vars)
  PROVE  RateBounds'
<1>1. CASE Rate!NextMinute \/ UNCHANGED Rate!vars
  BY <1>1 DEF Rate!NextMinute, Rate!vars, RateBounds, Rate!RateAssumption
<1>2. ASSUME NEW ip \in Ip, Rate!Request(ip) PROVE RateBounds'
  <2> DEFINE k == <<ip, win>>
             n == IF k \in DOMAIN hits THEN hits[k] + 1 ELSE 1
             all == DOMAIN hits \cup {k}
             keep == IF Rate!Cardinality(all) > MaxKeys THEN {x \in all : ~Rate!Stale(x)} ELSE all
  <2>1. /\ hits' = [x \in keep |-> IF x = k THEN n ELSE hits[x]]
        /\ asked' = [asked EXCEPT ![ip] = @ + 1] /\ asked[ip] < MaxHits
    BY <1>2 DEF Rate!Request, Rate!Counters
  <2>2. keep \subseteq all
    OBVIOUS
  <2>3. n = asked[ip] + 1 /\ n \in Nat
    BY DEF RateInv
  <2> HIDE DEF n, keep
  <2>4. MaxHits \in Nat /\ asked[ip] \in Nat /\ n \in 1..MaxHits
    BY <2>1, <2>3 DEF RateBounds, Rate!RateAssumption
  <2>5. asked' \in [Ip -> 0..MaxHits]
    BY <2>1, <2>4 DEF RateBounds
  <2>6. \A x \in DOMAIN hits' : hits'[x] \in 1..MaxHits
    BY <2>1, <2>2, <2>4 DEF RateBounds
  <2> QED
    BY <2>5, <2>6 DEF RateBounds
<1> QED
  BY <1>1, <1>2 DEF Rate!Next

\* The types of the limiter.
LEMMA RateTypesHold == ASSUME Rate!RateAssumption PROVE Rate!Spec => []Rate!TypeOK
<1>1. Rate!Init => RateInv /\ RateBounds
  <2> SUFFICES ASSUME Rate!Init PROVE RateBounds
    BY RateInit
  <2>1. DOMAIN hits = {}
    BY DEF Rate!Init
  <2> QED
    BY <2>1 DEF Rate!Init, RateBounds, Rate!RateAssumption
<1>2. RateInv /\ RateBounds /\ [Rate!Next]_(Rate!vars) => RateInv' /\ RateBounds'
  BY RateNext, RateBoundsKept
<1>3. RateInv /\ RateBounds => Rate!TypeOK
  <2> SUFFICES ASSUME RateInv, RateBounds PROVE Rate!TypeOK
    OBVIOUS
  <2>1. \A i \in Ip : passed[i] \in 0..(IF Limit > 0 THEN Limit ELSE MaxHits)
    BY DEF RateInv, RateBounds, Rate!LimitIsExact, Rate!RateAssumption
  <2>2. passed \in [Ip -> 0..(IF Limit > 0 THEN Limit ELSE MaxHits)]
    BY <2>1 DEF RateInv
  <2> QED
    BY <2>2 DEF RateInv, RateBounds, Rate!TypeOK, Rate!Counters
<1> QED
  BY <1>1, <1>2, <1>3, PTL DEF Rate!Spec

\* How far each counter of the watchdog model runs; a batch is all that is left to
\* fetch once the hash call is made.
DogBounds ==
  /\ elapsed <= CallBudget + StageMax + Nap
  /\ left <= Probes + Batch /\ orphans <= Batch /\ sincePass <= PassCap
  /\ stage \in {"hash", "block"} => left <= Batch

\* No step runs a counter past its bound.
LEMMA DogBoundsKept ==
  ASSUME DogBudgets, CallBudget # 0, DogInv, DogBounds, [Dog!Next]_(Dog!vars)
  PROVE  DogBounds'
<1> USE DEF DogBudgets, DogInv, DogTypes, DogBounds
<1>1. CASE Dog!Tick
  <2>1. left' = left /\ orphans' = orphans /\ stage' = stage /\ sincePass' = Dog!AtMost(sincePass + 1, PassCap)
        /\ elapsed' = Dog!AtMost(elapsed + 1, IF stage \in Dog!Work THEN StageMax + 1 ELSE Dog!Limit)
    BY <1>1 DEF Dog!Tick
  <2>2. Dog!Limit \in Nat /\ Dog!Limit <= CallBudget + StageMax + Nap
    BY DEF Dog!Limit
  <2>3. elapsed' <= CallBudget + StageMax + Nap
    <3> DEFINE cap == IF stage \in Dog!Work THEN StageMax + 1 ELSE Dog!Limit
    <3>1. cap \in Nat /\ cap <= CallBudget + StageMax + Nap
      BY <2>2
    <3>2. elapsed' = Dog!AtMost(elapsed + 1, cap)
      BY <2>1, Zenon
    <3> HIDE DEF cap
    <3>3. elapsed' \in {cap, elapsed + 1} /\ elapsed' <= cap
      <4> HIDE DEF DogBudgets, DogInv, DogBounds
      <4>1. elapsed \in Nat
        BY DEF DogInv, DogTypes
      <4> QED
        BY <3>1, <3>2, <4>1 DEF Dog!AtMost
    <3> QED
      BY <3>1, <3>3
  <2>4. sincePass' <= PassCap
    BY <2>1 DEF Dog!AtMost
  <2> QED
    BY <2>1, <2>3, <2>4
<1>2. CASE Dog!Check
  BY <1>2 DEF Dog!Check
<1>3. CASE Dog!OrphanLands
  BY <1>3 DEF Dog!OrphanLands
<1>4. CASE UNCHANGED Dog!vars
  BY <1>4 DEF Dog!vars
<1> USE DEF Dog!Enter, Dog!Quiet
<1>5. CASE Dog!Restart
  BY <1>5 DEF Dog!Restart
<1>6. CASE Dog!StartPass \/ Dog!PricesEnd \/ Dog!ProbeAnswers \/ Dog!WorkFails
  BY <1>6 DEF Dog!StartPass, Dog!PricesEnd, Dog!ProbeAnswers, Dog!WorkFails
<1>7. CASE Dog!ProbeFails
  BY <1>7 DEF Dog!ProbeFails
<1>8. CASE Dog!InfoAnswers \/ Dog!HashAnswers
  BY <1>8 DEF Dog!InfoAnswers, Dog!HashAnswers
<1>9. CASE Dog!BlockLands
  BY <1>9 DEF Dog!BlockLands
<1>10. CASE Dog!PassFails
  BY <1>10 DEF Dog!PassFails
<1>11. CASE Dog!Commits
  BY <1>11 DEF Dog!Commits
<1> QED
  BY <1>1, <1>2, <1>3, <1>4, <1>5, <1>6, <1>7, <1>8, <1>9, <1>10, <1>11 DEF Dog!Next

\* With the bounds the invariant is the type invariant.
LEMMA DogBoundsAreTypes ==
  ASSUME DogBudgets, DogInv, DogBounds
  PROVE  Dog!TypeOK
<1> USE DEF DogBudgets, DogInv, DogTypes, DogBounds
<1>1. elapsed \in 0..Dog!AtMost(Threshold, CallBudget + StageMax + Nap)
  BY DEF Dog!AtMost
<1>2. idle \in 0..Threshold + CheckEvery
  BY DEF Watched
<1>3. left \in 0..Probes + Batch /\ orphans \in 0..Batch /\ sincePass \in 0..PassCap /\ due \in 0..CheckEvery /\ silence \in Nat
  OBVIOUS
<1>4. strained \in BOOLEAN
  BY Zenon
<1>5. stage \in Dog!Calls \cup Dog!Work \cup Dog!Pauses \cup {"exited"}
  OBVIOUS
<1> QED
  BY ONLY <1>1, <1>2, <1>3, <1>4, <1>5 DEF Dog!TypeOK

\* The types of the stall watchdog.
LEMMA DogTypesHold ==
  ASSUME Dog!WatchdogAssumption, Dog!MarginAssumption
  PROVE  Dog!Spec => []Dog!TypeOK
<1>1. DogBudgets /\ CallBudget # 0 /\ PassCap \in Nat /\ Probes \in Nat
  BY DEF DogBudgets, Dog!WatchdogAssumption, Dog!MarginAssumption
<1>2. Dog!Init => DogInv /\ DogBounds
  <2> SUFFICES ASSUME Dog!Init PROVE DogInv /\ DogBounds
    OBVIOUS
  <2>1. DogInv
    BY <1>1, DogInit
  <2>2. elapsed <= CallBudget + StageMax + Nap /\ left <= Probes + Batch /\ orphans <= Batch /\ sincePass <= PassCap
        /\ stage \notin {"hash", "block"}
    BY <1>1 DEF Dog!Init, DogBudgets
  <2> QED
    BY <2>1, <2>2 DEF DogBounds
<1>3. DogInv /\ DogBounds /\ [Dog!Next]_(Dog!vars) => (DogInv /\ DogBounds)'
  BY <1>1, DogNext, DogBoundsKept
<1>4. DogInv /\ DogBounds => Dog!TypeOK
  BY <1>1, DogBoundsAreTypes
<1> QED
  BY <1>2, <1>3, <1>4, PTL DEF Dog!Spec

\* The tip and the heights spent at stay within the chain, and the list has at
\* most ListMax coins.
AddressBounds ==
  /\ tip <= MaxTip /\ \A c \in Coin : spent[c] <= MaxTip
  /\ read.list \subseteq Coin /\ Addresses!Cardinality(read.list) <= ListMax

\* At most ListMax coins have fewer than ListMax above them: the lowest of them
\* has the others above it.
LEMMA ListedFits ==
  ASSUME Addresses!ViewAssumption, Settled
  PROVE  Addresses!Listed \subseteq Coin /\ Addresses!Cardinality(Addresses!Listed) <= ListMax
<1> DEFINE U == Addresses!Unspent
           L == Addresses!Listed
           Higher(c) == {d \in U : d > c}
<1>1. U \subseteq Coin /\ U \subseteq 1..tip /\ U \subseteq Nat /\ ListMax \in Nat
  <2>1. Coin \subseteq Nat \ {0} /\ ListMax \in Nat /\ tip \in Nat
    BY DEF Settled, Addresses!ViewAssumption
  <2>2. \A c \in U : c \in Coin /\ c <= tip
    BY DEF Addresses!Unspent
  <2>3. ASSUME NEW c \in U PROVE c \in 1..tip /\ c \in Nat
    <3>1. c \in Coin /\ c <= tip
      BY <2>2
    <3>2. c \in Nat \ {0}
      BY <2>1, <3>1
    <3> QED
      BY <2>1, <3>1, <3>2
  <2> HIDE DEF U
  <2> QED
    BY <2>1, <2>2, <2>3
<1>2. \A S : Addresses!Cardinality(S) = Cardinality(S)
  BY DEF Addresses!Cardinality, Cardinality
<1>3. L \subseteq U /\ \A c \in L : Cardinality(Higher(c)) < ListMax
  BY <1>2 DEF Addresses!Listed
<1> HIDE DEF U, L
<1>4. IsFiniteSet(U)
  <2>1. IsFiniteSet(1..tip)
    BY FS_Interval DEF Settled
  <2> QED
    BY <1>1, <2>1, FS_Subset
<1>5. \A S \in SUBSET U : IsFiniteSet(S) /\ Cardinality(S) \in Nat
  BY <1>4, FS_Subset, FS_CardinalityType
<1>6. Cardinality(L) <= ListMax
  <2>1. CASE L = {}
    BY <1>1, <2>1, FS_EmptySet
  <2>2. CASE L # {}
    <3>1. L \subseteq Nat
      BY <1>1, <1>3
    <3>2. PICK c \in L : \A d \in L : <<d, c>> \notin OpToRel(<, Nat)
      BY <2>2, <3>1, NatLessThanWellFounded, WFMin
    <3>3. ASSUME NEW d \in L \ {c} PROVE d > c
      <4>1. d \in Nat /\ c \in Nat /\ d # c
        BY <3>1
      <4>2. ~(d < c)
        BY <3>2, <4>1 DEF OpToRel
      <4> QED
        BY <4>1, <4>2
    <3>4. L \ {c} \in SUBSET Higher(c) /\ Higher(c) \in SUBSET U /\ L \in SUBSET U
      BY <1>3, <3>3
    <3> HIDE DEF Higher
    <3>5. Cardinality(L \ {c}) <= Cardinality(Higher(c))
      BY <1>5, <3>4, FS_Subset
    <3>6. Cardinality(L \ {c}) = Cardinality(L) - 1
      BY <1>5, <3>4, FS_RemoveElement
    <3>7. Cardinality(Higher(c)) < ListMax /\ Cardinality(Higher(c)) \in Nat /\ Cardinality(L) \in Nat
      BY <1>3, <1>5, <3>4
    <3> QED
      BY <1>1, <3>5, <3>6, <3>7
  <2> QED
    BY <2>1, <2>2
<1>7. Addresses!Cardinality(L) <= ListMax
  BY <1>2, <1>6
<1> QED
  BY <1>1, <1>3, <1>7 DEF L

\* Blocks and reads keep the bounds.
LEMMA AddressBoundsKept ==
  ASSUME Addresses!ViewAssumption, AddressInv, AddressBounds, [Addresses!Next]_(Addresses!vars)
  PROVE  AddressBounds'
<1>1. ASSUME UNCHANGED <<tip, spent>>, read'.list \subseteq Coin, Addresses!Cardinality(read'.list) <= ListMax
      PROVE  AddressBounds'
  BY <1>1 DEF AddressBounds
<1>2. DOMAIN read = {"sat", "n", "basis", "list", "price"}
      /\ read.list \subseteq Coin /\ Addresses!Cardinality(read.list) <= ListMax
  BY DEF AddressInv, AddressBounds
<1>3. CASE Addresses!ReadBalance \/ Addresses!ReadPrice \/ UNCHANGED Addresses!vars
  <2>1. UNCHANGED <<tip, spent>> /\ read'.list = read.list
    BY <1>2, <1>3 DEF Addresses!ReadBalance, Addresses!ReadPrice, Addresses!vars
  <2> QED
    BY <1>1, <1>2, <2>1
<1>4. CASE Addresses!ReadList
  <2>1. UNCHANGED <<tip, spent>> /\ read'.list = Addresses!Listed
    BY <1>2, <1>4 DEF Addresses!ReadList
  <2> QED
    BY <1>1, <2>1, ListedFits DEF AddressInv
<1>5. CASE Addresses!Reply
  <2>1. UNCHANGED <<tip, spent>> /\ read'.list = {}
    BY <1>5 DEF Addresses!Reply, Addresses!Unread
  <2>2. Addresses!Cardinality({}) = 0
    BY FS_EmptySet DEF Addresses!Cardinality, Cardinality
  <2> QED
    BY <1>1, <2>1, <2>2 DEF Addresses!ViewAssumption
<1>6. ASSUME NEW S \in SUBSET Addresses!Unspent, Addresses!Block(S) PROVE AddressBounds'
  <2>1. /\ tip < MaxTip /\ tip' = tip + 1 /\ spent' = [c \in Coin |-> IF c \in S THEN tip + 1 ELSE spent[c]]
        /\ read' = read
    BY <1>6 DEF Addresses!Block
  <2>2. tip \in Nat /\ MaxTip \in Nat
    BY DEF AddressInv, Settled, Addresses!ViewAssumption
  <2> QED
    BY <2>1, <2>2 DEF AddressBounds
<1> QED
  BY <1>3, <1>4, <1>5, <1>6 DEF Addresses!Next

\* With the bounds the invariant is the type invariant.
LEMMA AddressBoundsAreTypes ==
  ASSUME Addresses!ViewAssumption, AddressInv, AddressBounds
  PROVE  Addresses!TypeOK
<1>1. tip \in 0..MaxTip
  BY DEF AddressInv, Settled, AddressBounds, Addresses!ViewAssumption
<1>2. spent \in [Coin -> 0..MaxTip]
  BY DEF AddressInv, Settled, AddressBounds, Addresses!ViewAssumption
<1>3. tips \in [{"balance", "list", "price"} -> Addresses!Null..MaxTip]
  <2>1. \A q \in Queries : tips[q] \in Addresses!Null..MaxTip
    BY DEF AddressInv, Settled, AddressBounds, Addresses!ViewAssumption, Addresses!Null, OfTip
  <2> QED
    BY <2>1 DEF AddressInv, Queries
<1> QED
  BY <1>1, <1>2, <1>3 DEF AddressBounds, Addresses!TypeOK

\* The types of the address pages.
LEMMA AddressTypesHold == ASSUME Addresses!ViewAssumption PROVE Addresses!Spec => []Addresses!TypeOK
<1>1. Addresses!Init => AddressInv /\ AddressBounds
  <2> SUFFICES ASSUME Addresses!Init PROVE AddressInv /\ AddressBounds
    OBVIOUS
  <2>1. tip = 0 /\ spent = [c \in Coin |-> 0] /\ read.list = {}
    BY DEF Addresses!Init, Addresses!Unread
  <2>2. Addresses!Cardinality({}) = 0
    BY FS_EmptySet DEF Addresses!Cardinality, Cardinality
  <2> QED
    BY <2>1, <2>2, AddressInit DEF AddressBounds, Addresses!ViewAssumption
<1>2. AddressInv /\ AddressBounds /\ [Addresses!Next]_(Addresses!vars) => (AddressInv /\ AddressBounds)'
  BY AddressNext, AddressBoundsKept
<1>3. AddressInv /\ AddressBounds => Addresses!TypeOK
  BY AddressBoundsAreTypes
<1> QED
  BY <1>1, <1>2, <1>3, PTL DEF Addresses!Spec

\* The requests of admins under way.
Open == {r \in Request : request[r] # Keys!Idle}

\* Every request under way and every one done is one of MaxActs; the uses of a
\* key are.
KeysBounds ==
  /\ Cardinality(Open) + acts <= MaxActs
  /\ \A k \in Key : keys[k].revoked <= MaxActs /\ served[k] <= MaxUses /\ counting[k] \in Seq(0..MaxUses)

\* They are finitely many.
LEMMA OpenCounts ==
  ASSUME Keys!KeysAssumption
  PROVE  /\ Keys!Cardinality(Open) = Cardinality(Open)
         /\ IsFiniteSet(Open) /\ Cardinality(Open) \in Nat
<1>1. \A S : Keys!Cardinality(S) = Cardinality(S) /\ (Keys!IsFiniteSet(S) <=> IsFiniteSet(S))
  BY DEF Keys!Cardinality, Cardinality, Keys!IsFiniteSet, IsFiniteSet
<1>2. IsFiniteSet(Request)
  BY <1>1 DEF Keys!KeysAssumption
<1>3. IsFiniteSet(Open)
  BY <1>2, FS_Subset DEF Open
<1> QED
  BY <1>1, <1>3, FS_CardinalityType

\* A request that enters is one more of MaxActs.
LEMMA EnterBounds ==
  ASSUME Keys!KeysAssumption, KeysInv, KeysBounds, NEW r \in Request, NEW who, NEW op, Keys!Enter(r, who, op)
  PROVE  KeysBounds'
<1>1. /\ request[r] = Keys!Idle /\ request' = [request EXCEPT ![r] = [who |-> who, op |-> op]]
      /\ Keys!Cardinality(Open) + acts < MaxActs
      /\ UNCHANGED <<keys, counting, acts, served>>
  BY DEF Keys!Enter, Open
<1>2. request \in [Request -> {Keys!Idle} \cup [who : {Root} \cup Admin, op : Keys!Ops]] /\ acts \in Nat /\ MaxActs \in Nat
  BY DEF KeysInv, KeysTypes, Keys!KeysAssumption
<1>3. Open' \subseteq Open \cup {r} /\ r \notin Open
  BY <1>1, <1>2 DEF Open
<1>4. /\ IsFiniteSet(Open) /\ IsFiniteSet(Open \cup {r}) /\ Cardinality(Open \cup {r}) = Cardinality(Open) + 1
      /\ Cardinality(Open) \in Nat
  BY <1>3, OpenCounts, FS_AddElement
<1>5. IsFiniteSet(Open') /\ Cardinality(Open') <= Cardinality(Open) + 1 /\ Cardinality(Open') \in Nat
  BY <1>3, <1>4, FS_Subset, FS_CardinalityType
<1>6. Cardinality(Open') + acts <= MaxActs
  BY <1>1, <1>2, <1>4, <1>5, OpenCounts
<1> QED
  BY <1>1, <1>6 DEF KeysBounds

\* A request that is done no longer counts as open, but as an act.
LEMMA ActBounds ==
  ASSUME Keys!KeysAssumption, KeysInv, KeysBounds, NEW r \in Request,
         Keys!MintKey(r) \/ Keys!RevokeKey(r) \/ Keys!MintAdmin(r) \/ Keys!RevokeAdmin(r)
  PROVE  KeysBounds'
<1>1. /\ request[r].op \in Keys!Ops /\ acts' = acts + 1 /\ request' = [request EXCEPT ![r] = Keys!Idle]
      /\ UNCHANGED <<counting, served>>
  BY DEF Keys!MintKey, Keys!RevokeKey, Keys!MintAdmin, Keys!RevokeAdmin, Keys!Act, Keys!Ops
<1>2. /\ request \in [Request -> {Keys!Idle} \cup [who : {Root} \cup Admin, op : Keys!Ops]]
      /\ acts \in Nat /\ MaxActs \in Nat
      /\ keys \in [Key -> [by : {Keys!NoOne, Root} \cup Admin, revoked : Nat, count : Nat]]
  BY DEF KeysInv, KeysTypes, Keys!KeysAssumption
<1>3. Open' = Open \ {r} /\ r \in Open
  <2>1. request[r] # Keys!Idle
    <3>1. Keys!Idle.op = "none" /\ "none" \notin Keys!Ops
      BY DEF Keys!Idle, Keys!Ops
    <3> QED
      BY <1>1, <3>1
  <2> QED
    BY <1>1, <1>2, <2>1 DEF Open
<1>4. Cardinality(Open') = Cardinality(Open) - 1 /\ Cardinality(Open) \in Nat
  BY <1>3, OpenCounts, FS_RemoveElement
<1>5. acts' <= MaxActs /\ Cardinality(Open') + acts' <= MaxActs
  <2>1. Cardinality(Open') \in Nat
    <3>1. IsFiniteSet(Open')
      BY <1>3, OpenCounts, FS_RemoveElement
    <3> QED
      BY <3>1, FS_CardinalityType
  <2>2. Cardinality(Open) + acts <= MaxActs
    BY DEF KeysBounds
  <2> QED
    BY <1>1, <1>2, <1>4, <2>1, <2>2
<1>6. ASSUME NEW k \in Key PROVE keys'[k].revoked <= MaxActs
  <2>1. CASE Keys!MintKey(r)
    <3>1. PICK j \in Key : keys' = [keys EXCEPT ![j].by = request[r].who]
      BY <2>1 DEF Keys!MintKey
    <3>2. keys'[k].revoked = keys[k].revoked
      BY <1>2, <3>1
    <3> QED
      BY <3>2 DEF KeysBounds
  <2>2. CASE Keys!RevokeKey(r)
    <3>1. PICK j \in Key : keys' = [keys EXCEPT ![j].revoked = acts'] \/ keys' = keys
      BY <2>2 DEF Keys!RevokeKey
    <3>2. keys'[k].revoked \in {keys[k].revoked, acts'}
      BY <1>2, <3>1
    <3> QED
      BY <1>5, <3>2 DEF KeysBounds
  <2>3. CASE Keys!MintAdmin(r) \/ Keys!RevokeAdmin(r)
    BY <2>3 DEF KeysBounds, Keys!MintAdmin, Keys!RevokeAdmin
  <2> QED
    BY <2>1, <2>2, <2>3
<1> QED
  BY <1>1, <1>5, <1>6 DEF KeysBounds

\* A use of a key is one of MaxUses, and no count exceeds the uses.
LEMMA UseBounds ==
  ASSUME Keys!KeysAssumption, KeysInv, KeysBounds, NEW k \in Key,
         Keys!Use(k) \/ Keys!CountLands(k) \/ Keys!CountFails(k)
  PROVE  KeysBounds'
<1>1. /\ keys \in [Key -> [by : {Keys!NoOne, Root} \cup Admin, revoked : Nat, count : Nat]]
      /\ served \in [Key -> Nat] /\ lost \in [Key -> Nat] /\ MaxUses \in Nat /\ MaxActs \in Nat
      /\ counting \in [Key -> Seq(Nat)]
  BY DEF KeysInv, KeysTypes, Keys!KeysAssumption
<1>2. UNCHANGED <<request, acts>>
  BY DEF Keys!Use, Keys!CountLands, Keys!CountFails
<1>3. \A j \in Key : keys'[j].revoked = keys[j].revoked
  <2>1. keys' = keys \/ keys' = [keys EXCEPT ![k].count = Keys!Counted(k)]
    BY DEF Keys!Use, Keys!CountLands, Keys!CountFails
  <2> QED
    BY <1>1, <2>1
<1>4. \A j \in Key : served'[j] <= MaxUses
  <2>1. CASE Keys!Use(k)
    <3>1. served' = [served EXCEPT ![k] = @ + 1] /\ served[k] < MaxUses
      BY <2>1 DEF Keys!Use
    <3> QED
      BY <1>1, <3>1 DEF KeysBounds
  <2>2. CASE Keys!CountLands(k) \/ Keys!CountFails(k)
    BY <2>2 DEF Keys!CountLands, Keys!CountFails, KeysBounds
  <2> QED
    BY <2>1, <2>2
<1>5. \A j \in Key : counting'[j] \in Seq(0..MaxUses)
  <2>1. counting[k] \in Seq(0..MaxUses)
    BY DEF KeysBounds
  <2>2. CASE Keys!Use(k)
    <3>1. counting' = [counting EXCEPT ![k] = Append(counting[k], keys[k].count)]
      BY <2>2 DEF Keys!Use
    <3>2. keys[k].count \in 0..MaxUses
      <4>1. keys[k].count + Len(counting[k]) + lost[k] = served[k] /\ served[k] <= MaxUses
        BY DEF KeysInv, Counts, KeysBounds
      <4>2. Len(counting[k]) \in Nat /\ lost[k] \in Nat /\ keys[k].count \in Nat /\ served[k] \in Nat
        BY <1>1
      <4> QED
        BY <1>1, <4>1, <4>2
    <3>3. Append(counting[k], keys[k].count) \in Seq(0..MaxUses)
      BY <2>1, <3>2
    <3> QED
      BY <1>1, <3>1, <3>3 DEF KeysBounds
  <2>3. CASE Keys!CountLands(k) \/ Keys!CountFails(k)
    <3>1. counting[k] # <<>> /\ counting' = [counting EXCEPT ![k] = Tail(counting[k])]
      BY <2>3 DEF Keys!CountLands, Keys!CountFails
    <3>2. Tail(counting[k]) \in Seq(0..MaxUses)
      <4>1. PICK S, q : S = 0..MaxUses /\ q = counting[k]
        OBVIOUS
      <4>2. q \in Seq(S) /\ q # <<>>
        BY <2>1, <3>1, <4>1
      <4>3. Tail(q) \in Seq(S)
        BY ONLY <4>2
      <4> QED
        BY <4>1, <4>3
    <3> QED
      BY <1>1, <3>1, <3>2 DEF KeysBounds
  <2> QED
    BY <2>2, <2>3
<1>6. Cardinality(Open') + acts' <= MaxActs
  BY <1>2 DEF KeysBounds, Open
<1> QED
  BY <1>3, <1>4, <1>5, <1>6 DEF KeysBounds

\* With the bounds the invariant is the type invariant.
LEMMA KeysBoundsAreTypes ==
  ASSUME Keys!KeysAssumption, KeysInv, KeysBounds
  PROVE  Keys!TypeOK
<1>1. /\ keys \in [Key -> [by : {Keys!NoOne, Root} \cup Admin, revoked : Nat, count : Nat]]
      /\ served \in [Key -> Nat] /\ lost \in [Key -> Nat] /\ MaxUses \in Nat /\ MaxActs \in Nat
      /\ counting \in [Key -> Seq(Nat)] /\ acts \in Nat
  BY DEF KeysInv, KeysTypes, Keys!KeysAssumption
<1>2. ASSUME NEW k \in Key
      PROVE  keys[k].count \in 0..MaxUses /\ lost[k] \in 0..MaxUses /\ served[k] \in 0..MaxUses
  <2>1. keys[k].count + Len(counting[k]) + lost[k] = served[k] /\ served[k] <= MaxUses
    BY DEF KeysInv, Counts, KeysBounds
  <2>2. Len(counting[k]) \in Nat /\ lost[k] \in Nat /\ keys[k].count \in Nat /\ served[k] \in Nat
    BY <1>1
  <2> QED
    BY <1>1, <2>1, <2>2
<1>3. keys \in [Key -> [by : {Keys!NoOne, Root} \cup Admin, revoked : 0..MaxActs, count : 0..MaxUses]]
  <2>1. ASSUME NEW k \in Key
        PROVE  keys[k] \in [by : {Keys!NoOne, Root} \cup Admin, revoked : 0..MaxActs, count : 0..MaxUses]
    <3>1. keys[k] \in [by : {Keys!NoOne, Root} \cup Admin, revoked : Nat, count : Nat] /\ keys[k].revoked <= MaxActs
      BY <1>1 DEF KeysBounds
    <3>2. keys[k].revoked \in 0..MaxActs
      BY <1>1, <3>1
    <3> QED
      BY <1>2, <3>1, <3>2
  <2> QED
    BY <1>1, <2>1
<1>4. served \in [Key -> 0..MaxUses] /\ lost \in [Key -> 0..MaxUses]
  BY <1>1, <1>2
<1>5. acts \in 0..MaxActs
  BY <1>1, OpenCounts DEF KeysBounds
<1>6. counting \in [Key -> Seq(0..MaxUses)]
  BY <1>1 DEF KeysBounds
<1> QED
  BY <1>3, <1>4, <1>5, <1>6 DEF KeysInv, KeysTypes, Keys!TypeOK

\* The types of the admins and keys.
LEMMA KeysTypesHold == ASSUME Keys!KeysAssumption PROVE Keys!Spec => []Keys!TypeOK
<1>1. Keys!Init => KeysInv /\ KeysBounds
  <2> SUFFICES ASSUME Keys!Init PROVE KeysBounds
    BY KeysStart
  <2>1. Open = {} /\ acts = 0
    BY DEF Keys!Init, Open
  <2>2. Cardinality(Open) + acts <= MaxActs
    BY <2>1, FS_EmptySet DEF Keys!KeysAssumption
  <2> QED
    BY <2>2 DEF Keys!Init, Keys!Absent, KeysBounds, Keys!KeysAssumption
<1>2. KeysInv /\ KeysBounds /\ [Keys!Next]_(Keys!vars) => KeysInv' /\ KeysBounds'
  <2> SUFFICES ASSUME KeysInv, KeysBounds, [Keys!Next]_(Keys!vars) PROVE KeysBounds'
    BY KeysNext
  <2>1. CASE UNCHANGED Keys!vars
    BY <2>1 DEF Keys!vars, KeysBounds, Open
  <2> QED
    BY <2>1, EnterBounds, ActBounds, UseBounds DEF Keys!Next
<1>3. KeysInv /\ KeysBounds => Keys!TypeOK
  BY KeysBoundsAreTypes
<1> QED
  BY <1>1, <1>2, <1>3, PTL DEF Keys!Spec

\* Effects are numbered from 1, and what is shown is an answer of some kind.
ScreenBounds ==
  /\ effect >= 1 /\ \A f \in flight \cup timers : f.effect >= 1
  /\ shown # Screen!Null => shown.kind \in Screen!Kinds

\* Every step keeps this.
LEMMA ScreenBoundsKept ==
  ASSUME Screen!PageAssumption, ScreenInv, ScreenBounds, [Screen!Next]_(Screen!vars)
  PROVE  ScreenBounds'
<1>1. effect \in Nat /\ mount \in Nat /\ flight \subseteq Requests /\ timers \subseteq Requests
  BY DEF ScreenInv, ScreenTypes
<1>2. ASSUME NEW r, NEW p, NEW m, effect' = effect + 1, timers' = {},
             flight' = flight \cup {Screen!Request(r, p, effect', m)}, shown' = shown \/ shown' = Screen!Null
      PROVE  ScreenBounds'
  <2>1. PICK new : new = Screen!Request(r, p, effect', m)
    OBVIOUS
  <2>2. new.effect = effect + 1 /\ flight' = flight \cup {new}
    BY <1>2, <2>1 DEF Screen!Request
  <2> QED
    BY <1>1, <1>2, <2>2 DEF ScreenBounds
<1>3. ASSUME NEW r, Screen!Go(r) PROVE ScreenBounds'
  BY <1>2, <1>3 DEF Screen!Go, Screen!Cleaned
<1>4. ASSUME NEW p, Screen!Turn(p) PROVE ScreenBounds'
  BY <1>2, <1>4 DEF Screen!Turn, Screen!Cleaned
<1>5. ASSUME NEW f \in flight, NEW kind \in Screen!Kinds, Screen!Reply(f, kind) PROVE ScreenBounds'
  <2>1. [f EXCEPT !.attempt = @ + 1].effect = f.effect
    BY <1>1 DEF Requests
  <2>2. \A t \in timers' : t \in timers \/ t.effect = f.effect
    BY <1>5, <2>1 DEF Screen!Reply
  <2>3. flight' \subseteq flight /\ effect' = effect
    BY <1>5 DEF Screen!Reply
  <2>4. shown' = shown \/ shown'.kind = kind
    BY <1>5 DEF Screen!Reply
  <2> QED
    BY <2>2, <2>3, <2>4 DEF ScreenBounds
<1>6. ASSUME NEW f \in flight, Screen!Fail(f) PROVE ScreenBounds'
  <2>1. flight' \subseteq flight /\ UNCHANGED <<timers, effect>>
    BY <1>6 DEF Screen!Fail
  <2>2. shown' = shown \/ shown'.kind = "empty"
    BY <1>6 DEF Screen!Fail
  <2> QED
    BY <2>1, <2>2 DEF ScreenBounds, Screen!Kinds
<1>7. ASSUME NEW t \in timers, Screen!Poll(t) PROVE ScreenBounds'
  BY <1>7 DEF Screen!Poll, ScreenBounds
<1>8. ASSUME UNCHANGED <<shown, effect, flight, timers>> PROVE ScreenBounds'
  BY <1>8 DEF ScreenBounds
<1>9. ASSUME NEW r, Screen!Enter(r) \/ Screen!Submit(r) PROVE ScreenBounds'
  BY <1>3, <1>8, <1>9 DEF Screen!Enter, Screen!Submit
<1>10. ASSUME NEW s, Screen!Found(s) \/ Screen!Missed(s) PROVE ScreenBounds'
  BY <1>3, <1>8, <1>10 DEF Screen!Found, Screen!Missed
<1>11. CASE UNCHANGED Screen!vars
  BY <1>8, <1>11 DEF Screen!vars
<1> QED
  BY <1>4, <1>5, <1>6, <1>7, <1>9, <1>10, <1>11 DEF Screen!Next, Screen!Answered

\* err and busy are never anything but booleans.
ErrIs == err \in BOOLEAN

\* No step makes err anything else.
LEMMA ErrKept == ASSUME ErrIs, [Screen!Next]_(Screen!vars) PROVE ErrIs'
<1>1. \/ err' = FALSE \/ err' = err \/ \E f \in flight : err' = (err \/ (Screen!Live(f) /\ f.view # "home"))
  BY DEF Screen!Next, Screen!vars, Screen!Enter, Screen!Submit, Screen!Go, Screen!Turn, Screen!Answered,
         Screen!Fail, Screen!ErrAfter, Screen!Reply, Screen!Poll, Screen!Found, Screen!Missed
<1> QED
  BY <1>1 DEF ErrIs

\* The types of the explorer screen.
LEMMA ScreenTypesHold == ASSUME Screen!PageAssumption PROVE Screen!Spec => []Screen!TypeOK
<1>1. Screen!Init => ScreenInv /\ ScreenBounds /\ ErrIs
  <2> SUFFICES ASSUME Screen!Init PROVE ScreenBounds /\ ErrIs
    BY ScreenInit
  <2>1. PICK new : new = Screen!Request(route, 0, 1, 1)
    OBVIOUS
  <2>2. new.effect = 1 /\ flight = {new} /\ timers = {} /\ effect = 1 /\ shown = Screen!Null
    BY <2>1 DEF Screen!Init, Screen!Request
  <2>3. err \in BOOLEAN
    BY Zenon DEF Screen!Init
  <2> QED
    BY <2>2, <2>3 DEF ScreenBounds, ErrIs
<1>2. ScreenInv /\ ScreenBounds /\ ErrIs /\ [Screen!Next]_(Screen!vars) => ScreenInv' /\ ScreenBounds' /\ ErrIs'
  BY ScreenNext, ScreenBoundsKept, ErrKept
<1>3. ScreenInv /\ ScreenBounds /\ ErrIs => Screen!TypeOK
  <2> SUFFICES ASSUME ScreenInv, ScreenBounds, ErrIs PROVE Screen!TypeOK
    OBVIOUS
  <2>1. \A f \in flight \cup timers : f.effect \in 1..effect /\ f.attempt \in 0..PendingPolls
    <3> SUFFICES ASSUME NEW f \in flight \cup timers PROVE f.effect \in 1..effect /\ f.attempt \in 0..PendingPolls
      OBVIOUS
    <3>1. f \in Requests /\ Asked(f) /\ effect \in Nat /\ f.effect >= 1
      BY DEF ScreenInv, ScreenTypes, ScreenBounds
    <3> QED
      BY <3>1 DEF Requests, Asked
  <2>2. route \in Screen!Routes /\ page \in Nat
    BY DEF ScreenInv, ScreenTypes, PageNumbers
  <2>3. busy \in BOOLEAN /\ err \in BOOLEAN
    BY Zenon DEF ScreenInv, ScreenTypes, ErrIs
  <2> QED
    BY <2>1, <2>2, <2>3 DEF ScreenBounds, Screen!TypeOK
<1> QED
  BY <1>1, <1>2, <1>3, PTL DEF Screen!Spec

\* Bounds of the counters of the alerts; a check has read two rows at most.
AlarmBounds ==
  /\ counted \subseteq Alert /\ mailed \subseteq Alert
  /\ \A a \in Alert : fired[a] \in 0..MaxDays
  /\ \A c \in Checker : Alarm!Cardinality(check[c].days) <= 2
  /\ takenBack <= MaxRewinds /\ sendFaults <= MaxSendFaults

\* A check reads no more than two rows.
LEMMA TwoRowsRead ==
  ASSUME AlarmTypes, Alarm!AlertsAssumption
  PROVE  Alarm!Cardinality(Alarm!LatestTwo) <= 2
<1>1. \A S : Alarm!Cardinality(S) = Cardinality(S)
  BY DEF Alarm!Cardinality, Cardinality
<1>2. ASSUME NEW x, NEW y, NEW S, S \subseteq {x, y} PROVE Cardinality(S) <= 2
  <2>1. IsFiniteSet({x}) /\ Cardinality({x}) = 1
    BY FS_Singleton
  <2>2. {x, y} = {x} \cup {y}
    OBVIOUS
  <2>3. IsFiniteSet({x, y}) /\ Cardinality({x, y}) \in {1, 2}
    BY <2>1, <2>2, FS_AddElement
  <2>4. IsFiniteSet(S) /\ Cardinality(S) <= Cardinality({x, y}) /\ Cardinality(S) \in Nat
    BY <1>2, <2>3, FS_Subset, FS_CardinalityType
  <2> QED
    BY <2>3, <2>4
<1>3. CASE Alarm!NonNull = {}
  BY <1>1, <1>2, <1>3, NothingRead
<1>4. CASE Alarm!NonNull # {}
  <2>1. PICK m \in Nat : IsLatest(m)
    BY <1>4, LatestExists
  <2> DEFINE last == {f \in Alarm!NonNull : f = m \/ Precedes(f, m)}
  <2>2. Alarm!LatestTwo = {[day |-> e, v |-> values[e]] : e \in last}
    BY <2>1, RowsRead
  <2>3. Alarm!NonNull \subseteq Nat
    BY DaysWithValue
  <2>4. \A e, f \in last : e # m /\ f # m => e = f
    BY <2>3 DEF Precedes
  <2>5. PICK p : last \subseteq {m, p}
    <3>1. CASE \E e \in last : e # m
      <4>1. PICK e \in last : e # m
        BY <3>1
      <4> HIDE DEF last
      <4>2. last \subseteq {m, e}
        BY <2>4, <4>1
      <4> QED
        BY <4>2
    <3>2. CASE \A e \in last : e = m
      <4>1. last \subseteq {m, m}
        BY <3>2
      <4> QED
        BY <4>1
    <3> QED
      BY <3>1, <3>2
  <2> HIDE DEF last
  <2>6. Alarm!LatestTwo \subseteq {[day |-> m, v |-> values[m]], [day |-> p, v |-> values[p]]}
    BY <2>2, <2>5
  <2> QED
    BY <1>1, <1>2, <2>6
<1> QED
  BY <1>3, <1>4

\* Every step keeps them.
LEMMA AlarmBoundsKept ==
  ASSUME Alarm!AlertsAssumption, AlarmInv, AlarmBounds, [Alarm!Next]_(Alarm!vars)
  PROVE  AlarmBounds'
<1>1. /\ takenBack \in Nat /\ sendFaults \in Nat /\ check \in [Checker -> CheckRecords] /\ fired \in [Alert -> Int]
      /\ MaxRewinds \in Nat /\ MaxSendFaults \in Nat /\ MaxDays \in Nat
  BY DEF AlarmInv, AlarmTypes, Alarm!AlertsAssumption
<1>2. Alarm!Cardinality({}) = 0
  BY FS_EmptySet DEF Alarm!Cardinality, Cardinality
<1>3. Alarm!Idle.days = {}
  BY DEF Alarm!Idle
<1>4. ASSUME UNCHANGED <<counted, mailed, fired, takenBack, sendFaults>>,
             \A c \in Checker : check'[c].days \in {check[c].days, {}, Alarm!LatestTwo}
      PROVE  AlarmBounds'
  <2>1. Alarm!Cardinality(Alarm!LatestTwo) <= 2
    BY TwoRowsRead DEF AlarmInv
  <2>2. ASSUME NEW c \in Checker PROVE Alarm!Cardinality(check'[c].days) <= 2
    <3>1. PICK S : S = check'[c].days
      OBVIOUS
    <3>2. Alarm!Cardinality(check[c].days) <= 2
      BY DEF AlarmBounds
    <3>3. S = check[c].days \/ S = {} \/ S = Alarm!LatestTwo
      BY <1>4, <3>1
    <3>4. Alarm!Cardinality(S) <= 2
      BY <1>2, <2>1, <3>2, <3>3
    <3> QED
      BY <3>1, <3>4
  <2>3. counted' \subseteq Alert /\ mailed' \subseteq Alert /\ (\A a \in Alert : fired'[a] \in 0..MaxDays)
    BY <1>4 DEF AlarmBounds
  <2>4. takenBack' <= MaxRewinds /\ sendFaults' <= MaxSendFaults
    BY <1>4 DEF AlarmBounds
  <2> QED
    BY <2>2, <2>3, <2>4 DEF AlarmBounds
<1>5. ASSUME NEW a \in Alert, NEW o \in Alarm!Outcomes,
             Alarm!Count(a) \/ Alarm!Confirm(a) \/ Alarm!Unsubscribe(a) \/ Alarm!Create(a, o)
      PROVE  AlarmBounds'
  <2>1. UNCHANGED <<fired, check, takenBack>>
    BY <1>5 DEF Alarm!Count, Alarm!Confirm, Alarm!Unsubscribe, Alarm!Create
  <2>2. counted' \subseteq counted \cup {a} /\ mailed' \subseteq mailed \cup {a}
    BY <1>5 DEF Alarm!Count, Alarm!Confirm, Alarm!Unsubscribe, Alarm!Create
  <2>3. sendFaults' = sendFaults \/ (sendFaults < MaxSendFaults /\ sendFaults' = sendFaults + 1)
    BY <1>5 DEF Alarm!Count, Alarm!Confirm, Alarm!Unsubscribe, Alarm!Create, Alarm!Fault
  <2> QED
    BY <1>1, <2>1, <2>2, <2>3 DEF AlarmBounds
<1>6. ASSUME NEW v, Alarm!Finalize(v) PROVE AlarmBounds'
  <2>1. /\ UNCHANGED <<counted, mailed, fired, takenBack, sendFaults>>
        /\ check' = [c \in Checker |-> [check[c] EXCEPT !.clean = FALSE]]
    BY <1>6 DEF Alarm!Finalize, Alarm!table
  <2>2. \A c \in Checker : check'[c].days = check[c].days
    BY <1>1, <2>1 DEF CheckRecords
  <2> QED
    BY <1>4, <2>1, <2>2
<1>7. CASE Alarm!Rewind
  <2>1. /\ UNCHANGED <<counted, mailed, fired, sendFaults>> /\ takenBack' = takenBack + 1 /\ takenBack < MaxRewinds
        /\ check' = [c \in Checker |-> [check[c] EXCEPT !.clean = FALSE]]
    BY <1>7 DEF Alarm!Rewind, Alarm!table
  <2>2. \A c \in Checker : check'[c].days = check[c].days
    BY <1>1, <2>1 DEF CheckRecords
  <2> QED
    BY <1>1, <2>1, <2>2 DEF AlarmBounds
<1>8. CASE Alarm!Crash
  <2>1. /\ UNCHANGED <<counted, mailed, fired, takenBack>> /\ sendFaults' = sendFaults + 1 /\ sendFaults < MaxSendFaults
        /\ check' = [c \in Checker |-> Alarm!Idle]
    BY <1>8 DEF Alarm!Crash, Alarm!table
  <2>2. ASSUME NEW c \in Checker PROVE Alarm!Cardinality(check'[c].days) <= 2
    <3>1. check'[c].days = {}
      BY <1>3, <2>1
    <3> QED
      BY <1>2, <3>1
  <2>3. sendFaults' <= MaxSendFaults
    BY <1>1, <2>1
  <2>4. counted' \subseteq Alert /\ mailed' \subseteq Alert /\ takenBack' <= MaxRewinds
        /\ (\A a \in Alert : fired'[a] \in 0..MaxDays)
    BY <2>1 DEF AlarmBounds
  <2> QED
    BY <2>2, <2>3, <2>4 DEF AlarmBounds
<1>9. ASSUME NEW c \in Checker, Alarm!ReadAlerts(c) \/ Alarm!ReadRows(c) \/ Alarm!Done(c) PROVE AlarmBounds'
  <2>1. UNCHANGED <<counted, mailed, fired, takenBack, sendFaults>>
    BY <1>9 DEF Alarm!ReadAlerts, Alarm!ReadRows, Alarm!Done, Alarm!table
  <2>2. ASSUME NEW k, check' = [check EXCEPT ![c] = k], k.days \in {{}, Alarm!LatestTwo} PROVE AlarmBounds'
    BY <1>1, <1>4, <2>1, <2>2
  <2>3. CASE Alarm!ReadAlerts(c)
    <3>1. PICK k : k = [Alarm!Idle EXCEPT !.at = "rows", !.listed = Alarm!Armed, !.todo = Alarm!Armed, !.marks = fired]
      OBVIOUS
    <3>2. k.days = {} /\ check' = [check EXCEPT ![c] = k]
      BY <2>3, <3>1 DEF Alarm!ReadAlerts, Alarm!Idle
    <3> QED
      BY <2>2, <3>2
  <2>4. CASE Alarm!ReadRows(c)
    <3>1. PICK k : k = [check[c] EXCEPT !.at = "send", !.days = Alarm!LatestTwo, !.clean = TRUE]
      OBVIOUS
    <3>2. k.days = Alarm!LatestTwo
      BY <1>1, <3>1 DEF CheckRecords
    <3>3. check' = [check EXCEPT ![c] = k]
      BY <2>4, <3>1 DEF Alarm!ReadRows
    <3> QED
      BY <2>2, <3>2, <3>3
  <2>5. CASE Alarm!Done(c)
    BY <1>3, <2>2, <2>5 DEF Alarm!Done
  <2> QED
    BY <1>9, <2>3, <2>4, <2>5
<1>10. ASSUME NEW c \in Checker, NEW a \in Alert, NEW o \in Alarm!Outcomes, Alarm!Skip(c, a) \/ Alarm!Send(c, a, o)
       PROVE  AlarmBounds'
  <2>1. UNCHANGED <<counted, mailed, fired, takenBack>>
    BY <1>10 DEF Alarm!Skip, Alarm!Send, Alarm!table
  <2>2. sendFaults' = sendFaults \/ (sendFaults < MaxSendFaults /\ sendFaults' = sendFaults + 1)
    BY <1>10 DEF Alarm!Skip, Alarm!Send, Alarm!Fault
  <2>3. \/ check' = [check EXCEPT ![c].todo = Alarm!Passed(c, a)]
        \/ check' = [check EXCEPT ![c].at = "mark", ![c].mailing = {a}]
        \/ check' = [check EXCEPT ![c].todo = Alarm!Passed(c, a), ![c].clean = FALSE]
    BY <1>10 DEF Alarm!Skip, Alarm!Send
  <2>4. ASSUME NEW b \in Checker PROVE check'[b].days = check[b].days
    <3>1. PICK others : others = Alarm!Passed(c, a)
      OBVIOUS
    <3>2. CASE check' = [check EXCEPT ![c].todo = Alarm!Passed(c, a)]
      BY <1>1, <3>1, <3>2 DEF CheckRecords
    <3>3. CASE check' = [check EXCEPT ![c].at = "mark", ![c].mailing = {a}]
      BY <1>1, <3>3 DEF CheckRecords
    <3>4. CASE check' = [check EXCEPT ![c].todo = Alarm!Passed(c, a), ![c].clean = FALSE]
      BY <1>1, <3>1, <3>4 DEF CheckRecords
    <3> QED
      BY <2>3, <3>2, <3>3, <3>4
  <2> QED
    BY <1>1, <2>1, <2>2, <2>4 DEF AlarmBounds
<1>11. ASSUME NEW c \in Checker, NEW fails \in BOOLEAN, Alarm!Mark(c, fails) PROVE AlarmBounds'
  <2>1. /\ UNCHANGED <<counted, mailed, takenBack>>
        /\ check' = [check EXCEPT ![c].at = "send", ![c].mailing = {}, ![c].todo = @ \ check[c].mailing]
    BY <1>11 DEF Alarm!Mark, Alarm!table
  <2>2. sendFaults' = sendFaults \/ (sendFaults < MaxSendFaults /\ sendFaults' = sendFaults + 1)
    BY <1>11 DEF Alarm!Mark
  <2>3. ASSUME NEW b \in Checker PROVE check'[b].days = check[b].days
    <3>1. PICK others : others = check[c].todo \ check[c].mailing
      OBVIOUS
    <3>2. check' = [check EXCEPT ![c].at = "send", ![c].mailing = {}, ![c].todo = others]
      BY <1>1, <2>1, <3>1 DEF CheckRecords
    <3> QED
      BY <1>1, <3>2 DEF CheckRecords
  <2>4. ASSUME NEW a \in Alert PROVE fired'[a] \in 0..MaxDays
    <3>1. fired'[a] = fired[a] \/ (a \in check[c].mailing /\ fired'[a] = DayOf(check[c]))
      BY <1>1, <1>11 DEF Alarm!Mark, DayOf
    <3>2. ASSUME a \in check[c].mailing PROVE DayOf(check[c]) \in 1..MaxDays
      <4>1. Loop(check[c]) /\ Alarm!Crossed(a, check[c].days)
        BY <3>2 DEF AlarmInv, Loops, Loop
      <4> QED
        BY <4>1 DEF Loop, Alarm!Crossed, Alarm!Day
    <3> QED
      BY <1>1, <3>1, <3>2 DEF AlarmBounds
  <2> QED
    BY <1>1, <2>1, <2>2, <2>3, <2>4 DEF AlarmBounds
<1>12. CASE UNCHANGED Alarm!vars
  BY <1>4, <1>12 DEF Alarm!vars
<1> QED
  BY <1>5, <1>6, <1>7, <1>8, <1>9, <1>10, <1>11, <1>12 DEF Alarm!Next, Alarm!Outcomes

\* The types of the alerts.
LEMMA AlarmTypesHold == ASSUME Alarm!AlertsAssumption PROVE Alarm!Spec => []Alarm!TypeOK
<1>1. Alarm!Init => AlarmInv /\ AlarmBounds
  <2> SUFFICES ASSUME Alarm!Init PROVE AlarmBounds
    BY AlarmInit
  <2>1. Alarm!Cardinality({}) = 0
    BY FS_EmptySet DEF Alarm!Cardinality, Cardinality
  <2>2. \A c \in Checker : check[c].days = {}
    BY DEF Alarm!Init, Alarm!Idle
  <2>3. \A c \in Checker : Alarm!Cardinality(check[c].days) <= 2
    BY <2>1, <2>2
  <2>4. counted = {} /\ mailed = {} /\ fired = [a \in Alert |-> 0] /\ takenBack = 0 /\ sendFaults = 0
    BY DEF Alarm!Init
  <2>5. MaxDays \in Nat /\ MaxRewinds \in Nat /\ MaxSendFaults \in Nat
    BY DEF Alarm!AlertsAssumption
  <2> QED
    BY <2>3, <2>4, <2>5 DEF AlarmBounds
<1>2. AlarmInv /\ AlarmBounds /\ [Alarm!Next]_(Alarm!vars) => AlarmInv' /\ AlarmBounds'
  BY AlarmNext, AlarmBoundsKept
<1>3. AlarmInv /\ AlarmBounds => Alarm!TypeOK
  <2> SUFFICES ASSUME AlarmInv, AlarmBounds PROVE Alarm!TypeOK
    OBVIOUS
  <2>1. AlarmTypes /\ Consent /\ MaxDays \in Nat /\ MaxRewinds \in Nat /\ MaxSendFaults \in Nat
    BY DEF AlarmInv, Alarm!AlertsAssumption
  <2>2. state \in [Alert -> {"absent", "pending", "active", "gone"}] /\ counted \subseteq {a \in Alert : state[a] = "absent"}
    BY <2>1 DEF Consent, AlarmBounds
  <2>3. fired \in [Alert -> 0..MaxDays]
    BY <2>1 DEF AlarmTypes, AlarmBounds
  <2>4. values \in UNION {[1..n -> Alarm!Value] : n \in 0..MaxDays}
    <3>1. PICK n \in 0..MaxDays : n = Len(values)
      BY <2>1 DEF AlarmTypes
    <3>2. values \in [1..n -> Alarm!Value]
      BY <2>1, <3>1 DEF AlarmTypes
    <3> QED
      BY <3>2
  <2>5. takenBack \in 0..MaxRewinds /\ sendFaults \in 0..MaxSendFaults
    BY <2>1 DEF AlarmTypes, AlarmBounds
  <2>6. ASSUME NEW c \in Checker
        PROVE  /\ check[c].at \in {"idle", "rows", "send", "mark"}
               /\ check[c].todo \subseteq check[c].listed /\ check[c].listed \subseteq Alert
               /\ check[c].mailing \subseteq check[c].todo
    <3>1. check[c] \in CheckRecords /\ Loop(check[c])
      BY <2>1 DEF AlarmInv, AlarmTypes, Loops
    <3> QED
      BY <3>1 DEF CheckRecords, Loop
  <2> QED
    BY <2>1, <2>2, <2>3, <2>4, <2>5, <2>6 DEF AlarmTypes, AlarmBounds, Alarm!TypeOK
<1> QED
  BY <1>1, <1>2, <1>3, PTL DEF Alarm!Spec

\* Finitely many numbers have a greatest.
LEMMA SequenceBounded ==
  ASSUME NEW n \in Nat, NEW f, \A i \in 1..n : f[i] \in Nat
  PROVE  \E m \in Nat : \A i \in 1..n : f[i] <= m
<1> DEFINE B(k) == \E m \in Nat : \A i \in 1..k : f[i] <= m
           T == {k \in 0..n : B(k)}
<1>1. 0 \in T
  <2>1. \A i \in 1..0 : f[i] <= 0
    OBVIOUS
  <2> QED
    BY <2>1
<1>2. PICK k \in T : \A j \in T : j <= k
  <2>1. T \subseteq Nat /\ T # {} /\ \A x \in T : x <= n
    <3> HIDE DEF B
    <3> QED
      BY <1>1
  <2> HIDE DEF T
  <2> QED
    BY <2>1, GreatestNatural
<1>3. ASSUME k < n PROVE FALSE
  <2>1. PICK m \in Nat : \A i \in 1..k : f[i] <= m
    OBVIOUS
  <2>2. k + 1 \in 1..n /\ f[k + 1] \in Nat
    BY <1>3
  <2>3. PICK b \in Nat : m <= b /\ f[k + 1] <= b
    BY <2>2
  <2>4. ASSUME NEW i \in 1..k + 1 PROVE f[i] <= b
    <3>1. i \in 1..k \/ i = k + 1
      OBVIOUS
    <3>2. f[i] \in Nat /\ (i \in 1..k => f[i] <= m)
      BY <2>1, <2>2
    <3> QED
      BY <2>3, <3>1, <3>2
  <2>5. B(k + 1)
    BY <2>3, <2>4
  <2> HIDE DEF B
  <2>6. k + 1 \in T
    BY <2>2, <2>5
  <2> QED
    BY <1>2, <2>6
<1>4. k = n /\ B(k)
  BY <1>3
<1> QED
  BY <1>4

\* The greatest of a set of numbers one can list.
LEMMA MaxOfListed ==
  ASSUME NEW S, NEW m \in Nat, S # {}, \A x \in S : x \in Nat /\ x <= m
  PROVE  Tx!Max(S) \in S /\ \A x \in S : x <= Tx!Max(S)
<1>1. S \subseteq Nat
  OBVIOUS
<1>2. \E x \in S : \A y \in S : x >= y
  BY <1>1, GreatestNatural
<1> QED
  BY <1>1, <1>2 DEF Tx!Max

\* The lengths of the chains the node may have.
Lengths == {Len(c) : c \in Tx!Range(Chains)}
\* The greatest of them.
Longest == Tx!Max(Lengths)

\* Heights are numbers, and no chain is longer than the longest.
LEMMA ChainLengths ==
  ASSUME Tx!LookupAssumption
  PROVE  /\ Longest \in Nat
         /\ \A n \in DOMAIN Chains : Chains[n] \in Seq(Tx!Block) /\ Len(Chains[n]) <= Longest
         /\ \A b : Tx!Height(b) \in Nat
<1>1. PICK C, n : n \in Nat /\ C = Chains /\ n = Len(C) /\ DOMAIN C = 1..n /\ n >= 1
                  /\ C \in [1..n -> Seq(Nat \ {0})]
  <2>1. PICK S, C : S = Seq(Nat \ {0}) /\ C \in Seq(S) /\ C = Chains /\ C # <<>>
    BY DEF Tx!LookupAssumption
  <2>2. Len(C) \in Nat /\ DOMAIN C = 1..Len(C) /\ C \in [1..Len(C) -> S] /\ Len(C) >= 1
    BY <2>1
  <2> QED
    BY <2>1, <2>2
<1>2. Tx!Range(Chains) = {C[i] : i \in 1..n}
  BY <1>1 DEF Tx!Range
<1>3. \A i \in 1..n : Len(C[i]) \in Nat
  BY <1>1
<1>4. PICK m \in Nat : \A i \in 1..n : Len(C[i]) <= m
  <2> DEFINE f == [i \in 1..n |-> Len(C[i])]
  <2>1. \A i \in 1..n : f[i] \in Nat
    BY <1>3
  <2>2. \E m \in Nat : \A i \in 1..n : f[i] <= m
    <3> HIDE DEF f
    <3> QED
      BY <1>1, <2>1, SequenceBounded
  <2> QED
    BY <2>2
<1>5. Lengths # {} /\ (\A x \in Lengths : x \in Nat /\ x <= m) /\ \A i \in 1..n : Len(C[i]) \in Lengths
  <2>1. Lengths = {Len(C[i]) : i \in 1..n}
    BY <1>2 DEF Lengths
  <2>2. 1 \in 1..n
    BY <1>1
  <2> QED
    BY <1>3, <1>4, <2>1, <2>2
<1>6. Longest \in Lengths /\ \A x \in Lengths : x <= Longest
  BY <1>5, MaxOfListed DEF Longest
<1>7. ASSUME NEW i \in DOMAIN Chains PROVE Chains[i] \in Seq(Tx!Block) /\ Len(Chains[i]) <= Longest
  <2>1. Chains[i] \in Seq(Nat \ {0}) /\ Chains[i] \in Tx!Range(Chains) /\ Len(Chains[i]) <= Longest
    BY <1>1, <1>2, <1>5, <1>6
  <2>2. \A j \in 1..Len(Chains[i]) : Chains[i][j] \in Tx!Block
    BY <2>1 DEF Tx!Block, Tx!Range
  <2> QED
    BY <2>1, <2>2
<1>8. ASSUME NEW b PROVE Tx!Height(b) \in Nat
  <2> DEFINE S == {Tx!HeightIn(c, b) : c \in Tx!Range(Chains)}
  <2>1. ASSUME NEW i \in 1..n PROVE Tx!HeightIn(C[i], b) \in Nat /\ Tx!HeightIn(C[i], b) <= m
    <3>1. PICK c : c = C[i] /\ c \in Seq(Nat \ {0}) /\ Len(c) <= m
      BY <1>1, <1>4
    <3>2. CASE b \in Tx!Range(c)
      <4>1. \E h \in DOMAIN c : c[h] = b
        BY <3>2 DEF Tx!Range
      <4>2. Tx!HeightIn(c, b) \in DOMAIN c
        BY <3>2, <4>1 DEF Tx!HeightIn
      <4> QED
        BY <3>1, <4>2
    <3>3. CASE b \notin Tx!Range(c)
      BY <3>1, <3>3 DEF Tx!HeightIn
    <3> QED
      BY <3>2, <3>3
  <2>2. S # {} /\ \A x \in S : x \in Nat /\ x <= m
    BY <1>1, <1>2, <2>1
  <2>3. Tx!Height(b) = Tx!Max(S)
    BY DEF Tx!Height
  <2> HIDE DEF S
  <2> QED
    BY <2>2, <2>3, MaxOfListed
<1>9. Longest \in Nat
  BY <1>5, <1>6
<1> QED
  BY <1>7, <1>8, <1>9

\* A lookup holds a block, or none, and a height of a chain, or none.
LookupTyped(r) ==
  /\ r.at \in Tx!Waiting \cup {"idle", "block", "end"} /\ (r.hash # 0 => r.found)
  /\ r.scope \in TxIn \cup {0} /\ r.created \in Nat /\ r.height \in Nat
\* So does an answer.
AnswerTyped(a) ==
  /\ a.kind \in {"none", "block", "not found", "pending", "indexed", "full"}
  /\ a.conf \in Tx!Null..Longest
\* The node and the synced rows have chains of blocks.
ChainTyped == txNode \in DOMAIN Chains /\ synced \in Seq(Tx!Block) /\ Len(synced) <= Longest
\* All of it, with the counters.
LookupTypes ==
  /\ ChainTyped /\ pruned \in BOOLEAN /\ LookupTyped(lookup) /\ AnswerTyped(txAnswer)
  /\ lookups \in 0..MaxAsks /\ txFaults \in 0..MaxFaults

\* What is created has a height, and the block of the outputs holds the transaction.
LEMMA HomeHolds ==
  ASSUME Tx!LookupAssumption
  PROVE  /\ Tx!Created \in Nat
         /\ Tx!Home(synced) \in TxIn \cup {0}
         /\ Tx!Scope \in TxIn \cup {0}
<1>1. Tx!Created \in Nat
  BY ChainLengths DEF Tx!Created
<1>2. Tx!Home(synced) \in TxIn \cup {0}
  BY DEF Tx!Home
<1> QED
  BY <1>1, <1>2 DEF Tx!Scope

\* A sequence has a length.
LEMMA LengthIs == ASSUME NEW S, NEW s \in Seq(S) PROVE Len(s) \in Nat
OBVIOUS

\* Confirmations are at most the length of the chain they are counted on.
LEMMA DepthBounds ==
  ASSUME NEW n \in Nat, NEW h \in Nat, NEW m \in Nat, n <= m, NEW full
  PROVE  (IF h # 0 /\ n >= h THEN n - h + 1 ELSE IF full /\ h = 0 THEN 0 ELSE -1) \in -1..m
<1>1. CASE h # 0 /\ n >= h
  BY <1>1
<1>2. CASE ~(h # 0 /\ n >= h)
  BY <1>2
<1> QED
  BY <1>1, <1>2

\* A depth is that of a stored block, zero or none.
LEMMA AnswerIsTyped ==
  ASSUME Tx!LookupAssumption, LookupInv, LookupTypes,
         NEW kind \in {"block", "pending", "indexed", "not found", "full"}, Tx!Answer(kind)
  PROVE  AnswerTyped(txAnswer')
<1>1. PICK h : h = IF kind = "full" THEN lookup.height ELSE lookup.created
  OBVIOUS
<1>2. h \in Nat /\ Longest \in Nat
  BY <1>1, ChainLengths DEF LookupTypes, LookupTyped
<1>3. PICK n : n = Len(synced) /\ n \in Nat /\ n <= Longest
  <2>1. PICK S, q : S = Tx!Block /\ q \in Seq(S) /\ q = synced /\ Len(q) <= Longest
    BY DEF LookupTypes, ChainTyped
  <2>2. Len(q) \in Nat
    BY <2>1, LengthIs
  <2> QED
    BY <2>1, <2>2
<1>4. PICK d : txAnswer'.kind = kind /\ txAnswer'.conf = d
      /\ d = IF h # 0 /\ n >= h THEN n - h + 1 ELSE IF kind = "full" /\ h = 0 THEN 0 ELSE Tx!Null
  BY <1>1, <1>3 DEF Tx!Answer
<1>5. d \in Tx!Null..Longest
  BY <1>2, <1>3, <1>4, DepthBounds DEF Tx!Null
<1> QED
  BY <1>4, <1>5 DEF AnswerTyped

\* No answer is one.
LEMMA NothingAnswered == ASSUME Tx!LookupAssumption PROVE AnswerTyped(Tx!NoAnswer)
<1>1. -1 \in -1..Longest
  BY ChainLengths
<1> QED
  BY <1>1 DEF Tx!NoAnswer, AnswerTyped, Tx!Null

\* What one part of the state leaves the others as they are.
LEMMA LookupTypesKept ==
  ASSUME Tx!LookupAssumption, LookupInv, LookupTypes, [Tx!Next]_(Tx!vars)
  PROVE  LookupTypes'
<1> USE DEF LookupTypes
<1>1. DOMAIN lookup = Fields /\ lookup = [f \in Fields |-> lookup[f]]
  BY DEF LookupInv
<1>2. MaxAsks \in Nat /\ MaxFaults \in Nat /\ Longest \in Nat
  BY ChainLengths DEF Tx!LookupAssumption
<1>3. /\ Tx!Idle.hash = 0 /\ Tx!Idle.scope = 0 /\ Tx!Idle.created = 0 /\ Tx!Idle.height = 0
      /\ DOMAIN Tx!Idle = Fields /\ Tx!Idle.at = "idle" /\ Tx!Idle = [f \in Fields |-> Tx!Idle[f]]
  BY IdleLookup DEF Tx!Idle
<1>4. CASE UNCHANGED Tx!vars
  BY <1>4 DEF Tx!vars, ChainTyped
<1>5. CASE Tx!NodeMoves
  <2>1. PICK n : n = Len(Chains) /\ n \in Nat /\ DOMAIN Chains = 1..n
    <3>1. PICK S, C : C = Chains /\ C \in Seq(S)
      BY DEF Tx!LookupAssumption
    <3>2. Len(C) \in Nat /\ DOMAIN C = 1..Len(C)
      BY ONLY <3>1
    <3> QED
      BY <3>1, <3>2
  <2>2. txNode' \in DOMAIN Chains
    BY <1>5, <2>1 DEF Tx!NodeMoves, ChainTyped
  <2> QED
    BY <1>5, <2>2 DEF Tx!NodeMoves, ChainTyped
<1>6. CASE Tx!Sync \/ Tx!Prune
  <2>1. lookup' = [lookup EXCEPT !.moved = TRUE] /\ UNCHANGED <<txNode, txAnswer, lookups, txFaults>>
    BY <1>6 DEF Tx!Sync, Tx!Prune
  <2>2. LookupTyped(lookup')
    BY <1>1, <2>1 DEF Fields, LookupTyped
  <2>3. pruned' \in BOOLEAN
    BY <1>6 DEF Tx!Sync, Tx!Prune
  <2>4. synced' \in Seq(Tx!Block) /\ Len(synced') <= Longest
    <3>1. PICK S, q : S = Tx!Block /\ q \in Seq(S) /\ q = synced /\ Len(q) <= Longest
      BY DEF ChainTyped
    <3>2. PICK c : c \in Seq(S) /\ c = Tx!Chain /\ Len(c) <= Longest
      BY <3>1, ChainLengths DEF ChainTyped, Tx!Chain
    <3>3. synced' = q \/ (synced' = Tx!Front(q) /\ q # <<>>) \/ (Len(q) < Len(c) /\ synced' = Append(q, c[Len(q) + 1]))
      BY <1>6, <3>1, <3>2 DEF Tx!Sync, Tx!Prune
    <3>4. CASE synced' = Tx!Front(q) /\ q # <<>>
      BY <1>2, <3>1, <3>4 DEF Tx!Front
    <3>5. CASE Len(q) < Len(c) /\ synced' = Append(q, c[Len(q) + 1])
      <4>1. Len(q) + 1 \in 1..Len(c) /\ Len(c) \in Nat /\ Len(q) \in Nat
        BY ONLY <3>1, <3>2, <3>5
      <4>2. c[Len(q) + 1] \in S
        BY ONLY <3>2, <4>1
      <4> QED
        BY <1>2, <3>1, <3>2, <3>5, <4>1, <4>2
    <3> QED
      BY <3>1, <3>3, <3>4, <3>5
  <2> QED
    BY <2>1, <2>2, <2>3, <2>4 DEF ChainTyped
<1>7. ASSUME NEW place \in {"up", "block"}, lookup' = [Tx!Idle EXCEPT !.at = place, !.created = Tx!Created]
      PROVE  LookupTyped(lookup')
  <2>1. PICK n \in Nat : n = Tx!Created
    BY HomeHolds
  <2> QED
    BY <1>3, <1>7, <2>1 DEF Fields, LookupTyped, Tx!Waiting
<1>8. CASE Tx!Ask \/ Tx!Search
  <2>1. PICK place \in {"up", "block"} : lookup' = [Tx!Idle EXCEPT !.at = place, !.created = Tx!Created]
    BY <1>8 DEF Tx!Ask, Tx!Search
  <2>2. LookupTyped(lookup')
    BY <1>7, <2>1
  <2>3. UNCHANGED <<txNode, synced, pruned, txFaults>> /\ lookups' \in 0..MaxAsks /\ txAnswer' = Tx!NoAnswer
    BY <1>2, <1>8 DEF Tx!Ask, Tx!Search, Tx!Env
  <2>4. AnswerTyped(txAnswer')
    BY <2>3, NothingAnswered
  <2> QED
    BY <2>2, <2>3, <2>4 DEF ChainTyped
<1>9. ASSUME NEW ok \in BOOLEAN, Tx!SearchBlock(ok) PROVE LookupTypes'
  <2>1. UNCHANGED <<txNode, synced, pruned, lookups, txFaults>>
    BY <1>9 DEF Tx!SearchBlock, Tx!Env
  <2>2. LookupTyped(lookup')
    <3>1. lookup' = Tx!Idle \/ lookup' = [Tx!Idle EXCEPT !.at = "up", !.created = Tx!Created]
      BY <1>9 DEF Tx!SearchBlock
    <3>2. CASE lookup' = Tx!Idle
      BY <1>3, <3>2 DEF LookupTyped
    <3> QED
      BY <1>7, <3>1, <3>2
  <2>3. AnswerTyped(txAnswer')
    BY <1>9, AnswerIsTyped DEF Tx!SearchBlock
  <2> QED
    BY <2>1, <2>2, <2>3 DEF ChainTyped
<1>10. ASSUME NEW ok \in BOOLEAN, Tx!Up(ok) \/ Tx!Where \/ Tx!Fetch(ok) \/ Tx!HeightOf(ok) PROVE LookupTypes'
  <2>1. UNCHANGED <<txNode, synced, pruned, lookups, txAnswer>>
    BY <1>10 DEF Tx!Up, Tx!Where, Tx!Fetch, Tx!HeightOf, Tx!Env
  <2>2. txFaults' \in 0..MaxFaults
    <3>1. txFaults' = txFaults \/ (txFaults < MaxFaults /\ txFaults' = txFaults + 1)
      BY <1>10 DEF Tx!Up, Tx!Where, Tx!Fetch, Tx!HeightOf, Tx!Faulty
    <3> QED
      BY <1>2, <3>1
  <2>3. LookupTyped(lookup')
    <3>1. CASE Tx!Up(ok)
      <4>1. PICK place \in {"where", "end"} : lookup' = [lookup EXCEPT !.at = place]
        BY <3>1 DEF Tx!Up
      <4> QED
        BY <1>1, <4>1 DEF LookupTyped, Fields, Tx!Waiting
    <3>2. CASE Tx!Where
      <4>1. PICK s \in TxIn \cup {0} : lookup' = [lookup EXCEPT !.at = "fetch", !.scope = s]
        BY <3>2, HomeHolds DEF Tx!Where
      <4> QED
        BY <1>1, <4>1 DEF LookupTyped, Fields, Tx!Waiting
    <3>3. CASE Tx!Fetch(ok)
      <4>1. \/ lookup' = [lookup EXCEPT !.at = "end"]
            \/ \E hash, place : /\ place \in {"height", "end"}
                 /\ lookup' = [lookup EXCEPT !.found = TRUE, !.hash = hash, !.height = lookup.created, !.at = place]
        BY <3>3 DEF Tx!Fetch
      <4>2. CASE lookup' = [lookup EXCEPT !.at = "end"]
        BY <1>1, <4>2 DEF LookupTyped, Fields
      <4>3. ASSUME NEW hash, NEW place \in {"height", "end"},
                   lookup' = [lookup EXCEPT !.found = TRUE, !.hash = hash, !.height = lookup.created, !.at = place]
            PROVE  LookupTyped(lookup')
        BY <1>1, <4>3 DEF LookupTyped, Fields, Tx!Waiting
      <4> QED
        BY <4>1, <4>2, <4>3
    <3>4. CASE Tx!HeightOf(ok)
      <4>1. PICK h \in Nat : lookup' = [lookup EXCEPT !.at = "end", !.height = h]
        BY <3>4, ChainLengths DEF Tx!HeightOf
      <4> QED
        BY <1>1, <4>1 DEF LookupTyped, Fields
    <3> QED
      BY <1>10, <3>1, <3>2, <3>3, <3>4
  <2> QED
    BY <2>1, <2>2, <2>3 DEF ChainTyped
<1>11. CASE Tx!Deadline
  <2>1. lookup' = [lookup EXCEPT !.late = TRUE] /\ Tx!Answer("pending")
        /\ UNCHANGED <<txNode, synced, pruned, lookups, txFaults>>
    BY <1>11 DEF Tx!Deadline, Tx!Env
  <2>2. LookupTyped(lookup')
    BY <1>1, <2>1 DEF Fields, LookupTyped
  <2>3. AnswerTyped(txAnswer')
    BY <2>1, AnswerIsTyped
  <2> QED
    BY <2>1, <2>2, <2>3 DEF ChainTyped
<1>12. CASE Tx!End
  <2>1. lookup' = Tx!Idle /\ UNCHANGED <<txNode, synced, pruned, lookups, txFaults>>
    BY <1>12 DEF Tx!End, Tx!Env
  <2>2. txAnswer' = txAnswer \/ \E kind \in {"full", "indexed", "not found"} : Tx!Answer(kind)
    BY <1>12 DEF Tx!End
  <2>3. LookupTyped(lookup')
    BY <1>3, <2>1 DEF LookupTyped
  <2>4. AnswerTyped(txAnswer')
    BY <2>2, AnswerIsTyped
  <2> QED
    BY <2>1, <2>3, <2>4 DEF ChainTyped
<1> QED
  BY <1>4, <1>5, <1>6, <1>8, <1>9, <1>10, <1>11, <1>12 DEF Tx!Next

\* Nothing has been asked before the first request.
LEMMA LookupStart == Tx!Init => LookupInv
<1> SUFFICES ASSUME Tx!Init PROVE LookupInv
  OBVIOUS
<1>1. lookup = Tx!Idle /\ txAnswer.kind = "none"
  BY DEF Tx!Init, Tx!NoAnswer
<1>2. Learnt /\ Tx!HeightIsHashs /\ lookup.at # "height"
  BY <1>1, IdleLookup DEF Learnt, Tx!HeightIsHashs
<1>3. lookup.moved \in BOOLEAN /\ lookup.found \in BOOLEAN
  BY <1>1, IdleLookup, Zenon
<1> QED
  BY <1>1, <1>2, <1>3, IdleLookup, Zenon DEF LookupInv

\* The shape of a lookup and of its answer.
LEMMA LookupTypesHold == ASSUME Tx!LookupAssumption PROVE Tx!Spec => []Tx!TypeOK
<1>1. Tx!Init => LookupInv /\ LookupTypes
  <2> SUFFICES ASSUME Tx!Init PROVE LookupTypes
    BY LookupStart
  <2>1. txNode = 1 /\ pruned = FALSE /\ lookups = 0 /\ txFaults = 0 /\ lookup = Tx!Idle /\ txAnswer = Tx!NoAnswer
    BY DEF Tx!Init
  <2>2. MaxAsks \in Nat /\ MaxFaults \in Nat /\ 1 \in DOMAIN Chains /\ Longest \in Nat
    BY ChainLengths DEF Tx!LookupAssumption
  <2>3. synced \in Seq(Tx!Block) /\ Len(synced) <= Longest
    <3>1. PICK S, c, n : S = Tx!Block /\ c = Chains[1] /\ c \in Seq(S) /\ Len(c) <= Longest
                         /\ n = Synced0 /\ n \in 0..Len(c)
      BY <2>2, ChainLengths DEF Tx!LookupAssumption
    <3>2. synced = SubSeq(c, 1, n)
      BY <3>1 DEF Tx!Init
    <3> QED
      BY <2>2, <3>1, <3>2
  <2>4. /\ lookup.at = "idle" /\ lookup.hash = 0 /\ lookup.scope = 0 /\ lookup.created = 0 /\ lookup.height = 0
        /\ txAnswer.kind = "none" /\ txAnswer.conf = Tx!Null
    BY <2>1 DEF Tx!Idle, Tx!NoAnswer
  <2>5. LookupTyped(lookup) /\ AnswerTyped(txAnswer)
    BY <2>2, <2>4 DEF Tx!Null, LookupTyped, AnswerTyped
  <2>6. ChainTyped
    BY <2>1, <2>2, <2>3 DEF ChainTyped
  <2>7. pruned \in BOOLEAN
    BY <2>1
  <2>8. lookups \in 0..MaxAsks /\ txFaults \in 0..MaxFaults
    BY <2>1, <2>2
  <2> QED
    BY <2>5, <2>6, <2>7, <2>8 DEF LookupTypes
<1>2. LookupInv /\ LookupTypes /\ [Tx!Next]_(Tx!vars) => LookupInv' /\ LookupTypes'
  BY LookupNext, LookupTypesKept
<1>3. LookupTypes => Tx!TypeOK
  BY DEF LookupTypes, ChainTyped, LookupTyped, AnswerTyped, Tx!TypeOK, Longest, Lengths
<1> QED
  BY <1>1, <1>2, <1>3, PTL DEF Tx!Spec

\* The offsets at which a page of transactions may be asked for.
Starts == {w[3] : w \in Wanted}
\* The rows, entries and calls name blocks of the chains and offsets asked for.
RowsNamed(bs) == \A h \in DOMAIN bs : bs[h].hash \in Pages!Block
\* The same of the cached entries.
EntriesNamed(es) ==
  \A e \in DOMAIN es : es[e].hash \in Pages!Block /\ es[e].next \in Pages!Block \cup {0} /\ DOMAIN es[e].pages \subseteq Starts
\* A call for a page has an offset that was asked for, a call for a block no entry.
CallsNamed(calls) ==
  \A i \in DOMAIN calls : /\ calls[i].key[1] = "txs" => calls[i].key[3] \in Starts
                          /\ calls[i].key[1] = "block" => calls[i].entry = 0
\* So has a request.
AskersNamed(qs) == \A r \in Asker : qs[r].at # "idle" => qs[r].start \in Starts
\* While a request waits for the probe, the memo says so.
Probes1(m, qs) == m \in {"null", "true", "false", "probing"} /\ \A r \in Asker : qs[r].at = "probing" => m = "probing"
\* Bounds of the counters.
PagesCounts == asks \in 0..MaxPageAsks /\ nodeFaults \in 0..MaxNodeFaults
\* All of it.
PagesNamed ==
  /\ RowsNamed(blocks) /\ EntriesNamed(entries) /\ CallsNamed(inflight) /\ AskersNamed(asker)
  /\ Probes1(memo, asker) /\ PagesCounts

\* The blocks of the chains.
LEMMA ChainNamed ==
  ASSUME Pages!PagesAssumption, node \in DOMAIN BestChains
  PROVE  /\ \A h \in 1..Len(Pages!Chain) : Pages!Chain[h] \in Pages!Block
         /\ \A b : Pages!Next1(b) \in Pages!Block \cup {0}
         /\ \A b : Pages!Known(b) => b \in Pages!Block
<1>1. Pages!Chain \in Pages!Range(BestChains)
  BY DEF Pages!Chain, Pages!Range
<1>2. \A h \in 1..Len(Pages!Chain) : Pages!Chain[h] \in Pages!Block
  BY <1>1, ChainIs DEF Pages!Block, Pages!Range
<1>3. ASSUME NEW h \in 1..Len(Pages!Chain) PROVE Pages!Height(Pages!Chain[h]) = h
  BY ChainIs, HeightIs DEF Pages!Chain
<1>4. ASSUME NEW b PROVE Pages!Next1(b) \in Pages!Block \cup {0}
  <2>1. ASSUME NEW h \in 1..(Len(Pages!Chain) - 1), Pages!Chain[h] = b PROVE Pages!Chain[Pages!Height(b) + 1] \in Pages!Block
    <3>1. h \in 1..Len(Pages!Chain) /\ h + 1 \in 1..Len(Pages!Chain)
      BY <2>1, ChainIs
    <3> QED
      BY <1>2, <1>3, <2>1, <3>1
  <2> QED
    BY <2>1 DEF Pages!Next1
<1>5. ASSUME NEW b, Pages!Known(b) PROVE b \in Pages!Block
  <2>1. PICK c \in 1..node : b \in Pages!Range(BestChains[c])
    BY <1>5 DEF Pages!Known
  <2>2. PICK n : n \in Nat /\ DOMAIN BestChains = 1..n
    <3>1. PICK S, C : C = BestChains /\ C \in Seq(S)
      BY DEF Pages!PagesAssumption
    <3>2. Len(C) \in Nat /\ DOMAIN C = 1..Len(C)
      BY ONLY <3>1
    <3> QED
      BY <3>1, <3>2
  <2>3. c \in DOMAIN BestChains
    BY <2>1, <2>2
  <2> QED
    BY <2>1, <2>3 DEF Pages!Block, Pages!Range
<1> QED
  BY <1>2, <1>4, <1>5

\* It holds before the first request ...
LEMMA PagesNamedInit == ASSUME Pages!PagesAssumption, Pages!Init PROVE PagesNamed
<1>1. /\ blocks = [h \in 1..Rows0 |-> Pages!Row(BestChains[1][h], 0)] /\ memo = "null"
      /\ inflight = <<>> /\ entries = <<>> /\ asker = [r \in Asker |-> Pages!Idle] /\ asks = 0 /\ nodeFaults = 0 /\ node = 1
  BY DEF Pages!Init
<1>2. 1 \in DOMAIN BestChains /\ Rows0 \in 0..Len(BestChains[1]) /\ MaxPageAsks \in Nat /\ MaxNodeFaults \in Nat
  BY DEF Pages!PagesAssumption
<1>3. ASSUME NEW h \in 1..Rows0 PROVE BestChains[1][h] \in Pages!Block
  <2>1. Pages!Chain = BestChains[1]
    BY <1>1 DEF Pages!Chain
  <2>2. h \in 1..Len(Pages!Chain)
    BY <1>1, <1>2, <2>1, ChainIs
  <2> QED
    BY <1>1, <1>2, <2>1, <2>2, ChainNamed
<1>4. RowsNamed(blocks)
  BY <1>1, <1>3 DEF RowsNamed, Pages!Row
<1>5. EntriesNamed(entries) /\ CallsNamed(inflight)
  BY <1>1 DEF EntriesNamed, CallsNamed
<1>6. Pages!Idle.at = "idle"
  BY DEF Pages!Idle
<1> QED
  BY <1>1, <1>2, <1>4, <1>5, <1>6 DEF PagesNamed, AskersNamed, Probes1, PagesCounts

\* The bound on faults.
LEMMA FaultsCounted ==
  ASSUME Pages!PagesAssumption, PagesCounts, asks' = asks,
         nodeFaults' = nodeFaults \/ \E ok : Pages!Faulty(ok)
  PROVE  PagesCounts'
<1>1. MaxNodeFaults \in Nat
  BY DEF Pages!PagesAssumption
<1>2. nodeFaults' = nodeFaults \/ (nodeFaults < MaxNodeFaults /\ nodeFaults' = nodeFaults + 1)
  BY DEF Pages!Faulty
<1> QED
  BY <1>1, <1>2 DEF PagesCounts

\* Rows, from the worker and from a request that fills in a size.
LEMMA RowsNamedStay ==
  ASSUME Pages!PagesAssumption, PagesInv, RowsNamed(blocks), [Pages!Next]_(Pages!vars)
  PROVE  RowsNamed(blocks')
<1>1. blocks \in Seq(BlockRows) /\ node \in DOMAIN BestChains
  BY DEF PagesInv, PagesTypes
<1>2. CASE Pages!Sync
  <2>1. PICK n : n = Len(blocks) /\ n \in Nat /\ DOMAIN blocks = 1..n
    BY <1>1
  <2>2. CASE blocks' = Pages!Front(blocks) /\ blocks # <<>>
    <3>1. n - 1 \in 0..Len(blocks)
      BY <1>1, <2>1, <2>2
    <3>2. PICK m : m = n - 1 /\ m \in 0..Len(blocks)
      BY <3>1
    <3>3. blocks' = SubSeq(blocks, 1, m)
      BY <2>1, <2>2, <3>2 DEF Pages!Front
    <3>4. blocks' \in Seq(BlockRows) /\ Len(blocks') = m /\ \A h \in 1..m : blocks'[h] = blocks[h]
      BY <1>1, <3>2, <3>3, PrefixIsSequence
    <3>5. DOMAIN blocks' = 1..m /\ \A h \in 1..m : h \in DOMAIN blocks
      BY <2>1, <3>2, <3>4
    <3> QED
      BY <3>4, <3>5 DEF RowsNamed
  <2>3. CASE n < Len(Pages!Chain) /\ blocks' = Append(blocks, Pages!Row(Pages!Chain[n + 1], Pages!Chain[n + 1]))
    <3>1. n + 1 \in 1..Len(Pages!Chain)
      BY <1>1, <2>1, <2>3, ChainIs
    <3>2. Pages!Chain[n + 1] \in Pages!Block /\ Pages!Chain[n + 1] \in Nat
      BY <1>1, <3>1, ChainNamed, ChainIs
    <3>3. PICK new : new = Pages!Row(Pages!Chain[n + 1], Pages!Chain[n + 1])
      OBVIOUS
    <3>4. new \in BlockRows /\ new.hash \in Pages!Block
      BY <3>2, <3>3 DEF Pages!Row, BlockRows
    <3>5. blocks' = Append(blocks, new)
      BY <2>3, <3>3
    <3>6. DOMAIN blocks' = 1..(n + 1) /\ blocks'[n + 1] = new /\ \A h \in 1..n : blocks'[h] = blocks[h]
      BY <1>1, <2>1, <3>4, <3>5
    <3> QED
      BY <2>1, <3>4, <3>6 DEF RowsNamed
  <2> QED
    BY <1>2, <2>1, <2>2, <2>3 DEF Pages!Sync
<1>3. ASSUME NEW r \in Asker, Pages!End(r) PROVE RowsNamed(blocks')
  <2>1. CASE blocks' = blocks
    BY <2>1
  <2>2. CASE blocks' # blocks
    <3>1. PICK at, b : Pages!Backfills(at) /\ blocks' = [blocks EXCEPT ![at].size = b]
      BY <1>3, <2>2 DEF Pages!End
    <3>2. at \in DOMAIN blocks /\ blocks[at] \in BlockRows
      BY <1>1, <3>1 DEF Pages!Backfills
    <3>3. PICK new : new = [blocks[at] EXCEPT !.size = b]
      OBVIOUS
    <3>4. new.hash = blocks[at].hash
      BY <3>2, <3>3 DEF BlockRows
    <3>5. blocks' = [blocks EXCEPT ![at] = new]
      BY <3>1, <3>2, <3>3
    <3>6. DOMAIN blocks' = DOMAIN blocks /\ \A h \in DOMAIN blocks : blocks'[h].hash = blocks[h].hash
      BY <1>1, <3>2, <3>4, <3>5
    <3> QED
      BY <3>6 DEF RowsNamed
  <2> QED
    BY <2>1, <2>2
<1>4. CASE UNCHANGED blocks
  BY <1>4
<1>5. CASE UNCHANGED Pages!vars \/ Pages!NodeMoves \/ Pages!Expire \/ (\E ok \in BOOLEAN : Pages!Probed(ok))
  BY <1>4, <1>5 DEF Pages!vars, Pages!store, Pages!NodeMoves, Pages!Expire, Pages!Probed
<1>6. ASSUME NEW i \in DOMAIN inflight, Pages!Arrival(i) PROVE RowsNamed(blocks')
  BY <1>4, <1>6 DEF Pages!Arrival, Pages!BlockArrives, Pages!PageArrives, Pages!store
<1>7. ASSUME NEW r \in Asker,
             (\E w \in Wanted : Pages!Ask(r, w[1], w[2], w[3])) \/ Pages!Deadline(r) \/ Pages!Probe(r) \/ Pages!Hash(r)
               \/ Pages!NodeBlock(r) \/ Pages!TxPageOf(r) \/ Pages!EndLate(r)
      PROVE  RowsNamed(blocks')
  BY <1>4, <1>7 DEF Pages!Ask, Pages!Deadline, Pages!Probe, Pages!Hash, Pages!NodeBlock, Pages!TxPageOf, Pages!EndLate, Pages!store
<1> QED
  BY <1>2, <1>3, <1>5, <1>6, <1>7 DEF Pages!Next, Pages!Step

\* Calls that are started or end.
LEMMA LaunchNamed ==
  ASSUME PagesInv, CallsNamed(inflight), NEW key, NEW entry, Pages!Launch(key, entry),
         key[1] = "txs" => key[3] \in Starts, key[1] = "block" => entry = 0
  PROVE  CallsNamed(inflight')
<1>1. PICK n : n \in Nat /\ n = Len(inflight) /\ DOMAIN inflight = 1..n
  BY DEF PagesInv, PagesTypes
<1>2. PICK c : c = [key |-> key, entry |-> entry]
  OBVIOUS
<1>3. c.key = key /\ c.entry = entry
  BY <1>2
<1>4. inflight' = inflight \/ inflight' = Append(inflight, c)
  BY <1>2 DEF Pages!Launch
<1>5. CASE inflight' = Append(inflight, c)
  <2>1. inflight \in Seq(Calls)
    BY DEF PagesInv, PagesTypes
  <2>2. DOMAIN inflight' = 1..(n + 1) /\ inflight'[n + 1] = c /\ \A i \in 1..n : inflight'[i] = inflight[i]
    BY <1>1, <1>5, <2>1
  <2> QED
    BY <1>1, <1>3, <2>2 DEF CallsNamed
<1> QED
  BY <1>4, <1>5

\* A call that ends leaves the other ones.
LEMMA EndedNamed ==
  ASSUME PagesInv, CallsNamed(inflight), NEW i \in DOMAIN inflight, inflight' = Pages!RemoveAt(inflight, i)
  PROVE  CallsNamed(inflight')
<1>0. inflight \in Seq(Calls)
  BY DEF PagesInv, PagesTypes
<1>1. PICK n : n \in Nat /\ n = Len(inflight) /\ DOMAIN inflight = 1..n
  BY <1>0
<1>2. /\ inflight' \in Seq(Calls) /\ Len(inflight') = n - 1
      /\ \A j \in 1..(n - 1) : inflight'[j] = inflight[IF j < i THEN j ELSE j + 1]
  BY <1>0, <1>1, Removed
<1>3. DOMAIN inflight' = 1..(n - 1)
  BY <1>1, <1>2
<1>4. \A j \in 1..(n - 1) : (IF j < i THEN j ELSE j + 1) \in DOMAIN inflight
  BY <1>1
<1> QED
  BY <1>2, <1>3, <1>4 DEF CallsNamed

\* A step that changes neither rows, entries nor calls.
LEMMA GotoNamed ==
  ASSUME PagesInv, AskersNamed(asker), NEW rs \in SUBSET Asker, NEW at, Pages!Goto(rs, at),
         \A r \in rs : asker[r].at # "idle"
  PROVE  /\ AskersNamed(asker')
         /\ \A r \in Asker : asker'[r].at = IF r \in rs THEN at ELSE asker[r].at
<1>1. ASSUME NEW r \in Asker
      PROVE  asker'[r].start = asker[r].start /\ asker'[r].at = IF r \in rs THEN at ELSE asker[r].at
  <2>1. asker[r] \in Questions
    BY DEF PagesInv, PagesTypes
  <2>2. PICK n : n = [asker[r] EXCEPT !.at = at]
    OBVIOUS
  <2>3. n.start = asker[r].start /\ n.at = at
    BY <2>1, <2>2 DEF Questions
  <2>4. asker'[r] = IF r \in rs THEN n ELSE asker[r]
    BY <2>2 DEF Pages!Goto
  <2> QED
    BY <2>3, <2>4
<1> QED
  BY <1>1 DEF AskersNamed

\* A request that is changed in place, to a stage that is not a probe.
LEMMA OneNamed ==
  ASSUME PagesInv, AskersNamed(asker), Probes1(memo, asker), memo' = memo, NEW r \in Asker, NEW n,
         asker' = [asker EXCEPT ![r] = n], n.at # "idle" => n.start \in Starts, n.at = "probing" => asker[r].at = "probing"
  PROVE  AskersNamed(asker') /\ Probes1(memo', asker')
<1>1. asker'[r] = n /\ \A a \in Asker : a # r => asker'[a] = asker[a]
  BY DEF PagesInv, PagesTypes
<1> QED
  BY <1>1 DEF AskersNamed, Probes1

\* A call that ends brings its requests to a page or to their end.
LEMMA ArrivalNamed ==
  ASSUME PagesInv, AskersNamed(asker), Probes1(memo, asker), memo' = memo,
         \A r \in Asker : \/ asker'[r] = asker[r]
                          \/ /\ asker[r].at \in {"fetching", "paging"} /\ asker'[r].at \in {"page", "end"}
                             /\ asker'[r].start = asker[r].start
  PROVE  AskersNamed(asker') /\ Probes1(memo', asker')
BY DEF AskersNamed, Probes1

\* The blocks are numbers.
LEMMA HashesAreNumbers == ASSUME Pages!PagesAssumption, NEW b \in Pages!Block PROVE b \in Nat
<1>1. PICK c \in Pages!Range(BestChains) : b \in Pages!Range(c)
  BY DEF Pages!Block
<1>2. PICK S, C : S = Seq(Nat \ {0}) /\ C \in Seq(S) /\ C = BestChains
  BY DEF Pages!PagesAssumption
<1>3. c \in S
  BY <1>1, <1>2 DEF Pages!Range
<1>4. PICK d : d \in Seq(Nat \ {0}) /\ b \in Pages!Range(d)
  BY <1>1, <1>2, <1>3
<1> QED
  BY <1>4 DEF Pages!Range

\* ... and after every step.
LEMMA PagesNamedNext ==
  ASSUME Pages!PagesAssumption, PagesInv, PagesNamed, [Pages!Next]_(Pages!vars)
  PROVE  PagesNamed'
<1>1. PagesTypes /\ Learning /\ CacheStands /\ RowsNamed(blocks')
  BY RowsNamedStay DEF PagesInv, PagesNamed
<1> USE DEF PagesNamed
<1>2. ASSUME NEW r \in Asker PROVE asker[r] \in Questions /\ Coherent(asker[r], entries)
  BY <1>1 DEF PagesTypes, Learning
<1>3. CASE UNCHANGED Pages!vars \/ Pages!NodeMoves \/ Pages!Sync
  <2>1. UNCHANGED <<memo, inflight, entries, asker, asks, nodeFaults>>
    BY <1>3 DEF Pages!vars, Pages!NodeMoves, Pages!Sync
  <2> QED
    BY <1>1, <2>1 DEF PagesCounts
<1>4. CASE Pages!Expire
  <2>1. memo' = "null" /\ memo # "probing" /\ UNCHANGED <<inflight, entries, asker, asks, nodeFaults>>
    BY <1>4 DEF Pages!Expire, Pages!Expires
  <2>2. Probes1(memo', asker)
    BY <2>1 DEF Probes1
  <2> QED
    BY <1>1, <2>1, <2>2 DEF PagesCounts
<1>5. ASSUME NEW ok \in BOOLEAN, Pages!Probed(ok) PROVE PagesNamed'
  <2>1. PICK at \in {"hash", "end"} : Pages!Goto(Pages!At("probing"), at)
    BY <1>5 DEF Pages!Probed
  <2>2. UNCHANGED <<inflight, entries, asks>> /\ memo' \in {"true", "false"} /\ Pages!Faulty(ok)
    BY <1>5 DEF Pages!Probed
  <2>3. Pages!At("probing") \in SUBSET Asker /\ \A r \in Pages!At("probing") : asker[r].at # "idle"
    BY DEF Pages!At
  <2>4. /\ AskersNamed(asker')
        /\ \A r \in Asker : asker'[r].at = IF r \in Pages!At("probing") THEN at ELSE asker[r].at
    BY <2>1, <2>3, GotoNamed
  <2>5. Probes1(memo', asker')
    BY <2>1, <2>2, <2>4 DEF Probes1, Pages!At
  <2>6. PagesCounts'
    BY <2>2, FaultsCounted
  <2> QED
    BY <1>1, <2>2, <2>4, <2>5, <2>6
<1>6. ASSUME NEW r \in Asker, Pages!Probe(r) PROVE PagesNamed'
  <2>1. asker[r].at = "probe" /\ UNCHANGED <<inflight, entries, asks, nodeFaults>>
        /\ memo' = IF memo = "null" THEN "probing" ELSE memo
    BY <1>6 DEF Pages!Probe, Pages!At
  <2>2. PICK at : Pages!Goto({r}, at) /\ at = CASE memo = "true" -> "hash" [] memo = "false" -> "end" [] OTHER -> "probing"
    BY <1>6 DEF Pages!Probe
  <2>3. AskersNamed(asker') /\ \A a \in Asker : asker'[a].at = IF a \in {r} THEN at ELSE asker[a].at
    BY <2>1, <2>2, GotoNamed
  <2>4. at = "probing" => memo' = "probing"
    BY <2>1, <2>2 DEF Probes1
  <2>5. memo' \in {"null", "true", "false", "probing"} /\ (memo = "probing" => memo' = "probing")
    BY <2>1 DEF Probes1
  <2>6. Probes1(memo', asker')
    BY <2>3, <2>4, <2>5 DEF Probes1
  <2> QED
    BY <1>1, <2>1, <2>3, <2>6 DEF PagesCounts
<1>7. ASSUME NEW r \in Asker, NEW w \in Wanted, Pages!Ask(r, w[1], w[2], w[3]) PROVE PagesNamed'
  <2>1. /\ asks < MaxPageAsks /\ asks' = asks + 1 /\ UNCHANGED <<memo, inflight, entries, nodeFaults>>
    BY <1>7 DEF Pages!Ask
  <2>2. PICK start, height, hash, row, n :
          /\ start = w[3] /\ asker' = [asker EXCEPT ![r] = n]
          /\ n = [Pages!Idle EXCEPT !.at = "probe", !.asked = node, !.height = height, !.hash = hash, !.start = start, !.row = row]
    BY <1>7 DEF Pages!Ask
  <2>3. n.at = "probe" /\ n.start = start
    BY <2>2 DEF Pages!Idle
  <2>4. n.start \in Starts
    BY <2>2, <2>3 DEF Starts
  <2>5. AskersNamed(asker') /\ Probes1(memo', asker')
    BY <2>1, <2>2, <2>3, <2>4, OneNamed
  <2>6. PagesCounts'
    BY <2>1 DEF PagesCounts, Pages!PagesAssumption
  <2> QED
    BY <1>1, <2>1, <2>5, <2>6
<1>8. ASSUME NEW r \in Asker, Pages!Hash(r) PROVE PagesNamed'
  <2>1. UNCHANGED <<memo, inflight, entries, asks>> /\ asker[r].at = "hash" /\ \E ok : Pages!Faulty(ok)
    BY <1>8 DEF Pages!Hash
  <2>2. PICK b, at : at \in {"end", "block"} /\ asker' = [asker EXCEPT ![r].hash = b, ![r].at = at]
    <3>1. PICK q : q = asker[r]
      OBVIOUS
    <3> DEFINE known == IF q.row.hash # 0 THEN q.row.hash ELSE q.hash
               B(ok) == IF known # 0 THEN known ELSE IF ok /\ q.height <= Len(Pages!Chain) THEN Pages!Chain[q.height] ELSE 0
    <3>2. PICK ok \in BOOLEAN :
            asker' = [asker EXCEPT ![r].hash = B(ok), ![r].at = IF B(ok) = 0 THEN "end" ELSE "block"]
      BY <1>8, <3>1 DEF Pages!Hash
    <3> HIDE DEF B
    <3>3. PICK at : at = (IF B(ok) = 0 THEN "end" ELSE "block") /\ asker' = [asker EXCEPT ![r].hash = B(ok), ![r].at = at]
      BY <3>2
    <3> QED
      BY <3>3
  <2>3. PICK n : n = [asker[r] EXCEPT !.hash = b, !.at = at]
    OBVIOUS
  <2>4. n.at = at /\ n.start = asker[r].start /\ asker' = [asker EXCEPT ![r] = n]
    BY <1>1, <1>2, <2>2, <2>3 DEF PagesTypes, Questions
  <2>5. AskersNamed(asker') /\ Probes1(memo', asker')
    <3>1. n.start \in Starts
      BY <2>1, <2>4 DEF AskersNamed
    <3> QED
      BY <2>1, <2>2, <2>4, <3>1, OneNamed
  <2>6. PagesCounts'
    BY <2>1, FaultsCounted
  <2> QED
    BY <1>1, <2>1, <2>5, <2>6
<1>9. ASSUME NEW r \in Asker, Pages!NodeBlock(r) PROVE PagesNamed'
  <2>1. UNCHANGED <<memo, asks>> /\ asker[r].at = "block" /\ PagesCounts'
    <3>1. UNCHANGED <<memo, asks>> /\ asker[r].at = "block" /\ (nodeFaults' = nodeFaults \/ \E ok : Pages!Faulty(ok))
      BY <1>9 DEF Pages!NodeBlock
    <3> QED
      BY <3>1, FaultsCounted
  <2>2. asker[r].start \in Starts
    BY <2>1 DEF AskersNamed
  <2>3. CASE Pages!Goto({r}, "fetching") /\ Pages!Launch(Pages!BlockKey(asker[r].hash), 0) /\ entries' = entries
    <3>1. AskersNamed(asker') /\ \A a \in Asker : asker'[a].at = IF a \in {r} THEN "fetching" ELSE asker[a].at
      BY <2>1, <2>3, GotoNamed
    <3>2. Probes1(memo', asker')
      BY <2>1, <3>1 DEF Probes1
    <3>3. PICK key : key = Pages!BlockKey(asker[r].hash)
      OBVIOUS
    <3>4. key[1] = "block"
      BY <3>3 DEF Pages!BlockKey
    <3>5. CallsNamed(inflight')
      BY <2>3, <3>3, <3>4, LaunchNamed
    <3> QED
      BY <1>1, <2>1, <2>3, <3>1, <3>2, <3>5
  <2>4. ASSUME NEW e \in Pages!Find(asker[r].hash), NEW ok \in BOOLEAN, inflight' = inflight,
               asker' = [asker EXCEPT ![r].at = "page", ![r].entry = e],
               entries' = IF entries[e].next = 0 /\ ok THEN [entries EXCEPT ![e].next = Pages!Next1(asker[r].hash)] ELSE entries
        PROVE  PagesNamed'
    <3>1. PICK n : n = [asker[r] EXCEPT !.at = "page", !.entry = e]
      OBVIOUS
    <3>2. n.at = "page" /\ n.start = asker[r].start /\ asker' = [asker EXCEPT ![r] = n]
      BY <1>1, <1>2, <2>4, <3>1 DEF PagesTypes, Questions
    <3>3. AskersNamed(asker') /\ Probes1(memo', asker')
      BY <2>1, <2>2, <3>2, OneNamed
    <3>4. e \in DOMAIN entries /\ entries[e] \in CacheEntries
      BY <1>1, <2>4 DEF Pages!Find, Pages!Range, CacheStands, HeldStand, PagesTypes
    <3>5. EntriesNamed(entries')
      <4>1. CASE entries' = entries
        BY <4>1
      <4>2. CASE entries' # entries
        <5>1. PICK next : next = Pages!Next1(asker[r].hash) /\ next \in Pages!Block \cup {0}
          BY <1>1, ChainNamed DEF PagesTypes
        <5>2. PICK new : new = [entries[e] EXCEPT !.next = next]
          OBVIOUS
        <5>3. new.next = next /\ new.hash = entries[e].hash /\ new.pages = entries[e].pages
          BY <3>4, <5>2 DEF CacheEntries
        <5>4. entries' = [entries EXCEPT ![e] = new]
          BY <2>4, <3>4, <4>2, <5>1, <5>2
        <5>5. DOMAIN entries' = DOMAIN entries /\ entries'[e] = new /\ \A d \in DOMAIN entries : d # e => entries'[d] = entries[d]
          BY <1>1, <3>4, <5>4 DEF PagesTypes
        <5> QED
          BY <3>4, <5>1, <5>3, <5>5 DEF EntriesNamed
      <4> QED
        BY <4>1, <4>2
    <3> QED
      BY <1>1, <2>1, <2>4, <3>3, <3>5
  <2> QED
    BY <1>9, <2>3, <2>4 DEF Pages!NodeBlock
<1>10. ASSUME NEW r \in Asker, Pages!TxPageOf(r) PROVE PagesNamed'
  <2>1. UNCHANGED <<memo, asks, entries, nodeFaults>> /\ asker[r].at = "page"
    BY <1>10 DEF Pages!TxPageOf
  <2>2. asker[r].start \in Starts
    BY <2>1 DEF AskersNamed
  <2>3. CASE Pages!Goto({r}, "paging") /\ \E b, k : Pages!Launch(Pages!PageKey(b, asker[r].start), k)
    <3>1. AskersNamed(asker') /\ \A a \in Asker : asker'[a].at = IF a \in {r} THEN "paging" ELSE asker[a].at
      BY <2>1, <2>3, GotoNamed
    <3>2. Probes1(memo', asker')
      BY <2>1, <3>1 DEF Probes1
    <3>3. PICK b, k, key : key = Pages!PageKey(b, asker[r].start) /\ Pages!Launch(key, k)
      BY <2>3
    <3>4. key[1] = "txs" /\ key[3] = asker[r].start
      BY <3>3 DEF Pages!PageKey
    <3>5. CallsNamed(inflight')
      BY <2>2, <3>3, <3>4, LaunchNamed
    <3> QED
      BY <1>1, <2>1, <3>1, <3>2, <3>5 DEF PagesCounts
  <2>4. CASE inflight' = inflight /\ \E txs : asker' = [asker EXCEPT ![r].at = "end", ![r].txs = txs]
    <3>1. PICK txs : asker' = [asker EXCEPT ![r].at = "end", ![r].txs = txs]
      BY <2>4
    <3>2. PICK n : n = [asker[r] EXCEPT !.at = "end", !.txs = txs]
      OBVIOUS
    <3>3. n.at = "end" /\ n.start = asker[r].start /\ asker' = [asker EXCEPT ![r] = n]
      BY <1>1, <1>2, <3>1, <3>2 DEF PagesTypes, Questions
    <3>4. AskersNamed(asker') /\ Probes1(memo', asker')
      BY <2>1, <2>2, <3>3, OneNamed
    <3> QED
      BY <1>1, <2>1, <2>4, <3>4 DEF PagesCounts
  <2> QED
    BY <1>10, <2>3, <2>4 DEF Pages!TxPageOf
<1>11. ASSUME NEW r \in Asker, Pages!Deadline(r) PROVE PagesNamed'
  <2>1. UNCHANGED <<memo, inflight, entries, asks, nodeFaults>> /\ asker' = [asker EXCEPT ![r].late = TRUE]
        /\ asker[r].at \in Pages!Waiting
    BY <1>11 DEF Pages!Deadline
  <2>2. PICK n : n = [asker[r] EXCEPT !.late = TRUE]
    OBVIOUS
  <2>3. n.at = asker[r].at /\ n.start = asker[r].start /\ asker' = [asker EXCEPT ![r] = n]
    BY <1>1, <1>2, <2>1, <2>2 DEF PagesTypes, Questions
  <2>4. AskersNamed(asker') /\ Probes1(memo', asker')
    <3>1. n.at # "idle" => n.start \in Starts
      BY <2>3 DEF AskersNamed
    <3>2. n.at = "probing" => asker[r].at = "probing"
      BY <2>3
    <3> QED
      BY <2>1, <2>3, <3>1, <3>2, OneNamed
  <2> QED
    BY <1>1, <2>1, <2>4 DEF PagesCounts
<1>12. ASSUME NEW r \in Asker, Pages!End(r) \/ Pages!EndLate(r) PROVE PagesNamed'
  <2>1. UNCHANGED <<memo, inflight, entries, asks, nodeFaults>> /\ asker' = [asker EXCEPT ![r] = Pages!Idle]
    BY <1>12 DEF Pages!End, Pages!EndLate
  <2>2. Pages!Idle.at = "idle"
    BY DEF Pages!Idle
  <2>3. PICK n : n = Pages!Idle /\ n.at = "idle"
    BY <2>2
  <2>4. AskersNamed(asker') /\ Probes1(memo', asker')
    BY <2>1, <2>3, OneNamed
  <2> QED
    BY <1>1, <2>1, <2>4 DEF PagesCounts
<1>13. ASSUME NEW i \in DOMAIN inflight, NEW ok \in BOOLEAN, Pages!BlockArrives(i, ok) PROVE PagesNamed'
  <2>1. /\ UNCHANGED <<memo, asks>> /\ inflight' = Pages!RemoveAt(inflight, i)
        /\ nodeFaults' = nodeFaults \/ \E y : Pages!Faulty(y)
    BY <1>13 DEF Pages!BlockArrives
  <2>2. PagesCounts' /\ CallsNamed(inflight')
    BY <2>1, FaultsCounted, EndedNamed
  <2>3. PICK b, next : b = inflight[i].key[2] /\ next = Pages!Next1(b) /\ next \in Pages!Block \cup {0}
    BY <1>1, ChainNamed DEF PagesTypes
  <2>4. PICK new : new = [hash |-> b, next |-> next, pages |-> <<>>]
    OBVIOUS
  <2>5. entries' = entries \/ (Pages!Known(b) /\ entries' = Append(entries, new))
    BY <1>13, <2>3, <2>4 DEF Pages!BlockArrives
  <2>6. EntriesNamed(entries')
    <3>1. ASSUME Pages!Known(b), entries' = Append(entries, new) PROVE EntriesNamed(entries')
      <4>1. b \in Pages!Block
        BY <1>1, <3>1, ChainNamed DEF PagesTypes
      <4>2. new.hash = b /\ new.next = next /\ new.pages = <<>>
        BY <2>4
      <4>3. DOMAIN new.pages = {}
        BY <4>2
      <4>4. PICK n : n \in Nat /\ n = Len(entries) /\ DOMAIN entries = 1..n
        BY <1>1 DEF PagesTypes
      <4>5. new \in CacheEntries
        <5>1. b \in Nat
          BY <4>1, HashesAreNumbers
        <5>2. next \in Nat
          BY <2>3, HashesAreNumbers
        <5> QED
          BY <2>4, <5>1, <5>2, NoPages DEF CacheEntries
      <4>6. DOMAIN entries' = 1..(n + 1) /\ entries'[n + 1] = new /\ \A e \in 1..n : entries'[e] = entries[e]
        BY <1>1, <3>1, <4>4, <4>5 DEF PagesTypes
      <4> QED
        BY <2>3, <4>1, <4>2, <4>3, <4>4, <4>6 DEF EntriesNamed
    <3> QED
      BY <2>5, <3>1
  <2>7. ASSUME NEW r \in Asker
        PROVE  \/ asker'[r] = asker[r]
               \/ asker[r].at = "fetching" /\ asker'[r].at \in {"page", "end"} /\ asker'[r].start = asker[r].start
    <3>1. PICK at, entry : at = (IF ok THEN "page" ELSE "end") /\ entry = (IF ok THEN Len(entries) + 1 ELSE 0)
      OBVIOUS
    <3>2. PICK n : n = [asker[r] EXCEPT !.at = at, !.entry = entry]
      OBVIOUS
    <3>3. n.at = at /\ n.start = asker[r].start /\ at \in {"page", "end"}
      BY <1>2, <3>1, <3>2 DEF Questions
    <3>4. asker'[r] = asker[r] \/ (r \in Pages!At("fetching") /\ asker'[r] = n)
      BY <1>13, <3>1, <3>2 DEF Pages!BlockArrives
    <3> QED
      BY <3>3, <3>4 DEF Pages!At
  <2>8. AskersNamed(asker') /\ Probes1(memo', asker')
    BY <2>1, <2>7, ArrivalNamed
  <2> QED
    BY <1>1, <2>2, <2>6, <2>8
<1>14. ASSUME NEW i \in DOMAIN inflight, inflight[i].key[1] = "txs",
              NEW reply \in Pages!Replies(Pages!Slice(Pages!Txids(inflight[i].key[2]), inflight[i].key[3])),
              Pages!PageArrives(i, reply)
       PROVE  PagesNamed'
  <2>1. /\ UNCHANGED <<memo, asks>> /\ inflight' = Pages!RemoveAt(inflight, i) /\ \E y : Pages!Faulty(y)
    BY <1>14 DEF Pages!PageArrives
  <2>2. PagesCounts' /\ CallsNamed(inflight')
    BY <2>1, FaultsCounted, EndedNamed
  <2>3. PICK e, start : e = inflight[i].entry /\ start = inflight[i].key[3] /\ start \in Starts
    BY <1>14 DEF CallsNamed
  <2>4. e \in DOMAIN entries /\ entries[e] \in CacheEntries
    BY <1>1, <1>14, <2>3 DEF CacheStands, CallsStand, PagesTypes
  <2>5. PICK txs, pages :
          /\ pages = [s \in DOMAIN entries[e].pages \cup {start} |-> IF s = start THEN txs ELSE entries[e].pages[s]]
          /\ entries' = entries \/ entries' = [entries EXCEPT ![e].pages = pages]
    <3>1. PICK txs : txs = Pages!Matched(reply, Len(Pages!Slice(Pages!Txids(inflight[i].key[2]), inflight[i].key[3])))
      OBVIOUS
    <3>2. \/ entries' = entries
          \/ entries' = [entries EXCEPT ![e].pages = [s \in DOMAIN @ \cup {start} |-> IF s = start THEN txs ELSE @[s]]]
      BY <1>14, <2>3, <3>1 DEF Pages!PageArrives
    <3>3. PICK pages : pages = [s \in DOMAIN entries[e].pages \cup {start} |-> IF s = start THEN txs ELSE entries[e].pages[s]]
      OBVIOUS
    <3>4. entries' = entries \/ entries' = [entries EXCEPT ![e].pages = pages]
      BY <2>4, <3>2, <3>3
    <3> QED
      BY <3>3, <3>4
  <2>6. EntriesNamed(entries')
    <3>1. PICK new : new = [entries[e] EXCEPT !.pages = pages]
      OBVIOUS
    <3>2. new.pages = pages /\ new.hash = entries[e].hash /\ new.next = entries[e].next
      BY <2>4, <3>1 DEF CacheEntries
    <3>3. DOMAIN new.pages \subseteq Starts
      BY <2>3, <2>4, <2>5, <3>2 DEF EntriesNamed
    <3>4. CASE entries' = [entries EXCEPT ![e] = new]
      <4>1. DOMAIN entries' = DOMAIN entries /\ entries'[e] = new /\ \A d \in DOMAIN entries : d # e => entries'[d] = entries[d]
        BY <1>1, <2>4, <3>4 DEF PagesTypes
      <4> QED
        BY <2>4, <3>2, <3>3, <4>1 DEF EntriesNamed
    <3>5. entries' = entries \/ entries' = [entries EXCEPT ![e] = new]
      BY <2>4, <2>5, <3>1
    <3> QED
      BY <3>4, <3>5
  <2>7. ASSUME NEW r \in Asker
        PROVE  \/ asker'[r] = asker[r]
               \/ asker[r].at = "paging" /\ asker'[r].at \in {"page", "end"} /\ asker'[r].start = asker[r].start
    <3>1. PICK entry, list1 :
            \/ asker'[r] = asker[r]
            \/ r \in Pages!At("paging") /\ asker'[r] = [asker[r] EXCEPT !.at = "end", !.entry = entry, !.txs = list1]
      BY <1>14 DEF Pages!PageArrives
    <3>2. PICK n : n = [asker[r] EXCEPT !.at = "end", !.entry = entry, !.txs = list1]
      OBVIOUS
    <3>3. n.at = "end" /\ n.start = asker[r].start
      BY <1>2, <3>2 DEF Questions
    <3> QED
      BY <3>1, <3>2, <3>3 DEF Pages!At
  <2>8. AskersNamed(asker') /\ Probes1(memo', asker')
    BY <2>1, <2>7, ArrivalNamed
  <2> QED
    BY <1>1, <2>2, <2>6, <2>8
<1> QED
  BY <1>3, <1>4, <1>5, <1>6, <1>7, <1>8, <1>9, <1>10, <1>11, <1>12, <1>13, <1>14
     DEF Pages!Next, Pages!Step, Pages!Arrival

\* The types of the block pages.
LEMMA PagesTypesHold == Pages!PagesAssumption => (Pages!Spec => []Pages!TypeOK)
<1> SUFFICES ASSUME Pages!PagesAssumption PROVE Pages!Spec => []Pages!TypeOK
  OBVIOUS
<1>1. Pages!Init => PagesInv /\ PagesNamed
  BY PagesInit, PagesNamedInit
<1>2. PagesInv /\ PagesNamed /\ [Pages!Next]_(Pages!vars) => (PagesInv /\ PagesNamed)'
  BY PagesNext, PagesNamedNext
<1>3. PagesInv /\ PagesNamed => Pages!TypeOK
  <2> SUFFICES ASSUME PagesInv, PagesNamed PROVE Pages!TypeOK
    OBVIOUS
  <2>1. PagesTypes /\ RowsStand /\ CacheStands /\ Learning
    BY DEF PagesInv
  <2>2. \A h \in DOMAIN blocks : blocks[h].hash \in Pages!Block /\ blocks[h].size \in Pages!Block \cup {0}
    BY <2>1 DEF PagesNamed, RowsNamed, RowsStand
  <2>3. /\ memo \in {"null", "true", "false", "probing"}
        /\ (\E r \in Asker : asker[r].at = "probing") => memo = "probing"
    BY DEF PagesNamed, Probes1
  <2>4. \A e \in DOMAIN entries : entries[e].hash \in Pages!Block /\ entries[e].next \in Pages!Block \cup {0}
          /\ DOMAIN entries[e].pages \subseteq Starts
    BY DEF PagesNamed, EntriesNamed
  <2>5. Pages!Range(cached) \subseteq DOMAIN entries
    BY <2>1 DEF CacheStands, HeldStand, Pages!Range
  <2>6. PICK n : n \in Nat /\ n = Len(entries) /\ DOMAIN entries = 1..n
    BY <2>1 DEF PagesTypes
  <2>7. ASSUME NEW f \in Pages!Range(inflight) PROVE f.entry \in 0..n
    <3>1. PICK i \in DOMAIN inflight : f = inflight[i]
      BY DEF Pages!Range
    <3>2. inflight[i] \in Calls
      BY <2>1 DEF PagesTypes
    <3>3. inflight[i].key[1] \in {"block", "txs"}
      BY <3>2 DEF Calls
    <3> QED
      BY <2>1, <2>6, <3>1, <3>3 DEF PagesNamed, CallsNamed, CacheStands, CallsStand
  <2>8. ASSUME NEW r \in Asker
        PROVE  /\ asker[r].at \in Pages!Waiting \cup {"idle", "end"} /\ asker[r].entry \in 0..n
               /\ answer[r].kind \in {"none", "not found", "pending", "indexed", "full"}
    <3>1. asker[r] \in Questions /\ answer[r] \in Answers /\ Coherent(asker[r], entries)
      BY <2>1 DEF PagesTypes, Learning
    <3>2. asker[r].at \in Pages!Waiting \cup {"idle", "end"}
      BY <3>1 DEF Questions, Stages
    <3>3. answer[r].kind \in {"none", "not found", "pending", "indexed", "full"}
      BY <3>1 DEF Answers
    <3>4. asker[r].entry \in Nat /\ (asker[r].entry # 0 => asker[r].entry \in DOMAIN entries)
      BY <3>1 DEF Questions, Coherent
    <3>5. asker[r].entry \in 0..n
      BY <2>6, <3>4
    <3> QED
      BY <3>2, <3>3, <3>5
  <2> QED
    BY <2>1, <2>2, <2>3, <2>4, <2>5, <2>6, <2>7, <2>8 DEF Pages!TypeOK, PagesTypes, PagesNamed, PagesCounts, Starts
<1> QED
  BY <1>1, <1>2, <1>3, PTL DEF Pages!Spec
=============================================================================
