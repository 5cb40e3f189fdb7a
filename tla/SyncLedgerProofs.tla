-------------------------- MODULE SyncLedgerProofs --------------------------
(***************************************************************************)
(* What SyncWorker's tables say of the chain, under the premises of        *)
(* SyncWorker.  When rival blocks of one height share a UTC day and days *)
(* never decrease along a branch, no day of the chain is left without its  *)
(* row, the staging table is exact, and, when nothing fails, no row is     *)
(* left ahead of the chain; branches, heights, batches, reorganizations    *)
(* (also while a pass is under way) and faults are arbitrary.  When the    *)
(* node abandons no block, or only ever its last one, not while a pass is  *)
(* under way, and no probe of the reorg scan fails, the stored blocks are  *)
(* one branch, the live coins are what replaying it gives (the refinement  *)
(* of Ledger), value is conserved, a spend is priced at the day of its     *)
(* coin, and a finalized row says what the chain says.  The runs that      *)
(* expect a violation show what is lost outside these premises.            *)
(***************************************************************************)
EXTENDS SyncWorkerProofs

(* Days. *)

\* day gives the UTC day of every height, on whatever branch.
Calendar(day) ==
  /\ day \in [Height -> Days]
  /\ \A h, k \in Height : h <= k => day[h] <= day[k]
  /\ \A br \in Branch : \A h \in DOMAIN br : DayOf[br[h]] = day[h]

\* The blocks stored and fetched are of the branches, so of those days.
OnCalendar(day) ==
  /\ \A h \in DOMAIN blocks : DayOf[blocks[h]] = day[h]
  /\ \A h \in DOMAIN batch : DayOf[batch[h]] = day[h]

\* A row has a row for every earlier day of the chain, stored now or not.
RowsClosed(day) ==
  \A d \in DOMAIN metrics : \A h \in Height : day[h] < d => day[h] \in DOMAIN metrics

\* The day of the run being collected is the stored tip's, or already the next
\* block's because the tip's day has its row.
DayOfRun(day) ==
  /\ pc = "fetch" => runDay = IF Tip = None THEN NoDay ELSE day[Tip]
  /\ pc = "process" /\ Tip < goal =>
       \/ Tip = None /\ runDay = NoDay
       \/ Tip # None /\ runDay = day[Tip]
       \/ Tip # None /\ runDay = day[Tip + 1] /\ day[Tip] \in DOMAIN metrics

DaysInv(day) == OnCalendar(day) /\ RowsClosed(day) /\ DayOfRun(day) /\ NoDayMissed

---------------------------------------------------------------------------
\* Branches that share their days have a calendar: that of the longest one.
LEMMA CalendarExists ==
  ASSUME SharedDays
  PROVE  \E day : Calendar(day)
<1>1. CASE Branch = {}
  <2> DEFINE day == [h \in Height |-> 1]
  <2>1. Calendar(day)
    BY <1>1 DEF Calendar, Days, NoDay
  <2> QED
    BY <2>1
<1>2. CASE Branch # {}
  <2> DEFINE Lengths == {n \in Height : \E br \in Branch : DOMAIN br = 0..n}
             Longest(n, br) == /\ n \in Height /\ br \in Branch /\ DOMAIN br = 0..n
                               /\ \A other \in Branch : DOMAIN other \subseteq 0..n
  <2>1. MaxHeight \in Nat /\ Height = 0..MaxHeight
    BY ChainAssumption DEF Height
  <2>2. \A br \in Branch : \E n \in Height : DOMAIN br = 0..n /\ \A h \in 0..n : br[h] \in Block
    BY ChainAssumption
  <2>3. PICK n, top : Longest(n, top)
    <3>1. Lengths \subseteq Int /\ Lengths # {} /\ \A x \in Lengths : x <= MaxHeight
      BY <1>2, <2>1, <2>2
    <3> HIDE DEF Lengths
    <3>2. Max(Lengths) \in Lengths /\ \A y \in Lengths : y <= Max(Lengths)
      <4>1. MaxHeight \in Int
        BY <2>1
      <4> QED
        BY ONLY <3>1, <4>1, MaxIsGreatest
    <3>3. ASSUME NEW other \in Branch PROVE DOMAIN other \subseteq 0..Max(Lengths)
      <4>1. PICK m \in Height : DOMAIN other = 0..m
        BY <2>2
      <4>2. m \in Lengths
        BY <4>1 DEF Lengths
      <4>3. m \in Int /\ Max(Lengths) \in Int /\ m <= Max(Lengths)
        BY <3>1, <3>2, <4>2
      <4> QED
        BY <4>1, <4>3
    <3>4. PICK br \in Branch : DOMAIN br = 0..Max(Lengths)
      BY <3>2 DEF Lengths
    <3>5. Max(Lengths) \in Height
      BY <3>2 DEF Lengths
    <3>6. Longest(Max(Lengths), br)
      BY <3>3, <3>4, <3>5
    <3> QED
      BY <3>6
  <2> DEFINE day == [h \in Height |-> DayOf[top[IF h <= n THEN h ELSE n]]]
  <2>4. n \in 0..MaxHeight /\ top \in Branch /\ DOMAIN top = 0..n
        /\ \A other \in Branch : DOMAIN other \subseteq 0..n
    BY <2>1, <2>3
  <2>5. \A h \in 0..n : top[h] \in Block
    BY <2>2, <2>4
  <2>6. \A b \in Block : DayOf[b] \in Days /\ DayOf[b] \in Int
    BY ChainAssumption DEF Days
  <2>7. day \in [Height -> Days]
    BY <2>1, <2>4, <2>5, <2>6
  <2>8. ASSUME NEW h \in Height, NEW k \in Height, h <= k PROVE day[h] <= day[k]
    BY <2>1, <2>4, <2>8 DEF SharedDays
  <2>9. ASSUME NEW br \in Branch, NEW h \in DOMAIN br PROVE DayOf[br[h]] = day[h]
    <3>1. h \in 0..n /\ h \in Height /\ h \in Int /\ br[h] \in Block
      BY <2>1, <2>2, <2>4, <2>9
    <3>2. DayOf[br[h]] <= DayOf[top[h]] /\ DayOf[top[h]] <= DayOf[br[h]]
      BY <2>4, <2>9, <3>1 DEF SharedDays
    <3>3. day[h] = DayOf[top[h]]
      BY <3>1, <2>4
    <3> QED
      BY <2>5, <2>6, <3>1, <3>2, <3>3
  <2>10. Calendar(day)
    <3> HIDE DEF day
    <3> QED
      BY <2>7, <2>8, <2>9 DEF Calendar
  <2> QED
    BY <2>10
<1> QED
  BY <1>1, <1>2

\* The tip is a height of the table, or None.
LEMMA TipStored ==
  ASSUME IInv
  PROVE  /\ Tip \in Int /\ Tip >= -1 /\ DOMAIN blocks = 0..Tip
         /\ Tip # None => Tip \in DOMAIN blocks /\ Tip \in Height
         /\ DOMAIN blocks \subseteq Height
<1>1. Tip \in Height \cup {None} /\ DOMAIN blocks = 0..Tip /\ DOMAIN blocks \subseteq Height
  BY TipInRange DEF IInv, TypeOK, IndexAgrees, TablesType
<1> QED
  BY <1>1, ChainAssumption DEF Height, None

\* On a calendar, NoDayMissed speaks of the days of the heights.
LEMMA MissedByHeight ==
  ASSUME IInv, NEW day, OnCalendar(day)
  PROVE  NoDayMissed <=> \A h \in DOMAIN blocks : day[h] < day[Tip] => day[h] \in DOMAIN metrics
BY TipStored DEF OnCalendar, NoDayMissed, None

\* What the node answers at a height up to its tip is of that height's day.
LEMMA NodeOnCalendar ==
  ASSUME IInv, NEW day, Calendar(day), NEW h \in Height, h <= node.height
  PROVE  DayOf[NodeBlock(h)] = day[h]
<1>1. node.chain \in Branch /\ node.height \in DOMAIN node.chain /\ node.height \in Nat
  BY ChainAssumption DEF IInv, TypeOK, NodeType, Height
<1>2. h \in 0..node.height
  BY <1>1, ChainAssumption DEF Height
<1>3. h \in DOMAIN node.chain
  BY <1>1, <1>2, BranchHeights
<1> QED
  BY <1>1, <1>3 DEF Calendar, NodeBlock

\* A step that leaves the tables and the run being collected alone, or leaves
\* the run because the pass is over.
LEMMA DaysStay ==
  ASSUME IInv, NEW day, DaysInv(day), UNCHANGED <<blocks, metrics>>,
         batch' = batch \/ batch' = <<>>,
         UNCHANGED <<pc, runDay, goal>> \/ pc' \notin {"fetch", "process"}
  PROVE  DaysInv(day)'
<1>1. Tip' = Tip /\ DOMAIN blocks' = DOMAIN blocks
  BY DEF Tip
<1>2. OnCalendar(day)'
  BY EmptyTable DEF DaysInv, OnCalendar
<1>3. RowsClosed(day)' /\ NoDayMissed'
  BY <1>1 DEF DaysInv, RowsClosed, NoDayMissed
<1>4. DayOfRun(day)'
  BY <1>1 DEF DaysInv, DayOfRun
<1> QED
  BY <1>2, <1>3, <1>4 DEF DaysInv

\* The batch starts with the day of the stored tip.
LEMMA ReadNodeTipKeepsDays ==
  ASSUME IInv, NEW day, DaysInv(day), ReadNodeTip
  PROVE  DaysInv(day)'
<1>1. UNCHANGED <<blocks, metrics>> /\ batch' = <<>> /\ pc = "info"
  BY DEF ReadNodeTip, PassOver, db
<1>2. CASE AtNodeTip
  BY <1>1, <1>2, DaysStay DEF ReadNodeTip
<1>3. CASE ~AtNodeTip
  <2>1. pc' = "fetch" /\ runDay' = SeedDay
    BY <1>3 DEF ReadNodeTip
  <2>2. Tip # None => index[Tip] = day[Tip]
    BY <1>1, TipStored DEF IInv, IndexAgrees, DaysInv, OnCalendar
  <2>3. runDay' = IF Tip = None THEN NoDay ELSE day[Tip]
    BY <2>1, <2>2 DEF SeedDay
  <2>4. Tip' = Tip
    BY <1>1 DEF Tip
  <2>5. DayOfRun(day)'
    BY <2>1, <2>3, <2>4 DEF DayOfRun
  <2>6. OnCalendar(day)'
    BY <1>1, EmptyTable DEF DaysInv, OnCalendar
  <2>7. RowsClosed(day)' /\ NoDayMissed'
    BY <1>1, <2>4 DEF DaysInv, RowsClosed, NoDayMissed
  <2> QED
    BY <2>5, <2>6, <2>7 DEF DaysInv
<1> QED
  BY <1>2, <1>3

\* A fetched block is of its height's day, also when the node has changed
\* branch since the batch was begun.
LEMMA FetchBlockKeepsDays ==
  ASSUME IInv, NEW day, Calendar(day), DaysInv(day), NEW h \in Height, FetchBlock(h)
  PROVE  DaysInv(day)'
<1>1. /\ UNCHANGED <<blocks, metrics, runDay, goal>> /\ pc = "fetch"
      /\ h \in Tip + 1 .. goal
      /\ batch' = [k \in DOMAIN batch \cup {h} |-> IF k = h THEN NodeBlock(h) ELSE batch[k]]
      /\ pc' \in {"process", "fetch"}
  BY DEF FetchBlock, db
<1>2. h <= node.height
  BY <1>1, TipStored, ChainAssumption DEF IInv, Control, TypeOK, NodeType, Height
<1>3. DayOf[NodeBlock(h)] = day[h]
  BY <1>2, NodeOnCalendar
<1>4. Tip' = Tip
  BY <1>1 DEF Tip
<1>5. OnCalendar(day)'
  BY <1>1, <1>3 DEF DaysInv, OnCalendar
<1>6. RowsClosed(day)' /\ NoDayMissed'
  BY <1>1, <1>4 DEF DaysInv, RowsClosed, NoDayMissed
<1>7. DayOfRun(day)'
  BY <1>1, <1>4 DEF DaysInv, DayOfRun
<1> QED
  BY <1>5, <1>6, <1>7 DEF DaysInv

\* At a boundary the run's day is the tip's.
LEMMA BoundaryDay ==
  ASSUME IInv, NEW day, DaysInv(day), AtBoundary
  PROVE  /\ Tip # None /\ runDay = day[Tip] /\ NextDay = day[Tip + 1]
         /\ Tip + 1 \in Height
<1>1. pc = "process" /\ Tip < goal /\ runDay \notin {NoDay, NextDay}
  BY DEF AtBoundary
<1>2. Tip + 1 \in Tip + 1 .. goal /\ Tip + 1 \in DOMAIN batch /\ Tip + 1 \in Height
  BY <1>1, RestOfBatch DEF IInv, Control
<1>3. NextDay = day[Tip + 1]
  BY <1>2 DEF NextDay, DaysInv, OnCalendar
<1> QED
  BY <1>1, <1>2, <1>3 DEF DaysInv, DayOfRun

\* A finalized day that is skipped has its row.
LEMMA SkipKeepsDays ==
  ASSUME IInv, RollupInv, NEW day, Calendar(day), DaysInv(day), SkipFinalizedDay
  PROVE  DaysInv(day)'
<1>1. /\ UNCHANGED <<blocks, metrics, batch, pc, goal>> /\ AtBoundary
      /\ runDay <= finalized /\ runDay' = NextDay /\ pc = "process"
  BY DEF SkipFinalizedDay, AlreadyFinalized, AtBoundary, db
<1>2. Tip # None /\ runDay = day[Tip] /\ NextDay = day[Tip + 1] /\ Tip \in Height /\ Tip' = Tip
  BY <1>1, BoundaryDay, TipStored DEF Tip
<1>3. finalized = LastDay(metrics) /\ DOMAIN metrics \subseteq Int /\ day[Tip] \in Days
  BY <1>2 DEF RollupInv, RollupReconciles, IInv, TypeOK, RollupType, Calendar
<1>4. finalized \in DOMAIN metrics
  <2>1. DOMAIN metrics # {}
    <3>1. day[Tip] \in Nat /\ day[Tip] # 0
      BY <1>3 DEF Days, NoDay
    <3>2. DOMAIN metrics = {} => finalized = 0
      BY <1>3 DEF LastDay, NoDay
    <3>3. runDay \in Nat /\ runDay # 0 /\ runDay <= finalized
      BY <1>1, <1>2, <3>1
    <3>4. finalized # 0
      BY <3>3
    <3> QED
      BY <3>2, <3>4
  <2>2. \A d \in DOMAIN metrics : d <= LastClose
    BY WorkerAssumption DEF IInv, TypeOK, RollupType
  <2>3. Max(DOMAIN metrics) \in DOMAIN metrics
    BY <1>3, <2>1, <2>2, MaxIsGreatest, WorkerAssumption
  <2> QED
    BY <1>3, <2>1, <2>3 DEF LastDay
<1>5. day[Tip] \in DOMAIN metrics
  BY <1>1, <1>2, <1>3, <1>4 DEF DaysInv, RowsClosed, Days
<1>6. DayOfRun(day)'
  BY <1>1, <1>2, <1>5 DEF DayOfRun
<1> QED
  BY <1>1, <1>2, <1>6 DEF DaysInv, OnCalendar, RowsClosed, NoDayMissed

\* A rollback only shortens the chain.
LEMMA RollBackKeepsDays ==
  ASSUME IInv, NEW day, Calendar(day), DaysInv(day), NEW answered \in BOOLEAN, RollBack(answered)
  PROVE  DaysInv(day)'
<1>1. /\ RollsBack(ForkHeight) /\ UNCHANGED metrics /\ pc' \in {"rewind", "pass"}
      /\ batch' = batch \/ batch' = <<>>
  BY RollBackHeights DEF RollBack, Continues, PassOver
<1>2. /\ DOMAIN blocks' \subseteq DOMAIN blocks /\ \A h \in DOMAIN blocks' : blocks'[h] = blocks[h]
      /\ DOMAIN blocks' = 0..Tip' /\ Tip' \in -1..Tip - 1
  BY <1>1, TipStored DEF RollsBack
<1>3. OnCalendar(day)'
  BY <1>1, <1>2, EmptyTable DEF DaysInv, OnCalendar
<1>4. NoDayMissed'
  <2> SUFFICES ASSUME NEW h \in DOMAIN blocks', day[h] < day[Tip']
               PROVE  day[h] \in DOMAIN metrics
    BY <1>1, <1>2, <1>3, TipStored DEF OnCalendar, NoDayMissed
  <2>1. Tip' \in DOMAIN blocks /\ Tip' \in Height /\ Tip \in Height /\ Tip' <= Tip /\ h \in Height
    BY <1>2, TipStored DEF None
  <2>2. day[Tip'] <= day[Tip] /\ day[h] \in Int /\ day[Tip] \in Int /\ day[Tip'] \in Int
    BY <2>1 DEF Calendar, Days
  <2> QED
    BY <1>2, <2>2, MissedByHeight DEF DaysInv
<1>5. RowsClosed(day)' /\ DayOfRun(day)'
  BY <1>1 DEF DaysInv, RowsClosed, DayOfRun
<1> QED
  BY <1>3, <1>4, <1>5 DEF DaysInv

\* The rewind drops the rows above a day, so what is left is still closed.
LEMMA RewindKeepsDays ==
  ASSUME IInv, NEW day, Calendar(day), DaysInv(day), NEW answered \in BOOLEAN,
         RewindMetrics(answered)
  PROVE  DaysInv(day)'
<1>1. /\ UNCHANGED blocks /\ pc = "rewind" /\ pc' \in {"info", "pass"}
      /\ batch' = batch \/ batch' = <<>>
      /\ \/ UNCHANGED metrics
         \/ Tip # None /\ metrics' = RowsUpTo(metrics, index[Tip])
  BY DEF RewindMetrics, Continues, PassOver
<1>2. CASE UNCHANGED metrics
  BY <1>1, <1>2, DaysStay
<1>3. CASE Tip # None /\ metrics' = RowsUpTo(metrics, index[Tip])
  <2>1. index[Tip] = day[Tip] /\ Tip \in Height /\ Tip' = Tip /\ day \in [Height -> Nat]
    BY <1>1, <1>3, TipStored DEF IInv, IndexAgrees, DaysInv, OnCalendar, Tip, Calendar, Days
  <2>2. DOMAIN metrics' = {d \in DOMAIN metrics : d <= day[Tip]} /\ DOMAIN metrics \subseteq Nat
    BY <1>3, <2>1 DEF RowsUpTo, Restrict, IInv, TypeOK, RollupType
  <2>3. OnCalendar(day)' /\ DayOfRun(day)'
    BY <1>1, EmptyTable DEF DaysInv, OnCalendar, DayOfRun
  <2>4. NoDayMissed'
    <3> SUFFICES ASSUME NEW h \in DOMAIN blocks, day[h] < day[Tip]
                 PROVE  day[h] \in DOMAIN metrics'
      BY <1>1, <1>3, <2>1, <2>3, TipStored DEF OnCalendar, NoDayMissed
    <3>1. day[h] \in DOMAIN metrics
      BY MissedByHeight DEF DaysInv
    <3> QED
      BY <2>1, <2>2, <3>1
  <2>5. RowsClosed(day)'
    <3> SUFFICES ASSUME NEW d \in DOMAIN metrics', NEW h \in Height, day[h] < d
                 PROVE  day[h] \in DOMAIN metrics'
      BY DEF RowsClosed
    <3>1. d \in DOMAIN metrics /\ d <= day[Tip] /\ d \in Nat /\ day[h] \in Nat /\ day[Tip] \in Nat
      BY <2>1, <2>2
    <3>2. day[h] \in DOMAIN metrics
      BY <3>1 DEF DaysInv, RowsClosed
    <3> QED
      BY <2>2, <3>1, <3>2
  <2> QED
    BY <2>3, <2>4, <2>5 DEF DaysInv
<1> QED
  BY <1>1, <1>2, <1>3

\* The day that ends has every earlier day of the chain behind it.
LEMMA FinalizeKeepsDays ==
  ASSUME IInv, NEW day, Calendar(day), DaysInv(day), NEW answered \in BOOLEAN,
         FinalizeDay(answered)
  PROVE  DaysInv(day)'
<1>1. /\ UNCHANGED blocks /\ AtBoundary /\ DOMAIN metrics' = DOMAIN metrics \cup {runDay}
      /\ \/ pc' = "process" /\ runDay' = NextDay /\ UNCHANGED <<goal, batch>>
         \/ pc' = "pass" /\ batch' = <<>>
  BY DEF FinalizeDay, InsertRow, Continues, PassOver
<1>2. /\ Tip # None /\ runDay = day[Tip] /\ NextDay = day[Tip + 1] /\ Tip' = Tip
      /\ Tip \in Height /\ DOMAIN blocks = 0..Tip
  BY <1>1, BoundaryDay, TipStored DEF Tip
<1>3. OnCalendar(day)'
  BY <1>1, EmptyTable DEF DaysInv, OnCalendar
<1>4. NoDayMissed'
  BY <1>1, <1>2 DEF DaysInv, NoDayMissed
<1>5. RowsClosed(day)'
  <2> SUFFICES ASSUME NEW d \in DOMAIN metrics', NEW h \in Height, day[h] < d
               PROVE  day[h] \in DOMAIN metrics'
    BY DEF RowsClosed
  <2>1. CASE d \in DOMAIN metrics
    BY <1>1, <2>1 DEF DaysInv, RowsClosed
  <2>2. CASE d = day[Tip]
    <3>1. h <= Tip /\ h \in 0..Tip
      BY <1>2, <2>2, ChainAssumption DEF Calendar, Height, Days
    <3>2. day[h] \in DOMAIN metrics
      BY <1>2, <2>2, <3>1, MissedByHeight DEF DaysInv
    <3> QED
      BY <1>1, <3>2
  <2> QED
    BY <1>1, <1>2, <2>1, <2>2
<1>6. DayOfRun(day)'
  BY <1>1, <1>2 DEF DayOfRun
<1> QED
  BY <1>3, <1>4, <1>5, <1>6 DEF DaysInv

\* A run is stored on top of a tip whose day is the run's or has its row.
LEMMA FlushRunKeepsDays ==
  ASSUME IInv, NEW day, Calendar(day), DaysInv(day), NEW answered \in BOOLEAN,
         NEW last \in Height, FlushRun(answered, last)
  PROVE  DaysInv(day)'
<1>1. /\ Appends(last) /\ UNCHANGED metrics /\ pc = "process" /\ Tip < goal
      /\ runDay \in {NoDay, NextDay} /\ \A h \in Tip + 1 .. last : DayOf[batch[h]] = NextDay
      /\ \/ pc' = "process" /\ runDay' = NextDay /\ UNCHANGED <<goal, batch>>
         \/ pc' = "pass" /\ batch' = <<>>
  BY FlushRunHeights DEF FlushRun, AtRun, RunEndsAt, Continues, PassOver
<1>2. /\ Tip \in Int /\ Tip >= -1 /\ last \in Tip + 1 .. goal /\ DOMAIN blocks = 0..Tip
      /\ DOMAIN blocks' = 0..last /\ Tip' = last
      /\ \A h \in 0..Tip : blocks'[h] = blocks[h]
      /\ \A h \in Tip + 1 .. last : blocks'[h] = batch[h] /\ h \in Height
  BY <1>1 DEF Appends
<1>3. \A h \in Tip + 1 .. last : h \in DOMAIN batch /\ day[h] = NextDay
  <2>1. Tip + 1 .. goal \subseteq DOMAIN batch
    BY <1>1 DEF IInv, Control
  <2>2. goal \in Int
    BY <1>1, RestOfBatch
  <2>3. \A h \in Tip + 1 .. last : h \in Tip + 1 .. goal
    BY <1>2, <2>2
  <2> QED
    BY <1>1, <2>1, <2>3 DEF DaysInv, OnCalendar
<1>4. OnCalendar(day)'
  <2>1. \A h \in DOMAIN blocks' : DayOf[blocks'[h]] = day[h]
    <3>1. DOMAIN blocks' \subseteq (0..Tip) \cup (Tip + 1 .. last)
      BY <1>2
    <3> QED
      BY <1>1, <1>2, <1>3, <3>1 DEF DaysInv, OnCalendar
  <2> QED
    BY <1>1, <2>1, EmptyTable DEF DaysInv, OnCalendar
<1>5. day[last] = NextDay /\ Tip + 1 \in Tip + 1 .. last /\ day[Tip + 1] = NextDay
  BY <1>2, <1>3
<1>6. /\ last \in Height /\ last # None /\ day \in [Height -> Nat]
      /\ Tip # None => Tip \in Height /\ Tip \in DOMAIN blocks
  BY <1>2, TipStored, ChainAssumption DEF Height, None, Calendar, Days
<1>7. Tip # None /\ day[Tip] < NextDay => day[Tip] \in DOMAIN metrics
  BY <1>1, <1>5, <1>6 DEF DaysInv, DayOfRun, Calendar, Days, NoDay
<1>8. NoDayMissed'
  <2> SUFFICES ASSUME NEW h \in 0..last, day[h] < NextDay
               PROVE  day[h] \in DOMAIN metrics
    BY <1>1, <1>2, <1>4, <1>5 DEF OnCalendar, NoDayMissed
  <2>1. h \in 0..Tip /\ Tip # None
    <3>1. NextDay \in Int
      BY <1>5, <1>6
    <3>2. h \notin Tip + 1 .. last
      BY <1>3, <3>1
    <3> QED
      BY <1>2, <3>2 DEF None
  <2>2. day[h] <= day[Tip] /\ day[h] \in Nat /\ day[Tip] \in Nat
    BY <1>2, <1>6, <2>1, TipStored DEF Calendar
  <2>3. CASE day[h] < day[Tip]
    BY <1>2, <2>1, <2>3, MissedByHeight DEF DaysInv
  <2>4. CASE day[h] = day[Tip]
    BY <1>7, <2>1, <2>4
  <2> QED
    BY <2>2, <2>3, <2>4
<1>9. RowsClosed(day)'
  BY <1>1 DEF DaysInv, RowsClosed
<1>10. DayOfRun(day)'
  BY <1>1, <1>2, <1>5, <1>6 DEF DayOfRun
<1> QED
  BY <1>4, <1>8, <1>9, <1>10 DEF DaysInv

\* Every other step leaves the tables and the run alone, or drops the run.
LEMMA QuietKeepsDays ==
  ASSUME IInv, NEW day, DaysInv(day)
  PROVE  /\ NodeStep \/ Boot \/ Crash \/ PassFails \/ ProbeFails => DaysInv(day)'
         /\ StartPass \/ ProbeAgrees \/ RefuseToFinalize \/ BatchStored => DaysInv(day)'
         /\ UNCHANGED vars => DaysInv(day)'
         /\ \A answered \in BOOLEAN : EndPass(answered) => DaysInv(day)'
         /\ \A last, upTo \in Height : RunFails(last, upTo) => DaysInv(day)'
<1> DEFINE Stays == /\ UNCHANGED <<blocks, metrics>> /\ (batch' = batch \/ batch' = <<>>)
                    /\ UNCHANGED <<pc, runDay, goal>> \/ pc' \notin {"fetch", "process"}
<1>1. Stays => DaysInv(day)'
  BY DaysStay
<1>2. NodeStep \/ Boot \/ Crash \/ PassFails \/ ProbeFails => Stays
  BY DEF NodeStep, NodeExtends, NodeReorgs, Boot, Crash, PassFails, PassOver, ProbeFails, db, memory
<1>3. StartPass \/ ProbeAgrees \/ RefuseToFinalize \/ BatchStored => Stays
  BY DEF StartPass, ProbeAgrees, RefuseToFinalize, BatchStored, PassOver, db, memory
<1>4. UNCHANGED vars => Stays
  BY DEF vars
<1>5. \A answered \in BOOLEAN : EndPass(answered) => Stays
  BY DEF EndPass, PassOver, Continues
<1>6. \A last, upTo \in Height : RunFails(last, upTo) => Stays
  BY DEF RunFails, PassOver, db
<1> HIDE DEF Stays
<1> QED
  BY <1>1, <1>2, <1>3, <1>4, <1>5, <1>6

\* The invariant about the days is inductive.
LEMMA DaysKept ==
  ASSUME NEW day, Calendar(day)
  PROVE  IInv /\ RollupInv /\ DaysInv(day) /\ [Next]_vars => DaysInv(day)'
<1> SUFFICES ASSUME IInv, RollupInv, DaysInv(day), [Next]_vars PROVE DaysInv(day)'
  OBVIOUS
<1>1. CASE UNCHANGED vars \/ Boot \/ NodeStep
  BY <1>1, QuietKeepsDays
<1>2. CASE WorkerStep
  <2>1. ASSUME NEW h \in Height, FetchBlock(h) PROVE DaysInv(day)'
    BY <2>1, FetchBlockKeepsDays
  <2>2. ASSUME NEW last \in Height, FlushRun(TRUE, last) PROVE DaysInv(day)'
    BY <2>2, FlushRunKeepsDays
  <2>3. RollBack(TRUE) \/ RewindMetrics(TRUE) \/ FinalizeDay(TRUE) => DaysInv(day)'
    BY RollBackKeepsDays, RewindKeepsDays, FinalizeKeepsDays
  <2>4. ReadNodeTip \/ SkipFinalizedDay => DaysInv(day)'
    BY ReadNodeTipKeepsDays, SkipKeepsDays
  <2> QED
    BY <1>2, <2>1, <2>2, <2>3, <2>4, QuietKeepsDays DEF WorkerStep
<1>3. CASE Failure
  <2>1. ASSUME NEW last \in Height, FlushRun(FALSE, last) PROVE DaysInv(day)'
    BY <2>1, FlushRunKeepsDays
  <2>2. RollBack(FALSE) \/ RewindMetrics(FALSE) \/ FinalizeDay(FALSE) => DaysInv(day)'
    BY RollBackKeepsDays, RewindKeepsDays, FinalizeKeepsDays
  <2> QED
    BY <1>3, <2>1, <2>2, QuietKeepsDays DEF Failure
<1> QED
  BY <1>1, <1>2, <1>3 DEF Next

\* An empty chain leaves no day behind.
LEMMA DaysInitially == ASSUME NEW day PROVE Init => DaysInv(day)
<1> SUFFICES ASSUME Init PROVE DaysInv(day)
  OBVIOUS
<1>1. DOMAIN blocks = {} /\ DOMAIN batch = {} /\ DOMAIN metrics = {} /\ pc = "down"
  BY EmptyTable DEF Init
<1> QED
  BY <1>1 DEF DaysInv, OnCalendar, RowsClosed, DayOfRun, NoDayMissed

\* The invariants of the books and of the days, as facts of the behaviour.
LEMMA DaysHold == ASSUME NEW day, Calendar(day) PROVE Spec => [](IInv /\ RollupInv /\ DaysInv(day))
<1>1. Init => RollupInv /\ DaysInv(day)
  BY RollupInitially, DaysInitially
<1>2. IInv /\ RollupInv /\ DaysInv(day) /\ [Next]_vars => RollupInv' /\ DaysInv(day)'
  BY RollupKept, DaysKept
<1> QED
  BY <1>1, <1>2, InductiveInvariant, PTL DEF Spec

\* No day is left behind: once a block of a later day is stored, every earlier
\* day of the chain has its row.  For every set of branches whose rival blocks
\* share their days, every reorganization and every fault.
THEOREM NoDayEverMissed == SharedDays => (Spec => []NoDayMissed)
<1> SUFFICES ASSUME NEW day, Calendar(day) PROVE Spec => []NoDayMissed
  BY CalendarExists
<1>1. DaysInv(day) => NoDayMissed
  BY DEF DaysInv
<1> QED
  BY <1>1, DaysHold, PTL

---------------------------------------------------------------------------
(* The staging table. *)

\* Every staged sighting is of a stored block, of that day and that address.
StagedBacked ==
  \A key \in DOMAIN staged :
    /\ staged[key] \in DOMAIN blocks
    /\ DayOf[blocks[staged[key]]] = key[1] /\ key[2] \in Touched(blocks[staged[key]])

\* Every address a stored block of an open day touches is staged, no later
\* than by that block.
StagedLeast ==
  \A h \in DOMAIN blocks : \A a \in Touched(blocks[h]) :
    DayOf[blocks[h]] > finalized =>
      /\ <<DayOf[blocks[h]], a>> \in DOMAIN staged
      /\ staged[<<DayOf[blocks[h]], a>>] <= h

StagingInv == StagedBacked /\ StagedLeast

\* The two together are what StagingExact says.
LEMMA ExactByBoth == IInv /\ StagingInv => StagingExact
<1> SUFFICES ASSUME IInv, StagingInv PROVE StagingExact
  OBVIOUS
<1> DEFINE Touches(d, a) == {h \in DOMAIN blocks : DayOf[blocks[h]] = d /\ a \in Touched(blocks[h])}
           seen == {<<DayOf[blocks[h]], a>> : h \in DOMAIN blocks, a \in {Owner[c] : c \in Coin}}
<1>1. ASSUME NEW key \in seen \cup DOMAIN staged, key[1] > finalized
      PROVE  /\ key \in DOMAIN staged <=> Touches(key[1], key[2]) # {}
             /\ key \in DOMAIN staged => staged[key] = Min(Touches(key[1], key[2]))
  <2> DEFINE T == Touches(key[1], key[2])
  <2>1. key = <<key[1], key[2]>>
    BY DEF IInv, TypeOK, TablesType
  <2>2. key \in DOMAIN staged => staged[key] \in T
    BY DEF StagingInv, StagedBacked
  <2>3. ASSUME NEW h \in T PROVE key \in DOMAIN staged /\ staged[key] <= h
    BY <1>1, <2>1, <2>3 DEF StagingInv, StagedLeast
  <2>4. T \subseteq Nat
    BY TipStored, ChainAssumption DEF Height
  <2> HIDE DEF T, Touches, seen
  <2>5. ASSUME key \in DOMAIN staged PROVE staged[key] = Min(T)
    <3>1. T # {} /\ staged[key] \in T /\ \A h \in T : staged[key] <= h
      BY <2>2, <2>3, <2>5
    <3>2. Min(T) \in T /\ \A y \in T : Min(T) <= y
      BY <2>4, <3>1, MinIsLeast
    <3>3. staged[key] \in Nat /\ Min(T) \in Nat
      BY <2>4, <3>1, <3>2
    <3>4. staged[key] <= Min(T) /\ Min(T) <= staged[key]
      BY <3>1, <3>2
    <3> QED
      BY <3>3, <3>4
  <2> QED
    BY <2>2, <2>3, <2>5 DEF T, Touches
<1> QED
  BY <1>1 DEF StagingExact

\* Staging a run keeps the old sightings and dates a new one by the lowest
\* block of the run that makes it.
LEMMA StagedByRun ==
  ASSUME NEW run, run \subseteq Height
  PROVE  LET after == StageAddresses(staged, batch, run)
             Sees(h, key) == key \in {<<DayOf[batch[h]], a>> : a \in Touched(batch[h])}
         IN /\ \A key \in DOMAIN staged : key \in DOMAIN after /\ after[key] = staged[key]
            /\ \A h \in run : \A a \in Touched(batch[h]) : <<DayOf[batch[h]], a>> \in DOMAIN after
            /\ \A key \in DOMAIN after \ DOMAIN staged :
                 /\ after[key] \in run /\ Sees(after[key], key)
                 /\ \A h \in run : Sees(h, key) => after[key] <= h
<1> DEFINE after == StageAddresses(staged, batch, run)
           Seen(h) == {<<DayOf[batch[h]], a>> : a \in Touched(batch[h])}
           seen == UNION {Seen(h) : h \in run}
           sighted(key) == {h \in run : key \in Seen(h)}
<1>1. DOMAIN after = DOMAIN staged \cup seen
  BY DEF StageAddresses
<1>2. \A key \in DOMAIN staged : after[key] = staged[key]
  BY DEF StageAddresses
<1>3. \A key \in seen : key \notin DOMAIN staged => after[key] = Min(sighted(key))
  BY DEF StageAddresses
<1>4. ASSUME NEW key \in seen
      PROVE  Min(sighted(key)) \in sighted(key) /\ \A h \in sighted(key) : Min(sighted(key)) <= h
  <2>1. PICK h \in run : key \in Seen(h)
    OBVIOUS
  <2> HIDE DEF Seen, seen
  <2>2. h \in sighted(key) /\ Height \subseteq Nat
    BY <2>1, ChainAssumption DEF Height
  <2>3. sighted(key) \subseteq Nat /\ sighted(key) # {}
    BY <2>2
  <2> QED
    BY <2>3, MinIsLeast
<1> HIDE DEF after
<1>5. \A h \in run : \A a \in Touched(batch[h]) : <<DayOf[batch[h]], a>> \in DOMAIN after
  BY <1>1
<1>6. ASSUME NEW key \in DOMAIN after \ DOMAIN staged
      PROVE  /\ after[key] \in run /\ key \in Seen(after[key])
             /\ \A h \in run : key \in Seen(h) => after[key] <= h
  <2>1. key \in seen /\ after[key] = Min(sighted(key))
    BY <1>1, <1>3
  <2> HIDE DEF Seen, seen
  <2>2. after[key] \in sighted(key) /\ \A h \in sighted(key) : after[key] <= h
    BY <2>1, <1>4
  <2> QED
    BY <2>2
<1> QED
  BY <1>1, <1>2, <1>5, <1>6 DEF after

\* A run stages the sightings of the blocks it stores, of a day without a row.
LEMMA FlushRunKeepsStaging ==
  ASSUME IInv, StagingInv, NEW answered \in BOOLEAN, NEW last \in Height, FlushRun(answered, last)
  PROVE  StagingInv'
<1> DEFINE run == Tip + 1 .. last
<1>1. Appends(last) /\ staged' = StageAddresses(staged, batch, run) /\ UNCHANGED finalized
  BY FlushRunHeights DEF FlushRun
<1>2. /\ Tip \in Int /\ last \in Int /\ last > Tip /\ Tip >= -1 /\ run \subseteq Height
      /\ DOMAIN blocks = 0..Tip /\ DOMAIN blocks' = 0..last /\ DOMAIN blocks' = DOMAIN blocks \cup run
      /\ \A h \in DOMAIN blocks : blocks'[h] = blocks[h]
      /\ \A h \in run : blocks'[h] = batch[h]
  BY <1>1, ChainAssumption DEF Appends, Height
<1> HIDE DEF run
<1>3. \A key \in DOMAIN staged : key \in DOMAIN staged' /\ staged'[key] = staged[key]
  BY <1>1, <1>2, StagedByRun
<1>4. \A h \in run : \A a \in Touched(batch[h]) : <<DayOf[batch[h]], a>> \in DOMAIN staged'
  BY <1>1, <1>2, StagedByRun
<1>5. \A key \in DOMAIN staged' \ DOMAIN staged :
        /\ staged'[key] \in run
        /\ key \in {<<DayOf[batch[staged'[key]]], a>> : a \in Touched(batch[staged'[key]])}
        /\ \A h \in run : \A a \in Touched(batch[h]) :
              key = <<DayOf[batch[h]], a>> => staged'[key] <= h
  BY <1>1, <1>2, StagedByRun
<1>6. StagedBacked'
  <2> SUFFICES ASSUME NEW key \in DOMAIN staged'
               PROVE  /\ staged'[key] \in DOMAIN blocks'
                      /\ DayOf[blocks'[staged'[key]]] = key[1]
                      /\ key[2] \in Touched(blocks'[staged'[key]])
    BY DEF StagedBacked
  <2>1. CASE key \in DOMAIN staged
    BY <2>1, <1>2, <1>3 DEF StagingInv, StagedBacked
  <2>2. CASE key \notin DOMAIN staged
    BY <2>2, <1>2, <1>5
  <2> QED
    BY <2>1, <2>2
<1>7. StagedLeast'
  <2> SUFFICES ASSUME NEW h \in DOMAIN blocks', NEW a \in Touched(blocks'[h]),
                      DayOf[blocks'[h]] > finalized
               PROVE  /\ <<DayOf[blocks'[h]], a>> \in DOMAIN staged'
                      /\ staged'[<<DayOf[blocks'[h]], a>>] <= h
    BY <1>1 DEF StagedLeast
  <2> DEFINE key == <<DayOf[blocks'[h]], a>>
  <2>1. CASE h \in DOMAIN blocks
    BY <2>1, <1>2, <1>3 DEF StagingInv, StagedLeast
  <2>2. CASE h \in run
    <3>1. blocks'[h] = batch[h] /\ key \in DOMAIN staged'
      BY <2>2, <1>2, <1>4
    <3>2. CASE key \in DOMAIN staged
      <4>1. staged'[key] \in 0..Tip
        BY <3>2, <1>2, <1>3 DEF StagingInv, StagedBacked
      <4>2. h > Tip /\ h \in Int
        BY <2>2, <1>2 DEF run
      <4> QED
        BY <1>2, <3>1, <4>1, <4>2
    <3>3. CASE key \notin DOMAIN staged
      BY <2>2, <3>1, <3>3, <1>5
    <3> QED
      BY <3>1, <3>2, <3>3
  <2> QED
    BY <1>2, <2>1, <2>2
<1> QED
  BY <1>6, <1>7 DEF StagingInv

\* A rollback removes exactly the sightings of the blocks it removes.
LEMMA RollBackKeepsStaging ==
  ASSUME IInv, StagingInv, NEW answered \in BOOLEAN, RollBack(answered)
  PROVE  StagingInv'
<1>1. RollsBack(ForkHeight) /\ staged' = UnstageAbove(staged, ForkHeight) /\ UNCHANGED finalized
  BY RollBackHeights DEF RollBack
<1>2. /\ ForkHeight \in Int /\ DOMAIN blocks' = 0..ForkHeight /\ DOMAIN blocks = 0..Tip /\ Tip \in Int
      /\ DOMAIN blocks' \subseteq DOMAIN blocks
      /\ \A h \in DOMAIN blocks' : blocks'[h] = blocks[h]
  BY <1>1, TipStored DEF RollsBack
<1>3. /\ DOMAIN staged' = {key \in DOMAIN staged : staged[key] <= ForkHeight}
      /\ \A key \in DOMAIN staged' : staged'[key] = staged[key]
  BY <1>1 DEF UnstageAbove, Restrict
<1>4. \A key \in DOMAIN staged : staged[key] \in 0..Tip
  BY <1>2 DEF StagingInv, StagedBacked
<1>5. StagedBacked'
  <2> SUFFICES ASSUME NEW key \in DOMAIN staged'
               PROVE  /\ staged'[key] \in DOMAIN blocks'
                      /\ DayOf[blocks'[staged'[key]]] = key[1]
                      /\ key[2] \in Touched(blocks'[staged'[key]])
    BY DEF StagedBacked
  <2>1. key \in DOMAIN staged /\ staged'[key] = staged[key] /\ staged[key] \in 0..ForkHeight
    BY <1>2, <1>3, <1>4
  <2> QED
    BY <1>2, <2>1 DEF StagingInv, StagedBacked
<1>6. StagedLeast'
  <2> SUFFICES ASSUME NEW h \in DOMAIN blocks', NEW a \in Touched(blocks'[h]),
                      DayOf[blocks'[h]] > finalized
               PROVE  /\ <<DayOf[blocks'[h]], a>> \in DOMAIN staged'
                      /\ staged'[<<DayOf[blocks'[h]], a>>] <= h
    BY <1>1 DEF StagedLeast
  <2>1. h \in DOMAIN blocks /\ blocks'[h] = blocks[h] /\ h <= ForkHeight /\ h \in Int
    BY <1>2
  <2>2. <<DayOf[blocks[h]], a>> \in DOMAIN staged /\ staged[<<DayOf[blocks[h]], a>>] <= h
    BY <2>1 DEF StagingInv, StagedLeast
  <2>3. staged[<<DayOf[blocks[h]], a>>] <= ForkHeight
    BY <1>2, <1>4, <2>1, <2>2
  <2> QED
    BY <1>3, <2>1, <2>2, <2>3
<1> QED
  BY <1>5, <1>6 DEF StagingInv

\* Finalizing a day drops the sightings of the days up to it.
LEMMA FinalizeKeepsStaging ==
  ASSUME IInv, StagingInv, NEW answered \in BOOLEAN, FinalizeDay(answered)
  PROVE  StagingInv'
<1>1. /\ UNCHANGED blocks /\ staged' = UnstageDays(staged, runDay) /\ finalized' = runDay
      /\ ~(runDay <= finalized)
  BY DEF FinalizeDay, AlreadyFinalized
<1>2. runDay \in Nat /\ finalized \in Nat /\ runDay > finalized
  BY <1>1, WorkerAssumption DEF IInv, TypeOK, MemoryType, RollupType
<1>3. /\ DOMAIN staged' = {key \in DOMAIN staged : key[1] > runDay}
      /\ \A key \in DOMAIN staged' : staged'[key] = staged[key]
  BY <1>1 DEF UnstageDays, Restrict
<1>4. StagedBacked'
  BY <1>1, <1>3 DEF StagingInv, StagedBacked
<1>5. StagedLeast'
  <2> SUFFICES ASSUME NEW h \in DOMAIN blocks, NEW a \in Touched(blocks[h]),
                      DayOf[blocks[h]] > runDay
               PROVE  /\ <<DayOf[blocks[h]], a>> \in DOMAIN staged'
                      /\ staged'[<<DayOf[blocks[h]], a>>] <= h
    BY <1>1 DEF StagedLeast
  <2>1. DayOf[blocks[h]] \in Int
    BY StoredBlocks, ChainAssumption DEF IInv, TypeOK, Days
  <2>2. <<DayOf[blocks[h]], a>> \in DOMAIN staged /\ staged[<<DayOf[blocks[h]], a>>] <= h
    BY <1>2, <2>1 DEF StagingInv, StagedLeast
  <2> QED
    BY <1>3, <2>2
<1> QED
  BY <1>4, <1>5 DEF StagingInv

\* The rewind reopens days, whose sightings are gone; but a stored block of a
\* reopened day can only be of the tip's, and that day had no row yet.
LEMMA RewindKeepsStaging ==
  ASSUME IInv, RollupInv, NEW day, Calendar(day), DaysInv(day), StagingInv,
         NEW answered \in BOOLEAN, RewindMetrics(answered)
  PROVE  StagingInv'
<1>1. /\ UNCHANGED <<blocks, staged>> /\ pc = "rewind"
      /\ \/ UNCHANGED finalized
         \/ /\ Tip # None /\ finalized' = LastDay(RowsUpTo(metrics, index[Tip]))
  BY DEF RewindMetrics
<1>2. CASE UNCHANGED finalized
  BY <1>1, <1>2 DEF StagingInv, StagedBacked, StagedLeast
<1>3. CASE Tip # None /\ finalized' = LastDay(RowsUpTo(metrics, index[Tip]))
  <2> DEFINE kept == RowsUpTo(metrics, day[Tip])
  <2>1. index[Tip] = day[Tip] /\ Tip \in Height /\ DOMAIN blocks \subseteq Height
    BY <1>1, <1>3, TipStored DEF IInv, IndexAgrees, DaysInv, OnCalendar
  <2>2. day \in [Height -> Nat] /\ DOMAIN metrics \subseteq Nat /\ finalized \in Nat
    BY WorkerAssumption DEF Calendar, Days, IInv, TypeOK, RollupType
  <2>3. DOMAIN kept = {d \in DOMAIN metrics : d <= day[Tip]}
    BY DEF RowsUpTo, Restrict
  <2>4. finalized' = LastDay(kept) /\ DOMAIN kept \subseteq Int
    BY <1>3, <2>1, <2>2, <2>3
  <2> HIDE DEF kept
  <2>5. \A d \in DOMAIN kept : d <= finalized'
    <3>1. \A d \in DOMAIN kept : d <= day[Tip] /\ day[Tip] \in Int
      BY <2>1, <2>2, <2>3
    <3>2. DOMAIN kept # {} => Max(DOMAIN kept) \in DOMAIN kept /\ \A d \in DOMAIN kept : d <= Max(DOMAIN kept)
      BY <2>4, <3>1, MaxIsGreatest, <2>1, <2>2
    <3> QED
      BY <2>4, <3>2 DEF LastDay
  <2>6. ASSUME NEW h \in DOMAIN blocks, DayOf[blocks[h]] > finalized'
        PROVE  DayOf[blocks[h]] > finalized
    <3>1. /\ DayOf[blocks[h]] = day[h] /\ h \in Height /\ day[h] \in Nat /\ day[Tip] \in Nat
          /\ day[h] <= day[Tip] /\ finalized' \in Int
      <4>1. DayOf[blocks[h]] = day[h] /\ h \in Height /\ h <= Tip
        BY <2>1, TipStored DEF DaysInv, OnCalendar
      <4>2. finalized' \in Int
        <5>1. DOMAIN kept \subseteq 1..LastClose /\ LastClose \in Nat
          BY <2>3, WorkerAssumption DEF IInv, TypeOK, RollupType
        <5> QED
          BY <2>4, <5>1, LastDayInRange
      <4> QED
        BY <2>1, <2>2, <4>1, <4>2 DEF Calendar
    <3>2. day[h] \notin DOMAIN metrics
      BY <2>3, <2>5, <2>6, <3>1
    <3>3. day[h] = day[Tip]
      BY <3>1, <3>2, MissedByHeight DEF DaysInv
    <3>4. \A d \in DOMAIN metrics : ~(day[h] < d)
      BY <3>1, <3>2 DEF DaysInv, RowsClosed
    <3>5. finalized \in DOMAIN metrics \/ finalized = 0
      <4>1. \A d \in DOMAIN metrics : d <= LastClose /\ LastClose \in Int
        BY WorkerAssumption DEF IInv, TypeOK, RollupType
      <4>2. DOMAIN metrics # {} => Max(DOMAIN metrics) \in DOMAIN metrics
        BY <2>2, <4>1, MaxIsGreatest, WorkerAssumption
      <4> QED
        BY <4>2 DEF RollupInv, RollupReconciles, LastDay, NoDay
    <3>6. day[h] # finalized /\ day[h] # 0
      <4>1. day[h] # 0
        BY <3>1 DEF Calendar, Days, NoDay
      <4> QED
        BY <3>2, <3>5, <4>1
    <3> QED
      BY <2>2, <3>1, <3>4, <3>5, <3>6
  <2> QED
    BY <1>1, <2>6 DEF StagingInv, StagedBacked, StagedLeast
<1> QED
  BY <1>1, <1>2, <1>3

\* The staging invariants are inductive on a calendar.
LEMMA StagingKept ==
  ASSUME NEW day, Calendar(day)
  PROVE  IInv /\ RollupInv /\ DaysInv(day) /\ StagingInv /\ [Next]_vars => StagingInv'
<1> SUFFICES ASSUME IInv, RollupInv, DaysInv(day), StagingInv, [Next]_vars PROVE StagingInv'
  OBVIOUS
<1>1. CASE UNCHANGED <<blocks, staged, finalized>>
  BY <1>1 DEF StagingInv, StagedBacked, StagedLeast
<1>2. CASE Writes
  BY <1>2, RollBackKeepsStaging, RewindKeepsStaging, FinalizeKeepsStaging, FlushRunKeepsStaging
     DEF Writes
<1> QED
  BY <1>1, <1>2, OnlyWrites

\* The staging invariants, as facts of the behaviour.
LEMMA StagingHolds == ASSUME NEW day, Calendar(day) PROVE Spec => []StagingInv
<1>1. Init => StagingInv
  <2> SUFFICES ASSUME Init PROVE StagingInv
    OBVIOUS
  <2>1. DOMAIN blocks = {} /\ DOMAIN staged = {}
    BY EmptyTable DEF Init
  <2> QED
    BY <2>1 DEF StagingInv, StagedBacked, StagedLeast
<1> QED
  BY <1>1, StagingKept, DaysHold, PTL DEF Spec

\* For a day not finalized yet, the staging table names exactly the addresses
\* its stored blocks touch, each at the lowest such height: for every set of
\* branches whose rival blocks share their days, and every fault.
THEOREM StagingAlwaysExact == SharedDays => (Spec => []StagingExact)
<1> SUFFICES ASSUME NEW day, Calendar(day) PROVE Spec => []StagingExact
  BY CalendarExists
<1> QED
  BY StagingHolds, ExactByBoth, InductiveInvariant, PTL

---------------------------------------------------------------------------
(* Rows ahead of the chain. *)

\* The stored chain starts with the common block, and a rollback never empties it.
StartsAtGenesis ==
  \A br \in Branch : /\ 0 \in DOMAIN blocks => blocks[0] = br[0]
                     /\ 0 \in DOMAIN batch => batch[0] = br[0]

\* No row is ahead of the tip, except between a rollback and its rewind.
RowsBehind(day) ==
  /\ Tip = None => DOMAIN metrics = {}
  /\ pc # "rewind" /\ Tip # None => \A d \in DOMAIN metrics : d <= day[Tip]

AheadInv(day) == StartsAtGenesis /\ RowsBehind(day)

\* Without faults a rollback is followed by its rewind, and every transaction
\* by its acknowledgement.
LEMMA NoFaults ==
  ASSUME MaxFaults = 0, IInv
  PROVE  /\ ~(faults < MaxFaults)
         /\ ~Crash /\ ~PassFails /\ ~RollBack(FALSE) /\ ~RewindMetrics(FALSE)
<1>1. faults = 0
  BY DEF IInv, TypeOK, BudgetType
<1>2. ~(faults < MaxFaults)
  BY <1>1
<1> QED
  BY <1>2 DEF Crash, PassFails, RollBack, RewindMetrics, Continues

\* A step that writes neither blocks nor rows leaves the rewind pending.
LEMMA AheadStays ==
  ASSUME MaxFaults = 0, IInv, NEW day, AheadInv(day), [Next]_vars, UNCHANGED <<blocks, metrics>>,
         \A answered \in BOOLEAN : ~RewindMetrics(answered),
         \A h \in Height : ~FetchBlock(h)
  PROVE  AheadInv(day)'
<1>1. Tip' = Tip
  BY DEF Tip
<1>2. batch' = batch \/ batch' = <<>>
  <2>1. WorkerStep => batch' = batch \/ batch' = <<>>
    BY DEF WorkerStep, StartPass, ProbeAgrees, RollBack, ReadNodeTip, FlushRun, FinalizeDay,
           SkipFinalizedDay, RefuseToFinalize, BatchStored, EndPass, PassOver, memory
  <2>2. Failure => batch' = batch \/ batch' = <<>>
    BY DEF Failure, Crash, PassFails, ProbeFails, RollBack, FlushRun, FinalizeDay,
           EndPass, RunFails, PassOver
  <2>3. UNCHANGED vars \/ Boot \/ NodeStep => batch' = batch
    BY DEF vars, Boot, NodeStep, NodeExtends, NodeReorgs, memory
  <2> QED
    BY <2>1, <2>2, <2>3 DEF Next
<1>3. pc = "rewind" => pc' = "rewind"
  <2>1. UNCHANGED vars \/ Boot \/ NodeStep => (pc = "rewind" => pc' = "rewind")
    BY DEF vars, Boot, NodeStep, NodeExtends, NodeReorgs
  <2>2. WorkerStep => pc # "rewind"
    BY DEF WorkerStep, StartPass, ProbeAgrees, RollBack, ReadNodeTip, FlushRun, AtRun, FinalizeDay,
           AtBoundary, SkipFinalizedDay, RefuseToFinalize, BatchStored, EndPass
  <2>3. Failure => pc # "rewind"
    BY NoFaults DEF Failure, ProbeFails, FlushRun, AtRun, FinalizeDay, AtBoundary, EndPass, RunFails
  <2> QED
    BY <2>1, <2>2, <2>3 DEF Next
<1>4. StartsAtGenesis'
  BY <1>2, EmptyTable DEF AheadInv, StartsAtGenesis
<1>5. RowsBehind(day)'
  BY <1>1, <1>3 DEF AheadInv, RowsBehind
<1> QED
  BY <1>4, <1>5 DEF AheadInv

\* A fetched first block is the common one.
LEMMA FetchKeepsAhead ==
  ASSUME IInv, SharedGenesis, NEW day, AheadInv(day), NEW h \in Height, FetchBlock(h)
  PROVE  AheadInv(day)'
<1>1. /\ UNCHANGED <<blocks, metrics>> /\ pc = "fetch" /\ pc' # "rewind"
      /\ batch' = [k \in DOMAIN batch \cup {h} |-> IF k = h THEN NodeBlock(h) ELSE batch[k]]
  BY DEF FetchBlock, db
<1>2. node.chain \in Branch
  BY DEF IInv, TypeOK, NodeType
<1>3. \A br \in Branch : h = 0 => NodeBlock(h) = br[0]
  BY <1>2 DEF SharedGenesis, NodeBlock
<1>4. StartsAtGenesis'
  BY <1>1, <1>3 DEF AheadInv, StartsAtGenesis
<1>5. RowsBehind(day)'
  BY <1>1 DEF AheadInv, RowsBehind, Tip
<1> QED
  BY <1>4, <1>5 DEF AheadInv

\* The rollback leaves at least the first block, and the rewind still to do.
LEMMA RollBackKeepsAhead ==
  ASSUME MaxFaults = 0, IInv, SharedGenesis, NEW day, AheadInv(day), RollBack(TRUE)
  PROVE  AheadInv(day)'
<1>1. /\ RollsBack(ForkHeight) /\ pc = "scan" /\ pc' = "rewind"
      /\ UNCHANGED batch /\ blocks[cursor] # NodeBlock(cursor) /\ ForkHeight = cursor - 1
  BY RollBackHeights DEF RollBack, Continues, ForkHeight
<1>2. cursor \in 0..Tip /\ DOMAIN blocks = 0..Tip /\ Tip \in Int
  BY <1>1, TipStored DEF IInv, Control
<1>3. cursor # 0
  <2>1. node.chain \in Branch
    BY DEF IInv, TypeOK, NodeType
  <2>2. 0 \in 0..Tip => blocks[0] = NodeBlock(0)
    BY <1>2, <2>1 DEF AheadInv, StartsAtGenesis, NodeBlock
  <2> QED
    BY <1>1, <1>2, <2>2
<1>4. ForkHeight \in 0..Tip /\ Tip' = ForkHeight /\ blocks'[0] = blocks[0] /\ 0 \in DOMAIN blocks
  BY <1>1, <1>2, <1>3 DEF RollsBack
<1>5. StartsAtGenesis'
  BY <1>1, <1>4 DEF AheadInv, StartsAtGenesis
<1>6. RowsBehind(day)'
  BY <1>1, <1>2, <1>4 DEF RowsBehind, None
<1> QED
  BY <1>5, <1>6 DEF AheadInv

\* The rewind leaves the rows up to the new tip's day.
LEMMA RewindKeepsAhead ==
  ASSUME IInv, NEW day, Calendar(day), DaysInv(day), AheadInv(day), RewindMetrics(TRUE)
  PROVE  AheadInv(day)'
<1>1. /\ UNCHANGED <<blocks, batch>> /\ pc = "rewind"
      /\ IF Tip = None \/ index[Tip] = NoDay THEN UNCHANGED metrics
         ELSE metrics' = RowsUpTo(metrics, index[Tip])
  BY DEF RewindMetrics
<1>2. Tip' = Tip
  BY <1>1 DEF Tip
<1>3. StartsAtGenesis'
  BY <1>1 DEF AheadInv, StartsAtGenesis
<1>4. CASE Tip = None
  BY <1>1, <1>2, <1>3, <1>4 DEF AheadInv, RowsBehind
<1>5. CASE Tip # None
  <2>1. index[Tip] = day[Tip] /\ day[Tip] # NoDay
    BY <1>1, <1>5, TipStored DEF IInv, IndexAgrees, DaysInv, OnCalendar, Calendar, Days
  <2>2. DOMAIN metrics' = {d \in DOMAIN metrics : d <= day[Tip]}
    BY <1>1, <1>5, <2>1 DEF RowsUpTo, Restrict
  <2> QED
    BY <1>2, <1>3, <1>5, <2>2 DEF AheadInv, RowsBehind
<1> QED
  BY <1>4, <1>5

\* The new row is of the tip's own day.
LEMMA FinalizeKeepsAhead ==
  ASSUME IInv, NEW day, Calendar(day), DaysInv(day), AheadInv(day), NEW answered \in BOOLEAN,
         FinalizeDay(answered)
  PROVE  AheadInv(day)'
<1>1. /\ UNCHANGED blocks /\ (batch' = batch \/ batch' = <<>>) /\ AtBoundary /\ pc = "process"
      /\ DOMAIN metrics' = DOMAIN metrics \cup {runDay}
  BY DEF FinalizeDay, InsertRow, AtBoundary, PassOver
<1>2. Tip # None /\ runDay = day[Tip] /\ Tip' = Tip /\ Tip \in Height
  BY <1>1, BoundaryDay, TipStored DEF Tip
<1>3. StartsAtGenesis'
  BY <1>1, EmptyTable DEF AheadInv, StartsAtGenesis
<1>4. RowsBehind(day)'
  BY <1>1, <1>2 DEF AheadInv, RowsBehind, Calendar, Days
<1> QED
  BY <1>3, <1>4 DEF AheadInv

\* The chain only moves ahead of its rows.
LEMMA FlushRunKeepsAhead ==
  ASSUME IInv, NEW day, Calendar(day), DaysInv(day), AheadInv(day), NEW answered \in BOOLEAN,
         NEW last \in Height, FlushRun(answered, last)
  PROVE  AheadInv(day)'
<1>1. /\ Appends(last) /\ UNCHANGED metrics /\ pc = "process" /\ (batch' = batch \/ batch' = <<>>)
      /\ Tip < goal
  BY FlushRunHeights DEF FlushRun, AtRun, PassOver
<1>2. /\ Tip \in Int /\ Tip >= -1 /\ last \in Tip + 1 .. goal /\ DOMAIN blocks = 0..Tip
      /\ DOMAIN blocks' = 0..last /\ Tip' = last
      /\ \A h \in 0..Tip : blocks'[h] = blocks[h]
      /\ \A h \in Tip + 1 .. last : blocks'[h] = batch[h]
  BY <1>1 DEF Appends
<1>3. Tip + 1 .. last \subseteq DOMAIN batch
  <2>1. Tip + 1 .. goal \subseteq DOMAIN batch /\ goal \in Int
    BY <1>1, RestOfBatch DEF IInv, Control
  <2> QED
    BY <1>2, <2>1
<1>4. StartsAtGenesis'
  <2> SUFFICES ASSUME NEW br \in Branch
               PROVE  /\ 0 \in DOMAIN blocks' => blocks'[0] = br[0]
                      /\ 0 \in DOMAIN batch' => batch'[0] = br[0]
    BY DEF StartsAtGenesis
  <2>1. 0 \in DOMAIN batch' => batch'[0] = br[0]
    BY <1>1, EmptyTable DEF AheadInv, StartsAtGenesis
  <2>2. CASE 0 \in 0..Tip
    BY <1>2, <2>1, <2>2 DEF AheadInv, StartsAtGenesis
  <2>3. CASE 0 \notin 0..Tip
    <3>1. 0 \in Tip + 1 .. last /\ 0 \in DOMAIN batch
      BY <1>2, <1>3, <2>3, ChainAssumption DEF Height
    <3> QED
      BY <1>2, <2>1, <3>1 DEF AheadInv, StartsAtGenesis
  <2> QED
    BY <2>2, <2>3
<1>5. RowsBehind(day)'
  <2>1. last # None
    BY <1>2, ChainAssumption DEF None, Height
  <2>2. CASE Tip = None
    BY <1>1, <1>2, <2>1, <2>2 DEF AheadInv, RowsBehind
  <2>3. CASE Tip # None
    <3>1. Tip \in Height /\ day[Tip] <= day[last] /\ day[Tip] \in Nat /\ day[last] \in Nat
      BY <1>2, <2>3, TipStored, ChainAssumption DEF Calendar, Days, Height
    <3>2. \A d \in DOMAIN metrics : d <= day[Tip] /\ d \in Nat
      BY <1>1, <2>3 DEF AheadInv, RowsBehind, IInv, TypeOK, RollupType
    <3> QED
      BY <1>1, <1>2, <2>1, <3>1, <3>2 DEF RowsBehind
  <2> QED
    BY <2>2, <2>3
<1> QED
  BY <1>4, <1>5 DEF AheadInv

\* What lies ahead of the chain is due to a rollback whose rewind is next.
LEMMA AheadKept ==
  ASSUME MaxFaults = 0, SharedGenesis, NEW day, Calendar(day)
  PROVE  IInv /\ DaysInv(day) /\ AheadInv(day) /\ [Next]_vars => AheadInv(day)'
<1> SUFFICES ASSUME IInv, DaysInv(day), AheadInv(day), [Next]_vars PROVE AheadInv(day)'
  OBVIOUS
<1>1. ASSUME NEW answered \in BOOLEAN, RollBack(answered) \/ RewindMetrics(answered)
      PROVE  AheadInv(day)'
  BY <1>1, NoFaults, RollBackKeepsAhead, RewindKeepsAhead
<1>2. CASE Writes
  BY <1>1, <1>2, FinalizeKeepsAhead, FlushRunKeepsAhead DEF Writes
<1>3. ASSUME NEW h \in Height, FetchBlock(h) PROVE AheadInv(day)'
  BY <1>3, FetchKeepsAhead
<1>4. CASE UNCHANGED <<blocks, metrics>>
  BY <1>1, <1>3, <1>4, AheadStays
<1> QED
  BY <1>2, <1>4, OnlyWrites

\* When fetching resumes, no finalized row lies ahead of the stored chain: for
\* every set of branches with a common first block whose rival blocks share
\* their days, when nothing fails between a rollback and its rewind.
THEOREM NoRowStaysAhead ==
  MaxFaults = 0 /\ SharedGenesis /\ SharedDays => (Spec => []NoRowAheadOfChain)
<1> SUFFICES ASSUME MaxFaults = 0, SharedGenesis, NEW day, Calendar(day)
             PROVE  Spec => []NoRowAheadOfChain
  BY CalendarExists
<1>1. Init => AheadInv(day)
  <2> SUFFICES ASSUME Init PROVE AheadInv(day)
    OBVIOUS
  <2>1. DOMAIN blocks = {} /\ DOMAIN batch = {} /\ DOMAIN metrics = {}
    BY EmptyTable DEF Init
  <2> QED
    BY <2>1 DEF AheadInv, StartsAtGenesis, RowsBehind
<1>2. IInv /\ DaysInv(day) /\ AheadInv(day) => NoRowAheadOfChain
  BY TipStored DEF AheadInv, RowsBehind, NoRowAheadOfChain, DaysInv, OnCalendar
<1> QED
  BY <1>1, <1>2, AheadKept, DaysHold, PTL DEF Spec

---------------------------------------------------------------------------
(* The stored branch. *)

\* The node still has the stored tip.
TipFollowed == Tip # None => blocks[Tip] = NodeBlock(Tip)

\* The stored chain is the node's up to the block below the tip.  The tip
\* itself may be abandoned, and then the node has gone beyond it and the next
\* pass is still to scan.  What is fetched is what the node has.
Followed ==
  /\ Tip <= node.height
  /\ \A h \in DOMAIN blocks : h < Tip => blocks[h] = NodeBlock(h)
  /\ TipFollowed \/ (~NoReorgs /\ node.height > Tip /\ pc \in {"down", "pass", "scan"})
  /\ pc = "scan" => cursor = Tip \/ NoReorgs
  /\ pc \in {"fetch", "process"} =>
       goal <= node.height /\ \A h \in DOMAIN batch : h <= node.height /\ batch[h] = NodeBlock(h)

FollowInv == StoredChainLinked /\ Followed

---------------------------------------------------------------------------
(* One branch. *)

\* The heights of the node are integers, its branch reaches its height.
LEMMA NodeHeights ==
  ASSUME IInv
  PROVE  /\ node.height \in Nat /\ node.chain \in Branch
         /\ \A h \in 0..node.height : h \in DOMAIN node.chain
<1>1. node.chain \in Branch /\ node.height \in DOMAIN node.chain /\ node.height \in Nat
  BY ChainAssumption DEF IInv, TypeOK, NodeType, Height
<1> QED
  BY <1>1, BranchHeights

\* A branch the worker has followed to its tip is the stored one.
LEMMA FollowedLinked ==
  ASSUME IInv, Followed, TipFollowed
  PROVE  StoredChainLinked
<1>1. \A h \in DOMAIN blocks : h \in DOMAIN node.chain /\ blocks[h] = node.chain[h]
  <2> SUFFICES ASSUME NEW h \in DOMAIN blocks
               PROVE  h \in DOMAIN node.chain /\ blocks[h] = node.chain[h]
    OBVIOUS
  <2>1. h \in 0..Tip /\ Tip \in Int /\ Tip <= node.height /\ node.height \in Nat
    BY TipStored, NodeHeights DEF Followed
  <2>2. h \in DOMAIN node.chain
    BY <2>1, NodeHeights
  <2>3. h < Tip \/ (h = Tip /\ Tip # None)
    BY <2>1 DEF None
  <2> QED
    BY <2>2, <2>3 DEF Followed, TipFollowed, NodeBlock
<1> QED
  BY <1>1, NodeHeights DEF StoredChainLinked

\* A step of the worker that leaves the blocks alone.
LEMMA FollowStays ==
  ASSUME IInv, FollowInv, UNCHANGED <<node, blocks>>,
         TipFollowed \/ pc' \in {"down", "pass", "scan"},
         pc' = "scan" => cursor' = Tip \/ NoReorgs,
         pc' \in {"fetch", "process"} =>
           goal' <= node.height
           /\ \A h \in DOMAIN batch' : h <= node.height /\ batch'[h] = NodeBlock(h)
  PROVE  FollowInv'
<1>1. Tip' = Tip /\ TipFollowed' = TipFollowed
  BY DEF Tip, TipFollowed, NodeBlock
<1>2. StoredChainLinked'
  BY DEF FollowInv, StoredChainLinked
<1>3. TipFollowed' \/ (~NoReorgs /\ node'.height > Tip' /\ pc' \in {"down", "pass", "scan"})
  BY <1>1 DEF FollowInv, Followed
<1>4. Followed'
  BY <1>1, <1>3 DEF FollowInv, Followed, NodeBlock
<1> QED
  BY <1>2, <1>4 DEF FollowInv

\* Where a block is abandoned, it is the last one, and between two passes.
LEMMA BenignReorg ==
  ASSUME Benign, IInv, NEW br \in Branch, NEW fork \in Height, NodeReorgs(br, fork)
  PROVE  /\ ~NoReorgs /\ MaxProbeFaults = 0 /\ pc \in {"down", "pass"}
         /\ fork = node.height - 1
         /\ \A h \in 0..node.height - 1 : br[h] = NodeBlock(h)
<1>1. ~NoReorgs
  BY DEF NodeReorgs, NoReorgs, IInv, TypeOK, BudgetType
<1>2. /\ MaxReorgDepth <= 1 /\ ~ReorgDuringPass /\ MaxProbeFaults = 0
      /\ fork \in node.height - MaxReorgDepth .. node.height - 1
  BY <1>1 DEF NodeReorgs, Benign
<1>3. fork = node.height - 1
  BY <1>2, NodeHeights, WorkerAssumption
<1> QED
  BY <1>1, <1>2, <1>3 DEF NodeReorgs

\* The node moves on, or replaces its last block between two passes.
LEMMA NodeStepFollows ==
  ASSUME Benign, IInv, FollowInv, NodeStep
  PROVE  FollowInv'
<1>1. UNCHANGED <<blocks, pc, cursor, goal, batch>> /\ Tip' = Tip
  BY DEF NodeStep, NodeExtends, NodeReorgs, db, memory, Tip
<1>2. /\ node.height \in Nat /\ Tip \in Int /\ Tip <= node.height /\ Tip >= -1
      /\ DOMAIN blocks = 0..Tip
  BY NodeHeights, TipStored DEF FollowInv, Followed
<1>3. StoredChainLinked'
  BY <1>1 DEF FollowInv, StoredChainLinked
<1>4. CASE NodeExtends
  <2>1. node'.height = node.height + 1 /\ node'.chain = node.chain
    BY <1>4 DEF NodeExtends, IInv, TypeOK, NodeType
  <2>2. \A h : NodeBlock(h)' = NodeBlock(h)
    BY <2>1 DEF NodeBlock
  <2>3. TipFollowed' = TipFollowed
    BY <1>1, <2>1 DEF TipFollowed, NodeBlock
  <2>4. pc \in {"fetch", "process"} => goal \in Int /\ \A h \in DOMAIN batch : h \in Nat
    BY ChainAssumption DEF IInv, TypeOK, MemoryType, Height, None
  <2>5. Followed'
    BY <1>1, <1>2, <2>1, <2>3, <2>4 DEF FollowInv, Followed, NodeBlock
  <2> QED
    BY <1>3, <2>5 DEF FollowInv
<1>5. ASSUME NEW br \in Branch, NEW fork \in Height, NodeReorgs(br, fork)
      PROVE  FollowInv'
  <2>1. /\ node' = [chain |-> br, height |-> node.height + 1]
        /\ pc \in {"down", "pass"} /\ ~NoReorgs
    BY <1>5, BenignReorg DEF NodeReorgs
  <2>2. node'.chain = br /\ node'.height = node.height + 1
    BY <2>1
  <2>3. \A h \in 0..node.height - 1 : node'.chain[h] = NodeBlock(h)
    BY <1>5, <2>2, BenignReorg
  <2>4. \A h \in DOMAIN blocks : h < Tip => blocks[h] = node'.chain[h]
    BY <1>2, <2>3 DEF FollowInv, Followed
  <2>5. node'.height > Tip /\ Tip' <= node'.height
    BY <1>1, <1>2, <2>2
  <2>6. Followed'
    BY <1>1, <2>1, <2>4, <2>5 DEF Followed, NodeBlock
  <2> QED
    BY <1>3, <2>6 DEF FollowInv
<1> QED
  BY <1>4, <1>5 DEF NodeStep

\* The scan starts at the tip, and ends there unless a probe fails; and where
\* one may, the node still has every block.
LEMMA ScanFollows ==
  ASSUME Benign, IInv, FollowInv, StartPass \/ ProbeAgrees \/ ProbeFails
  PROVE  FollowInv'
<1>1. CASE ProbeFails
  <2>1. NoReorgs
    <3>1. probeFaults \in 0..MaxProbeFaults /\ probeFaults < MaxProbeFaults
      BY <1>1 DEF ProbeFails, IInv, TypeOK, BudgetType
    <3> QED
      BY <3>1 DEF Benign
  <2>2. UNCHANGED <<node, blocks>> /\ pc' \in {"scan", "info"} /\ TipFollowed
    BY <1>1, <2>1 DEF ProbeFails, world, db, FollowInv, Followed
  <2> QED
    BY <2>1, <2>2, FollowStays
<1>2. CASE StartPass
  <2>1. /\ UNCHANGED <<node, blocks>> /\ cursor' = Tip
        /\ pc' = IF Tip = None THEN "info" ELSE "scan"
    BY <1>2 DEF StartPass, world, db
  <2> QED
    BY <2>1, FollowStays DEF TipFollowed
<1>3. CASE ProbeAgrees
  <2>1. UNCHANGED <<node, blocks>> /\ pc = "scan" /\ pc' = "info" /\ blocks[cursor] = NodeBlock(cursor)
    BY <1>3 DEF ProbeAgrees, world, db
  <2>2. TipFollowed
    BY <2>1 DEF FollowInv, Followed, TipFollowed
  <2> QED
    BY <2>1, <2>2, FollowStays
<1> QED
  BY <1>1, <1>2, <1>3

\* A rollback is of the tip, and the block below it is still the node's.
LEMMA RollBackFollows ==
  ASSUME IInv, FollowInv, NEW answered \in BOOLEAN, RollBack(answered)
  PROVE  /\ FollowInv' /\ TipFollowed' /\ Tip' = Tip - 1 /\ ForkHeight = Tip - 1
         /\ ~TipFollowed /\ node.height > Tip
<1>1. /\ RollsBack(ForkHeight) /\ pc = "scan" /\ pc' \in {"rewind", "pass"} /\ UNCHANGED node
      /\ blocks[cursor] # NodeBlock(cursor) /\ cursor = Tip /\ ForkHeight = cursor - 1
  <2>1. blocks[cursor] # NodeBlock(cursor) /\ cursor \in 0..Tip /\ Tip \in Int /\ DOMAIN blocks = 0..Tip
    BY TipStored DEF RollBack, IInv, Control
  <2>2. cursor = Tip \/ cursor < Tip
    BY <2>1
  <2>3. cursor = Tip
    BY <2>1, <2>2 DEF FollowInv, Followed
  <2> QED
    BY <2>1, <2>3, RollBackHeights DEF RollBack, Continues, world, ForkHeight
<1>2. /\ Tip \in Int /\ Tip' = Tip - 1 /\ DOMAIN blocks = 0..Tip /\ DOMAIN blocks' = 0..Tip'
      /\ \A h \in 0..Tip' : blocks'[h] = blocks[h]
      /\ Tip \in 0..Tip
  BY <1>1, TipStored DEF RollsBack, IInv, Control
<1>3. ~TipFollowed
  BY <1>1, <1>2 DEF TipFollowed, None
<1>4. node.height > Tip
  BY <1>3 DEF FollowInv, Followed
<1>5. \A h \in 0..Tip' : h \in DOMAIN blocks /\ h < Tip
  BY <1>2
<1>6. TipFollowed'
  <2>1. Tip' # None => Tip' \in 0..Tip'
    BY <1>2 DEF None
  <2> QED
    BY <1>1, <1>2, <1>5, <2>1 DEF TipFollowed, FollowInv, Followed, NodeBlock
<1>7. StoredChainLinked'
  BY <1>2, <1>5 DEF FollowInv, StoredChainLinked
<1>8. Followed'
  <2>1. Tip' <= node'.height
    BY <1>1, <1>2, <1>4, NodeHeights
  <2>2. \A h \in DOMAIN blocks' : blocks'[h] = NodeBlock(h)'
    BY <1>1, <1>2, <1>5 DEF FollowInv, Followed, NodeBlock
  <2> QED
    BY <1>1, <1>6, <2>1, <2>2 DEF Followed
<1> QED
  BY <1>1, <1>2, <1>3, <1>4, <1>6, <1>7, <1>8 DEF FollowInv

\* The batch is what the node has, and so is what it leads up to.
LEMMA FetchFollows ==
  ASSUME IInv, FollowInv, ReadNodeTip \/ \E h \in Height : FetchBlock(h)
  PROVE  FollowInv'
<1>1. UNCHANGED <<node, blocks>> /\ pc \in {"info", "fetch"} /\ pc' # "scan"
  BY DEF ReadNodeTip, FetchBlock, world, db
<1>2. TipFollowed
  BY <1>1 DEF FollowInv, Followed
<1>3. CASE ReadNodeTip
  <2>1. pc' = "pass" \/ (pc' = "fetch" /\ goal' = Min({node.height, Tip + BatchBlocks}) /\ batch' = <<>>)
    BY <1>3 DEF ReadNodeTip
  <2>2. pc' = "fetch" => goal' <= node.height
    <3>1. CASE pc' = "fetch"
      <4>1. Tip + BatchBlocks \in Nat /\ node.height \in Nat
        BY TipStored, NodeHeights, WorkerAssumption
      <4>2. LET ends == {node.height, Tip + BatchBlocks} IN Min(ends) <= node.height
        BY <4>1, MinIsLeast
      <4> QED
        BY <3>1, <2>1, <4>2
    <3> QED
      BY <3>1
  <2> QED
    BY <1>1, <1>2, <2>1, <2>2, EmptyTable, FollowStays
<1>4. ASSUME NEW h \in Height, FetchBlock(h) PROVE FollowInv'
  <2>1. /\ UNCHANGED goal /\ h \in Tip + 1 .. goal /\ pc = "fetch"
        /\ batch' = [k \in DOMAIN batch \cup {h} |-> IF k = h THEN NodeBlock(h) ELSE batch[k]]
    BY <1>4 DEF FetchBlock
  <2>2. h <= node.height /\ goal <= node.height
    BY <2>1, NodeHeights, ChainAssumption DEF IInv, Control, Height
  <2>3. \A k \in DOMAIN batch' : k <= node.height /\ batch'[k] = NodeBlock(k)
    BY <2>1, <2>2 DEF FollowInv, Followed
  <2> QED
    BY <1>1, <1>2, <2>1, <2>2, <2>3, FollowStays
<1> QED
  BY <1>3, <1>4

\* A run is stored on top of a tip the node still has.
LEMMA FlushRunFollows ==
  ASSUME IInv, FollowInv, NEW answered \in BOOLEAN, NEW last \in Height, FlushRun(answered, last)
  PROVE  FollowInv' /\ TipFollowed /\ TipFollowed' /\ node.height >= Tip'
<1>1. /\ Appends(last) /\ UNCHANGED node /\ pc = "process" /\ Tip < goal
      /\ \/ pc' = "process" /\ UNCHANGED <<goal, batch>>
         \/ pc' = "pass"
  BY FlushRunHeights DEF FlushRun, AtRun, Continues, world
<1>2. TipFollowed /\ goal <= node.height
  BY <1>1 DEF FollowInv, Followed
<1>3. /\ Tip \in Int /\ Tip >= -1 /\ last \in Tip + 1 .. goal /\ DOMAIN blocks = 0..Tip
      /\ DOMAIN blocks' = 0..last /\ Tip' = last /\ goal \in Int
      /\ \A h \in 0..Tip : blocks'[h] = blocks[h]
      /\ \A h \in Tip + 1 .. last : blocks'[h] = batch[h]
  BY <1>1, RestOfBatch DEF Appends
<1>4. \A h \in Tip + 1 .. last : blocks'[h] = NodeBlock(h)
  <2>1. Tip + 1 .. goal \subseteq DOMAIN batch
    BY <1>1 DEF IInv, Control
  <2>2. \A h \in Tip + 1 .. last : h \in DOMAIN batch
    BY <1>3, <2>1
  <2> QED
    BY <1>1, <1>3, <2>2 DEF FollowInv, Followed
<1>5. \A h \in 0..Tip : blocks'[h] = NodeBlock(h)
  <2>1. \A h \in 0..Tip : h < Tip \/ (h = Tip /\ Tip # None)
    BY <1>3 DEF None
  <2> QED
    BY <1>2, <1>3, <2>1 DEF FollowInv, Followed, TipFollowed
<1>6. \A h \in DOMAIN blocks' : blocks'[h] = NodeBlock(h)'
  <2>1. \A h \in 0..last : h \in 0..Tip \/ h \in Tip + 1 .. last
    BY <1>3
  <2> QED
    BY <1>1, <1>3, <1>4, <1>5, <2>1 DEF NodeBlock
<1>7. node.height >= last /\ last \in DOMAIN blocks'
  BY <1>2, <1>3, NodeHeights
<1>8. TipFollowed'
  BY <1>3, <1>6, <1>7 DEF TipFollowed
<1>9. Followed'
  BY <1>1, <1>3, <1>6, <1>7, <1>8 DEF Followed, FollowInv, NodeBlock
<1>10. StoredChainLinked'
  <2>1. \A h \in DOMAIN blocks' : h \in DOMAIN node.chain /\ blocks'[h] = node.chain[h]
    <3>1. \A h \in DOMAIN blocks' : h \in 0..node.height
      BY <1>3, <1>7, NodeHeights
    <3> QED
      BY <1>1, <1>6, <3>1, NodeHeights DEF NodeBlock
  <2> QED
    BY <2>1, NodeHeights DEF StoredChainLinked
<1> QED
  BY <1>2, <1>3, <1>7, <1>8, <1>9, <1>10 DEF FollowInv

\* Every other step leaves the node and the blocks alone, and starts no scan
\* and no batch.
LEMMA FollowKept == ASSUME Benign PROVE IInv /\ FollowInv /\ [Next]_vars => FollowInv'
<1> SUFFICES ASSUME IInv, FollowInv, [Next]_vars PROVE FollowInv'
  OBVIOUS
<1> DEFINE Moves ==
      \/ NodeStep \/ StartPass \/ ProbeAgrees \/ ProbeFails \/ ReadNodeTip
      \/ \E h \in Height : FetchBlock(h)
      \/ \E answered \in BOOLEAN :
           RollBack(answered) \/ \E last \in Height : FlushRun(answered, last)
      Quiet ==
        /\ UNCHANGED <<node, blocks>>
        /\ \/ pc' \in {"down", "pass"}
           \/ pc \notin {"down", "pass", "scan"} /\ pc' \in {"info", "prune"}
           \/ UNCHANGED <<pc, cursor, goal, batch>>
<1>1. Moves \/ Quiet
  <2>1. UNCHANGED vars \/ Boot => Quiet
    BY DEF vars, Boot, world, db
  <2>2. WorkerStep => Moves \/ Quiet
    <3>1. RewindMetrics(TRUE) \/ FinalizeDay(TRUE) => Quiet
      BY DEF RewindMetrics, FinalizeDay, AtBoundary, Continues, world
    <3>2. SkipFinalizedDay \/ RefuseToFinalize \/ BatchStored \/ EndPass(TRUE) => Quiet
      BY DEF SkipFinalizedDay, RefuseToFinalize, BatchStored, EndPass, AtBoundary, Continues,
             world, db, memory
    <3> HIDE DEF Quiet
    <3> QED
      BY <3>1, <3>2 DEF WorkerStep
  <2>3. Failure => Moves \/ Quiet
    <3>1. RewindMetrics(FALSE) \/ FinalizeDay(FALSE) \/ EndPass(FALSE) => Quiet
      BY DEF RewindMetrics, FinalizeDay, EndPass, Continues, world
    <3>2. Crash \/ PassFails \/ (\E last, upTo \in Height : RunFails(last, upTo)) => Quiet
      BY DEF Crash, PassFails, RunFails, world, db
    <3> HIDE DEF Quiet
    <3> QED
      BY <3>1, <3>2 DEF Failure
  <2> HIDE DEF Quiet
  <2> QED
    BY <2>1, <2>2, <2>3 DEF Next
<1>2. CASE Moves
  BY <1>2, NodeStepFollows, ScanFollows, FetchFollows, RollBackFollows, FlushRunFollows
<1>3. CASE Quiet
  <2>1. pc' \notin {"down", "pass", "scan"} => TipFollowed
    BY <1>3 DEF FollowInv, Followed
  <2>2. pc' = "scan" => cursor' = Tip \/ NoReorgs
    BY <1>3 DEF FollowInv, Followed
  <2>3. pc' \in {"fetch", "process"} =>
          goal' <= node.height
          /\ \A h \in DOMAIN batch' : h <= node.height /\ batch'[h] = NodeBlock(h)
    BY <1>3 DEF FollowInv, Followed
  <2> QED
    BY <1>3, <2>1, <2>2, <2>3, FollowStays
<1> QED
  BY <1>1, <1>2, <1>3

\* An empty table follows whatever the node has.
LEMMA FollowInitially == Init => FollowInv
<1> SUFFICES ASSUME Init PROVE FollowInv
  OBVIOUS
<1>1. IInv
  BY InitEstablishes
<1>2. DOMAIN blocks = {} /\ Tip = None /\ pc = "down"
  BY EmptyTable DEF Init, Tip, TipOf
<1>3. Followed
  BY <1>1, <1>2, NodeHeights DEF Followed, TipFollowed, None
<1>4. StoredChainLinked
  BY <1>1, <1>2, NodeHeights DEF StoredChainLinked
<1> QED
  BY <1>3, <1>4 DEF FollowInv

\* The stored blocks are one branch of the node's, never a mixture of two:
\* for every set of branches, batch size and scan depth, and whatever fails,
\* when the node abandons at most its last block, between two passes.
THEOREM StoredChainAlwaysLinked == Benign => (Spec => []StoredChainLinked)
<1> SUFFICES ASSUME Benign PROVE Spec => []StoredChainLinked
  OBVIOUS
<1>1. FollowInv => StoredChainLinked
  BY DEF FollowInv
<1> QED
  BY <1>1, FollowInitially, FollowKept, InductiveInvariant, PTL DEF Spec

---------------------------------------------------------------------------
(* The rows of utxos. *)

\* A stored block that no rollback will remove: it is below the tip, or the
\* node has gone beyond the tip and still has it.
Settled(k) ==
  k < Tip \/ (k = Tip /\ node.height > Tip /\ blocks[Tip] = NodeBlock(Tip))

\* Every stored coin has its row, unless a settled block spent it and the row
\* was pruned.
RowsComplete ==
  \A h \in DOMAIN blocks : \A c \in Creates[blocks[h]] :
    c \in DOMAIN utxos \/ \E k \in DOMAIN blocks : c \in SpentCoins(blocks[k]) /\ Settled(k)

\* Every coin that a stored block spends is marked, if it has a row.
MarksComplete ==
  \A k \in DOMAIN blocks : \A c \in SpentCoins(blocks[k]) :
    c \in DOMAIN utxos => utxos[c].spent # None

CoinInv == FollowInv /\ RowsComplete /\ MarksComplete

\* A branch up to any of its heights is a valid chain, and so is what is stored.
LEMMA PartValid ==
  ASSUME ValidBranches, NEW c, NEW n \in Int, DOMAIN c = 0..n,
         NEW br \in Branch, \A h \in DOMAIN c : h \in DOMAIN br /\ c[h] = br[h]
  PROVE  ValidChain(c)
<1>1. ValidChain(br)
  BY DEF ValidBranches
<1>2. \A h, k \in DOMAIN c : h # k => /\ Creates[c[h]] \cap Creates[c[k]] = {}
                                     /\ SpentCoins(c[h]) \cap SpentCoins(c[k]) = {}
  BY <1>1 DEF ValidChain
<1>3. ASSUME NEW h \in DOMAIN c, NEW i \in Inputs[c[h]]
      PROVE  i.height \in DOMAIN c /\ i.height <= h /\ i.coin \in Creates[c[i.height]]
  <2>1. i.height <= h /\ i.coin \in Creates[br[i.height]]
    BY <1>1 DEF ValidChain
  <2>2. c[h] \in Block
    BY BranchHeights
  <2>3. i.height \in Nat
    BY <2>2, ChainAssumption DEF Height
  <2>4. i.height \in DOMAIN c
    BY <2>1, <2>3
  <2> QED
    BY <2>1, <2>4
<1> QED
  BY <1>2, <1>3 DEF ValidChain

\* So the stored chain is valid.
LEMMA StoredValid ==
  ASSUME ValidBranches, IInv, StoredChainLinked
  PROVE  ValidChain(blocks)
BY TipStored, PartValid DEF StoredChainLinked

\* A row and a mark name the only block that creates the coin, and the only
\* one that spends it.
LEMMA RowNamesBlock ==
  ASSUME IInv, ValidChain(blocks), NEW c \in DOMAIN utxos, NEW h \in DOMAIN blocks
  PROVE  /\ c \in Creates[blocks[h]] => utxos[c].created = h
         /\ c \in SpentCoins(blocks[h]) /\ utxos[c].spent # None => utxos[c].spent = h
BY DEF IInv, RowsBacked, ValidChain

\* A spent coin was created, and not above the block that spends it.
LEMMA SpendNamesCreation ==
  ASSUME NEW chain, ValidChain(chain), NEW k \in DOMAIN chain, NEW c \in SpentCoins(chain[k])
  PROVE  \E h \in DOMAIN chain : h <= k /\ c \in Creates[chain[h]]
BY DEF ValidChain, SpentCoins

\* What a settled block is stays so as long as it is stored.
LEMMA SettledStays ==
  ASSUME Benign, IInv, FollowInv, NodeStep \/ UNCHANGED <<node, blocks>>,
         NEW k \in DOMAIN blocks, Settled(k)
  PROVE  Settled(k)'
<1>1. CASE UNCHANGED <<node, blocks>>
  BY <1>1 DEF Settled, Tip, NodeBlock
<1>2. CASE NodeExtends
  <2>1. node'.height = node.height + 1 /\ node'.chain = node.chain /\ UNCHANGED blocks
    BY <1>2 DEF NodeExtends, IInv, TypeOK, NodeType, db
  <2> QED
    BY <2>1, NodeHeights, TipStored DEF Settled, Tip, NodeBlock
<1>3. ASSUME NEW br \in Branch, NEW fork \in Height, NodeReorgs(br, fork)
      PROVE  Settled(k)'
  <2>1. node'.chain = br /\ node'.height = node.height + 1 /\ UNCHANGED blocks
    BY <1>3 DEF NodeReorgs, db
  <2>2. \A h \in 0..node.height - 1 : br[h] = NodeBlock(h)
    BY <1>3, BenignReorg
  <2>3. Tip \in Int /\ k \in 0..Tip /\ Tip' = Tip
    BY <2>1, TipStored DEF Tip
  <2>4. k = Tip /\ node.height > Tip => br[Tip] = NodeBlock(Tip)
    BY <2>2, <2>3, NodeHeights
  <2> QED
    BY <2>1, <2>3, <2>4, NodeHeights DEF Settled, NodeBlock
<1> QED
  BY <1>1, <1>2, <1>3 DEF NodeStep

\* A step that leaves the rows alone, or the node's.
LEMMA CoinsStay ==
  ASSUME Benign, IInv, CoinInv, FollowInv', NodeStep \/ UNCHANGED node, UNCHANGED <<blocks, utxos>>
  PROVE  CoinInv'
<1>1. MarksComplete'
  BY DEF CoinInv, MarksComplete
<1>2. RowsComplete'
  BY SettledStays DEF CoinInv, RowsComplete
<1> QED
  BY <1>1, <1>2 DEF CoinInv

\* Only rows that were spent by a settled block are pruned.
LEMMA PruneKeepsCoins ==
  ASSUME IInv, CoinInv, FollowInv', NEW answered \in BOOLEAN, EndPass(answered)
  PROVE  CoinInv'
<1>1. /\ UNCHANGED <<node, blocks>> /\ Tip' = Tip
      /\ utxos' = utxos \/ utxos' = Pruned(utxos, PruneFloor)
  BY DEF EndPass, world, Tip
<1>2. \A k : Settled(k)' <=> Settled(k)
  BY <1>1 DEF Settled, NodeBlock
<1>3. /\ \A c \in DOMAIN utxos' : c \in DOMAIN utxos /\ utxos'[c] = utxos[c]
      /\ \A c \in DOMAIN utxos : c \in DOMAIN utxos'
           \/ (utxos[c].spent # None /\ ~(utxos[c].spent >= PruneFloor))
  BY <1>1 DEF Pruned, Restrict
<1>4. MarksComplete'
  BY <1>1, <1>3 DEF CoinInv, MarksComplete
<1>5. ASSUME NEW c \in DOMAIN utxos, c \notin DOMAIN utxos'
      PROVE  \E k \in DOMAIN blocks : c \in SpentCoins(blocks[k]) /\ Settled(k)
  <2>1. utxos[c].spent # None /\ ~(utxos[c].spent >= PruneFloor)
    BY <1>3, <1>5
  <2>2. utxos[c].spent \in DOMAIN blocks /\ c \in SpentCoins(blocks[utxos[c].spent])
    BY <2>1 DEF IInv, RowsBacked
  <2>3. utxos[c].spent < Tip
    BY <2>1, <2>2, TipStored, WorkerAssumption DEF PruneFloor
  <2> QED
    BY <2>2, <2>3 DEF Settled
<1>6. RowsComplete'
  BY <1>1, <1>2, <1>5 DEF CoinInv, RowsComplete
<1> QED
  BY <1>4, <1>6 DEF CoinInv

\* A rollback removes the coins of the tip, and the marks it made.
LEMMA RollBackKeepsCoins ==
  ASSUME ValidBranches, IInv, CoinInv, NEW answered \in BOOLEAN, RollBack(answered)
  PROVE  CoinInv'
<1>1. /\ FollowInv' /\ TipFollowed' /\ Tip' = Tip - 1 /\ ForkHeight = Tip - 1
      /\ ~TipFollowed /\ node.height > Tip
  BY RollBackFollows DEF CoinInv
<1>2. /\ DOMAIN blocks' = 0..Tip - 1 /\ DOMAIN blocks = 0..Tip /\ Tip \in Nat /\ UNCHANGED node
      /\ \A h \in 0..Tip - 1 : blocks'[h] = blocks[h] /\ h \in DOMAIN blocks
      /\ utxos' = UnspendAbove(utxos, Tip - 1)
  <2>1. RollsBack(ForkHeight) /\ UNCHANGED node /\ utxos' = UnspendAbove(utxos, ForkHeight)
    BY RollBackHeights DEF RollBack, world
  <2>2. DOMAIN blocks = 0..Tip /\ Tip \in Int /\ Tip >= -1 /\ Tip # None
    BY <1>1, TipStored DEF TipFollowed
  <2> QED
    BY <1>1, <2>1, <2>2 DEF RollsBack, None
<1>3. ValidChain(blocks)
  BY StoredValid DEF CoinInv, FollowInv
<1>4. \A c \in DOMAIN utxos :
        /\ utxos[c].created \in Nat /\ utxos[c].spent \in Int
        /\ utxos[c].created <= Tip - 1 =>
             /\ c \in DOMAIN utxos'
             /\ utxos'[c].spent = IF utxos[c].spent > Tip - 1 THEN None ELSE utxos[c].spent
  <2> SUFFICES ASSUME NEW c \in DOMAIN utxos
               PROVE  /\ utxos[c].created \in Nat /\ utxos[c].spent \in Int
                      /\ utxos[c].created <= Tip - 1 =>
                           /\ c \in DOMAIN utxos'
                           /\ utxos'[c].spent = IF utxos[c].spent > Tip - 1 THEN None
                                                ELSE utxos[c].spent
    OBVIOUS
  <2>1. utxos[c] \in [created : Height, spent : Height \cup {None}]
    BY DEF IInv, TypeOK, TablesType
  <2>2. utxos[c].created \in Nat /\ utxos[c].spent \in Int
    BY <2>1, ChainAssumption DEF Height, None
  <2>3. CASE utxos[c].created <= Tip - 1
    <3>1. /\ c \in DOMAIN utxos'
          /\ utxos'[c] = IF utxos[c].spent > Tip - 1 THEN [utxos[c] EXCEPT !.spent = None]
                         ELSE utxos[c]
      BY <1>2, <2>3 DEF UnspendAbove
    <3> QED
      BY <2>1, <2>2, <3>1
  <2> QED
    BY <2>2, <2>3
<1>5. DOMAIN utxos' \subseteq {c \in DOMAIN utxos : utxos[c].created <= Tip - 1}
  BY <1>2 DEF UnspendAbove
<1>6. MarksComplete'
  <2> SUFFICES ASSUME NEW k \in 0..Tip - 1, NEW c \in SpentCoins(blocks[k]), c \in DOMAIN utxos'
               PROVE  utxos'[c].spent # None
    BY <1>2 DEF MarksComplete
  <2>1. c \in DOMAIN utxos /\ utxos[c].created <= Tip - 1 /\ k \in DOMAIN blocks
    BY <1>2, <1>5
  <2>2. utxos[c].spent = k
    BY <1>3, <2>1, RowNamesBlock DEF CoinInv, MarksComplete
  <2> QED
    BY <1>2, <1>4, <2>1, <2>2 DEF None
<1>7. RowsComplete'
  <2> SUFFICES ASSUME NEW h \in 0..Tip - 1, NEW c \in Creates[blocks[h]], c \notin DOMAIN utxos'
               PROVE  \E k \in 0..Tip - 1 : c \in SpentCoins(blocks[k]) /\ Settled(k)'
    BY <1>2 DEF RowsComplete
  <2>1. c \notin DOMAIN utxos
    <3>1. c \in DOMAIN utxos => utxos[c].created = h
      BY <1>2, <1>3, RowNamesBlock
    <3> QED
      BY <1>2, <1>4, <3>1
  <2>2. PICK k \in DOMAIN blocks : c \in SpentCoins(blocks[k]) /\ Settled(k)
    BY <1>2, <2>1 DEF CoinInv, RowsComplete
  <2>3. k < Tip /\ k \in 0..Tip - 1
    BY <1>1, <1>2, <2>2 DEF Settled, TipFollowed
  <2>4. Settled(k)'
    <3>1. (Tip # None => blocks[Tip] = NodeBlock(Tip))'
      BY <1>1 DEF TipFollowed
    <3>2. k < Tip' \/ (k = Tip' /\ node'.height > Tip' /\ Tip' # None)
      BY <1>1, <1>2, <2>3, NodeHeights DEF None
    <3> QED
      BY <1>1, <3>1, <3>2, Zenon DEF Settled
  <2> QED
    BY <2>2, <2>3, <2>4
<1> QED
  BY <1>1, <1>6, <1>7 DEF CoinInv

\* What a run does to the rows: every coin it creates has a row, every coin it
\* spends is marked, and no row and no mark is lost.
LEMMA ApplySpendsCovers ==
  ASSUME NEW rows, RowsTyped(rows), NEW run, \A h \in run : h # None,
         NEW spender \in Spenders(batch, run)
  PROVE  LET after == ApplySpends(rows, batch, run, spender)
         IN /\ DOMAIN after = DOMAIN rows \cup UNION {Creates[batch[h]] : h \in run}
            /\ \A h \in run : \A c \in SpentCoins(batch[h]) : c \in DOMAIN after => after[c].spent # None
            /\ \A c \in DOMAIN rows : rows[c].spent # None => after[c].spent # None
<1> DEFINE inserted == InsertCoins(rows, batch, run)
           after == MarkSpent(inserted, spender)
           spent == UNION {SpentCoins(batch[h]) : h \in run}
<1>1. /\ DOMAIN inserted = DOMAIN rows \cup UNION {Creates[batch[h]] : h \in run}
      /\ \A c \in DOMAIN rows : inserted[c] = rows[c]
      /\ \A c \in DOMAIN inserted : "spent" \in DOMAIN inserted[c]
  BY DEF InsertCoins, RowsTyped
<1>2. DOMAIN spender = spent /\ \A c \in spent : spender[c] # None
  BY DEF Spenders
<1> HIDE DEF inserted, spent
<1>3. /\ DOMAIN after = DOMAIN inserted
      /\ \A c \in DOMAIN inserted :
           after[c] = IF c \in DOMAIN spender /\ inserted[c].spent = None
                      THEN [inserted[c] EXCEPT !.spent = spender[c]] ELSE inserted[c]
  BY DEF MarkSpent
<1> HIDE DEF after
<1>4. \A c \in DOMAIN after : inserted[c].spent # None \/ c \in spent => after[c].spent # None
  BY <1>1, <1>2, <1>3
<1>5. \A h \in run : \A c \in SpentCoins(batch[h]) : c \in spent
  BY DEF spent
<1>6. \A c \in DOMAIN rows : rows[c].spent # None => after[c].spent # None
  BY <1>1, <1>3, <1>4
<1>7. after = ApplySpends(rows, batch, run, spender)
  BY DEF after, inserted, ApplySpends
<1> QED
  BY <1>1, <1>3, <1>4, <1>5, <1>6, <1>7

\* A run brings its coins and its marks, and none of its coins was spent before.
LEMMA FlushRunKeepsCoins ==
  ASSUME ValidBranches, IInv, CoinInv, NEW answered \in BOOLEAN, NEW last \in Height,
         FlushRun(answered, last)
  PROVE  CoinInv'
<1> DEFINE run == Tip + 1 .. last
<1>1. /\ Appends(last) /\ UNCHANGED node
      /\ \E spender \in Spenders(batch, run) : utxos' = ApplySpends(utxos, batch, run, spender)
  BY FlushRunHeights DEF FlushRun, world
<1>2. FollowInv' /\ TipFollowed
  BY FlushRunFollows DEF CoinInv
<1>3. /\ Tip \in Int /\ Tip >= -1 /\ DOMAIN blocks = 0..Tip /\ DOMAIN blocks' = 0..last
      /\ Tip' = last /\ last > Tip /\ last \in Int
      /\ \A h \in 0..Tip : blocks'[h] = blocks[h]
      /\ \A h \in run : blocks'[h] = batch[h] /\ h # None
      /\ \A h \in 0..last : h \in 0..Tip \/ h \in run
      /\ \A h \in run, k \in 0..Tip : k < h /\ h \in 0..last /\ k \in 0..last
  BY <1>1, ChainAssumption DEF Appends, Height, None
<1>4. ValidChain(blocks')
  <2>1. \E br \in Branch : \A h \in DOMAIN blocks' : h \in DOMAIN br /\ blocks'[h] = br[h]
    BY <1>2 DEF FollowInv, StoredChainLinked
  <2> QED
    BY <1>3, <2>1, PartValid
<1> HIDE DEF run
<1>5. /\ DOMAIN utxos' = DOMAIN utxos \cup UNION {Creates[batch[h]] : h \in run}
      /\ \A h \in run : \A c \in SpentCoins(batch[h]) : c \in DOMAIN utxos' => utxos'[c].spent # None
      /\ \A c \in DOMAIN utxos : utxos[c].spent # None => utxos'[c].spent # None
  <2>1. RowsTyped(utxos)
    BY DEF IInv, TypeOK, TablesType, RowsTyped
  <2>2. PICK spender \in Spenders(batch, run) : utxos' = ApplySpends(utxos, batch, run, spender)
    BY <1>1
  <2>3. \A h \in run : h # None
    BY <1>3
  <2> QED
    BY <2>1, <2>2, <2>3, ApplySpendsCovers
<1>6. MarksComplete'
  <2> SUFFICES ASSUME NEW k \in 0..last, NEW c \in SpentCoins(blocks'[k]), c \in DOMAIN utxos'
               PROVE  utxos'[c].spent # None
    BY <1>3 DEF MarksComplete
  <2>1. CASE k \in run
    BY <1>3, <1>5, <2>1
  <2>2. CASE k \in 0..Tip
    <3>1. c \in SpentCoins(blocks[k]) /\ k \in DOMAIN blocks'
      BY <1>3, <2>2
    <3>2. PICK h \in 0..last : h <= k /\ c \in Creates[blocks'[h]]
      BY <1>3, <1>4, SpendNamesCreation
    <3>3. \A g \in run : c \notin Creates[batch[g]]
      <4> SUFFICES ASSUME NEW g \in run, c \in Creates[batch[g]] PROVE FALSE
        OBVIOUS
      <4>1. g \in 0..last /\ k < g /\ c \in Creates[blocks'[g]]
        BY <1>3, <2>2
      <4>2. g # h
        BY <3>2, <4>1
      <4> QED
        BY <1>3, <1>4, <3>2, <4>1, <4>2 DEF ValidChain
    <3>4. c \in DOMAIN utxos
      BY <1>5, <3>3
    <3> QED
      BY <1>3, <1>5, <2>2, <3>1, <3>4 DEF CoinInv, MarksComplete
  <2> QED
    BY <1>3, <2>1, <2>2
<1>7. RowsComplete'
  <2> SUFFICES ASSUME NEW h \in 0..last, NEW c \in Creates[blocks'[h]], c \notin DOMAIN utxos'
               PROVE  \E k \in 0..last : c \in SpentCoins(blocks'[k]) /\ Settled(k)'
    BY <1>3 DEF RowsComplete
  <2>1. h \in 0..Tip /\ c \in Creates[blocks[h]] /\ c \notin DOMAIN utxos
    BY <1>3, <1>5
  <2>2. PICK k \in 0..Tip : c \in SpentCoins(blocks[k])
    BY <1>3, <2>1 DEF CoinInv, RowsComplete
  <2>3. k \in 0..last /\ k < last
    BY <1>3
  <2> QED
    BY <1>3, <2>2, <2>3 DEF Settled
<1> QED
  BY <1>2, <1>6, <1>7 DEF CoinInv

\* The steps that write blocks or rows, and the node's.
LEMMA OnlyMovesCoins ==
  ASSUME [Next]_vars
  PROVE  \/ \E answered \in BOOLEAN :
              \/ RollBack(answered) \/ EndPass(answered)
              \/ \E last \in Height : FlushRun(answered, last)
         \/ (NodeStep \/ UNCHANGED node) /\ UNCHANGED <<blocks, utxos>>
<1> DEFINE Same == (NodeStep \/ UNCHANGED node) /\ UNCHANGED <<blocks, utxos>>
<1>1. UNCHANGED vars \/ Boot => Same
  BY DEF vars, Boot, world, db
<1>2. NodeStep => Same
  BY DEF NodeStep, NodeExtends, NodeReorgs, db
<1>3. StartPass \/ ProbeAgrees \/ ProbeFails \/ ReadNodeTip \/ BatchStored => Same
  BY DEF StartPass, ProbeAgrees, ProbeFails, ReadNodeTip, BatchStored, world, db
<1>4. (\E h \in Height : FetchBlock(h)) \/ SkipFinalizedDay \/ RefuseToFinalize => Same
  BY DEF FetchBlock, SkipFinalizedDay, RefuseToFinalize, world, db
<1>5. ASSUME NEW answered \in BOOLEAN, RewindMetrics(answered) \/ FinalizeDay(answered) PROVE Same
  BY <1>5 DEF RewindMetrics, FinalizeDay, world
<1>6. Crash \/ PassFails \/ (\E last, upTo \in Height : RunFails(last, upTo)) => Same
  BY DEF Crash, PassFails, RunFails, world, db
<1> HIDE DEF Same
<1>7. WorkerStep => Same \/ \E answered \in BOOLEAN :
        RollBack(answered) \/ EndPass(answered) \/ \E last \in Height : FlushRun(answered, last)
  BY <1>3, <1>4, <1>5 DEF WorkerStep
<1>8. Failure => Same \/ \E answered \in BOOLEAN :
        RollBack(answered) \/ EndPass(answered) \/ \E last \in Height : FlushRun(answered, last)
  BY <1>3, <1>5, <1>6 DEF Failure
<1> QED
  BY <1>1, <1>2, <1>7, <1>8 DEF Next, Same

\* The rows are complete through every step.
LEMMA CoinsKept ==
  ASSUME Benign, ValidBranches
  PROVE  IInv /\ CoinInv /\ [Next]_vars => CoinInv'
<1> SUFFICES ASSUME IInv, CoinInv, [Next]_vars PROVE CoinInv'
  OBVIOUS
<1>1. FollowInv'
  BY FollowKept DEF CoinInv
<1> QED
  BY <1>1, OnlyMovesCoins, RollBackKeepsCoins, PruneKeepsCoins, FlushRunKeepsCoins, CoinsStay

\* No block, no coin.
LEMMA CoinsInitially == Init => CoinInv
<1> SUFFICES ASSUME Init PROVE CoinInv
  OBVIOUS
<1>1. DOMAIN blocks = {}
  BY EmptyTable DEF Init
<1> QED
  BY <1>1, FollowInitially DEF CoinInv, RowsComplete, MarksComplete

\* The invariant of the rows, as a fact of the behaviour.
LEMMA CoinsHold == ASSUME Benign, ValidBranches PROVE Spec => [](IInv /\ CoinInv)
BY CoinsInitially, CoinsKept, InductiveInvariant, PTL DEF Spec

\* The coins that the blocks 0..n of a chain create and do not spend.
Unspent(c, n) == (UNION {Creates[c[h]] : h \in 0..n}) \ UNION {SpentCoins(c[h]) : h \in 0..n}

\* So the live rows are the unspent coins of the stored chain.
LEMMA LiveIsUnspent ==
  ASSUME IInv, CoinInv
  PROVE  LiveCoins(utxos) = Unspent(blocks, Tip) /\ DOMAIN blocks = 0..Tip
<1>1. DOMAIN blocks = 0..Tip
  BY TipStored
<1>2. ASSUME NEW c \in LiveCoins(utxos) PROVE c \in Unspent(blocks, Tip)
  <2>1. c \in DOMAIN utxos /\ utxos[c].spent = None
    BY DEF LiveCoins
  <2>2. utxos[c].created \in DOMAIN blocks /\ c \in Creates[blocks[utxos[c].created]]
    BY <2>1 DEF IInv, RowsBacked
  <2>3. \A k \in DOMAIN blocks : c \notin SpentCoins(blocks[k])
    BY <2>1 DEF CoinInv, MarksComplete
  <2> QED
    BY <1>1, <2>2, <2>3 DEF Unspent
<1>3. ASSUME NEW c \in Unspent(blocks, Tip) PROVE c \in LiveCoins(utxos)
  <2>1. PICK h \in DOMAIN blocks : c \in Creates[blocks[h]]
    BY <1>1 DEF Unspent
  <2>2. \A k \in DOMAIN blocks : c \notin SpentCoins(blocks[k])
    BY <1>1 DEF Unspent
  <2>3. c \in DOMAIN utxos
    BY <2>1, <2>2 DEF CoinInv, RowsComplete
  <2>4. utxos[c].spent = None
    BY <2>2, <2>3 DEF IInv, RowsBacked
  <2> QED
    BY <2>3, <2>4 DEF LiveCoins
<1> QED
  BY <1>1, <1>2, <1>3

---------------------------------------------------------------------------
(* The refinement of Ledger. *)

\* One more block adds its coins and takes the ones it spends, all of which
\* are there to be taken.
LEMMA UnspentNext ==
  ASSUME NEW c, NEW n \in Int, DOMAIN c = 0..n, ValidChain(c), NEW h \in 0..n
  PROVE  /\ Unspent(c, h) = (Unspent(c, h - 1) \cup Creates[c[h]]) \ SpentCoins(c[h])
         /\ SpentCoins(c[h]) \subseteq Unspent(c, h - 1) \cup Creates[c[h]]
         /\ Unspent(c, h - 1) \cap Creates[c[h]] = {}
<1>1. 0..h = (0..h - 1) \cup {h} /\ 0..h - 1 \subseteq DOMAIN c /\ h \in DOMAIN c /\ h \notin 0..h - 1
  OBVIOUS
<1>2. ASSUME NEW k \in 0..h - 1 PROVE Creates[c[h]] \cap SpentCoins(c[k]) = {}
  <2> SUFFICES ASSUME NEW x \in Creates[c[h]], x \in SpentCoins(c[k]) PROVE FALSE
    OBVIOUS
  <2>1. PICK g \in DOMAIN c : g <= k /\ x \in Creates[c[g]]
    BY <1>1, SpendNamesCreation
  <2>2. g # h
    BY <2>1
  <2> QED
    BY <1>1, <2>1, <2>2 DEF ValidChain
<1>3. \A k \in 0..h - 1 : /\ Creates[c[h]] \cap Creates[c[k]] = {}
                          /\ SpentCoins(c[h]) \cap SpentCoins(c[k]) = {}
  BY <1>1 DEF ValidChain
<1>4. SpentCoins(c[h]) \subseteq Unspent(c, h - 1) \cup Creates[c[h]]
  <2> SUFFICES ASSUME NEW x \in SpentCoins(c[h]), x \notin Creates[c[h]]
               PROVE  x \in Unspent(c, h - 1)
    OBVIOUS
  <2>1. PICK g \in DOMAIN c : g <= h /\ x \in Creates[c[g]]
    BY <1>1, SpendNamesCreation
  <2>2. g \in 0..h - 1
    BY <2>1
  <2> QED
    BY <1>3, <2>1, <2>2 DEF Unspent
<1>5. Unspent(c, h - 1) \cap Creates[c[h]] = {}
  BY <1>3 DEF Unspent
<1>6. Unspent(c, h) = (Unspent(c, h - 1) \cup Creates[c[h]]) \ SpentCoins(c[h])
  <2> DEFINE made == UNION {Creates[c[k]] : k \in 0..h - 1}
             gone == UNION {SpentCoins(c[k]) : k \in 0..h - 1}
  <2>1. UNION {Creates[c[k]] : k \in 0..h} = made \cup Creates[c[h]]
    BY <1>1
  <2>2. UNION {SpentCoins(c[k]) : k \in 0..h} = gone \cup SpentCoins(c[h])
    BY <1>1
  <2>3. Creates[c[h]] \cap gone = {}
    BY <1>2
  <2>4. Unspent(c, h - 1) = made \ gone
    BY DEF Unspent
  <2> HIDE DEF made, gone
  <2> QED
    BY <2>1, <2>2, <2>3, <2>4 DEF Unspent
<1> QED
  BY <1>4, <1>5, <1>6

\* Replaying a valid chain block by block, as Ledger does, leaves its unspent
\* coins.
LEMMA ReplayIsUnspent ==
  ASSUME NEW c, NEW n \in Int, DOMAIN c = 0..n, ValidChain(c), NEW m \in -1..n
  PROVE  ReplayLedger!Replay(c, m) = Unspent(c, m)
<1> DEFINE Replays(f) == f = [h \in -1..m |->
             IF h = -1 THEN {} ELSE (f[h - 1] \cup Creates[c[h]]) \ ReplayLedger!Spends(c[h])]
           after == CHOOSE f : Replays(f)
           unspent == [h \in -1..m |-> Unspent(c, h)]
<1>1. ReplayLedger!Replay(c, m) = after[m]
  BY DEF ReplayLedger!Replay
<1>2. \A b : ReplayLedger!Spends(b) = SpentCoins(b)
  BY DEF ReplayLedger!Spends, SpentCoins
<1>3. Unspent(c, -1) = {}
  BY DEF Unspent
<1>4. \A h \in 0..m : Unspent(c, h) = (Unspent(c, h - 1) \cup Creates[c[h]]) \ SpentCoins(c[h])
  BY UnspentNext
<1>5. Replays(unspent)
  <2> SUFFICES ASSUME NEW h \in -1..m
               PROVE  Unspent(c, h) = IF h = -1 THEN {}
                        ELSE (unspent[h - 1] \cup Creates[c[h]]) \ ReplayLedger!Spends(c[h])
    OBVIOUS
  <2>1. CASE h = -1
    BY <2>1, <1>3
  <2>2. CASE h # -1
    BY <2>2, <1>2, <1>4
  <2> QED
    BY <2>1, <2>2
<1>6. Replays(after)
  <2> HIDE DEF Replays
  <2> QED
    BY <1>5
<1>7. /\ after[-1] = {}
      /\ \A h \in 0..m : after[h] = (after[h - 1] \cup Creates[c[h]]) \ SpentCoins(c[h])
  <2> HIDE DEF after
  <2> QED
    BY <1>2, <1>6
<1> HIDE DEF after
<1>8. \A h \in -1..m : after[h] = Unspent(c, h)
  <2> DEFINE wrong == {k \in Nat : k - 1 \in -1..m /\ after[k - 1] # Unspent(c, k - 1)}
  <2> SUFFICES ASSUME NEW h \in -1..m, after[h] # Unspent(c, h) PROVE FALSE
    OBVIOUS
  <2>1. h + 1 \in wrong
    OBVIOUS
  <2>2. PICK k \in wrong : \A j \in wrong : k <= j
    BY <2>1, LeastNatural
  <2>3. PICK g \in -1..m : g = k - 1 /\ after[g] # Unspent(c, g)
    BY <2>2
  <2>4. g # -1
    BY <1>3, <1>7, <2>3
  <2>5. g \in 0..m /\ g - 1 \in -1..m /\ g \notin wrong
    BY <2>2, <2>3, <2>4
  <2>6. after[g - 1] = Unspent(c, g - 1)
    <3>1. g = (g - 1) + 1 /\ g \in Nat
      BY <2>5
    <3> QED
      BY <2>5, <3>1
  <2>7. after[g] = Unspent(c, g)
    BY <1>4, <1>7, <2>5, <2>6
  <2> QED
    BY <2>3, <2>7
<1> QED
  BY <1>1, <1>8

\* What the refinement needs to know of a state.
LedgerState ==
  /\ Tip \in -1..MaxHeight /\ DOMAIN blocks = 0..Tip /\ ValidChain(blocks)
  /\ LiveCoins(utxos) = Unspent(blocks, Tip)

\* The live rows are at every moment what Ledger computes.
LEMMA LedgerStateHolds == ASSUME ValidBranches PROVE IInv /\ CoinInv => LedgerState
<1> SUFFICES ASSUME IInv, CoinInv PROVE LedgerState
  OBVIOUS
<1>1. Tip \in -1..MaxHeight
  BY TipStored, TipInRange, ChainAssumption DEF IInv, TypeOK, Height, None
<1>2. ValidChain(blocks)
  BY StoredValid DEF CoinInv, FollowInv
<1> QED
  BY <1>1, <1>2, LiveIsUnspent DEF LedgerState

\* Every step of the worker is one of the ledger's, or changes nothing there.
LEMMA StepsRefine ==
  IInv /\ LedgerState /\ LedgerState' /\ [Next]_vars
    => [ReplayLedger!Next]_<<blocks, LiveCoins(utxos)>>
<1> SUFFICES ASSUME IInv, LedgerState, LedgerState', [Next]_vars
             PROVE  ReplayLedger!Next \/ UNCHANGED <<blocks, LiveCoins(utxos)>>
  OBVIOUS
<1>1. /\ Tip' \in -1..MaxHeight /\ Tip' \in Int /\ DOMAIN blocks' = 0..Tip' /\ ValidChain(blocks')
      /\ LiveCoins(utxos)' = Unspent(blocks', Tip')
  BY DEF LedgerState
<1>2. /\ LiveCoins(utxos)' = ReplayLedger!Replay(blocks', Tip')
      /\ \A h \in 0..Tip' : ReplayLedger!Honours(blocks', h)
  <2>1. \A m \in -1..Tip' : ReplayLedger!Replay(blocks', m) = Unspent(blocks', m)
    BY <1>1, ReplayIsUnspent
  <2>2. ASSUME NEW h \in 0..Tip' PROVE ReplayLedger!Honours(blocks', h)
    <3>1. SpentCoins(blocks'[h]) \subseteq Unspent(blocks', h - 1) \cup Creates[blocks'[h]]
      BY <1>1, UnspentNext
    <3>2. h - 1 \in -1..Tip'
      BY <1>1
    <3> QED
      BY <2>1, <3>1, <3>2 DEF ReplayLedger!Honours, ReplayLedger!Spends, SpentCoins
  <2> QED
    BY <1>1, <2>1, <2>2
<1>3. CASE UNCHANGED blocks
  BY <1>1, <1>3 DEF LedgerState, Tip
<1>4. ASSUME NEW answered \in BOOLEAN, NEW last \in Height, FlushRun(answered, last)
      PROVE  ReplayLedger!Next
  <2>1. /\ DOMAIN blocks \subseteq 0..Tip'
        /\ \A h \in DOMAIN blocks : blocks'[h] = blocks[h]
    BY <1>4, FlushRunHeights DEF Appends
  <2>2. ReplayLedger!Grows(blocks', Tip')
    BY <1>2, <2>1 DEF ReplayLedger!Grows
  <2> QED
    BY <1>1, <1>2, <2>1, <2>2 DEF ReplayLedger!Next
<1>5. ASSUME NEW answered \in BOOLEAN, RollBack(answered)
      PROVE  ReplayLedger!Next
  <2>1. \A h \in 0..Tip' : h \in DOMAIN blocks /\ blocks'[h] = blocks[h]
    BY <1>5, RollBackHeights, TipStored DEF RollsBack
  <2>2. ReplayLedger!CutBack(blocks', Tip')
    BY <2>1 DEF ReplayLedger!CutBack
  <2> QED
    BY <1>1, <1>2, <2>2 DEF ReplayLedger!Next
<1>6. ASSUME NEW answered \in BOOLEAN, EndPass(answered)
      PROVE  UNCHANGED blocks
  BY <1>6 DEF EndPass
<1> QED
  BY <1>3, <1>4, <1>5, <1>6, OnlyMovesCoins

\* The tables implement the abstract ledger: at every moment the live rows are
\* exactly what replaying the stored chain block by block gives, and the chain
\* only grows by blocks that spend what is there, or is cut back.  For every
\* set of branches that obeys the consensus rules, however its blocks are
\* batched, rolled back, pruned, retried or stored by a process that crashes.
THEOREM LedgerImplemented == Benign /\ ValidBranches => (Spec => ImplementsLedger)
<1> SUFFICES ASSUME Benign, ValidBranches PROVE Spec => ImplementsLedger
  OBVIOUS
<1>1. Init => ReplayLedger!Init
  <2> SUFFICES ASSUME Init PROVE blocks = <<>> /\ LiveCoins(utxos) = {}
    BY DEF ReplayLedger!Init
  <2>1. blocks = <<>> /\ DOMAIN utxos = {}
    BY EmptyTable DEF Init
  <2> QED
    BY <2>1 DEF LiveCoins
<1>2. IInv /\ CoinInv => LedgerState
  BY LedgerStateHolds
<1> QED
  BY <1>1, <1>2, StepsRefine, CoinsHold, PTL DEF Spec, ImplementsLedger, ReplayLedger!Spec

---------------------------------------------------------------------------
(* Conservation of value. *)

\* Values of disjoint sets of coins add up.
LEMMA ValueOfUnion ==
  ASSUME NEW S, NEW T, S \subseteq Coin, T \subseteq Coin, IsFiniteSet(S), IsFiniteSet(T),
         S \cap T = {}
  PROVE  /\ ValueOf(S \cup T) = ValueOf(S) + ValueOf(T)
         /\ ValueOf(S) \in Int /\ ValueOf(T) \in Int
<1>1. \A x \in S \cup T : Value[x] \in Int
  BY ChainAssumption
<1> QED
  BY <1>1, SumOfUnion, SumType DEF ValueOf

\* Along a valid chain, what was issued is what is unspent plus what was burned.
LEMMA ValueConserved ==
  ASSUME NEW c, NEW n \in Int, n >= -1, DOMAIN c = 0..n, ValidChain(c), \A h \in 0..n : c[h] \in Block
  PROVE  TotalSubsidy(c, 0..n) = ValueOf(Unspent(c, n)) + SumFunction([h \in 0..n |-> Burns[c[h]]])
<1> DEFINE issued == [h \in 0..n |-> Subsidy(c[h])]
           burned == [h \in 0..n |-> Burns[c[h]]]
           Balanced(m) ==
             /\ IsFiniteSet(Unspent(c, m)) /\ Unspent(c, m) \subseteq Coin
             /\ SumFunctionOnSet(issued, 0..m)
                  = ValueOf(Unspent(c, m)) + SumFunctionOnSet(burned, 0..m)
<1>1. \A h \in 0..n : issued[h] \in Int /\ burned[h] \in Int
  BY SubsidyType, ChainAssumption
<1>2. /\ TotalSubsidy(c, 0..n) = SumFunctionOnSet(issued, 0..n)
      /\ SumFunction(burned) = SumFunctionOnSet(burned, 0..n)
  BY DEF TotalSubsidy, SumFunction
<1>3. Balanced(-1)
  <2>1. 0..-1 = {}
    OBVIOUS
  <2>2. Unspent(c, -1) = {}
    BY DEF Unspent
  <2>3. /\ SumFunctionOnSet(issued, {}) = 0 /\ SumFunctionOnSet(burned, {}) = 0
        /\ SumFunctionOnSet(Value, {}) = 0
    BY SumOfNone
  <2> HIDE DEF issued, burned
  <2> QED
    BY <2>1, <2>2, <2>3, FS_EmptySet DEF ValueOf
<1>4. ASSUME NEW h \in 0..n, Balanced(h - 1) PROVE Balanced(h)
  <2> DEFINE made == Creates[c[h]]
             gone == SpentCoins(c[h])
             before == Unspent(c, h - 1)
             after == Unspent(c, h)
  <2>1. /\ after = (before \cup made) \ gone /\ gone \subseteq before \cup made
        /\ before \cap made = {}
    BY UnspentNext
  <2>2. /\ IsFiniteSet(made) /\ made \subseteq Coin /\ IsFiniteSet(gone) /\ gone \subseteq Coin
        /\ IsFiniteSet(before) /\ before \subseteq Coin
    BY <1>4, SpentCoinsFinite, ChainAssumption
  <2>3. issued[h] = ValueOf(made) + burned[h] - ValueOf(gone) /\ issued[h] \in Int /\ burned[h] \in Int
    BY <1>1 DEF Subsidy
  <2>4. h \in Nat /\ \A k \in 0..h : k \in 0..n
    OBVIOUS
  <2>5. SumFunctionOnSet(issued, 0..h - 1) = ValueOf(before) + SumFunctionOnSet(burned, 0..h - 1)
    BY <1>4
  <2> HIDE DEF issued, burned, made, gone, before, after
  <2>6. IsFiniteSet(before \cup made) /\ IsFiniteSet(after) /\ after \subseteq Coin
    BY <2>1, <2>2, FS_Union, FS_Subset
  <2>7. ValueOf(before \cup made) = ValueOf(before) + ValueOf(made)
        /\ ValueOf(before) \in Int /\ ValueOf(made) \in Int
    BY <2>1, <2>2, ValueOfUnion
  <2>8. /\ ValueOf(after \cup gone) = ValueOf(after) + ValueOf(gone)
        /\ ValueOf(after) \in Int /\ ValueOf(gone) \in Int
    BY <2>1, <2>2, <2>6, ValueOfUnion
  <2>9. after \cup gone = before \cup made
    BY <2>1
  <2>10. /\ SumFunctionOnSet(issued, 0..h) = SumFunctionOnSet(issued, 0..h - 1) + issued[h]
         /\ SumFunctionOnSet(burned, 0..h) = SumFunctionOnSet(burned, 0..h - 1) + burned[h]
         /\ SumFunctionOnSet(burned, 0..h - 1) \in Int
    BY <1>1, <2>4, SumOfLast
  <2>11. SumFunctionOnSet(issued, 0..h) = ValueOf(after) + SumFunctionOnSet(burned, 0..h)
    <3>1. ValueOf(after) + ValueOf(gone) = ValueOf(before) + ValueOf(made)
      BY <2>7, <2>8, <2>9
    <3>2. issued[h] + ValueOf(gone) = ValueOf(made) + burned[h]
      BY <2>3, <2>7, <2>8
    <3>3. SumFunctionOnSet(issued, 0..h) = ValueOf(before) + SumFunctionOnSet(burned, 0..h - 1) + issued[h]
      BY <2>5, <2>10
    <3> QED
      BY <2>3, <2>7, <2>8, <2>10, <3>1, <3>2, <3>3
  <2> QED
    BY <2>6, <2>11 DEF after
<1> HIDE DEF Balanced
<1>5. \A m \in -1..n : Balanced(m)
  <2> DEFINE wrong == {k \in Nat : k - 1 \in -1..n /\ ~Balanced(k - 1)}
  <2> SUFFICES ASSUME NEW m \in -1..n, ~Balanced(m) PROVE FALSE
    OBVIOUS
  <2>1. m + 1 \in wrong
    OBVIOUS
  <2>2. PICK k \in wrong : \A j \in wrong : k <= j
    BY <2>1, LeastNatural
  <2>3. PICK g \in -1..n : g = k - 1 /\ ~Balanced(g)
    BY <2>2
  <2>4. g # -1
    BY <1>3, <2>3
  <2>5. g \in 0..n /\ g - 1 \in -1..n /\ g \notin wrong
    BY <2>2, <2>3, <2>4
  <2>6. Balanced(g - 1)
    <3>1. g = (g - 1) + 1 /\ g \in Nat
      BY <2>5
    <3> QED
      BY <2>5, <3>1
  <2> QED
    BY <1>4, <2>3, <2>5, <2>6
<1>6. Balanced(n)
  BY <1>5
<1> HIDE DEF issued, burned
<1> QED
  BY <1>2, <1>6 DEF Balanced, burned

\* Value is conserved: the supply is what the live rows are worth plus what was
\* burned, for every set of branches that obeys the consensus rules, through
\* batches, rollbacks, pruning, failures and restarts.
THEOREM SupplyConserved == Benign /\ ValidBranches => (Spec => []SupplyIsUnspentPlusBurned)
<1> SUFFICES ASSUME Benign, ValidBranches PROVE Spec => []SupplyIsUnspentPlusBurned
  OBVIOUS
<1>1. IInv /\ CoinInv => LedgerState
  BY LedgerStateHolds
<1>2. IInv /\ LedgerState /\ SupplyReconciles => SupplyIsUnspentPlusBurned
  <2> SUFFICES ASSUME IInv, LedgerState, SupplyReconciles PROVE SupplyIsUnspentPlusBurned
    OBVIOUS
  <2>1. /\ Tip \in Int /\ Tip >= -1 /\ DOMAIN blocks = 0..Tip /\ ValidChain(blocks)
        /\ LiveCoins(utxos) = Unspent(blocks, Tip)
    BY TipStored DEF LedgerState
  <2>2. \A h \in 0..Tip : blocks[h] \in Block
    BY <2>1, StoredBlocks DEF IInv, TypeOK
  <2>3. TotalSubsidy(blocks, 0..Tip)
          = ValueOf(Unspent(blocks, Tip)) + SumFunction([h \in 0..Tip |-> Burns[blocks[h]]])
    BY <2>1, <2>2, ValueConserved
  <2> QED
    BY <2>1, <2>3 DEF SupplyReconciles, SupplyIsUnspentPlusBurned
<1> QED
  BY <1>1, <1>2, CoinsHold, SupplyAlwaysReconciles, PTL

---------------------------------------------------------------------------
(* Prices. *)

\* The index holds no other day than the height's, also where a failed run or
\* a rollback left an entry behind; every stored spend was priced at the day
\* of the height its input names.
PricedInv(day) ==
  /\ \A h \in Height : index[h] \in {NoDay, day[h]}
  /\ \A h \in DOMAIN blocks :
       agg[h] = {[coin |-> i.coin, day |-> day[i.height]] : i \in Inputs[blocks[h]]}

\* The steps that write either.
LEMMA OnlyPrices ==
  ASSUME [Next]_vars
  PROVE  \/ UNCHANGED <<blocks, agg, index>> \/ Boot \/ Crash
         \/ \E answered \in BOOLEAN :
              RollBack(answered) \/ \E last \in Height : FlushRun(answered, last)
         \/ \E last, upTo \in Height : RunFails(last, upTo)
<1> DEFINE Same == UNCHANGED <<blocks, agg, index>>
<1>1. UNCHANGED vars \/ NodeStep => Same
  BY DEF vars, NodeStep, NodeExtends, NodeReorgs, db, memory
<1>2. StartPass \/ ProbeAgrees \/ ProbeFails \/ ReadNodeTip \/ BatchStored => Same
  BY DEF StartPass, ProbeAgrees, ProbeFails, ReadNodeTip, BatchStored, db, memory
<1>3. (\E h \in Height : FetchBlock(h)) \/ SkipFinalizedDay \/ RefuseToFinalize \/ PassFails => Same
  BY DEF FetchBlock, SkipFinalizedDay, RefuseToFinalize, PassFails, db
<1>4. ASSUME NEW answered \in BOOLEAN,
             RewindMetrics(answered) \/ FinalizeDay(answered) \/ EndPass(answered)
      PROVE  Same
  BY <1>4 DEF RewindMetrics, FinalizeDay, EndPass
<1> HIDE DEF Same
<1> QED
  BY <1>1, <1>2, <1>3, <1>4 DEF Next, WorkerStep, Failure, Same

\* Entries are written for fetched blocks, whose days are those of the calendar.
LEMMA IndexAfterOnCalendar ==
  ASSUME IInv, NEW day, Calendar(day), DaysInv(day), PricedInv(day),
         NEW run, run \subseteq DOMAIN batch
  PROVE  \A h \in Height : IndexAfter(index, batch, run)[h] \in {NoDay, day[h]}
BY DEF PricedInv, IndexAfter, DaysInv, OnCalendar

\* A restart reads the days of the stored blocks; a crash forgets them.
LEMMA RestartKeepsPrices ==
  ASSUME IInv, NEW day, Calendar(day), DaysInv(day), PricedInv(day), Boot \/ Crash
  PROVE  PricedInv(day)'
<1>1. UNCHANGED <<blocks, agg>> /\ index' \in {IndexOfTable, EmptyIndex}
  BY DEF Boot, Crash, db
<1>2. \A h \in Height : index'[h] \in {NoDay, day[h]}
  BY <1>1 DEF IndexOfTable, EmptyIndex, DaysInv, OnCalendar
<1> QED
  BY <1>1, <1>2 DEF PricedInv

\* A rollback cuts what was priced, and at most the entries.
LEMMA RollBackKeepsPrices ==
  ASSUME IInv, NEW day, PricedInv(day), NEW answered \in BOOLEAN, RollBack(answered)
  PROVE  PricedInv(day)'
<1>1. /\ RollsBack(ForkHeight) /\ agg' = TruncateAbove(agg, ForkHeight)
      /\ index' = index \/ index' = TruncateIndex(index, ForkHeight)
  BY RollBackHeights DEF RollBack
<1>2. \A h \in Height : index'[h] \in {NoDay, day[h]}
  BY <1>1 DEF TruncateIndex, PricedInv
<1>3. /\ DOMAIN blocks' = 0..ForkHeight /\ DOMAIN blocks = 0..Tip /\ ForkHeight \in -1..Tip - 1
      /\ Tip \in Int /\ \A h \in 0..ForkHeight : blocks'[h] = blocks[h]
      /\ DOMAIN agg = DOMAIN blocks
  BY <1>1, TipStored DEF RollsBack, IInv, TypeOK, TablesType
<1>4. \A h \in 0..ForkHeight : h \in DOMAIN blocks /\ agg'[h] = agg[h]
  BY <1>1, <1>3 DEF TruncateAbove, Restrict
<1> QED
  BY <1>2, <1>3, <1>4 DEF PricedInv

\* A run prices its spends at the days their inputs name: the index has them,
\* or the run does, or the coin is of the very block.
LEMMA FlushRunKeepsPrices ==
  ASSUME IInv, NEW day, Calendar(day), DaysInv(day), PricedInv(day), NEW answered \in BOOLEAN,
         NEW last \in Height, FlushRun(answered, last)
  PROVE  PricedInv(day)'
<1> DEFINE run == Tip + 1 .. last
<1>1. /\ Appends(last) /\ pc = "process" /\ Tip < goal /\ IndexCovers(index, batch, run)
      /\ agg' = [h \in DOMAIN agg \cup run |->
                   IF h \in run THEN PricedSpends(index, batch, run, h) ELSE agg[h]]
      /\ index' = IndexAfter(index, batch, run)
  BY FlushRunHeights DEF FlushRun, AtRun, IndexAfterRun
<1>2. /\ DOMAIN blocks' \subseteq DOMAIN blocks \cup run /\ DOMAIN blocks \cap run = {}
      /\ \A h \in DOMAIN blocks : blocks'[h] = blocks[h]
      /\ \A h \in run : blocks'[h] = batch[h] /\ batch[h] \in Block /\ h \in Height
      /\ DOMAIN agg = DOMAIN blocks
  BY <1>1, TipStored DEF Appends, IInv, TypeOK, TablesType
<1>3. run \subseteq DOMAIN batch
  <2>1. Tip + 1 .. goal \subseteq DOMAIN batch /\ goal \in Int
    BY <1>1, RestOfBatch DEF IInv, Control
  <2> QED
    BY <1>1, <2>1 DEF Appends
<1> HIDE DEF run
<1>4. \A h \in run : DayOf[batch[h]] = day[h] /\ day[h] # NoDay
  BY <1>2, <1>3 DEF DaysInv, OnCalendar, Calendar, Days
<1>5. ASSUME NEW h \in run, NEW i \in Inputs[batch[h]]
      PROVE  CostDay(index, batch, run, h, i) = day[i.height]
  <2>1. i.height \in Height /\ index[i.height] \in {NoDay, day[i.height]}
    BY <1>2, ChainAssumption DEF PricedInv
  <2>2. CASE i.height \in run /\ i.height < h
    BY <1>4, <2>2 DEF CostDay
  <2>3. CASE ~(i.height \in run /\ i.height < h)
    <3>1. i.height = h \/ index[i.height] # NoDay
      BY <1>1, <2>3 DEF IndexCovers
    <3>2. CostDay(index, batch, run, h, i)
            = IF index[i.height] = NoDay THEN DayOf[batch[h]] ELSE index[i.height]
      BY <2>3 DEF CostDay
    <3> QED
      BY <1>4, <2>1, <3>1, <3>2
  <2> QED
    BY <2>2, <2>3
<1>6. \A h \in run : agg'[h] = {[coin |-> i.coin, day |-> day[i.height]] : i \in Inputs[batch[h]]}
  BY <1>1, <1>5 DEF PricedSpends
<1>7. \A h \in DOMAIN blocks : agg'[h] = agg[h]
  BY <1>1, <1>2
<1>8. \A h \in Height : index'[h] \in {NoDay, day[h]}
  BY <1>1, <1>3, IndexAfterOnCalendar
<1> QED
  BY <1>2, <1>6, <1>7, <1>8 DEF PricedInv

\* No step loses a price.
LEMMA PricesKept ==
  ASSUME NEW day, Calendar(day)
  PROVE  IInv /\ DaysInv(day) /\ PricedInv(day) /\ [Next]_vars => PricedInv(day)'
<1> SUFFICES ASSUME IInv, DaysInv(day), PricedInv(day), [Next]_vars PROVE PricedInv(day)'
  OBVIOUS
<1>1. CASE UNCHANGED <<blocks, agg, index>>
  BY <1>1 DEF PricedInv
<1>2. ASSUME NEW last \in Height, NEW upTo \in Height, RunFails(last, upTo) PROVE PricedInv(day)'
  <2>1. /\ UNCHANGED <<blocks, agg>> /\ index' = IndexAfter(index, batch, Tip + 1 .. upTo)
        /\ pc = "process" /\ Tip < goal /\ last \in Tip + 1 .. goal /\ upTo \in Tip + 1 .. last
    BY <1>2 DEF RunFails, AtRun, RunEndsAt, db
  <2>2. Tip + 1 .. upTo \subseteq DOMAIN batch
    BY <2>1, RestOfBatch DEF IInv, Control
  <2> QED
    BY <2>1, <2>2, IndexAfterOnCalendar DEF PricedInv
<1> QED
  BY <1>1, <1>2, OnlyPrices, RestartKeepsPrices, RollBackKeepsPrices, FlushRunKeepsPrices

\* A spend deducts the close of the very day its coin's creation was credited
\* at, as long as the coin's row is there to tell: for every set of branches
\* that obeys the consensus rules and whose rivals share their days.
THEOREM SpendsAlwaysPricedAtCreation ==
  Benign /\ ValidBranches /\ SharedDays => (Spec => []SpendsPricedAtCreation)
<1> SUFFICES ASSUME Benign, ValidBranches, NEW day, Calendar(day)
             PROVE  Spec => []SpendsPricedAtCreation
  BY CalendarExists
<1>1. Init => PricedInv(day)
  <2> SUFFICES ASSUME Init PROVE PricedInv(day)
    OBVIOUS
  <2>1. DOMAIN blocks = {} /\ index = EmptyIndex
    BY EmptyTable DEF Init
  <2> QED
    BY <2>1 DEF PricedInv, EmptyIndex
<1>2. IInv /\ CoinInv /\ DaysInv(day) /\ PricedInv(day) => SpendsPricedAtCreation
  <2> SUFFICES ASSUME IInv, CoinInv, DaysInv(day), PricedInv(day),
                      NEW h \in DOMAIN agg, NEW s \in agg[h], s.coin \in DOMAIN utxos
               PROVE  s.day = DayOf[blocks[utxos[s.coin].created]]
    BY DEF SpendsPricedAtCreation
  <2>1. h \in DOMAIN blocks
    BY DEF IInv, TypeOK, TablesType
  <2>2. PICK i \in Inputs[blocks[h]] : s = [coin |-> i.coin, day |-> day[i.height]]
    BY <2>1 DEF PricedInv
  <2>3. ValidChain(blocks)
    BY StoredValid DEF CoinInv, FollowInv
  <2>4. i.height \in DOMAIN blocks /\ i.coin \in Creates[blocks[i.height]]
    BY <2>1, <2>3 DEF ValidChain
  <2>5. utxos[i.coin].created = i.height
    BY <2>2, <2>3, <2>4, RowNamesBlock
  <2> QED
    BY <2>2, <2>4, <2>5 DEF DaysInv, OnCalendar
<1> QED
  BY <1>1, <1>2, PricesKept, CoinsHold, DaysHold, PTL DEF Spec

---------------------------------------------------------------------------
(* Finalized rows. *)

\* Height t ends its day on the calendar, its block is stored, and the node has
\* gone beyond it: no rollback will remove it.
EndsDay(day, t) ==
  /\ t \in DOMAIN blocks /\ t + 1 \in Height /\ day[t] < day[t + 1]
  /\ t < node.height /\ blocks[t] = NodeBlock(t)

\* The row says of the day that ends at t what the blocks 0..t of a chain say.
Says(day, row, c, t) ==
  /\ row.flow = {c[h] : h \in {k \in 0..t : day[k] = day[t]}}
  /\ row.live = Unspent(c, t)
  /\ row.active = UNION {Touched(b) : b \in row.flow}

RowsInv(day) ==
  \A d \in DOMAIN metrics : \E t : EndsDay(day, t) /\ day[t] = d /\ Says(day, metrics[d], blocks, t)

\* The stored blocks up to the end of a day are those of the heights up to it.
LEMMA BlocksUpToDay ==
  ASSUME IInv, NEW day, Calendar(day), OnCalendar(day), NEW t \in DOMAIN blocks,
         t = Tip \/ (t + 1 \in Height /\ day[t] < day[t + 1])
  PROVE  /\ BlocksOfDay(blocks, day[t]) = {blocks[h] : h \in {k \in 0..t : day[k] = day[t]}}
         /\ LiveAtEndOf(day[t]) = Unspent(blocks, t)
<1>1. /\ DOMAIN blocks = 0..Tip /\ DOMAIN blocks \subseteq Height /\ Tip \in Int /\ t \in 0..Tip
      /\ day \in [Height -> Nat]
  BY TipStored DEF Calendar, Days
<1>2. \A h \in DOMAIN blocks : day[h] <= day[t] => h <= t
  <2> SUFFICES ASSUME NEW h \in DOMAIN blocks, day[h] <= day[t], h > t PROVE FALSE
    BY <1>1
  <2>1. t # Tip /\ t + 1 <= h
    BY <1>1
  <2>2. day[t + 1] <= day[h] /\ day[t + 1] \in Nat /\ day[h] \in Nat /\ day[t] \in Nat
    BY <1>1, <2>1 DEF Calendar
  <2> QED
    BY <2>1, <2>2
<1>3. \A h \in 0..t : h \in DOMAIN blocks /\ day[h] <= day[t]
  BY <1>1 DEF Calendar
<1>4. {k \in DOMAIN blocks : DayOf[blocks[k]] = day[t]} = {k \in 0..t : day[k] = day[t]}
  BY <1>1, <1>2, <1>3 DEF OnCalendar
<1>5. {h \in DOMAIN blocks : DayOf[blocks[h]] <= day[t]} = 0..t
  BY <1>1, <1>2, <1>3 DEF OnCalendar
<1> QED
  BY <1>4, <1>5 DEF BlocksOfDay, LiveAtEndOf, Unspent

\* Such rows are what FinalizedDaysExact asks for.
LEMMA RowsExact ==
  ASSUME IInv, NEW day, Calendar(day), DaysInv(day), RowsInv(day)
  PROVE  FinalizedDaysExact
<1> SUFFICES ASSUME NEW d \in DOMAIN metrics
             PROVE  /\ metrics[d].flow = BlocksOfDay(blocks, d)
                    /\ metrics[d].live = LiveAtEndOf(d)
                    /\ metrics[d].active = UNION {Touched(b) : b \in metrics[d].flow}
  BY DEF FinalizedDaysExact
<1>1. PICK t : EndsDay(day, t) /\ day[t] = d /\ Says(day, metrics[d], blocks, t)
  BY DEF RowsInv
<1>2. t \in DOMAIN blocks /\ t + 1 \in Height /\ day[t] < day[t + 1]
  BY <1>1 DEF EndsDay
<1>3. /\ BlocksOfDay(blocks, day[t]) = {blocks[h] : h \in {k \in 0..t : day[k] = day[t]}}
      /\ LiveAtEndOf(day[t]) = Unspent(blocks, t)
  BY <1>2, BlocksUpToDay DEF DaysInv
<1> QED
  BY <1>1, <1>3 DEF Says

\* A row stays true as long as the blocks up to the end of its day stay.
LEMMA RowStays ==
  ASSUME NEW day, NEW row, NEW t \in Nat, EndsDay(day, t), Says(day, row, blocks, t),
         t \in DOMAIN blocks', \A h \in 0..t : blocks'[h] = blocks[h],
         t < node'.height, NodeBlock(t)' = NodeBlock(t)
  PROVE  EndsDay(day, t)' /\ Says(day, row, blocks', t)
<1>1. EndsDay(day, t)'
  BY DEF EndsDay
<1>2. Unspent(blocks', t) = Unspent(blocks, t)
  BY DEF Unspent
<1>3. {blocks'[h] : h \in {k \in 0..t : day[k] = day[t]}}
        = {blocks[h] : h \in {k \in 0..t : day[k] = day[t]}}
  OBVIOUS
<1> QED
  BY <1>1, <1>2, <1>3 DEF Says

\* The node keeps the blocks below its tip.
LEMMA NodeKeepsBelow ==
  ASSUME Benign, IInv, [Next]_vars, NEW t \in Nat, t < node.height
  PROVE  t < node'.height /\ NodeBlock(t)' = NodeBlock(t)
<1>1. CASE UNCHANGED node
  BY <1>1 DEF NodeBlock
<1>2. CASE NodeExtends
  <2>1. node'.height = node.height + 1 /\ node'.chain = node.chain
    BY <1>2 DEF NodeExtends, IInv, TypeOK, NodeType
  <2> QED
    BY <2>1, NodeHeights DEF NodeBlock
<1>3. ASSUME NEW br \in Branch, NEW fork \in Height, NodeReorgs(br, fork)
      PROVE  t < node'.height /\ NodeBlock(t)' = NodeBlock(t)
  <2>1. node'.chain = br /\ node'.height = node.height + 1
    BY <1>3 DEF NodeReorgs
  <2>2. br[t] = NodeBlock(t)
    BY <1>3, BenignReorg, NodeHeights
  <2> QED
    BY <2>1, <2>2, NodeHeights DEF NodeBlock
<1>4. NodeStep \/ UNCHANGED node
  <2>1. ASSUME NEW answered \in BOOLEAN,
               RollBack(answered) \/ EndPass(answered) \/ \E last \in Height : FlushRun(answered, last)
        PROVE  UNCHANGED node
    BY <2>1 DEF RollBack, EndPass, FlushRun, world
  <2> QED
    BY <2>1, OnlyMovesCoins
<1> QED
  BY <1>1, <1>2, <1>3, <1>4 DEF NodeStep

\* No step takes back a day that has ended: a rollback stays above it.
LEMMA EndStays ==
  ASSUME Benign, IInv, FollowInv, [Next]_vars, NEW day, NEW t, EndsDay(day, t)
  PROVE  /\ t \in Nat /\ t \in DOMAIN blocks' /\ \A h \in 0..t : blocks'[h] = blocks[h]
         /\ t < node'.height /\ NodeBlock(t)' = NodeBlock(t)
<1>1. t \in 0..Tip /\ Tip \in Nat /\ DOMAIN blocks = 0..Tip /\ t < node.height
  BY TipStored DEF EndsDay, None
<1>2. t < node'.height /\ NodeBlock(t)' = NodeBlock(t)
  BY <1>1, NodeKeepsBelow
<1>3. CASE UNCHANGED blocks
  BY <1>1, <1>2, <1>3
<1>4. ASSUME NEW answered \in BOOLEAN, RollBack(answered)
      PROVE  t \in DOMAIN blocks' /\ \A h \in 0..t : blocks'[h] = blocks[h]
  <2>1. RollsBack(Tip - 1) /\ ~TipFollowed
    BY <1>4, RollBackFollows, RollBackHeights
  <2>2. t # Tip
    BY <2>1 DEF TipFollowed, EndsDay
  <2>3. DOMAIN blocks' = 0..Tip - 1 /\ \A h \in 0..Tip - 1 : blocks'[h] = blocks[h]
    BY <2>1 DEF RollsBack
  <2> QED
    BY <1>1, <2>2, <2>3
<1>5. ASSUME NEW answered \in BOOLEAN, NEW last \in Height, FlushRun(answered, last)
      PROVE  t \in DOMAIN blocks' /\ \A h \in 0..t : blocks'[h] = blocks[h]
  <2>1. DOMAIN blocks' = 0..last /\ last > Tip /\ \A h \in 0..Tip : blocks'[h] = blocks[h]
    <3>1. Appends(last)
      BY <1>5, FlushRunHeights
    <3>2. last \in Int /\ Tip \in Int
      BY <1>1, ChainAssumption DEF Height
    <3> QED
      BY <3>1, <3>2 DEF Appends
  <2> QED
    BY <1>1, <2>1, ChainAssumption DEF Height
<1>6. ASSUME NEW answered \in BOOLEAN, EndPass(answered) PROVE UNCHANGED blocks
  BY <1>6 DEF EndPass
<1> QED
  BY <1>1, <1>2, <1>3, <1>4, <1>5, <1>6, OnlyMovesCoins

\* The new row is exact: the whole day is stored, the live rows are the unspent
\* coins, and the staged addresses are those its blocks touch.
LEMMA NewRowSays ==
  ASSUME IInv, CoinInv, NEW day, Calendar(day), DaysInv(day), StagingInv,
         NEW answered \in BOOLEAN, FinalizeDay(answered)
  PROVE  /\ EndsDay(day, Tip) /\ day[Tip] = runDay
         /\ Says(day, DayRow(blocks, utxos, staged, supply, runDay), blocks, Tip)
<1>1. AtBoundary /\ pc = "process" /\ Tip < goal /\ runDay # NextDay /\ ~(runDay <= finalized)
  BY DEF FinalizeDay, AtBoundary, AlreadyFinalized
<1>2. /\ Tip # None /\ runDay = day[Tip] /\ NextDay = day[Tip + 1] /\ Tip + 1 \in Height
      /\ Tip \in DOMAIN blocks /\ Tip \in Height /\ Tip \in Int
  BY <1>1, BoundaryDay, TipStored
<1>3. EndsDay(day, Tip)
  <2>1. day[Tip] < day[Tip + 1]
    <3>1. day[Tip] <= day[Tip + 1] /\ day[Tip] \in Nat /\ day[Tip + 1] \in Nat
      BY <1>2 DEF Calendar, Days
    <3> QED
      BY <1>1, <1>2, <3>1
  <2>2. TipFollowed /\ goal <= node.height /\ goal \in Int
    BY <1>1, RestOfBatch DEF CoinInv, FollowInv, Followed
  <2>3. Tip < node.height
    BY <1>1, <1>2, <2>2, NodeHeights
  <2> QED
    BY <1>2, <2>1, <2>2, <2>3 DEF EndsDay, TipFollowed
<1> DEFINE row == DayRow(blocks, utxos, staged, supply, runDay)
<1>4. row.flow = {blocks[h] : h \in {k \in 0..Tip : day[k] = day[Tip]}}
  <2>1. BlocksOfDay(blocks, day[Tip]) = {blocks[h] : h \in {k \in 0..Tip : day[k] = day[Tip]}}
    BY <1>2, BlocksUpToDay DEF DaysInv
  <2> QED
    BY <1>2, <2>1 DEF DayRow
<1>5. row.live = Unspent(blocks, Tip)
  BY LiveIsUnspent DEF DayRow
<1>6. StagedOn(staged, runDay) = UNION {Touched(b) : b \in BlocksOfDay(blocks, runDay)}
  <2>1. ASSUME NEW a \in StagedOn(staged, runDay)
        PROVE  \E b \in BlocksOfDay(blocks, runDay) : a \in Touched(b)
    <3>1. PICK key \in DOMAIN staged : key[1] = runDay /\ a = key[2]
      BY DEF StagedOn
    <3>2. /\ staged[key] \in DOMAIN blocks /\ DayOf[blocks[staged[key]]] = runDay
          /\ a \in Touched(blocks[staged[key]])
      BY <3>1 DEF StagingInv, StagedBacked
    <3> QED
      BY <3>2 DEF BlocksOfDay
  <2>2. ASSUME NEW b \in BlocksOfDay(blocks, runDay), NEW a \in Touched(b)
        PROVE  a \in StagedOn(staged, runDay)
    <3>1. PICK h \in DOMAIN blocks : DayOf[blocks[h]] = runDay /\ b = blocks[h]
      BY DEF BlocksOfDay
    <3>2. runDay > finalized
      BY <1>1, WorkerAssumption DEF IInv, TypeOK, RollupType, MemoryType
    <3>3. <<runDay, a>> \in DOMAIN staged
      BY <3>1, <3>2 DEF StagingInv, StagedLeast
    <3> QED
      BY <3>3 DEF StagedOn
  <2> QED
    BY <2>1, <2>2
<1>7. row.active = UNION {Touched(b) : b \in row.flow}
  BY <1>6 DEF DayRow
<1> HIDE DEF row
<1>8. Says(day, row, blocks, Tip)
  BY <1>4, <1>5, <1>7 DEF Says
<1> QED
  BY <1>2, <1>3, <1>8 DEF row

\* A step writes no row but the new one.
LEMMA OnlyNewRow ==
  ASSUME [Next]_vars, NEW d \in DOMAIN metrics'
  PROVE  \/ d \in DOMAIN metrics /\ metrics'[d] = metrics[d]
         \/ \E answered \in BOOLEAN :
              /\ FinalizeDay(answered) /\ d = runDay
              /\ metrics'[d] = DayRow(blocks, utxos, staged, supply, runDay)
<1>1. CASE UNCHANGED metrics
  BY <1>1
<1>2. ASSUME NEW answered \in BOOLEAN, RewindMetrics(answered)
      PROVE  d \in DOMAIN metrics /\ metrics'[d] = metrics[d]
  <2>1. UNCHANGED metrics \/ \E last : metrics' = RowsUpTo(metrics, last)
    BY <1>2 DEF RewindMetrics
  <2> QED
    BY <2>1 DEF RowsUpTo, Restrict
<1>3. ASSUME NEW answered \in BOOLEAN, FinalizeDay(answered)
      PROVE  \/ d \in DOMAIN metrics /\ metrics'[d] = metrics[d]
             \/ d = runDay /\ metrics'[d] = DayRow(blocks, utxos, staged, supply, runDay)
  <2>1. metrics' = InsertRow(metrics, runDay, DayRow(blocks, utxos, staged, supply, runDay))
    BY <1>3 DEF FinalizeDay
  <2> QED
    BY <2>1 DEF InsertRow
<1>4. ASSUME NEW answered \in BOOLEAN, RollBack(answered) \/ \E last \in Height : FlushRun(answered, last)
      PROVE  UNCHANGED metrics
  BY <1>4 DEF RollBack, FlushRun
<1> QED
  BY <1>1, <1>2, <1>3, <1>4, OnlyWrites DEF Writes

\* Every row stays exact.
LEMMA RowsKeptExact ==
  ASSUME Benign, NEW day, Calendar(day)
  PROVE  IInv /\ CoinInv /\ DaysInv(day) /\ StagingInv /\ RowsInv(day) /\ [Next]_vars
           => RowsInv(day)'
<1> SUFFICES ASSUME IInv, CoinInv, DaysInv(day), StagingInv, RowsInv(day), [Next]_vars,
                    NEW d \in DOMAIN metrics'
             PROVE  \E t : EndsDay(day, t)' /\ day[t] = d /\ Says(day, metrics'[d], blocks', t)
  BY DEF RowsInv
<1>1. ASSUME NEW row, NEW t, EndsDay(day, t), Says(day, row, blocks, t)
      PROVE  EndsDay(day, t)' /\ Says(day, row, blocks', t)
  BY <1>1, EndStays, RowStays DEF CoinInv
<1>2. CASE d \in DOMAIN metrics /\ metrics'[d] = metrics[d]
  <2>1. PICK t : EndsDay(day, t) /\ day[t] = d /\ Says(day, metrics[d], blocks, t)
    BY <1>2 DEF RowsInv
  <2>2. EndsDay(day, t)' /\ Says(day, metrics[d], blocks', t)
    BY <2>1, <1>1
  <2> QED
    BY <1>2, <2>1, <2>2
<1>3. ASSUME NEW answered \in BOOLEAN, FinalizeDay(answered), d = runDay,
             metrics'[d] = DayRow(blocks, utxos, staged, supply, runDay)
      PROVE  \E t : EndsDay(day, t)' /\ day[t] = d /\ Says(day, metrics'[d], blocks', t)
  <2>1. EndsDay(day, Tip) /\ day[Tip] = runDay /\ Says(day, metrics'[d], blocks, Tip)
    BY <1>3, NewRowSays
  <2> QED
    BY <1>1, <1>3, <2>1
<1> QED
  BY <1>2, <1>3, OnlyNewRow

\* Every finalized row is what the stored chain says of that day, all of its
\* blocks, the live set and the active addresses it ended with, and stays so:
\* for every set of branches that obeys the consensus rules and whose rivals
\* share their days, through reorganizations between two passes, failures,
\* lost acknowledgements and restarts.
THEOREM FinalizedDaysStayExact ==
  Benign /\ ValidBranches /\ SharedDays => (Spec => []FinalizedDaysExact)
<1> SUFFICES ASSUME Benign, ValidBranches, NEW day, Calendar(day)
             PROVE  Spec => []FinalizedDaysExact
  BY CalendarExists
<1>1. Init => RowsInv(day)
  <2> SUFFICES ASSUME Init PROVE RowsInv(day)
    OBVIOUS
  <2>1. DOMAIN metrics = {}
    BY EmptyTable DEF Init
  <2> QED
    BY <2>1 DEF RowsInv
<1>2. IInv /\ DaysInv(day) /\ RowsInv(day) => FinalizedDaysExact
  BY RowsExact
<1> QED
  BY <1>1, <1>2, RowsKeptExact, CoinsHold, DaysHold, StagingHolds, PTL DEF Spec
=============================================================================
