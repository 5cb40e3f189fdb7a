--------------------------- MODULE ServicesProofs ---------------------------
(***************************************************************************)
(* What is proved of each service holds of the services together: a part   *)
(* of Services is an instance of its component, and so is the module in    *)
(* which the component's theorems are proved.                              *)
(***************************************************************************)
EXTENDS Services, TLAPS

\* The lock and the keys under the bounds of their two parts each.
P1 == INSTANCE ComponentProofs WITH
  Worker <- ForHeld.Worker, MaxHeight <- ForHeld.MaxHeight, MaxReorgs <- ForHeld.MaxReorgs,
  SessionDrops <- ForHeld.SessionDrops, MaxStops <- ForHeld.MaxStops, Lane <- ForFetch.Lane,
  Blocks <- ForFetch.Blocks, MaxRetries <- ForFetch.MaxRetries,
  MaxFetches <- ForFetch.MaxFetches, Threshold <- ForDog.Threshold,
  CheckEvery <- ForDog.CheckEvery, CallBudget <- ForDog.CallBudget, StageMax <- ForDog.StageMax,
  Nap <- ForDog.Nap, Probes <- ForDog.Probes, Batch <- ForDog.Batch, PassCap <- ForDog.PassCap,
  Ip <- ForRate.Ip, Limit <- ForRate.Limit, MaxKeys <- ForRate.MaxKeys,
  MaxWindows <- ForRate.MaxWindows, MaxHits <- ForRate.MaxHits, Root <- ForRevoke.Root,
  Admin <- ForRevoke.Admin, Key <- ForRevoke.Key, Request <- ForRevoke.Request,
  MaxActs <- ForRevoke.MaxActs, MaxUses <- ForRevoke.MaxUses, Chains <- ForTx.Chains,
  TxIn <- ForTx.TxIn, Synced0 <- ForTx.Synced0, TxIndex <- ForTx.TxIndex,
  MaxFaults <- ForTx.MaxFaults, MaxAsks <- ForTx.MaxAsks, Coin <- ForAddress.Coin,
  ListMax <- ForAddress.ListMax, Price <- ForAddress.Price, MaxTip <- ForAddress.MaxHeight,
  Alert <- ForWatch.Alert, Above <- ForWatch.Above, Checker <- ForWatch.Checker,
  MaxAlerts <- ForWatch.Limit, MaxDays <- ForWatch.MaxDays, Nulls <- ForWatch.Nulls,
  MaxRewinds <- ForWatch.MaxRewinds, MaxSendFaults <- ForWatch.MaxFaults, Views <- ForLoad.Views,
  Ids <- ForLoad.Ids, TxCount <- ForLoad.TxCount, TxPage <- ForLoad.TxPage,
  PendingPolls <- ForLoad.PendingPolls, MaxNav <- ForLoad.MaxNav,
  MaxSearches <- ForLoad.MaxSearches,
  Asker <- ForShared.Request, BestChains <- ForShared.Chains, Wanted <- ForShared.Wanted,
  Rows0 <- ForShared.Rows0, NTx <- ForShared.NTx, Paged <- ForShared.TxPage,
  CacheMax <- ForShared.CacheMax, MaxNodeFaults <- ForShared.MaxFaults,
  MaxPageAsks <- ForShared.MaxAsks, request <- admin, asker <- request
P2 == INSTANCE ComponentProofs WITH
  Worker <- ForLost.Worker, MaxHeight <- ForLost.MaxHeight, MaxReorgs <- ForLost.MaxReorgs,
  SessionDrops <- ForLost.SessionDrops, MaxStops <- ForLost.MaxStops, Lane <- ForFetch.Lane,
  Blocks <- ForFetch.Blocks, MaxRetries <- ForFetch.MaxRetries,
  MaxFetches <- ForFetch.MaxFetches, Threshold <- ForDog.Threshold,
  CheckEvery <- ForDog.CheckEvery, CallBudget <- ForDog.CallBudget, StageMax <- ForDog.StageMax,
  Nap <- ForDog.Nap, Probes <- ForDog.Probes, Batch <- ForDog.Batch, PassCap <- ForDog.PassCap,
  Ip <- ForRate.Ip, Limit <- ForRate.Limit, MaxKeys <- ForRate.MaxKeys,
  MaxWindows <- ForRate.MaxWindows, MaxHits <- ForRate.MaxHits, Root <- ForCount.Root,
  Admin <- ForCount.Admin, Key <- ForCount.Key, Request <- ForCount.Request,
  MaxActs <- ForCount.MaxActs, MaxUses <- ForCount.MaxUses, Chains <- ForTx.Chains,
  TxIn <- ForTx.TxIn, Synced0 <- ForTx.Synced0, TxIndex <- ForTx.TxIndex,
  MaxFaults <- ForTx.MaxFaults, MaxAsks <- ForTx.MaxAsks, Coin <- ForAddress.Coin,
  ListMax <- ForAddress.ListMax, Price <- ForAddress.Price, MaxTip <- ForAddress.MaxHeight,
  Alert <- ForOverlap.Alert, Above <- ForOverlap.Above, Checker <- ForOverlap.Checker,
  MaxAlerts <- ForOverlap.Limit, MaxDays <- ForOverlap.MaxDays, Nulls <- ForOverlap.Nulls,
  MaxRewinds <- ForOverlap.MaxRewinds, MaxSendFaults <- ForOverlap.MaxFaults, Views <- ForSearch.Views,
  Ids <- ForSearch.Ids, TxCount <- ForSearch.TxCount, TxPage <- ForSearch.TxPage,
  PendingPolls <- ForSearch.PendingPolls, MaxNav <- ForSearch.MaxNav,
  MaxSearches <- ForSearch.MaxSearches,
  Asker <- ForShared.Request, BestChains <- ForShared.Chains, Wanted <- ForShared.Wanted,
  Rows0 <- ForShared.Rows0, NTx <- ForShared.NTx, Paged <- ForShared.TxPage,
  CacheMax <- ForShared.CacheMax, MaxNodeFaults <- ForShared.MaxFaults,
  MaxPageAsks <- ForShared.MaxAsks, request <- admin, asker <- request
SettlingP == INSTANCE PriceBookProofs WITH
  Offered <- ForSettling.Offered, FirstClose <- ForSettling.FirstClose,
  MaxDay <- ForSettling.MaxDay, MaxHeight <- ForSettling.MaxHeight,
  RevisionWindow <- ForSettling.RevisionWindow, MayRevise <- ForSettling.MayRevise,
  MayReopen <- ForSettling.MayReopen, MayLoseAck <- ForSettling.MayLoseAck,
  MaxRollbacks <- ForSettling.MaxRollbacks, MaxFaults <- ForSettling.MaxFaults,
  rows <- finalRows, spent <- spentAt, counter <- capital, pc <- place, faults <- priceFaults
RevisingP == INSTANCE PriceBookProofs WITH
  Offered <- ForRevising.Offered, FirstClose <- ForRevising.FirstClose,
  MaxDay <- ForRevising.MaxDay, MaxHeight <- ForRevising.MaxHeight,
  RevisionWindow <- ForRevising.RevisionWindow, MayRevise <- ForRevising.MayRevise,
  MayReopen <- ForRevising.MayReopen, MayLoseAck <- ForRevising.MayLoseAck,
  MaxRollbacks <- ForRevising.MaxRollbacks, MaxFaults <- ForRevising.MaxFaults,
  rows <- finalRows, spent <- spentAt, counter <- capital, pc <- place, faults <- priceFaults
SubscribeP == INSTANCE NewslettersProofs WITH
  Address <- ForSubscribe.Address, Readers <- ForSubscribe.Readers,
  Campaign <- ForSubscribe.Campaign, Tick <- ForSubscribe.Tick,
  MaxAsks <- ForSubscribe.MaxAsks, MaxEdits <- ForSubscribe.MaxEdits,
  MaxFaults <- ForSubscribe.MaxFaults, MaxStops <- ForSubscribe.MaxStops, rows <- people,
  asks <- signups, stops <- cuts
SendingP == INSTANCE NewslettersProofs WITH
  Address <- ForSending.Address, Readers <- ForSending.Readers,
  Campaign <- ForSending.Campaign, Tick <- ForSending.Tick, MaxAsks <- ForSending.MaxAsks,
  MaxEdits <- ForSending.MaxEdits, MaxFaults <- ForSending.MaxFaults,
  MaxStops <- ForSending.MaxStops, rows <- people, asks <- signups, stops <- cuts

\* The part "held" is the instance of SyncLock that the theorems about it speak of.
LEMMA HeldIs ==
  /\ Held!Init <=> P1!Lock!Init
  /\ [Held!Next]_(Held!vars) <=> [P1!Lock!Next]_(P1!Lock!vars)
  /\ Held!SingleWriter <=> P1!Lock!SingleWriter
  /\ Held!NobodyAssumption <=> P1!Lock!NobodyAssumption
<1>1. Held!Init <=> P1!Lock!Init
  BY DEF Held!Nobody, P1!Lock!Nobody, Held!Init, P1!Lock!Init
<1>2. Held!Next <=> P1!Lock!Next
  BY DEF Held!Nobody, P1!Lock!Nobody, Held!tables, P1!Lock!tables, Held!bounds, P1!Lock!bounds,
    Held!Tip, P1!Lock!Tip, Held!LastDay, P1!Lock!LastDay, Held!Writing, P1!Lock!Writing, Held!Goes,
    P1!Lock!Goes, Held!Acquire, P1!Lock!Acquire, Held!Granted, P1!Lock!Granted, Held!Leaves,
    P1!Lock!Leaves, Held!Ends, P1!Lock!Ends, Held!Stopped, P1!Lock!Stopped, Held!Replaced,
    P1!Lock!Replaced, Held!SessionDropped, P1!Lock!SessionDropped, Held!NoticesLoss,
    P1!Lock!NoticesLoss, Held!StartPass, P1!Lock!StartPass, Held!Guard, P1!Lock!Guard,
    Held!RollupRereads, P1!Lock!RollupRereads, Held!Rollup, P1!Lock!Rollup, Held!StoreReads,
    P1!Lock!StoreReads, Held!Duplicate, P1!Lock!Duplicate, Held!StoreCommits, P1!Lock!StoreCommits,
    Held!CutReads, P1!Lock!CutReads, Held!CutCommits, P1!Lock!CutCommits, Held!Step, P1!Lock!Step,
    Held!Next, P1!Lock!Next, Held!Cardinality, P1!Lock!Cardinality, Held!Max, P1!Lock!Max,
    Held!Range, P1!Lock!Range, Held!RemoveAt, P1!Lock!RemoveAt, Cardinality
<1>3. [Held!Next]_(Held!vars) <=> [P1!Lock!Next]_(P1!Lock!vars)
  BY <1>2 DEF Held!vars, P1!Lock!vars
<1>4. Held!SingleWriter <=> P1!Lock!SingleWriter
  BY DEF Held!Tip, P1!Lock!Tip, Held!Writing, P1!Lock!Writing, Held!OneWriter, P1!Lock!OneWriter,
    Held!BooksReconcile, P1!Lock!BooksReconcile, Held!DaysCountedOnce, P1!Lock!DaysCountedOnce,
    Held!SingleWriter, P1!Lock!SingleWriter, Held!Cardinality, P1!Lock!Cardinality, Held!Max,
    P1!Lock!Max, Cardinality
<1>5. Held!NobodyAssumption <=> P1!Lock!NobodyAssumption
  BY DEF Held!Nobody, P1!Lock!Nobody, Held!NobodyAssumption, P1!Lock!NobodyAssumption
<1> QED
  BY <1>1, <1>3, <1>4, <1>5

\* The part "lost" is the instance of SyncLock that the theorems about it speak of.
LEMMA LostIs ==
  /\ Lost!Init <=> P2!Lock!Init
  /\ [Lost!Next]_(Lost!vars) <=> [P2!Lock!Next]_(P2!Lock!vars)
  /\ Lost!SingleWriter <=> P2!Lock!SingleWriter
  /\ Lost!NobodyAssumption <=> P2!Lock!NobodyAssumption
<1>1. Lost!Init <=> P2!Lock!Init
  BY DEF Lost!Nobody, P2!Lock!Nobody, Lost!Init, P2!Lock!Init
<1>2. Lost!Next <=> P2!Lock!Next
  BY DEF Lost!Nobody, P2!Lock!Nobody, Lost!tables, P2!Lock!tables, Lost!bounds, P2!Lock!bounds,
    Lost!Tip, P2!Lock!Tip, Lost!LastDay, P2!Lock!LastDay, Lost!Writing, P2!Lock!Writing, Lost!Goes,
    P2!Lock!Goes, Lost!Acquire, P2!Lock!Acquire, Lost!Granted, P2!Lock!Granted, Lost!Leaves,
    P2!Lock!Leaves, Lost!Ends, P2!Lock!Ends, Lost!Stopped, P2!Lock!Stopped, Lost!Replaced,
    P2!Lock!Replaced, Lost!SessionDropped, P2!Lock!SessionDropped, Lost!NoticesLoss,
    P2!Lock!NoticesLoss, Lost!StartPass, P2!Lock!StartPass, Lost!Guard, P2!Lock!Guard,
    Lost!RollupRereads, P2!Lock!RollupRereads, Lost!Rollup, P2!Lock!Rollup, Lost!StoreReads,
    P2!Lock!StoreReads, Lost!Duplicate, P2!Lock!Duplicate, Lost!StoreCommits, P2!Lock!StoreCommits,
    Lost!CutReads, P2!Lock!CutReads, Lost!CutCommits, P2!Lock!CutCommits, Lost!Step, P2!Lock!Step,
    Lost!Next, P2!Lock!Next, Lost!Cardinality, P2!Lock!Cardinality, Lost!Max, P2!Lock!Max,
    Lost!Range, P2!Lock!Range, Lost!RemoveAt, P2!Lock!RemoveAt, Cardinality
<1>3. [Lost!Next]_(Lost!vars) <=> [P2!Lock!Next]_(P2!Lock!vars)
  BY <1>2 DEF Lost!vars, P2!Lock!vars
<1>4. Lost!SingleWriter <=> P2!Lock!SingleWriter
  BY DEF Lost!Tip, P2!Lock!Tip, Lost!Writing, P2!Lock!Writing, Lost!OneWriter, P2!Lock!OneWriter,
    Lost!BooksReconcile, P2!Lock!BooksReconcile, Lost!DaysCountedOnce, P2!Lock!DaysCountedOnce,
    Lost!SingleWriter, P2!Lock!SingleWriter, Lost!Cardinality, P2!Lock!Cardinality, Lost!Max,
    P2!Lock!Max, Cardinality
<1>5. Lost!NobodyAssumption <=> P2!Lock!NobodyAssumption
  BY DEF Lost!Nobody, P2!Lock!Nobody, Lost!NobodyAssumption, P2!Lock!NobodyAssumption
<1> QED
  BY <1>1, <1>3, <1>4, <1>5

\* The part "fetch" is the instance of FetchLanes that the theorems about it speak of.
LEMMA FetchIs ==
  /\ Fetch!Init <=> P1!Lanes!Init
  /\ [Fetch!Next]_(Fetch!vars) <=> [P1!Lanes!Next]_(P1!Lanes!vars)
  /\ Fetch!ResolvedIsComplete <=> P1!Lanes!ResolvedIsComplete
  /\ Fetch!FetchAssumption <=> P1!Lanes!FetchAssumption
<1>1. Fetch!Init <=> P1!Lanes!Init
  BY DEF Fetch!Fetch, P1!Lanes!Fetch, Fetch!AtTop, P1!Lanes!AtTop, Fetch!Init, P1!Lanes!Init
<1>2. Fetch!Next <=> P1!Lanes!Next
  BY DEF Fetch!Fetch, P1!Lanes!Fetch, Fetch!Asking, P1!Lanes!Asking, Fetch!AtTop, P1!Lanes!AtTop,
    Fetch!Start, P1!Lanes!Start, Fetch!At, P1!Lanes!At, Fetch!Claimed, P1!Lanes!Claimed, Fetch!Take,
    P1!Lanes!Take, Fetch!Return, P1!Lanes!Return, Fetch!HashArrives, P1!Lanes!HashArrives,
    Fetch!BlockArrives, P1!Lanes!BlockArrives, Fetch!MayRetry, P1!Lanes!MayRetry, Fetch!Rejects,
    P1!Lanes!Rejects, Fetch!RequestFails, P1!Lanes!RequestFails, Fetch!Step, P1!Lanes!Step,
    Fetch!Next, P1!Lanes!Next
<1>3. [Fetch!Next]_(Fetch!vars) <=> [P1!Lanes!Next]_(P1!Lanes!vars)
  BY <1>2 DEF Fetch!vars, P1!Lanes!vars
<1>4. Fetch!ResolvedIsComplete <=> P1!Lanes!ResolvedIsComplete
  BY DEF Fetch!Fetch, P1!Lanes!Fetch, Fetch!Asking, P1!Lanes!Asking, Fetch!NoHole, P1!Lanes!NoHole,
    Fetch!NoHeightTwice, P1!Lanes!NoHeightTwice, Fetch!CallerIsTold, P1!Lanes!CallerIsTold,
    Fetch!ResolvedIsComplete, P1!Lanes!ResolvedIsComplete
<1>5. Fetch!FetchAssumption <=> P1!Lanes!FetchAssumption
  BY DEF Fetch!FetchAssumption, P1!Lanes!FetchAssumption
<1> QED
  BY <1>1, <1>3, <1>4, <1>5

\* The part "dog" is the instance of Watchdog that the theorems about it speak of.
LEMMA DogIs ==
  /\ Dog!Init <=> P1!Dog!Init
  /\ [Dog!Next]_(Dog!vars) <=> [P1!Dog!Next]_(P1!Dog!vars)
  /\ Dog!ExitsExactly <=> P1!Dog!ExitsExactly
  /\ Dog!WatchdogAssumption <=> P1!Dog!WatchdogAssumption
  /\ Dog!MarginAssumption <=> P1!Dog!MarginAssumption
<1>1. Dog!Init <=> P1!Dog!Init
  BY DEF Dog!Init, P1!Dog!Init
<1>2. Dog!Next <=> P1!Dog!Next
  BY DEF Dog!Calls, P1!Dog!Calls, Dog!Work, P1!Dog!Work, Dog!Pauses, P1!Dog!Pauses, Dog!AtMost,
    P1!Dog!AtMost, Dog!Enter, P1!Dog!Enter, Dog!Touch, P1!Dog!Touch, Dog!Untold, P1!Dog!Untold,
    Dog!GivesUp, P1!Dog!GivesUp, Dog!Quiet, P1!Dog!Quiet, Dog!Limit, P1!Dog!Limit, Dog!Tick,
    P1!Dog!Tick, Dog!Stalled, P1!Dog!Stalled, Dog!Check, P1!Dog!Check, Dog!Restart, P1!Dog!Restart,
    Dog!StartPass, P1!Dog!StartPass, Dog!PricesEnd, P1!Dog!PricesEnd, Dog!ProbeAnswers,
    P1!Dog!ProbeAnswers, Dog!Unanswered, P1!Dog!Unanswered, Dog!ProbeFails, P1!Dog!ProbeFails,
    Dog!InfoAnswers, P1!Dog!InfoAnswers, Dog!HashAnswers, P1!Dog!HashAnswers, Dog!Landed,
    P1!Dog!Landed, Dog!BlockLands, P1!Dog!BlockLands, Dog!PassFails, P1!Dog!PassFails,
    Dog!OrphanLands, P1!Dog!OrphanLands, Dog!Commits, P1!Dog!Commits, Dog!WorkFails,
    P1!Dog!WorkFails, Dog!Next, P1!Dog!Next
<1>3. [Dog!Next]_(Dog!vars) <=> [P1!Dog!Next]_(P1!Dog!vars)
  BY <1>2 DEF Dog!vars, P1!Dog!vars
<1>4. Dog!ExitsExactly <=> P1!Dog!ExitsExactly
  BY DEF Dog!NoFalseExit, P1!Dog!NoFalseExit, Dog!SilenceEndsInExit, P1!Dog!SilenceEndsInExit,
    Dog!ExitsExactly, P1!Dog!ExitsExactly
<1>5. Dog!WatchdogAssumption <=> P1!Dog!WatchdogAssumption
  BY DEF Dog!WatchdogAssumption, P1!Dog!WatchdogAssumption
<1>6. Dog!MarginAssumption <=> P1!Dog!MarginAssumption
  BY DEF Dog!MarginAssumption, P1!Dog!MarginAssumption
<1> QED
  BY <1>1, <1>3, <1>4, <1>5, <1>6

\* The part "settling" is the instance of PriceBook that the theorems about it speak of.
LEMMA SettlingIs ==
  /\ Settling!Init <=> SettlingP!Init
  /\ [Settling!Next]_(Settling!vars) <=> [SettlingP!Next]_(SettlingP!vars)
  /\ Settling!PricesReconcile <=> SettlingP!PricesReconcile
  /\ Settling!PriceAssumption <=> SettlingP!PriceAssumption
<1>1. Settling!Init <=> SettlingP!Init
  BY DEF Settling!Init, SettlingP!Init
<1>2. Settling!Next <=> SettlingP!Next
  BY DEF Settling!books, SettlingP!books, Settling!Day, SettlingP!Day, Settling!Tip, SettlingP!Tip,
    Settling!TipDay, SettlingP!TipDay, Settling!Live, SettlingP!Live, Settling!Total,
    SettlingP!Total, Settling!Faulty, SettlingP!Faulty, Settling!Storable, SettlingP!Storable,
    Settling!Upserted, SettlingP!Upserted, Settling!Sound, SettlingP!Sound, Settling!Settled,
    SettlingP!Settled, Settling!Offers, SettlingP!Offers, Settling!SyncPrices, SettlingP!SyncPrices,
    Settling!Boot, SettlingP!Boot, Settling!Fallback, SettlingP!Fallback, Settling!Answer,
    SettlingP!Answer, Settling!Flagged, SettlingP!Flagged, Settling!Cached, SettlingP!Cached,
    Settling!MayExtend, SettlingP!MayExtend, Settling!Spendable, SettlingP!Spendable,
    Settling!DaysAsked, SettlingP!DaysAsked, Settling!Delta, SettlingP!Delta, Settling!ProcessBlock,
    SettlingP!ProcessBlock, Settling!ProcessFails, SettlingP!ProcessFails, Settling!UnspentAbove,
    SettlingP!UnspentAbove, Settling!RollBack, SettlingP!RollBack, Settling!Restamped,
    SettlingP!Restamped, Settling!MirrorsCredit, SettlingP!MirrorsCredit, Settling!RepriceCommits,
    SettlingP!RepriceCommits, Settling!CacheAfterReprice, SettlingP!CacheAfterReprice,
    Settling!Reprice, SettlingP!Reprice, Settling!RepriceAckLost, SettlingP!RepriceAckLost,
    Settling!GateOpen, SettlingP!GateOpen, Settling!FinalizeDay, SettlingP!FinalizeDay,
    Settling!FinalizeFails, SettlingP!FinalizeFails, Settling!Crash, SettlingP!Crash,
    Settling!DayTurns, SettlingP!DayTurns, Settling!Next, SettlingP!Next, Settling!Max,
    SettlingP!Max, Settling!Restrict, SettlingP!Restrict, Settling!SumFunctionOnSet,
    SettlingP!SumFunctionOnSet, Settling!FoldFunctionOnSet, SettlingP!FoldFunctionOnSet,
    Settling!MapThenFoldSet, SettlingP!MapThenFoldSet
<1>3. [Settling!Next]_(Settling!vars) <=> [SettlingP!Next]_(SettlingP!vars)
  BY <1>2 DEF Settling!vars, SettlingP!vars
<1>4. Settling!PricesReconcile <=> SettlingP!PricesReconcile
  BY DEF Settling!Tip, SettlingP!Tip, Settling!Live, SettlingP!Live, Settling!Total,
    SettlingP!Total, Settling!Fallback, SettlingP!Fallback, Settling!Answer, SettlingP!Answer,
    Settling!RollbackExact, SettlingP!RollbackExact, Settling!CacheFresh, SettlingP!CacheFresh,
    Settling!RowsShowCloses, SettlingP!RowsShowCloses, Settling!FinalizedIsSettled,
    SettlingP!FinalizedIsSettled, Settling!RealizedCapReconciles, SettlingP!RealizedCapReconciles,
    Settling!SpendsSeeTheirStamp, SettlingP!SpendsSeeTheirStamp, Settling!ProvisionalIsMarked,
    SettlingP!ProvisionalIsMarked, Settling!PricesReconcile, SettlingP!PricesReconcile,
    Settling!Max, SettlingP!Max, Settling!SumFunctionOnSet, SettlingP!SumFunctionOnSet,
    Settling!FoldFunctionOnSet, SettlingP!FoldFunctionOnSet, Settling!MapThenFoldSet,
    SettlingP!MapThenFoldSet
<1>5. Settling!PriceAssumption <=> SettlingP!PriceAssumption
  BY DEF Settling!PriceAssumption, SettlingP!PriceAssumption
<1> QED
  BY <1>1, <1>3, <1>4, <1>5

\* The part "revising" is the instance of PriceBook that the theorems about it speak of.
LEMMA RevisingIs ==
  /\ Revising!Init <=> RevisingP!Init
  /\ [Revising!Next]_(Revising!vars) <=> [RevisingP!Next]_(RevisingP!vars)
  /\ Revising!PricesReconcile <=> RevisingP!PricesReconcile
  /\ Revising!PriceAssumption <=> RevisingP!PriceAssumption
<1>1. Revising!Init <=> RevisingP!Init
  BY DEF Revising!Init, RevisingP!Init
<1>2. Revising!Next <=> RevisingP!Next
  BY DEF Revising!books, RevisingP!books, Revising!Day, RevisingP!Day, Revising!Tip, RevisingP!Tip,
    Revising!TipDay, RevisingP!TipDay, Revising!Live, RevisingP!Live, Revising!Total,
    RevisingP!Total, Revising!Faulty, RevisingP!Faulty, Revising!Storable, RevisingP!Storable,
    Revising!Upserted, RevisingP!Upserted, Revising!Sound, RevisingP!Sound, Revising!Settled,
    RevisingP!Settled, Revising!Offers, RevisingP!Offers, Revising!SyncPrices, RevisingP!SyncPrices,
    Revising!Boot, RevisingP!Boot, Revising!Fallback, RevisingP!Fallback, Revising!Answer,
    RevisingP!Answer, Revising!Flagged, RevisingP!Flagged, Revising!Cached, RevisingP!Cached,
    Revising!MayExtend, RevisingP!MayExtend, Revising!Spendable, RevisingP!Spendable,
    Revising!DaysAsked, RevisingP!DaysAsked, Revising!Delta, RevisingP!Delta, Revising!ProcessBlock,
    RevisingP!ProcessBlock, Revising!ProcessFails, RevisingP!ProcessFails, Revising!UnspentAbove,
    RevisingP!UnspentAbove, Revising!RollBack, RevisingP!RollBack, Revising!Restamped,
    RevisingP!Restamped, Revising!MirrorsCredit, RevisingP!MirrorsCredit, Revising!RepriceCommits,
    RevisingP!RepriceCommits, Revising!CacheAfterReprice, RevisingP!CacheAfterReprice,
    Revising!Reprice, RevisingP!Reprice, Revising!RepriceAckLost, RevisingP!RepriceAckLost,
    Revising!GateOpen, RevisingP!GateOpen, Revising!FinalizeDay, RevisingP!FinalizeDay,
    Revising!FinalizeFails, RevisingP!FinalizeFails, Revising!Crash, RevisingP!Crash,
    Revising!DayTurns, RevisingP!DayTurns, Revising!Next, RevisingP!Next, Revising!Max,
    RevisingP!Max, Revising!Restrict, RevisingP!Restrict, Revising!SumFunctionOnSet,
    RevisingP!SumFunctionOnSet, Revising!FoldFunctionOnSet, RevisingP!FoldFunctionOnSet,
    Revising!MapThenFoldSet, RevisingP!MapThenFoldSet
<1>3. [Revising!Next]_(Revising!vars) <=> [RevisingP!Next]_(RevisingP!vars)
  BY <1>2 DEF Revising!vars, RevisingP!vars
<1>4. Revising!PricesReconcile <=> RevisingP!PricesReconcile
  BY DEF Revising!Tip, RevisingP!Tip, Revising!Live, RevisingP!Live, Revising!Total,
    RevisingP!Total, Revising!Fallback, RevisingP!Fallback, Revising!Answer, RevisingP!Answer,
    Revising!RollbackExact, RevisingP!RollbackExact, Revising!CacheFresh, RevisingP!CacheFresh,
    Revising!RowsShowCloses, RevisingP!RowsShowCloses, Revising!FinalizedIsSettled,
    RevisingP!FinalizedIsSettled, Revising!RealizedCapReconciles, RevisingP!RealizedCapReconciles,
    Revising!SpendsSeeTheirStamp, RevisingP!SpendsSeeTheirStamp, Revising!ProvisionalIsMarked,
    RevisingP!ProvisionalIsMarked, Revising!PricesReconcile, RevisingP!PricesReconcile,
    Revising!Max, RevisingP!Max, Revising!SumFunctionOnSet, RevisingP!SumFunctionOnSet,
    Revising!FoldFunctionOnSet, RevisingP!FoldFunctionOnSet, Revising!MapThenFoldSet,
    RevisingP!MapThenFoldSet
<1>5. Revising!PriceAssumption <=> RevisingP!PriceAssumption
  BY DEF Revising!PriceAssumption, RevisingP!PriceAssumption
<1> QED
  BY <1>1, <1>3, <1>4, <1>5

\* The part "watch" is the instance of Alerts that the theorems about it speak of.
LEMMA WatchIs ==
  /\ Watch!Init <=> P1!Alarm!Init
  /\ [Watch!Next]_(Watch!vars) <=> [P1!Alarm!Next]_(P1!Alarm!vars)
  /\ Watch!CrossingsMailed <=> P1!Alarm!CrossingsMailed
  /\ Watch!AlertsAssumption <=> P1!Alarm!AlertsAssumption
<1>1. Watch!Init <=> P1!Alarm!Init
  BY DEF Watch!Day, P1!Alarm!Day, Watch!Idle, P1!Alarm!Idle, Watch!Init, P1!Alarm!Init
<1>2. Watch!Next <=> P1!Alarm!Next
  BY DEF Watch!Outcomes, P1!Alarm!Outcomes, Watch!Delivered, P1!Alarm!Delivered, Watch!Returns,
    P1!Alarm!Returns, Watch!table, P1!Alarm!table, Watch!Day, P1!Alarm!Day, Watch!Value,
    P1!Alarm!Value, Watch!Idle, P1!Alarm!Idle, Watch!Active, P1!Alarm!Active, Watch!Mailed,
    P1!Alarm!Mailed, Watch!Fault, P1!Alarm!Fault, Watch!Count, P1!Alarm!Count, Watch!Create,
    P1!Alarm!Create, Watch!Confirm, P1!Alarm!Confirm, Watch!Unsubscribe, P1!Alarm!Unsubscribe,
    Watch!Finalize, P1!Alarm!Finalize, Watch!Rewind, P1!Alarm!Rewind, Watch!Armed, P1!Alarm!Armed,
    Watch!ReadAlerts, P1!Alarm!ReadAlerts, Watch!NonNull, P1!Alarm!NonNull, Watch!LatestTwo,
    P1!Alarm!LatestTwo, Watch!ReadRows, P1!Alarm!ReadRows, Watch!Satisfies, P1!Alarm!Satisfies,
    Watch!Today, P1!Alarm!Today, Watch!Crossed, P1!Alarm!Crossed, Watch!MarkedSince,
    P1!Alarm!MarkedSince, Watch!Fires, P1!Alarm!Fires, Watch!Passed, P1!Alarm!Passed, Watch!Skip,
    P1!Alarm!Skip, Watch!Send, P1!Alarm!Send, Watch!Mark, P1!Alarm!Mark, Watch!Done, P1!Alarm!Done,
    Watch!Crash, P1!Alarm!Crash, Watch!Next, P1!Alarm!Next, Watch!Cardinality, P1!Alarm!Cardinality,
    Cardinality
<1>3. [Watch!Next]_(Watch!vars) <=> [P1!Alarm!Next]_(P1!Alarm!vars)
  BY <1>2 DEF Watch!vars, P1!Alarm!vars
<1>4. Watch!CrossingsMailed <=> P1!Alarm!CrossingsMailed
  BY DEF Watch!Day, P1!Alarm!Day, Watch!Mailed, P1!Alarm!Mailed, Watch!NonNull, P1!Alarm!NonNull,
    Watch!Satisfies, P1!Alarm!Satisfies, Watch!Crossing, P1!Alarm!Crossing, Watch!OncePerCrossing,
    P1!Alarm!OncePerCrossing, Watch!MailMeansCrossing, P1!Alarm!MailMeansCrossing,
    Watch!CrossingsReported, P1!Alarm!CrossingsReported, Watch!ConsentFirst, P1!Alarm!ConsentFirst,
    Watch!OneChecker, P1!Alarm!OneChecker, Watch!CrossingsMailed, P1!Alarm!CrossingsMailed,
    Watch!Max, P1!Alarm!Max
<1>5. Watch!AlertsAssumption <=> P1!Alarm!AlertsAssumption
  BY DEF Watch!AlertsAssumption, P1!Alarm!AlertsAssumption
<1> QED
  BY <1>1, <1>3, <1>4, <1>5

\* The part "overlap" is the instance of Alerts that the theorems about it speak of.
LEMMA OverlapIs ==
  /\ Overlap!Init <=> P2!Alarm!Init
  /\ [Overlap!Next]_(Overlap!vars) <=> [P2!Alarm!Next]_(P2!Alarm!vars)
  /\ Overlap!CrossingsMailed <=> P2!Alarm!CrossingsMailed
  /\ Overlap!AlertsAssumption <=> P2!Alarm!AlertsAssumption
<1>1. Overlap!Init <=> P2!Alarm!Init
  BY DEF Overlap!Day, P2!Alarm!Day, Overlap!Idle, P2!Alarm!Idle, Overlap!Init, P2!Alarm!Init
<1>2. Overlap!Next <=> P2!Alarm!Next
  BY DEF Overlap!Outcomes, P2!Alarm!Outcomes, Overlap!Delivered, P2!Alarm!Delivered,
    Overlap!Returns, P2!Alarm!Returns, Overlap!table, P2!Alarm!table, Overlap!Day, P2!Alarm!Day,
    Overlap!Value, P2!Alarm!Value, Overlap!Idle, P2!Alarm!Idle, Overlap!Active, P2!Alarm!Active,
    Overlap!Mailed, P2!Alarm!Mailed, Overlap!Fault, P2!Alarm!Fault, Overlap!Count, P2!Alarm!Count,
    Overlap!Create, P2!Alarm!Create, Overlap!Confirm, P2!Alarm!Confirm, Overlap!Unsubscribe,
    P2!Alarm!Unsubscribe, Overlap!Finalize, P2!Alarm!Finalize, Overlap!Rewind, P2!Alarm!Rewind,
    Overlap!Armed, P2!Alarm!Armed, Overlap!ReadAlerts, P2!Alarm!ReadAlerts, Overlap!NonNull,
    P2!Alarm!NonNull, Overlap!LatestTwo, P2!Alarm!LatestTwo, Overlap!ReadRows, P2!Alarm!ReadRows,
    Overlap!Satisfies, P2!Alarm!Satisfies, Overlap!Today, P2!Alarm!Today, Overlap!Crossed,
    P2!Alarm!Crossed, Overlap!MarkedSince, P2!Alarm!MarkedSince, Overlap!Fires, P2!Alarm!Fires,
    Overlap!Passed, P2!Alarm!Passed, Overlap!Skip, P2!Alarm!Skip, Overlap!Send, P2!Alarm!Send,
    Overlap!Mark, P2!Alarm!Mark, Overlap!Done, P2!Alarm!Done, Overlap!Crash, P2!Alarm!Crash,
    Overlap!Next, P2!Alarm!Next, Overlap!Cardinality, P2!Alarm!Cardinality, Cardinality
<1>3. [Overlap!Next]_(Overlap!vars) <=> [P2!Alarm!Next]_(P2!Alarm!vars)
  BY <1>2 DEF Overlap!vars, P2!Alarm!vars
<1>4. Overlap!CrossingsMailed <=> P2!Alarm!CrossingsMailed
  BY DEF Overlap!Day, P2!Alarm!Day, Overlap!Mailed, P2!Alarm!Mailed, Overlap!NonNull,
    P2!Alarm!NonNull, Overlap!Satisfies, P2!Alarm!Satisfies, Overlap!Crossing, P2!Alarm!Crossing,
    Overlap!OncePerCrossing, P2!Alarm!OncePerCrossing, Overlap!MailMeansCrossing,
    P2!Alarm!MailMeansCrossing, Overlap!CrossingsReported, P2!Alarm!CrossingsReported,
    Overlap!ConsentFirst, P2!Alarm!ConsentFirst, Overlap!OneChecker, P2!Alarm!OneChecker,
    Overlap!CrossingsMailed, P2!Alarm!CrossingsMailed, Overlap!Max, P2!Alarm!Max
<1>5. Overlap!AlertsAssumption <=> P2!Alarm!AlertsAssumption
  BY DEF Overlap!AlertsAssumption, P2!Alarm!AlertsAssumption
<1> QED
  BY <1>1, <1>3, <1>4, <1>5

\* The part "subscribe" is the instance of Newsletters that the theorems about it speak of.
LEMMA SubscribeIs ==
  /\ Subscribe!Init <=> SubscribeP!Init
  /\ [Subscribe!Next]_(Subscribe!vars) <=> [SubscribeP!Next]_(SubscribeP!vars)
  /\ Subscribe!NewslettersWhole <=> SubscribeP!NewslettersWhole
  /\ Subscribe!NewsAssumption <=> SubscribeP!NewsAssumption
<1>1. Subscribe!Init <=> SubscribeP!Init
  BY DEF Subscribe!Idle, SubscribeP!Idle, Subscribe!NoNews, SubscribeP!NoNews, Subscribe!FirstRow,
    SubscribeP!FirstRow, Subscribe!Init, SubscribeP!Init, Subscribe!SetToSeqs, SubscribeP!SetToSeqs,
    Subscribe!Cardinality, SubscribeP!Cardinality, Cardinality
<1>2. Subscribe!Next <=> SubscribeP!Next
  BY DEF Subscribe!Outcomes, SubscribeP!Outcomes, Subscribe!Delivered, SubscribeP!Delivered,
    Subscribe!Returns, SubscribeP!Returns, Subscribe!list, SubscribeP!list, Subscribe!sending,
    SubscribeP!sending, Subscribe!Idle, SubscribeP!Idle, Subscribe!FirstRow, SubscribeP!FirstRow,
    Subscribe!Mailing, SubscribeP!Mailing, Subscribe!OpenRows, SubscribeP!OpenRows, Subscribe!Ask,
    SubscribeP!Ask, Subscribe!Insertable, SubscribeP!Insertable, Subscribe!Answer,
    SubscribeP!Answer, Subscribe!Refuse, SubscribeP!Refuse, Subscribe!Confirm, SubscribeP!Confirm,
    Subscribe!Unsubscribe, SubscribeP!Unsubscribe, Subscribe!Edited, SubscribeP!Edited,
    Subscribe!Editor, SubscribeP!Editor, Subscribe!Draft, SubscribeP!Draft, Subscribe!Editable,
    SubscribeP!Editable, Subscribe!Edit, SubscribeP!Edit, Subscribe!TestMail, SubscribeP!TestMail,
    Subscribe!Schedule, SubscribeP!Schedule, Subscribe!TimeComes, SubscribeP!TimeComes,
    Subscribe!Cancelable, SubscribeP!Cancelable, Subscribe!Cancelled, SubscribeP!Cancelled,
    Subscribe!Cancel, SubscribeP!Cancel, Subscribe!Due, SubscribeP!Due, Subscribe!Claimed,
    SubscribeP!Claimed, Subscribe!Claim, SubscribeP!Claim, Subscribe!Recipients,
    SubscribeP!Recipients, Subscribe!ReadList, SubscribeP!ReadList, Subscribe!Tried,
    SubscribeP!Tried, Subscribe!Send, SubscribeP!Send, Subscribe!Complete, SubscribeP!Complete,
    Subscribe!MarkSent, SubscribeP!MarkSent, Subscribe!Stop, SubscribeP!Stop, Subscribe!Run,
    SubscribeP!Run, Subscribe!Next, SubscribeP!Next, Subscribe!Cardinality, SubscribeP!Cardinality,
    Subscribe!Min, SubscribeP!Min, Cardinality
<1>3. [Subscribe!Next]_(Subscribe!vars) <=> [SubscribeP!Next]_(SubscribeP!vars)
  BY <1>2 DEF Subscribe!list, SubscribeP!list, Subscribe!sending, SubscribeP!sending,
    Subscribe!vars, SubscribeP!vars
<1>4. Subscribe!NewslettersWhole <=> SubscribeP!NewslettersWhole
  BY DEF Subscribe!OpenRows, SubscribeP!OpenRows, Subscribe!AtMostOnce, SubscribeP!AtMostOnce,
    Subscribe!FrozenText, SubscribeP!FrozenText, Subscribe!DraftIsUnread, SubscribeP!DraftIsUnread,
    Subscribe!ConsentFirst, SubscribeP!ConsentFirst, Subscribe!SentIsWhole, SubscribeP!SentIsWhole,
    Subscribe!OneOpenRow, SubscribeP!OneOpenRow, Subscribe!NewslettersWhole,
    SubscribeP!NewslettersWhole, Subscribe!Cardinality, SubscribeP!Cardinality, Cardinality
<1>5. Subscribe!NewsAssumption <=> SubscribeP!NewsAssumption
  BY DEF Subscribe!NewsAssumption, SubscribeP!NewsAssumption, Subscribe!IsFiniteSet,
    SubscribeP!IsFiniteSet, IsFiniteSet
<1> QED
  BY <1>1, <1>3, <1>4, <1>5

\* The part "sending" is the instance of Newsletters that the theorems about it speak of.
LEMMA SendingIs ==
  /\ Sending!Init <=> SendingP!Init
  /\ [Sending!Next]_(Sending!vars) <=> [SendingP!Next]_(SendingP!vars)
  /\ Sending!NewslettersWhole <=> SendingP!NewslettersWhole
  /\ Sending!NewsAssumption <=> SendingP!NewsAssumption
<1>1. Sending!Init <=> SendingP!Init
  BY DEF Sending!Idle, SendingP!Idle, Sending!NoNews, SendingP!NoNews, Sending!FirstRow,
    SendingP!FirstRow, Sending!Init, SendingP!Init, Sending!SetToSeqs, SendingP!SetToSeqs,
    Sending!Cardinality, SendingP!Cardinality, Cardinality
<1>2. Sending!Next <=> SendingP!Next
  BY DEF Sending!Outcomes, SendingP!Outcomes, Sending!Delivered, SendingP!Delivered,
    Sending!Returns, SendingP!Returns, Sending!list, SendingP!list, Sending!sending,
    SendingP!sending, Sending!Idle, SendingP!Idle, Sending!FirstRow, SendingP!FirstRow,
    Sending!Mailing, SendingP!Mailing, Sending!OpenRows, SendingP!OpenRows, Sending!Ask,
    SendingP!Ask, Sending!Insertable, SendingP!Insertable, Sending!Answer, SendingP!Answer,
    Sending!Refuse, SendingP!Refuse, Sending!Confirm, SendingP!Confirm, Sending!Unsubscribe,
    SendingP!Unsubscribe, Sending!Edited, SendingP!Edited, Sending!Editor, SendingP!Editor,
    Sending!Draft, SendingP!Draft, Sending!Editable, SendingP!Editable, Sending!Edit, SendingP!Edit,
    Sending!TestMail, SendingP!TestMail, Sending!Schedule, SendingP!Schedule, Sending!TimeComes,
    SendingP!TimeComes, Sending!Cancelable, SendingP!Cancelable, Sending!Cancelled,
    SendingP!Cancelled, Sending!Cancel, SendingP!Cancel, Sending!Due, SendingP!Due, Sending!Claimed,
    SendingP!Claimed, Sending!Claim, SendingP!Claim, Sending!Recipients, SendingP!Recipients,
    Sending!ReadList, SendingP!ReadList, Sending!Tried, SendingP!Tried, Sending!Send, SendingP!Send,
    Sending!Complete, SendingP!Complete, Sending!MarkSent, SendingP!MarkSent, Sending!Stop,
    SendingP!Stop, Sending!Run, SendingP!Run, Sending!Next, SendingP!Next, Sending!Cardinality,
    SendingP!Cardinality, Sending!Min, SendingP!Min, Cardinality
<1>3. [Sending!Next]_(Sending!vars) <=> [SendingP!Next]_(SendingP!vars)
  BY <1>2 DEF Sending!list, SendingP!list, Sending!sending, SendingP!sending, Sending!vars,
    SendingP!vars
<1>4. Sending!NewslettersWhole <=> SendingP!NewslettersWhole
  BY DEF Sending!OpenRows, SendingP!OpenRows, Sending!AtMostOnce, SendingP!AtMostOnce,
    Sending!FrozenText, SendingP!FrozenText, Sending!DraftIsUnread, SendingP!DraftIsUnread,
    Sending!ConsentFirst, SendingP!ConsentFirst, Sending!SentIsWhole, SendingP!SentIsWhole,
    Sending!OneOpenRow, SendingP!OneOpenRow, Sending!NewslettersWhole, SendingP!NewslettersWhole,
    Sending!Cardinality, SendingP!Cardinality, Cardinality
<1>5. Sending!NewsAssumption <=> SendingP!NewsAssumption
  BY DEF Sending!NewsAssumption, SendingP!NewsAssumption, Sending!IsFiniteSet, SendingP!IsFiniteSet,
    IsFiniteSet
<1> QED
  BY <1>1, <1>3, <1>4, <1>5

\* The part "revoke" is the instance of AccessKeys that the theorems about it speak of.
LEMMA RevokeIs ==
  /\ Revoke!Init <=> P1!Keys!Init
  /\ [Revoke!Next]_(Revoke!vars) <=> [P1!Keys!Next]_(P1!Keys!vars)
  /\ Revoke!RevocationBinds <=> P1!Keys!RevocationBinds
  /\ Revoke!RevocationStands <=> P1!Keys!RevocationStands
  /\ Revoke!KeysAssumption <=> P1!Keys!KeysAssumption
<1>1. Revoke!Init <=> P1!Keys!Init
  BY DEF Revoke!NoOne, P1!Keys!NoOne, Revoke!Absent, P1!Keys!Absent, Revoke!Idle, P1!Keys!Idle,
    Revoke!Init, P1!Keys!Init
<1>2. Revoke!Next <=> P1!Keys!Next
  BY DEF Revoke!NoOne, P1!Keys!NoOne, Revoke!Idle, P1!Keys!Idle, Revoke!Ops, P1!Keys!Ops,
    Revoke!InFlight, P1!Keys!InFlight, Revoke!Exists, P1!Keys!Exists, Revoke!Resolves,
    P1!Keys!Resolves, Revoke!Allowed, P1!Keys!Allowed, Revoke!Enter, P1!Keys!Enter, Revoke!Act,
    P1!Keys!Act, Revoke!Late, P1!Keys!Late, Revoke!MintKey, P1!Keys!MintKey, Revoke!Revocable,
    P1!Keys!Revocable, Revoke!RevokeKey, P1!Keys!RevokeKey, Revoke!MintAdmin, P1!Keys!MintAdmin,
    Revoke!RevokeAdmin, P1!Keys!RevokeAdmin, Revoke!Use, P1!Keys!Use, Revoke!Counted,
    P1!Keys!Counted, Revoke!CountLands, P1!Keys!CountLands, Revoke!CountFails, P1!Keys!CountFails,
    Revoke!Next, P1!Keys!Next, Revoke!Cardinality, P1!Keys!Cardinality, Cardinality
<1>3. [Revoke!Next]_(Revoke!vars) <=> [P1!Keys!Next]_(P1!Keys!vars)
  BY <1>2 DEF Revoke!vars, P1!Keys!vars
<1>4. Revoke!RevocationBinds <=> P1!Keys!RevocationBinds
  BY DEF Revoke!InFlight, P1!Keys!InFlight, Revoke!BoundedByInFlight, P1!Keys!BoundedByInFlight,
    Revoke!EveryUseCounted, P1!Keys!EveryUseCounted, Revoke!RevocationBinds,
    P1!Keys!RevocationBinds, Revoke!Cardinality, P1!Keys!Cardinality, Cardinality
<1>5. Revoke!RevocationStands <=> P1!Keys!RevocationStands
  BY DEF Revoke!NoOne, P1!Keys!NoOne, Revoke!Idle, P1!Keys!Idle, Revoke!AdminsByRoot,
    P1!Keys!AdminsByRoot, Revoke!KeepsRevocations, P1!Keys!KeepsRevocations,
    Revoke!RevocationStands, P1!Keys!RevocationStands
<1>6. Revoke!KeysAssumption <=> P1!Keys!KeysAssumption
  BY DEF Revoke!NoOne, P1!Keys!NoOne, Revoke!KeysAssumption, P1!Keys!KeysAssumption,
    Revoke!IsFiniteSet, P1!Keys!IsFiniteSet, IsFiniteSet
<1> QED
  BY <1>1, <1>3, <1>4, <1>5, <1>6

\* The part "count" is the instance of AccessKeys that the theorems about it speak of.
LEMMA CountIs ==
  /\ Count!Init <=> P2!Keys!Init
  /\ [Count!Next]_(Count!vars) <=> [P2!Keys!Next]_(P2!Keys!vars)
  /\ Count!RevocationBinds <=> P2!Keys!RevocationBinds
  /\ Count!RevocationStands <=> P2!Keys!RevocationStands
  /\ Count!KeysAssumption <=> P2!Keys!KeysAssumption
<1>1. Count!Init <=> P2!Keys!Init
  BY DEF Count!NoOne, P2!Keys!NoOne, Count!Absent, P2!Keys!Absent, Count!Idle, P2!Keys!Idle,
    Count!Init, P2!Keys!Init
<1>2. Count!Next <=> P2!Keys!Next
  BY DEF Count!NoOne, P2!Keys!NoOne, Count!Idle, P2!Keys!Idle, Count!Ops, P2!Keys!Ops,
    Count!InFlight, P2!Keys!InFlight, Count!Exists, P2!Keys!Exists, Count!Resolves,
    P2!Keys!Resolves, Count!Allowed, P2!Keys!Allowed, Count!Enter, P2!Keys!Enter, Count!Act,
    P2!Keys!Act, Count!Late, P2!Keys!Late, Count!MintKey, P2!Keys!MintKey, Count!Revocable,
    P2!Keys!Revocable, Count!RevokeKey, P2!Keys!RevokeKey, Count!MintAdmin, P2!Keys!MintAdmin,
    Count!RevokeAdmin, P2!Keys!RevokeAdmin, Count!Use, P2!Keys!Use, Count!Counted, P2!Keys!Counted,
    Count!CountLands, P2!Keys!CountLands, Count!CountFails, P2!Keys!CountFails, Count!Next,
    P2!Keys!Next, Count!Cardinality, P2!Keys!Cardinality, Cardinality
<1>3. [Count!Next]_(Count!vars) <=> [P2!Keys!Next]_(P2!Keys!vars)
  BY <1>2 DEF Count!vars, P2!Keys!vars
<1>4. Count!RevocationBinds <=> P2!Keys!RevocationBinds
  BY DEF Count!InFlight, P2!Keys!InFlight, Count!BoundedByInFlight, P2!Keys!BoundedByInFlight,
    Count!EveryUseCounted, P2!Keys!EveryUseCounted, Count!RevocationBinds, P2!Keys!RevocationBinds,
    Count!Cardinality, P2!Keys!Cardinality, Cardinality
<1>5. Count!RevocationStands <=> P2!Keys!RevocationStands
  BY DEF Count!NoOne, P2!Keys!NoOne, Count!Idle, P2!Keys!Idle, Count!AdminsByRoot,
    P2!Keys!AdminsByRoot, Count!KeepsRevocations, P2!Keys!KeepsRevocations, Count!RevocationStands,
    P2!Keys!RevocationStands
<1>6. Count!KeysAssumption <=> P2!Keys!KeysAssumption
  BY DEF Count!NoOne, P2!Keys!NoOne, Count!KeysAssumption, P2!Keys!KeysAssumption,
    Count!IsFiniteSet, P2!Keys!IsFiniteSet, IsFiniteSet
<1> QED
  BY <1>1, <1>3, <1>4, <1>5, <1>6

\* The part "shared" is the instance of BlockPages that the theorems about it speak of.
LEMMA SharedIs ==
  /\ Shared!Init <=> P1!Pages!Init
  /\ [Shared!Next]_(Shared!vars) <=> [P1!Pages!Next]_(P1!Pages!vars)
  /\ Shared!OneCallPerKey <=> P1!Pages!OneCallPerKey
  /\ Shared!CacheBounded <=> P1!Pages!CacheBounded
  /\ Shared!AnswerIsTheQuestion <=> P1!Pages!AnswerIsTheQuestion
  /\ Shared!SizeIsTheRows <=> P1!Pages!SizeIsTheRows
  /\ Shared!PagesAssumption <=> P1!Pages!PagesAssumption
<1>1. Shared!Init <=> P1!Pages!Init
  BY DEF Shared!Row, P1!Pages!Row, Shared!Idle, P1!Pages!Idle, Shared!NoAnswer, P1!Pages!NoAnswer,
    Shared!Init, P1!Pages!Init
<1>2. Shared!Next <=> P1!Pages!Next
  BY DEF Shared!store, P1!Pages!store, Shared!Chain, P1!Pages!Chain, Shared!Height, P1!Pages!Height,
    Shared!Txids, P1!Pages!Txids, Shared!Slice, P1!Pages!Slice, Shared!Next1, P1!Pages!Next1,
    Shared!Known, P1!Pages!Known, Shared!Row, P1!Pages!Row, Shared!Idle, P1!Pages!Idle,
    Shared!NoAnswer, P1!Pages!NoAnswer, Shared!Waiting, P1!Pages!Waiting, Shared!BlockKey,
    P1!Pages!BlockKey, Shared!PageKey, P1!Pages!PageKey, Shared!Find, P1!Pages!Find, Shared!Faulty,
    P1!Pages!Faulty, Shared!NodeMoves, P1!Pages!NodeMoves, Shared!Sync, P1!Pages!Sync, Shared!Ask,
    P1!Pages!Ask, Shared!Goto, P1!Pages!Goto, Shared!At, P1!Pages!At, Shared!Probe, P1!Pages!Probe,
    Shared!Probed, P1!Pages!Probed, Shared!Expires, P1!Pages!Expires, Shared!Expire,
    P1!Pages!Expire, Shared!Hash, P1!Pages!Hash, Shared!Joined, P1!Pages!Joined, Shared!Launch,
    P1!Pages!Launch, Shared!NodeBlock, P1!Pages!NodeBlock, Shared!Kept, P1!Pages!Kept,
    Shared!Without, P1!Pages!Without, Shared!BlockArrives, P1!Pages!BlockArrives, Shared!TxPageOf,
    P1!Pages!TxPageOf, Shared!Replies, P1!Pages!Replies, Shared!Matched, P1!Pages!Matched,
    Shared!Whole, P1!Pages!Whole, Shared!PageArrives, P1!Pages!PageArrives, Shared!Answer,
    P1!Pages!Answer, Shared!Deadline, P1!Pages!Deadline, Shared!Backfills, P1!Pages!Backfills,
    Shared!End, P1!Pages!End, Shared!EndLate, P1!Pages!EndLate, Shared!Arrival, P1!Pages!Arrival,
    Shared!Step, P1!Pages!Step, Shared!Next, P1!Pages!Next, Shared!Front, P1!Pages!Front,
    Shared!Last, P1!Pages!Last, Shared!Min, P1!Pages!Min, Shared!Range, P1!Pages!Range,
    Shared!RemoveAt, P1!Pages!RemoveAt, Shared!SetToSeqs, P1!Pages!SetToSeqs, Shared!Cardinality,
    P1!Pages!Cardinality, Cardinality
<1>3. [Shared!Next]_(Shared!vars) <=> [P1!Pages!Next]_(P1!Pages!vars)
  BY <1>2 DEF Shared!store, P1!Pages!store, Shared!vars, P1!Pages!vars
<1>4. Shared!OneCallPerKey <=> P1!Pages!OneCallPerKey
  BY DEF Shared!OneCallPerKey, P1!Pages!OneCallPerKey
<1>5. Shared!CacheBounded <=> P1!Pages!CacheBounded
  BY DEF Shared!CacheBounded, P1!Pages!CacheBounded
<1>6. Shared!AnswerIsTheQuestion <=> P1!Pages!AnswerIsTheQuestion
  BY DEF Shared!Txids, P1!Pages!Txids, Shared!Slice, P1!Pages!Slice, Shared!AnswerIsTheQuestion,
    P1!Pages!AnswerIsTheQuestion
<1>7. Shared!SizeIsTheRows <=> P1!Pages!SizeIsTheRows
  BY DEF Shared!SizeIsTheRows, P1!Pages!SizeIsTheRows
<1>8. Shared!PagesAssumption <=> P1!Pages!PagesAssumption
  BY DEF Shared!PagesAssumption, P1!Pages!PagesAssumption, Shared!Range, P1!Pages!Range
<1> QED
  BY <1>1, <1>3, <1>4, <1>5, <1>6, <1>7, <1>8

\* The part "tx" is the instance of TxLookup that the theorems about it speak of.
LEMMA TxIs ==
  /\ Tx!Init <=> P1!Tx!Init
  /\ [Tx!Next]_(Tx!vars) <=> [P1!Tx!Next]_(P1!Tx!vars)
  /\ Tx!HeightIsHashs <=> P1!Tx!HeightIsHashs
  /\ Tx!LookupAssumption <=> P1!Tx!LookupAssumption
<1>1. Tx!Init <=> P1!Tx!Init
  BY DEF Tx!Null, P1!Tx!Null, Tx!Idle, P1!Tx!Idle, Tx!NoAnswer, P1!Tx!NoAnswer, Tx!Init, P1!Tx!Init
<1>2. Tx!Next <=> P1!Tx!Next
  BY DEF Tx!Chain, P1!Tx!Chain, Tx!HeightIn, P1!Tx!HeightIn, Tx!Height, P1!Tx!Height, Tx!Home,
    P1!Tx!Home, Tx!Created, P1!Tx!Created, Tx!Null, P1!Tx!Null, Tx!Idle, P1!Tx!Idle, Tx!NoAnswer,
    P1!Tx!NoAnswer, Tx!Waiting, P1!Tx!Waiting, Tx!Faulty, P1!Tx!Faulty, Tx!NodeMoves,
    P1!Tx!NodeMoves, Tx!Sync, P1!Tx!Sync, Tx!Prune, P1!Tx!Prune, Tx!Env, P1!Tx!Env, Tx!Answer,
    P1!Tx!Answer, Tx!Ask, P1!Tx!Ask, Tx!Search, P1!Tx!Search, Tx!SearchBlock, P1!Tx!SearchBlock,
    Tx!Up, P1!Tx!Up, Tx!Scope, P1!Tx!Scope, Tx!Where, P1!Tx!Where, Tx!Fetch, P1!Tx!Fetch,
    Tx!HeightOf, P1!Tx!HeightOf, Tx!Deadline, P1!Tx!Deadline, Tx!End, P1!Tx!End, Tx!Next,
    P1!Tx!Next, Tx!Front, P1!Tx!Front, Tx!Last, P1!Tx!Last, Tx!Max, P1!Tx!Max, Tx!Range, P1!Tx!Range
<1>3. [Tx!Next]_(Tx!vars) <=> [P1!Tx!Next]_(P1!Tx!vars)
  BY <1>2 DEF Tx!vars, P1!Tx!vars
<1>4. Tx!HeightIsHashs <=> P1!Tx!HeightIsHashs
  BY DEF Tx!HeightIn, P1!Tx!HeightIn, Tx!Height, P1!Tx!Height, Tx!HeightIsHashs,
    P1!Tx!HeightIsHashs, Tx!Max, P1!Tx!Max, Tx!Range, P1!Tx!Range
<1>5. Tx!LookupAssumption <=> P1!Tx!LookupAssumption
  BY DEF Tx!LookupAssumption, P1!Tx!LookupAssumption
<1> QED
  BY <1>1, <1>3, <1>4, <1>5

\* The part "address" is the instance of AddressView that the theorems about it speak of.
LEMMA AddressesIs ==
  /\ Addresses!Init <=> P1!Addresses!Init
  /\ [Addresses!Next]_(Addresses!vars) <=> [P1!Addresses!Next]_(P1!Addresses!vars)
  /\ Addresses!EachPartIsOfATip <=> P1!Addresses!EachPartIsOfATip
  /\ Addresses!ViewAssumption <=> P1!Addresses!ViewAssumption
<1>1. Addresses!Init <=> P1!Addresses!Init
  BY DEF Addresses!Null, P1!Addresses!Null, Addresses!Unread, P1!Addresses!Unread,
    Addresses!Nothing, P1!Addresses!Nothing, Addresses!Init, P1!Addresses!Init
<1>2. Addresses!Next <=> P1!Addresses!Next
  BY DEF Addresses!Null, P1!Addresses!Null, Addresses!Unread, P1!Addresses!Unread,
    Addresses!Unspent, P1!Addresses!Unspent, Addresses!Total, P1!Addresses!Total, Addresses!Nothing,
    P1!Addresses!Nothing, Addresses!Block, P1!Addresses!Block, Addresses!Basis, P1!Addresses!Basis,
    Addresses!BasisOf, P1!Addresses!BasisOf, Addresses!See, P1!Addresses!See, Addresses!Counted,
    P1!Addresses!Counted, Addresses!ReadBalance, P1!Addresses!ReadBalance, Addresses!Listed,
    P1!Addresses!Listed, Addresses!ReadList, P1!Addresses!ReadList, Addresses!ReadPrice,
    P1!Addresses!ReadPrice, Addresses!Reply, P1!Addresses!Reply, Addresses!Next, P1!Addresses!Next,
    Addresses!Cardinality, P1!Addresses!Cardinality, Addresses!MapThenSumSet,
    P1!Addresses!MapThenSumSet, Addresses!MapThenFoldSet, P1!Addresses!MapThenFoldSet, Cardinality
<1>3. [Addresses!Next]_(Addresses!vars) <=> [P1!Addresses!Next]_(P1!Addresses!vars)
  BY <1>2 DEF Addresses!vars, P1!Addresses!vars
<1>4. Addresses!EachPartIsOfATip <=> P1!Addresses!EachPartIsOfATip
  BY DEF Addresses!Null, P1!Addresses!Null, Addresses!Total, P1!Addresses!Total, Addresses!Basis,
    P1!Addresses!Basis, Addresses!BasisOf, P1!Addresses!BasisOf, Addresses!Whole,
    P1!Addresses!Whole, Addresses!UnspentAt, P1!Addresses!UnspentAt, Addresses!EachPartIsOfATip,
    P1!Addresses!EachPartIsOfATip, Addresses!Cardinality, P1!Addresses!Cardinality,
    Addresses!MapThenSumSet, P1!Addresses!MapThenSumSet, Addresses!MapThenFoldSet,
    P1!Addresses!MapThenFoldSet, Cardinality
<1>5. Addresses!ViewAssumption <=> P1!Addresses!ViewAssumption
  BY DEF Addresses!ViewAssumption, P1!Addresses!ViewAssumption
<1> QED
  BY <1>1, <1>3, <1>4, <1>5

\* The part "rate" is the instance of RateWindow that the theorems about it speak of.
LEMMA RateIs ==
  /\ Rate!Init <=> P1!Rate!Init
  /\ [Rate!Next]_(Rate!vars) <=> [P1!Rate!Next]_(P1!Rate!vars)
  /\ Rate!LimitIsExact <=> P1!Rate!LimitIsExact
  /\ Rate!RateAssumption <=> P1!Rate!RateAssumption
<1>1. Rate!Init <=> P1!Rate!Init
  BY DEF Rate!Init, P1!Rate!Init
<1>2. Rate!Next <=> P1!Rate!Next
  BY DEF Rate!Counters, P1!Rate!Counters, Rate!Stale, P1!Rate!Stale, Rate!Request, P1!Rate!Request,
    Rate!NextMinute, P1!Rate!NextMinute, Rate!Next, P1!Rate!Next, Rate!Cardinality,
    P1!Rate!Cardinality, Cardinality
<1>3. [Rate!Next]_(Rate!vars) <=> [P1!Rate!Next]_(P1!Rate!vars)
  BY <1>2 DEF Rate!vars, P1!Rate!vars
<1>4. Rate!LimitIsExact <=> P1!Rate!LimitIsExact
  BY DEF Rate!LimitIsExact, P1!Rate!LimitIsExact
<1>5. Rate!RateAssumption <=> P1!Rate!RateAssumption
  BY DEF Rate!RateAssumption, P1!Rate!RateAssumption
<1> QED
  BY <1>1, <1>3, <1>4, <1>5

\* The part "load" is the instance of ExplorerPage that the theorems about it speak of.
LEMMA LoadIs ==
  /\ Load!Init <=> P1!Screen!Init
  /\ [Load!Next]_(Load!vars) <=> [P1!Screen!Next]_(P1!Screen!vars)
  /\ Load!ShownIsTheRoute <=> P1!Screen!ShownIsTheRoute
  /\ Load!PageExists <=> P1!Screen!PageExists
  /\ Load!OnePoller <=> P1!Screen!OnePoller
  /\ Load!PageAssumption <=> P1!Screen!PageAssumption
<1>1. Load!Init <=> P1!Screen!Init
  BY DEF Load!Null, P1!Screen!Null, Load!Routes, P1!Screen!Routes, Load!Request, P1!Screen!Request,
    Load!Init, P1!Screen!Init
<1>2. Load!Next <=> P1!Screen!Next
  BY DEF Load!Null, P1!Screen!Null, Load!Routes, P1!Screen!Routes, Load!Kinds, P1!Screen!Kinds,
    Load!Request, P1!Screen!Request, Load!Cleaned, P1!Screen!Cleaned, Load!MountFor,
    P1!Screen!MountFor, Load!BoxFor, P1!Screen!BoxFor, Load!Go, P1!Screen!Go, Load!Enter,
    P1!Screen!Enter, Load!Listed, P1!Screen!Listed, Load!HasNext, P1!Screen!HasNext, Load!Turn,
    P1!Screen!Turn, Load!Live, P1!Screen!Live, Load!PollsOn, P1!Screen!PollsOn, Load!Reply,
    P1!Screen!Reply, Load!ErrAfter, P1!Screen!ErrAfter, Load!Fail, P1!Screen!Fail, Load!Poll,
    P1!Screen!Poll, Load!Submit, P1!Screen!Submit, Load!Done, P1!Screen!Done, Load!Found,
    P1!Screen!Found, Load!Missed, P1!Screen!Missed, Load!Answered, P1!Screen!Answered, Load!Next,
    P1!Screen!Next, Load!Cardinality, P1!Screen!Cardinality, Cardinality
<1>3. [Load!Next]_(Load!vars) <=> [P1!Screen!Next]_(P1!Screen!vars)
  BY <1>2 DEF Load!vars, P1!Screen!vars
<1>4. Load!ShownIsTheRoute <=> P1!Screen!ShownIsTheRoute
  BY DEF Load!Null, P1!Screen!Null, Load!ShownIsTheRoute, P1!Screen!ShownIsTheRoute
<1>5. Load!PageExists <=> P1!Screen!PageExists
  BY DEF Load!PageExists, P1!Screen!PageExists
<1>6. Load!OnePoller <=> P1!Screen!OnePoller
  BY DEF Load!OnePoller, P1!Screen!OnePoller, Load!Cardinality, P1!Screen!Cardinality, Cardinality
<1>7. Load!PageAssumption <=> P1!Screen!PageAssumption
  BY DEF Load!PageAssumption, P1!Screen!PageAssumption
<1> QED
  BY <1>1, <1>3, <1>4, <1>5, <1>6, <1>7

\* The part "search" is the instance of ExplorerPage that the theorems about it speak of.
LEMMA SearchIs ==
  /\ Search!Init <=> P2!Screen!Init
  /\ [Search!Next]_(Search!vars) <=> [P2!Screen!Next]_(P2!Screen!vars)
  /\ Search!BusyIsASearch <=> P2!Screen!BusyIsASearch
  /\ Search!PageAssumption <=> P2!Screen!PageAssumption
<1>1. Search!Init <=> P2!Screen!Init
  BY DEF Search!Null, P2!Screen!Null, Search!Routes, P2!Screen!Routes, Search!Request,
    P2!Screen!Request, Search!Init, P2!Screen!Init
<1>2. Search!Next <=> P2!Screen!Next
  BY DEF Search!Null, P2!Screen!Null, Search!Routes, P2!Screen!Routes, Search!Kinds,
    P2!Screen!Kinds, Search!Request, P2!Screen!Request, Search!Cleaned, P2!Screen!Cleaned,
    Search!MountFor, P2!Screen!MountFor, Search!BoxFor, P2!Screen!BoxFor, Search!Go, P2!Screen!Go,
    Search!Enter, P2!Screen!Enter, Search!Listed, P2!Screen!Listed, Search!HasNext,
    P2!Screen!HasNext, Search!Turn, P2!Screen!Turn, Search!Live, P2!Screen!Live, Search!PollsOn,
    P2!Screen!PollsOn, Search!Reply, P2!Screen!Reply, Search!ErrAfter, P2!Screen!ErrAfter,
    Search!Fail, P2!Screen!Fail, Search!Poll, P2!Screen!Poll, Search!Submit, P2!Screen!Submit,
    Search!Done, P2!Screen!Done, Search!Found, P2!Screen!Found, Search!Missed, P2!Screen!Missed,
    Search!Answered, P2!Screen!Answered, Search!Next, P2!Screen!Next, Search!Cardinality,
    P2!Screen!Cardinality, Cardinality
<1>3. [Search!Next]_(Search!vars) <=> [P2!Screen!Next]_(P2!Screen!vars)
  BY <1>2 DEF Search!vars, P2!Screen!vars
<1>4. Search!BusyIsASearch <=> P2!Screen!BusyIsASearch
  BY DEF Search!BusyIsASearch, P2!Screen!BusyIsASearch
<1>5. Search!PageAssumption <=> P2!Screen!PageAssumption
  BY DEF Search!PageAssumption, P2!Screen!PageAssumption
<1> QED
  BY <1>1, <1>3, <1>4, <1>5

---------------------------------------------------------------------------
(* The part that runs takes its own steps, and the others rest. *)

\* Which part runs is settled by the first state.
LEMMA PartStays == [Next]_vars => part' = part
BY DEF Next, vars, InSyncLock, InFetchLanes, InWatchdog, InPriceBook, InAlerts, InNewsletters,
  InAccessKeys, InBlockPages, InTxLookup, InAddressView, InRateWindow, InExplorerPage

\* The steps of a part are those of its component.
LEMMA StepsAreOwn ==
  [Next]_vars =>
    /\ part = "held" => [Held!Next]_(Held!vars)
    /\ part = "lost" => [Lost!Next]_(Lost!vars)
    /\ part = "fetch" => [Fetch!Next]_(Fetch!vars)
    /\ part = "dog" => [Dog!Next]_(Dog!vars)
    /\ part = "settling" => [Settling!Next]_(Settling!vars)
    /\ part = "revising" => [Revising!Next]_(Revising!vars)
    /\ part = "watch" => [Watch!Next]_(Watch!vars)
    /\ part = "overlap" => [Overlap!Next]_(Overlap!vars)
    /\ part = "subscribe" => [Subscribe!Next]_(Subscribe!vars)
    /\ part = "sending" => [Sending!Next]_(Sending!vars)
    /\ part = "revoke" => [Revoke!Next]_(Revoke!vars)
    /\ part = "count" => [Count!Next]_(Count!vars)
    /\ part = "shared" => [Shared!Next]_(Shared!vars)
    /\ part = "tx" => [Tx!Next]_(Tx!vars)
    /\ part = "address" => [Addresses!Next]_(Addresses!vars)
    /\ part = "rate" => [Rate!Next]_(Rate!vars)
    /\ part = "load" => [Load!Next]_(Load!vars)
    /\ part = "search" => [Search!Next]_(Search!vars)
<1>1. [Next]_vars /\ part = "held" => [Held!Next]_(Held!vars)
  BY DEF Next, vars, lock, Held!vars, InSyncLock, InFetchLanes, InWatchdog, InPriceBook, InAlerts,
    InNewsletters, InAccessKeys, InBlockPages, InTxLookup, InAddressView, InRateWindow,
    InExplorerPage
<1>2. [Next]_vars /\ part = "lost" => [Lost!Next]_(Lost!vars)
  BY DEF Next, vars, lock, Lost!vars, InSyncLock, InFetchLanes, InWatchdog, InPriceBook, InAlerts,
    InNewsletters, InAccessKeys, InBlockPages, InTxLookup, InAddressView, InRateWindow,
    InExplorerPage
<1>3. [Next]_vars /\ part = "fetch" => [Fetch!Next]_(Fetch!vars)
  BY DEF Next, vars, lanes, Fetch!vars, InSyncLock, InFetchLanes, InWatchdog, InPriceBook, InAlerts,
    InNewsletters, InAccessKeys, InBlockPages, InTxLookup, InAddressView, InRateWindow,
    InExplorerPage
<1>4. [Next]_vars /\ part = "dog" => [Dog!Next]_(Dog!vars)
  BY DEF Next, vars, dog, Dog!vars, InSyncLock, InFetchLanes, InWatchdog, InPriceBook, InAlerts,
    InNewsletters, InAccessKeys, InBlockPages, InTxLookup, InAddressView, InRateWindow,
    InExplorerPage
<1>5. [Next]_vars /\ part = "settling" => [Settling!Next]_(Settling!vars)
  BY DEF Next, vars, book, Settling!vars, InSyncLock, InFetchLanes, InWatchdog, InPriceBook,
    InAlerts, InNewsletters, InAccessKeys, InBlockPages, InTxLookup, InAddressView, InRateWindow,
    InExplorerPage
<1>6. [Next]_vars /\ part = "revising" => [Revising!Next]_(Revising!vars)
  BY DEF Next, vars, book, Revising!vars, InSyncLock, InFetchLanes, InWatchdog, InPriceBook,
    InAlerts, InNewsletters, InAccessKeys, InBlockPages, InTxLookup, InAddressView, InRateWindow,
    InExplorerPage
<1>7. [Next]_vars /\ part = "watch" => [Watch!Next]_(Watch!vars)
  BY DEF Next, vars, watch, Watch!vars, Watch!table, InSyncLock, InFetchLanes, InWatchdog,
    InPriceBook, InAlerts, InNewsletters, InAccessKeys, InBlockPages, InTxLookup, InAddressView,
    InRateWindow, InExplorerPage
<1>8. [Next]_vars /\ part = "overlap" => [Overlap!Next]_(Overlap!vars)
  BY DEF Next, vars, watch, Overlap!vars, Overlap!table, InSyncLock, InFetchLanes, InWatchdog,
    InPriceBook, InAlerts, InNewsletters, InAccessKeys, InBlockPages, InTxLookup, InAddressView,
    InRateWindow, InExplorerPage
<1>9. [Next]_vars /\ part = "subscribe" => [Subscribe!Next]_(Subscribe!vars)
  BY DEF Next, vars, list, Subscribe!vars, Subscribe!list, Subscribe!sending, InSyncLock,
    InFetchLanes, InWatchdog, InPriceBook, InAlerts, InNewsletters, InAccessKeys, InBlockPages,
    InTxLookup, InAddressView, InRateWindow, InExplorerPage
<1>10. [Next]_vars /\ part = "sending" => [Sending!Next]_(Sending!vars)
  BY DEF Next, vars, list, Sending!vars, Sending!list, Sending!sending, InSyncLock, InFetchLanes,
    InWatchdog, InPriceBook, InAlerts, InNewsletters, InAccessKeys, InBlockPages, InTxLookup,
    InAddressView, InRateWindow, InExplorerPage
<1>11. [Next]_vars /\ part = "revoke" => [Revoke!Next]_(Revoke!vars)
  BY DEF Next, vars, access, Revoke!vars, InSyncLock, InFetchLanes, InWatchdog, InPriceBook,
    InAlerts, InNewsletters, InAccessKeys, InBlockPages, InTxLookup, InAddressView, InRateWindow,
    InExplorerPage
<1>12. [Next]_vars /\ part = "count" => [Count!Next]_(Count!vars)
  BY DEF Next, vars, access, Count!vars, InSyncLock, InFetchLanes, InWatchdog, InPriceBook,
    InAlerts, InNewsletters, InAccessKeys, InBlockPages, InTxLookup, InAddressView, InRateWindow,
    InExplorerPage
<1>13. [Next]_vars /\ part = "shared" => [Shared!Next]_(Shared!vars)
  BY DEF Next, vars, blockPage, Shared!vars, Shared!store, InSyncLock, InFetchLanes, InWatchdog,
    InPriceBook, InAlerts, InNewsletters, InAccessKeys, InBlockPages, InTxLookup, InAddressView,
    InRateWindow, InExplorerPage
<1>14. [Next]_vars /\ part = "tx" => [Tx!Next]_(Tx!vars)
  BY DEF Next, vars, txPage, Tx!vars, InSyncLock, InFetchLanes, InWatchdog, InPriceBook, InAlerts,
    InNewsletters, InAccessKeys, InBlockPages, InTxLookup, InAddressView, InRateWindow,
    InExplorerPage
<1>15. [Next]_vars /\ part = "address" => [Addresses!Next]_(Addresses!vars)
  BY DEF Next, vars, addressPage, Addresses!vars, InSyncLock, InFetchLanes, InWatchdog, InPriceBook,
    InAlerts, InNewsletters, InAccessKeys, InBlockPages, InTxLookup, InAddressView, InRateWindow,
    InExplorerPage
<1>16. [Next]_vars /\ part = "rate" => [Rate!Next]_(Rate!vars)
  BY DEF Next, vars, limiter, Rate!vars, InSyncLock, InFetchLanes, InWatchdog, InPriceBook,
    InAlerts, InNewsletters, InAccessKeys, InBlockPages, InTxLookup, InAddressView, InRateWindow,
    InExplorerPage
<1>17. [Next]_vars /\ part = "load" => [Load!Next]_(Load!vars)
  BY DEF Next, vars, screen, Load!vars, InSyncLock, InFetchLanes, InWatchdog, InPriceBook, InAlerts,
    InNewsletters, InAccessKeys, InBlockPages, InTxLookup, InAddressView, InRateWindow,
    InExplorerPage
<1>18. [Next]_vars /\ part = "search" => [Search!Next]_(Search!vars)
  BY DEF Next, vars, screen, Search!vars, InSyncLock, InFetchLanes, InWatchdog, InPriceBook,
    InAlerts, InNewsletters, InAccessKeys, InBlockPages, InTxLookup, InAddressView, InRateWindow,
    InExplorerPage
<1> QED
  BY <1>1, <1>2, <1>3, <1>4, <1>5, <1>6, <1>7, <1>8, <1>9, <1>10, <1>11, <1>12, <1>13, <1>14, <1>15,
  <1>16, <1>17, <1>18

\* The part that runs starts as its component does.
LEMMA StartsAreOwn ==
  Init =>
    /\ part = "held" => Held!Init
    /\ part = "lost" => Lost!Init
    /\ part = "fetch" => Fetch!Init
    /\ part = "dog" => Dog!Init
    /\ part = "settling" => Settling!Init
    /\ part = "revising" => Revising!Init
    /\ part = "watch" => Watch!Init
    /\ part = "overlap" => Overlap!Init
    /\ part = "subscribe" => Subscribe!Init
    /\ part = "sending" => Sending!Init
    /\ part = "revoke" => Revoke!Init
    /\ part = "count" => Count!Init
    /\ part = "shared" => Shared!Init
    /\ part = "tx" => Tx!Init
    /\ part = "address" => Addresses!Init
    /\ part = "rate" => Rate!Init
    /\ part = "load" => Load!Init
    /\ part = "search" => Search!Init
BY DEF Init

\* What is promised holds of the part "held", and so do its types.
LEMMA HeldHolds == Spec => [](part = "held" => Held!SingleWriter /\ Held!TypeOK)
<1>1. P1!Lock!Spec => []P1!Lock!SingleWriter
  BY P1!LockHoldsAndLosesNothing, ServicesAssumption, HeldIs DEF ServicesAssumption
<1>2. /\ Init /\ part = "held" => P1!Lock!Init
      /\ [Next]_vars /\ part = "held" => [P1!Lock!Next]_(P1!Lock!vars)
      /\ [Next]_vars => (part = "held" <=> (part = "held")')
  BY StartsAreOwn, StepsAreOwn, PartStays, HeldIs
<1>3. P1!Lock!Spec => []P1!Lock!TypeOK
  BY P1!LockTypesHold, ServicesAssumption, HeldIs DEF ServicesAssumption, Held!LockAssumption, P1!Lock!LockAssumption
<1>4. Held!TypeOK <=> P1!Lock!TypeOK
  BY DEF Held!Nobody, P1!Lock!Nobody, Held!Range, P1!Lock!Range, Held!Height, P1!Lock!Height,
    Held!Writing, P1!Lock!Writing, Held!Places, P1!Lock!Places, Held!TypeOK, P1!Lock!TypeOK
<1> QED
  BY <1>1, <1>2, <1>3, <1>4, HeldIs, PTL DEF Spec, P1!Lock!Spec

\* What is promised holds of the part "lost".
LEMMA LostHolds == Spec => [](part = "lost" => Lost!SingleWriter)
<1>1. P2!Lock!Spec => []P2!Lock!SingleWriter
  BY P2!LockHoldsAndLosesNothing, ServicesAssumption, LostIs DEF ServicesAssumption
<1>2. /\ Init /\ part = "lost" => P2!Lock!Init
      /\ [Next]_vars /\ part = "lost" => [P2!Lock!Next]_(P2!Lock!vars)
      /\ [Next]_vars => (part = "lost" <=> (part = "lost")')
  BY StartsAreOwn, StepsAreOwn, PartStays, LostIs
<1> QED
  BY <1>1, <1>2, LostIs, PTL DEF Spec, P2!Lock!Spec

\* What is promised holds of the part "fetch", and so do its types.
LEMMA FetchHolds == Spec => [](part = "fetch" => Fetch!ResolvedIsComplete /\ Fetch!TypeOK)
<1>1. P1!Lanes!Spec => []P1!Lanes!ResolvedIsComplete
  BY P1!FetchesResolveComplete, ServicesAssumption, FetchIs DEF ServicesAssumption
<1>2. /\ Init /\ part = "fetch" => P1!Lanes!Init
      /\ [Next]_vars /\ part = "fetch" => [P1!Lanes!Next]_(P1!Lanes!vars)
      /\ [Next]_vars => (part = "fetch" <=> (part = "fetch")')
  BY StartsAreOwn, StepsAreOwn, PartStays, FetchIs
<1>3. P1!Lanes!Spec => []P1!Lanes!TypeOK
  BY P1!FetchTypesHold, ServicesAssumption, FetchIs DEF ServicesAssumption
<1>4. Fetch!TypeOK <=> P1!Lanes!TypeOK
  BY DEF Fetch!Fetch, P1!Lanes!Fetch, Fetch!Asking, P1!Lanes!Asking, Fetch!TypeOK, P1!Lanes!TypeOK
<1> QED
  BY <1>1, <1>2, <1>3, <1>4, FetchIs, PTL DEF Spec, P1!Lanes!Spec

\* What is promised holds of the part "dog", and so do its types.
LEMMA DogHolds == Spec => [](part = "dog" => Dog!ExitsExactly /\ Dog!TypeOK)
<1>1. P1!Dog!Spec => []P1!Dog!ExitsExactly
  BY P1!WatchdogExitsExactly, ServicesAssumption, DogIs DEF ServicesAssumption
<1>2. /\ Init /\ part = "dog" => P1!Dog!Init
      /\ [Next]_vars /\ part = "dog" => [P1!Dog!Next]_(P1!Dog!vars)
      /\ [Next]_vars => (part = "dog" <=> (part = "dog")')
  BY StartsAreOwn, StepsAreOwn, PartStays, DogIs
<1>3. P1!Dog!Spec => []P1!Dog!TypeOK
  BY P1!DogTypesHold, ServicesAssumption, DogIs DEF ServicesAssumption
<1>4. Dog!TypeOK <=> P1!Dog!TypeOK
  BY DEF Dog!Calls, P1!Dog!Calls, Dog!Work, P1!Dog!Work, Dog!Pauses, P1!Dog!Pauses, Dog!AtMost,
    P1!Dog!AtMost, Dog!TypeOK, P1!Dog!TypeOK
<1> QED
  BY <1>1, <1>2, <1>3, <1>4, DogIs, PTL DEF Spec, P1!Dog!Spec

\* What is promised holds of the part "settling", and so do its types.
LEMMA SettlingHolds == Spec => [](part = "settling" => Settling!PricesReconcile /\ Settling!TypeOK)
<1>1. SettlingP!Spec => []SettlingP!PricesReconcile
  BY SettlingP!BooksReconcile, ServicesAssumption, SettlingIs DEF ServicesAssumption
<1>2. /\ Init /\ part = "settling" => SettlingP!Init
      /\ [Next]_vars /\ part = "settling" => [SettlingP!Next]_(SettlingP!vars)
      /\ [Next]_vars => (part = "settling" <=> (part = "settling")')
  BY StartsAreOwn, StepsAreOwn, PartStays, SettlingIs
<1>3. SettlingP!Spec => []SettlingP!TypeOK
  BY SettlingP!TypesHold, ServicesAssumption, SettlingIs DEF ServicesAssumption
<1>4. Settling!TypeOK <=> SettlingP!TypeOK
  BY DEF Settling!Day, SettlingP!Day, Settling!Tip, SettlingP!Tip, Settling!TypeOK, SettlingP!TypeOK
<1> QED
  BY <1>1, <1>2, <1>3, <1>4, SettlingIs, PTL DEF Spec, SettlingP!Spec

\* What is promised holds of the part "revising".
LEMMA RevisingHolds == Spec => [](part = "revising" => Revising!PricesReconcile)
<1>1. RevisingP!Spec => []RevisingP!PricesReconcile
  BY RevisingP!BooksReconcile, ServicesAssumption, RevisingIs DEF ServicesAssumption
<1>2. /\ Init /\ part = "revising" => RevisingP!Init
      /\ [Next]_vars /\ part = "revising" => [RevisingP!Next]_(RevisingP!vars)
      /\ [Next]_vars => (part = "revising" <=> (part = "revising")')
  BY StartsAreOwn, StepsAreOwn, PartStays, RevisingIs
<1> QED
  BY <1>1, <1>2, RevisingIs, PTL DEF Spec, RevisingP!Spec

\* What is promised holds of the part "watch", and so do its types.
LEMMA WatchHolds == Spec => [](part = "watch" => Watch!CrossingsMailed /\ Watch!TypeOK)
<1>1. P1!Alarm!Spec => []P1!Alarm!CrossingsMailed
  BY P1!CrossingsAlwaysMailed, ServicesAssumption, WatchIs DEF ServicesAssumption
<1>2. /\ Init /\ part = "watch" => P1!Alarm!Init
      /\ [Next]_vars /\ part = "watch" => [P1!Alarm!Next]_(P1!Alarm!vars)
      /\ [Next]_vars => (part = "watch" <=> (part = "watch")')
  BY StartsAreOwn, StepsAreOwn, PartStays, WatchIs
<1>3. P1!Alarm!Spec => []P1!Alarm!TypeOK
  BY P1!AlarmTypesHold, ServicesAssumption, WatchIs DEF ServicesAssumption
<1>4. Watch!TypeOK <=> P1!Alarm!TypeOK
  BY DEF Watch!Value, P1!Alarm!Value, Watch!Cardinality, P1!Alarm!Cardinality, Watch!Day, P1!Alarm!Day,
    Watch!TypeOK, P1!Alarm!TypeOK, Cardinality
<1> QED
  BY <1>1, <1>2, <1>3, <1>4, WatchIs, PTL DEF Spec, P1!Alarm!Spec

\* What is promised holds of the part "overlap".
LEMMA OverlapHolds == Spec => [](part = "overlap" => Overlap!CrossingsMailed)
<1>1. P2!Alarm!Spec => []P2!Alarm!CrossingsMailed
  BY P2!CrossingsAlwaysMailed, ServicesAssumption, OverlapIs DEF ServicesAssumption
<1>2. /\ Init /\ part = "overlap" => P2!Alarm!Init
      /\ [Next]_vars /\ part = "overlap" => [P2!Alarm!Next]_(P2!Alarm!vars)
      /\ [Next]_vars => (part = "overlap" <=> (part = "overlap")')
  BY StartsAreOwn, StepsAreOwn, PartStays, OverlapIs
<1> QED
  BY <1>1, <1>2, OverlapIs, PTL DEF Spec, P2!Alarm!Spec

\* What is promised holds of the part "subscribe".
LEMMA SubscribeHolds == Spec => [](part = "subscribe" => Subscribe!NewslettersWhole)
<1>1. SubscribeP!NewsAssumption /\ SubscribeP!Spec => []SubscribeP!NewslettersWhole
  BY SubscribeP!NewslettersAlwaysWhole
<1>2. /\ Init /\ part = "subscribe" => SubscribeP!Init
      /\ [Next]_vars /\ part = "subscribe" => [SubscribeP!Next]_(SubscribeP!vars)
      /\ [Next]_vars => (part = "subscribe" <=> (part = "subscribe")')
  BY StartsAreOwn, StepsAreOwn, PartStays, SubscribeIs
<1>3. SubscribeP!NewsAssumption
  BY ServicesAssumption, SubscribeIs DEF ServicesAssumption
<1> QED
  BY <1>1, <1>2, <1>3, SubscribeIs, PTL DEF Spec, SubscribeP!Spec

\* What is promised holds of the part "sending", and so do its types.
LEMMA SendingHolds == Spec => [](part = "sending" => Sending!NewslettersWhole /\ Sending!TypeOK)
<1>1. SendingP!NewsAssumption /\ SendingP!Spec => []SendingP!NewslettersWhole
  BY SendingP!NewslettersAlwaysWhole
<1>2. /\ Init /\ part = "sending" => SendingP!Init
      /\ [Next]_vars /\ part = "sending" => [SendingP!Next]_(SendingP!vars)
      /\ [Next]_vars => (part = "sending" <=> (part = "sending")')
  BY StartsAreOwn, StepsAreOwn, PartStays, SendingIs
<1>3. SendingP!NewsAssumption
  BY ServicesAssumption, SendingIs DEF ServicesAssumption
<1>4. SendingP!NewsAssumption /\ SendingP!Spec => []SendingP!TypeOK
  BY SendingP!TypeCorrect
<1>5. Sending!TypeOK <=> SendingP!TypeOK
  BY DEF Sending!TypeOK, SendingP!TypeOK
<1> QED
  BY <1>1, <1>2, <1>3, <1>4, <1>5, SendingIs, PTL DEF Spec, SendingP!Spec

\* What is promised holds of the part "revoke".
LEMMA RevokeHolds == Spec => [](part = "revoke" => Revoke!RevocationBinds)
<1>1. P1!Keys!Spec => []P1!Keys!RevocationBinds
  BY P1!RevocationAlwaysBinds, ServicesAssumption, RevokeIs DEF ServicesAssumption
<1>2. /\ Init /\ part = "revoke" => P1!Keys!Init
      /\ [Next]_vars /\ part = "revoke" => [P1!Keys!Next]_(P1!Keys!vars)
      /\ [Next]_vars => (part = "revoke" <=> (part = "revoke")')
  BY StartsAreOwn, StepsAreOwn, PartStays, RevokeIs
<1> QED
  BY <1>1, <1>2, RevokeIs, PTL DEF Spec, P1!Keys!Spec

\* What is promised holds of the part "count", and so do its types.
LEMMA CountHolds == Spec => [](part = "count" => Count!RevocationBinds /\ Count!TypeOK)
<1>1. P2!Keys!Spec => []P2!Keys!RevocationBinds
  BY P2!RevocationAlwaysBinds, ServicesAssumption, CountIs DEF ServicesAssumption
<1>2. /\ Init /\ part = "count" => P2!Keys!Init
      /\ [Next]_vars /\ part = "count" => [P2!Keys!Next]_(P2!Keys!vars)
      /\ [Next]_vars => (part = "count" <=> (part = "count")')
  BY StartsAreOwn, StepsAreOwn, PartStays, CountIs
<1>3. P2!Keys!Spec => []P2!Keys!TypeOK
  BY P2!KeysTypesHold, ServicesAssumption, CountIs DEF ServicesAssumption
<1>4. Count!TypeOK <=> P2!Keys!TypeOK
  BY DEF Count!NoOne, P2!Keys!NoOne, Count!Idle, P2!Keys!Idle, Count!Ops, P2!Keys!Ops, Count!TypeOK,
    P2!Keys!TypeOK
<1> QED
  BY <1>1, <1>2, <1>3, <1>4, CountIs, PTL DEF Spec, P2!Keys!Spec

\* What is promised holds of the part "shared", and so do its types.
LEMMA SharedHolds == Spec => [](part = "shared" => Shared!OneCallPerKey /\ Shared!CacheBounded /\
  Shared!AnswerIsTheQuestion /\ Shared!SizeIsTheRows /\ Shared!TypeOK)
<1>1. P1!Pages!Spec => [](P1!Pages!OneCallPerKey /\ P1!Pages!CacheBounded /\
      P1!Pages!AnswerIsTheQuestion /\ P1!Pages!SizeIsTheRows)
  BY P1!PagesAlwaysShare, ServicesAssumption, SharedIs, PTL DEF ServicesAssumption
<1>2. /\ Init /\ part = "shared" => P1!Pages!Init
      /\ [Next]_vars /\ part = "shared" => [P1!Pages!Next]_(P1!Pages!vars)
      /\ [Next]_vars => (part = "shared" <=> (part = "shared")')
  BY StartsAreOwn, StepsAreOwn, PartStays, SharedIs
<1>3. Shared!OneCallPerKey /\ Shared!CacheBounded /\ Shared!AnswerIsTheQuestion /\
      Shared!SizeIsTheRows <=> P1!Pages!OneCallPerKey /\ P1!Pages!CacheBounded /\
      P1!Pages!AnswerIsTheQuestion /\ P1!Pages!SizeIsTheRows
  BY SharedIs
<1>4. P1!Pages!Spec => []P1!Pages!TypeOK
  BY P1!PagesTypesHold, ServicesAssumption, SharedIs DEF ServicesAssumption
<1>5. Shared!TypeOK <=> P1!Pages!TypeOK
  BY DEF Shared!Block, P1!Pages!Block, Shared!Range, P1!Pages!Range, Shared!Waiting, P1!Pages!Waiting,
    Shared!TypeOK, P1!Pages!TypeOK
<1> QED
  BY <1>1, <1>2, <1>3, <1>4, <1>5, PTL DEF Spec, P1!Pages!Spec

\* What is promised holds of the part "tx", and so do its types.
LEMMA TxHolds == Spec => [](part = "tx" => Tx!HeightIsHashs /\ Tx!TypeOK)
<1>1. P1!Tx!Spec => []P1!Tx!HeightIsHashs
  BY P1!HeightAlwaysHashs, ServicesAssumption, TxIs DEF ServicesAssumption
<1>2. /\ Init /\ part = "tx" => P1!Tx!Init
      /\ [Next]_vars /\ part = "tx" => [P1!Tx!Next]_(P1!Tx!vars)
      /\ [Next]_vars => (part = "tx" <=> (part = "tx")')
  BY StartsAreOwn, StepsAreOwn, PartStays, TxIs
<1>3. P1!Tx!Spec => []P1!Tx!TypeOK
  BY P1!LookupTypesHold, ServicesAssumption, TxIs DEF ServicesAssumption
<1>4. Tx!TypeOK <=> P1!Tx!TypeOK
  BY DEF Tx!Block, P1!Tx!Block, Tx!Waiting, P1!Tx!Waiting, Tx!Null, P1!Tx!Null, Tx!Max, P1!Tx!Max,
    Tx!Range, P1!Tx!Range, Tx!TypeOK, P1!Tx!TypeOK
<1> QED
  BY <1>1, <1>2, <1>3, <1>4, TxIs, PTL DEF Spec, P1!Tx!Spec

\* What is promised holds of the part "address", and so do its types.
LEMMA AddressesHolds == Spec => [](part = "address" => Addresses!EachPartIsOfATip /\ Addresses!TypeOK)
<1>1. P1!Addresses!Spec => []P1!Addresses!EachPartIsOfATip
  BY P1!PartsAlwaysOfTips, ServicesAssumption, AddressesIs DEF ServicesAssumption
<1>2. /\ Init /\ part = "address" => P1!Addresses!Init
      /\ [Next]_vars /\ part = "address" => [P1!Addresses!Next]_(P1!Addresses!vars)
      /\ [Next]_vars => (part = "address" <=> (part = "address")')
  BY StartsAreOwn, StepsAreOwn, PartStays, AddressesIs
<1>3. P1!Addresses!Spec => []P1!Addresses!TypeOK
  BY P1!AddressTypesHold, ServicesAssumption, AddressesIs DEF ServicesAssumption
<1>4. Addresses!TypeOK <=> P1!Addresses!TypeOK
  BY DEF Addresses!Cardinality, P1!Addresses!Cardinality, Addresses!Null, P1!Addresses!Null,
    Addresses!TypeOK, P1!Addresses!TypeOK, Cardinality
<1> QED
  BY <1>1, <1>2, <1>3, <1>4, AddressesIs, PTL DEF Spec, P1!Addresses!Spec

\* What is promised holds of the part "rate", and so do its types.
LEMMA RateHolds == Spec => [](part = "rate" => Rate!LimitIsExact /\ Rate!TypeOK)
<1>1. P1!Rate!Spec => []P1!Rate!LimitIsExact
  BY P1!LimitAlwaysExact, ServicesAssumption, RateIs DEF ServicesAssumption
<1>2. /\ Init /\ part = "rate" => P1!Rate!Init
      /\ [Next]_vars /\ part = "rate" => [P1!Rate!Next]_(P1!Rate!vars)
      /\ [Next]_vars => (part = "rate" <=> (part = "rate")')
  BY StartsAreOwn, StepsAreOwn, PartStays, RateIs
<1>3. P1!Rate!Spec => []P1!Rate!TypeOK
  BY P1!RateTypesHold, ServicesAssumption, RateIs DEF ServicesAssumption
<1>4. Rate!TypeOK <=> P1!Rate!TypeOK
  BY DEF Rate!Counters, P1!Rate!Counters, Rate!TypeOK, P1!Rate!TypeOK
<1> QED
  BY <1>1, <1>2, <1>3, <1>4, RateIs, PTL DEF Spec, P1!Rate!Spec

\* What is promised holds of the part "load", and so do its types.
LEMMA LoadHolds == Spec => [](part = "load" => Load!ShownIsTheRoute /\ Load!PageExists /\
  Load!OnePoller /\ Load!TypeOK)
<1>1. P1!Screen!Spec => [](P1!Screen!ShownIsTheRoute /\ P1!Screen!PageExists /\ P1!Screen!OnePoller)
  BY P1!ScreenIsAlwaysTheRoute, ServicesAssumption, LoadIs, PTL DEF ServicesAssumption
<1>2. /\ Init /\ part = "load" => P1!Screen!Init
      /\ [Next]_vars /\ part = "load" => [P1!Screen!Next]_(P1!Screen!vars)
      /\ [Next]_vars => (part = "load" <=> (part = "load")')
  BY StartsAreOwn, StepsAreOwn, PartStays, LoadIs
<1>3. Load!ShownIsTheRoute /\ Load!PageExists /\ Load!OnePoller <=> P1!Screen!ShownIsTheRoute /\
      P1!Screen!PageExists /\ P1!Screen!OnePoller
  BY LoadIs
<1>4. P1!Screen!Spec => []P1!Screen!TypeOK
  BY P1!ScreenTypesHold, ServicesAssumption, LoadIs DEF ServicesAssumption
<1>5. Load!TypeOK <=> P1!Screen!TypeOK
  BY DEF Load!Routes, P1!Screen!Routes, Load!Null, P1!Screen!Null, Load!Kinds, P1!Screen!Kinds,
    Load!TypeOK, P1!Screen!TypeOK
<1> QED
  BY <1>1, <1>2, <1>3, <1>4, <1>5, PTL DEF Spec, P1!Screen!Spec

\* What is promised holds of the part "search".
LEMMA SearchHolds == Spec => [](part = "search" => Search!BusyIsASearch)
<1>1. P2!Screen!Spec => []P2!Screen!BusyIsASearch
  BY P2!ScreenIsAlwaysTheRoute, ServicesAssumption, SearchIs, PTL DEF ServicesAssumption
<1>2. /\ Init /\ part = "search" => P2!Screen!Init
      /\ [Next]_vars /\ part = "search" => [P2!Screen!Next]_(P2!Screen!vars)
      /\ [Next]_vars => (part = "search" <=> (part = "search")')
  BY StartsAreOwn, StepsAreOwn, PartStays, SearchIs
<1> QED
  BY <1>1, <1>2, SearchIs, PTL DEF Spec, P2!Screen!Spec

---------------------------------------------------------------------------
(* What the services promise, for every bound of every part. *)

\* One writer at a time past acquireSyncLock and no lost or double update of the
\* running totals (sync.js:41-68).
THEOREM LockMakesSingleWriter == Spec => []SingleWriter
BY HeldHolds, LostHolds, PTL DEF SingleWriter

\* A batch that fetchBlocks hands on is complete, and nothing is fetched twice
\* (rpc.js:141-161).
THEOREM FetchesComplete == Spec => []ResolvedIsComplete
BY FetchHolds, PTL DEF ResolvedIsComplete

\* The stall watchdog stops silent workers, and no other (sync.js:455-475).
THEOREM ExitsAreExact == Spec => []ExitsExactly
BY DogHolds, PTL DEF ExitsExactly

\* The price books balance, whatever providers revise and the node reorganizes
\* (prices.js, metricsDaily.js).
THEOREM PricesAlwaysReconcile == Spec => []PricesReconcile
BY SettlingHolds, RevisingHolds, PTL DEF PricesReconcile

\* Crossings are mailed to the confirmed, all that a check sees in time, and once
\* if checks neither fail nor overlap (alerts.js:112-165).
THEOREM CrossingsStayMailed == Spec => []CrossingsMailed
BY WatchHolds, OverlapHolds, PTL DEF CrossingsMailed

\* Nobody gets a newsletter twice, unasked or in a text of its own, and one that is
\* marked sent went through its list (newsletters.js).
THEOREM NewslettersStayWhole == Spec => []NewslettersWhole
BY SubscribeHolds, SendingHolds, PTL DEF NewslettersWhole

\* A revoked admin is done after the requests in flight, and uses of keys are
\* counted (keys.js:39-75).
THEOREM RevocationsBind == Spec => []RevocationBinds
BY RevokeHolds, CountHolds, PTL DEF RevocationBinds

\* No step of another request undoes a revocation or moves its time (keys.js).
THEOREM RevocationsStand == Spec => RevocationStands
<1>1. P1!Keys!Spec => [][P1!Keys!RevocationStands]_(P1!Keys!vars)
  BY P1!RevocationAlwaysStands, ServicesAssumption, RevokeIs DEF ServicesAssumption
<1>2. Init /\ part = "revoke" => P1!Keys!Init
  BY StartsAreOwn, RevokeIs
<1>3. [Next]_vars /\ part = "revoke" => [P1!Keys!Next]_(P1!Keys!vars)
  BY StepsAreOwn, RevokeIs
<1>4. [Next]_vars => (part = "revoke" <=> (part = "revoke")')
  BY PartStays
<1>5. /\ [Next]_vars
      /\ part = "revoke" => [P1!Keys!RevocationStands]_(P1!Keys!vars)
      => [part = "revoke" => Revoke!RevocationStands]_vars
  <2>1. [Next]_vars /\ part = "revoke" /\ UNCHANGED Revoke!vars => UNCHANGED vars
    BY DEF Next, vars, access, Revoke!vars, InSyncLock, InFetchLanes, InWatchdog, InPriceBook,
      InAlerts, InNewsletters, InAccessKeys, InBlockPages, InTxLookup, InAddressView, InRateWindow,
      InExplorerPage
  <2>2. UNCHANGED Revoke!vars <=> UNCHANGED P1!Keys!vars
    BY DEF Revoke!vars, P1!Keys!vars
  <2> QED
    BY <2>1, <2>2, RevokeIs
<1> QED
  BY <1>1, <1>2, <1>3, <1>4, <1>5, PTL DEF Spec, P1!Keys!Spec, RevocationStands

\* Calls, the cache and back-filled sizes are what they should be, and a full answer
\* is of the block and page asked for (explorer.js:22-215).
THEOREM PagesStayShared == Spec => []PagesShare
BY SharedHolds, PTL DEF PagesShare

\* What an answer of the explorer puts together belongs together, and the limiter
\* lets through the first requests of a minute (explorer.js:233-445).
THEOREM ExplorerAnswersAgree == Spec => []AnswersAgree
BY TxHolds, AddressesHolds, RateHolds, PTL DEF AnswersAgree

\* The explorer page shows what its address says, and its box waits for its own
\* search (Explorer.jsx).
THEOREM ScreenStaysTheRoute == Spec => []ScreenIsTheRoute
BY LoadHolds, SearchHolds, PTL DEF ScreenIsTheRoute

\* The services stay in the states their components have: the line for the lock is
\* the waiting workers, each request and row of a page names a block and an offset
\* that were asked for, and no counter passes its bound.
THEOREM TypesStayRight == Spec => []TypeOK
<1>1. Init => part \in Parts
  BY DEF Init
<1>2. part \in Parts /\ [Next]_vars => (part \in Parts)'
  BY PartStays
<1>3. Spec => [](part \in Parts)
  BY <1>1, <1>2, PTL DEF Spec
<1> QED
  BY <1>3, HeldHolds, FetchHolds, DogHolds, SettlingHolds, WatchHolds, SendingHolds, CountHolds,
    SharedHolds, TxHolds, AddressesHolds, RateHolds, LoadHolds, PTL DEF TypeOK
=============================================================================
