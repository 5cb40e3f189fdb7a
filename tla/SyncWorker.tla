----------------------------- MODULE SyncWorker -----------------------------
(***************************************************************************)
(* The sync worker (server/src/sync.js): one process that follows a        *)
(* Bitcoin node, replays its blocks into the tables of ChainTables, and    *)
(* finalizes a metrics row at every UTC day boundary.                      *)
(*                                                                         *)
(* An action is one await of the worker: the node may move, the process    *)
(* may die and a call may fail between any two of them.  A transaction is  *)
(* one action whose parameter `answered' says whether its COMMIT was       *)
(* acknowledged; when it was not, the effect is there and the worker sees  *)
(* an error (a dropped connection).  An error anywhere ends the pass: the  *)
(* loop sleeps and starts the next one.                                    *)
(***************************************************************************)
EXTENDS ChainTables

CONSTANTS
  BatchBlocks,      \* config.syncBatchBlocks
  ScanDepth,        \* config.reorgScanDepth
  PruneDepth,       \* config.pruneDepth
  PruneEvery,       \* blocks between two prunes (1000 in the code)
  LastClose,        \* bound: the last day the price provider publishes
  MaxReorgs,        \* bound: how often the node changes branch
  MaxReorgDepth,    \* how many of its blocks the node abandons at once
  ReorgDuringPass,  \* may the node change branch while a pass is under way?
  MaxFaults,        \* bound: errors and crashes
  MaxProbeFaults    \* bound: failed getblockhash probes of the reorg scan

ASSUME WorkerAssumption ==
  /\ BatchBlocks \in Nat \ {0} /\ ScanDepth \in Nat \ {0}
  /\ PruneDepth \in Nat /\ PruneEvery \in Nat /\ LastClose \in Nat
  /\ MaxReorgs \in Nat /\ MaxReorgDepth \in Nat
  /\ ReorgDuringPass \in BOOLEAN
  /\ MaxFaults \in Nat /\ MaxProbeFaults \in Nat

VARIABLES
  \* the node
  node,          \* [chain |-> its branch, height |-> its tip]
  \* the database
  blocks,        \* blocks table
  agg,           \* block_agg: what each block's spends were priced at
  utxos,         \* utxos: coin -> [created, spent] heights
  staged,        \* day_active_addresses
  supply,        \* chain_state circulating_supply_sat
  metrics,       \* metrics_daily
  coinDays,      \* chain_state cum_coindays_created
  finalized,     \* chain_state last_metrics_day_epoch
  closes,        \* prices: closes are stored up to this day
  \* the process
  pc,            \* where the loop of main() stands
  index,         \* heightMeta: height -> day, NoDay where undefined
  cursor,        \* the height checkReorg probes next
  goal,          \* the last height of the batch being fetched
  batch,         \* the blocks fetched so far, by height
  runDay,        \* the day of the run being collected
  lastPrune,
  \* bounds
  reorgs, faults, probeFaults

db == <<blocks, agg, utxos, staged, supply, metrics, coinDays, finalized>>
memory == <<index, cursor, goal, batch, runDay, lastPrune>>
world == <<node, reorgs>>
budget == <<faults, probeFaults>>
vars == <<node, blocks, agg, utxos, staged, supply, metrics, coinDays, finalized,
          closes, pc, index, cursor, goal, batch, runDay, lastPrune,
          reorgs, faults, probeFaults>>

Phases == {"down", "pass", "scan", "rewind", "info", "fetch", "process", "prune"}
Running == Phases \ {"down"}
EmptyIndex == [h \in Height |-> NoDay]

NodeType ==
  /\ node \in [chain : Branch, height : Height] /\ node.height \in DOMAIN node.chain

TablesType ==
  /\ DOMAIN blocks \subseteq Height /\ blocks \in [DOMAIN blocks -> Block]
  /\ agg \in [DOMAIN blocks -> SUBSET [coin : Coin, day : Days]]
  /\ DOMAIN utxos \subseteq Coin
  /\ utxos \in [DOMAIN utxos -> [created : Height, spent : Height \cup {None}]]
  /\ DOMAIN staged \subseteq Days \X {Owner[c] : c \in Coin}
  /\ staged \in [DOMAIN staged -> Height]

RollupType ==
  /\ DOMAIN metrics \subseteq 1..LastClose
  /\ finalized \in 0..LastClose /\ closes \in 0..LastClose

MemoryType ==
  /\ pc \in Phases
  /\ index \in [Height -> Nat]
  /\ cursor \in Height \cup {None} /\ goal \in Height \cup {None}
  /\ DOMAIN batch \subseteq Height /\ batch \in [DOMAIN batch -> Block]
  /\ runDay \in Nat /\ lastPrune \in Nat

BudgetType ==
  /\ reorgs \in 0..MaxReorgs /\ faults \in 0..MaxFaults
  /\ probeFaults \in 0..MaxProbeFaults

\* The shape of every table and variable.  The sums, supply, coinDays and the
\* supply of a row, are what SupplyReconciles and RollupReconciles say they are.
TypeOK == NodeType /\ TablesType /\ RollupType /\ MemoryType /\ BudgetType

Tip == TipOf(blocks)

Init ==
  /\ node \in {[chain |-> br, height |-> 0] : br \in Branch}
  /\ blocks = <<>> /\ agg = <<>> /\ utxos = <<>> /\ staged = <<>>
  /\ supply = 0 /\ metrics = <<>> /\ coinDays = 0 /\ finalized = NoDay
  /\ closes = NoDay
  /\ pc = "down"
  /\ index = EmptyIndex /\ cursor = None /\ goal = None /\ batch = <<>>
  /\ runDay = NoDay /\ lastPrune = 0
  /\ reorgs = 0 /\ faults = 0 /\ probeFaults = 0

---------------------------------------------------------------------------
(* The node. *)

\* getBlockHash(h): always answered, the node never shrinks (NodeReorgs).
NodeBlock(h) == node.chain[h]

NodeExtends ==
  /\ node.height + 1 \in DOMAIN node.chain
  /\ node' = [node EXCEPT !.height = @ + 1]
  /\ UNCHANGED <<db, closes, pc, memory, budget, reorgs>>

\* The node abandons its blocks above height `fork' for a longer branch.
NodeReorgs(br, fork) ==
  /\ reorgs < MaxReorgs
  /\ ReorgDuringPass \/ pc \in {"down", "pass"}
  /\ fork \in node.height - MaxReorgDepth .. node.height - 1
  /\ fork \in DOMAIN br /\ node.height + 1 \in DOMAIN br
  /\ \A h \in 0..fork : br[h] = NodeBlock(h)
  /\ br[fork + 1] # NodeBlock(fork + 1)
  /\ node' = [chain |-> br, height |-> node.height + 1]
  /\ reorgs' = reorgs + 1
  /\ UNCHANGED <<db, closes, pc, memory, budget>>

---------------------------------------------------------------------------
(* Starting, stopping, failing. *)

\* loadHeightMeta.
IndexOfTable == [h \in Height |-> IF h \in DOMAIN blocks THEN DayOf[blocks[h]] ELSE NoDay]

\* syncPrices and assertNoPriceGaps: the stored closes reach some published
\* day, without a hole.
PricesRefreshed == \E d \in closes..LastClose : closes' = d

\* main() up to the loop, once the write lock is held.
Boot ==
  /\ pc = "down"
  /\ pc' = "pass"
  /\ index' = IndexOfTable
  /\ lastPrune' = 0
  /\ PricesRefreshed
  /\ UNCHANGED <<world, db, cursor, goal, batch, runDay, budget>>

\* The process dies: a crash, a watchdog exit, a lost lock connection, a
\* redeploy.  The platform starts it again.
Crash ==
  /\ pc \in Running
  /\ faults < MaxFaults
  /\ faults' = faults + 1
  /\ pc' = "down"
  /\ index' = EmptyIndex /\ cursor' = None /\ goal' = None
  /\ batch' = <<>> /\ runDay' = NoDay /\ lastPrune' = 0
  /\ UNCHANGED <<world, db, closes, probeFaults>>

\* What the loop keeps across passes is the index and lastPrune; cursor, goal,
\* batch and runDay are locals of the pass.
PassOver == /\ cursor' = None /\ goal' = None /\ batch' = <<>> /\ runDay' = NoDay

\* An RPC or a query fails, or a transaction rolls back: logged, retried by
\* the next pass.  (Losing a run has a memory effect: see RunFails.)
PassFails ==
  /\ pc \in Running \ {"pass"}
  /\ faults < MaxFaults
  /\ faults' = faults + 1
  /\ pc' = "pass"
  /\ PassOver
  /\ UNCHANGED <<world, db, closes, index, lastPrune, probeFaults>>

\* How a committed transaction leaves the loop: the step that follows, or the
\* next pass when the acknowledgement was lost.
Continues(answered, step) ==
  IF answered THEN pc' = step /\ UNCHANGED faults
  ELSE pc' = "pass" /\ faults < MaxFaults /\ faults' = faults + 1

---------------------------------------------------------------------------
(* checkReorg and rollbackAbove. *)

\* Top of the loop: prices are refreshed when they are six hours old, then
\* the scan starts at the stored tip.
StartPass ==
  /\ pc = "pass"
  /\ PricesRefreshed
  /\ cursor' = Tip
  /\ pc' = IF Tip = None THEN "info" ELSE "scan"
  /\ UNCHANGED <<world, db, index, goal, batch, runDay, lastPrune, budget>>

\* The lowest height the scan probes.
ScanFloor == IF Tip - ScanDepth + 1 > 0 THEN Tip - ScanDepth + 1 ELSE 0

\* The node agrees at the probed height: the scan ends, whatever was skipped.
ProbeAgrees ==
  /\ pc = "scan"
  /\ blocks[cursor] = NodeBlock(cursor)
  /\ pc' = "info"
  /\ UNCHANGED <<world, db, closes, memory, budget>>

\* The probe failed: look one block lower, and give up below the floor.
ProbeFails ==
  /\ pc = "scan"
  /\ probeFaults < MaxProbeFaults
  /\ probeFaults' = probeFaults + 1
  /\ IF cursor > ScanFloor
     THEN cursor' = cursor - 1 /\ pc' = "scan"
     ELSE cursor' = cursor /\ pc' = "info"
  /\ UNCHANGED <<world, db, closes, index, goal, batch, runDay, lastPrune, faults>>

\* A mutant of RollbackCounters: the counter is left at its old value.
KeepSupply(h) == supply

\* The counters lose the sums of the deleted rows.
RollbackCounters(h) ==
  supply - TotalSubsidy(blocks, {k \in DOMAIN blocks : k > h})

\* A mutant of ForkHeight: the mismatching block itself is kept.
ForkHeightKept == cursor

\* The height the tables are cut back to: just below the mismatch.
ForkHeight == cursor - 1

\* The node has another block at the probed height: rollbackAbove, in one
\* transaction.  heightMeta is cut only when the COMMIT was acknowledged.
RollBack(answered) ==
  /\ pc = "scan"
  /\ blocks[cursor] # NodeBlock(cursor)
  /\ blocks' = TruncateAbove(blocks, ForkHeight)
  /\ agg' = TruncateAbove(agg, ForkHeight)
  /\ utxos' = UnspendAbove(utxos, ForkHeight)
  /\ staged' = UnstageAbove(staged, ForkHeight)
  /\ supply' = RollbackCounters(ForkHeight)
  /\ Continues(answered, "rewind")
  /\ IF answered
     THEN index' = TruncateIndex(index, ForkHeight) /\ UNCHANGED <<cursor, goal, batch, runDay>>
     ELSE UNCHANGED index /\ PassOver
  /\ UNCHANGED <<world, metrics, coinDays, finalized, closes, lastPrune, probeFaults>>

\* resetRollupFrom(the day of the new tip): a transaction of its own, skipped
\* when the rollback emptied the chain.
RewindMetrics(answered) ==
  /\ pc = "rewind"
  /\ LET lastDay == IF Tip = None THEN NoDay ELSE index[Tip]
         kept == RowsUpTo(metrics, lastDay)
     IN IF lastDay = NoDay
        THEN answered /\ UNCHANGED <<metrics, coinDays, finalized>>
        ELSE /\ metrics' = kept
             /\ coinDays' = CoinDays(kept)
             /\ finalized' = LastDay(kept)
  /\ Continues(answered, "info")
  /\ IF answered THEN UNCHANGED <<cursor, goal, batch, runDay>> ELSE PassOver
  /\ UNCHANGED <<world, blocks, agg, utxos, staged, supply, closes, index, lastPrune, probeFaults>>

---------------------------------------------------------------------------
(* Fetching a batch. *)

\* A mutant of SeedDay: every batch starts without a day.
SeedNothing == NoDay

\* The day of the stored tip, so that a boundary between two batches is seen.
SeedDay == IF Tip = None THEN NoDay ELSE index[Tip]

\* A mutant of AtNodeTip: the last block is never asked for.
AlmostAtNodeTip == Tip + 1 >= node.height

AtNodeTip == Tip >= node.height

\* getBlockchainInfo: at the node's tip the pass is over (the loop sleeps);
\* below it, the next batch of heights is fetched.
ReadNodeTip ==
  /\ pc = "info"
  /\ IF AtNodeTip
     THEN pc' = "pass" /\ PassOver
     ELSE /\ pc' = "fetch"
          /\ goal' = Min({node.height, Tip + BatchBlocks})
          /\ batch' = <<>>
          /\ runDay' = SeedDay
          /\ cursor' = None
  /\ UNCHANGED <<world, db, closes, index, lastPrune, budget>>

\* One lane of fetchBlocks asks for the hash at height h; the block of that
\* hash is then served even if it goes stale.  Lanes run concurrently, so the
\* heights of a batch resolve in any order.
FetchBlock(h) ==
  /\ pc = "fetch"
  /\ h \in (Tip + 1 .. goal) \ DOMAIN batch
  /\ batch' = [k \in DOMAIN batch \cup {h} |-> IF k = h THEN NodeBlock(h) ELSE batch[k]]
  /\ pc' = IF DOMAIN batch' = Tip + 1 .. goal THEN "process" ELSE "fetch"
  /\ UNCHANGED <<world, db, closes, index, cursor, goal, runDay, lastPrune, budget>>

---------------------------------------------------------------------------
(* Processing it: the fetched heights above the tip are still to be stored. *)

NextDay == DayOf[batch[Tip + 1]]

\* A mutant of RunEndsAt: the batch is flushed whole, across midnight.
BatchEndsAt(last) == last = goal

\* `last' is the last block pushed before the next flush: the run is the
\* longest prefix of what is left of the batch that stays within one day.
RunEndsAt(last) ==
  /\ last \in Tip + 1 .. goal
  /\ \A h \in Tip + 1 .. last : DayOf[batch[h]] = NextDay
  /\ last < goal => DayOf[batch[last + 1]] # NextDay

\* A mutant of AtBoundary: the day is finalized as soon as the batch shows its
\* end, before the run that completes it is flushed.
BoundaryInSight ==
  /\ pc = "process" /\ Tip < goal /\ runDay # NoDay
  /\ \E h \in Tip + 1 .. goal : DayOf[batch[h]] # runDay

\* The next block opens another day than the run's: that day is finalized
\* before the block is stored.
AtBoundary == pc = "process" /\ Tip < goal /\ runDay \notin {NoDay, NextDay}

\* A mutant of IndexAfterRun: the entries are written once COMMIT returned.
IndexOnceAnswered(run, answered) ==
  IF answered THEN IndexAfter(index, batch, run) ELSE index

\* The index entries are written block by block before COMMIT, so they are
\* there whether it was acknowledged or not.
IndexAfterRun(run, answered) == IndexAfter(index, batch, run)

AtRun == pc = "process" /\ Tip < goal /\ runDay \in {NoDay, NextDay}

\* processBlocks(run) commits.
FlushRun(answered, last) ==
  /\ AtRun
  /\ RunEndsAt(last)
  /\ LET run == Tip + 1 .. last
     IN /\ IndexCovers(index, batch, run)
        /\ blocks' = Stored(blocks, batch, run)
        /\ agg' = [h \in DOMAIN agg \cup run |->
                     IF h \in run THEN PricedSpends(index, batch, run, h) ELSE agg[h]]
        /\ \E spender \in Spenders(batch, run) :
             utxos' = ApplySpends(utxos, batch, run, spender)
        /\ staged' = StageAddresses(staged, batch, run)
        /\ supply' = supply + TotalSubsidy(batch, run)
        /\ index' = IndexAfterRun(run, answered)
  /\ Continues(answered, "process")
  /\ IF answered THEN runDay' = NextDay /\ UNCHANGED <<cursor, goal, batch>> ELSE PassOver
  /\ UNCHANGED <<world, metrics, coinDays, finalized, closes, lastPrune, probeFaults>>

\* processBlocks throws after the loop reached height `upTo' of the run, for a
\* fault or because the index has a hole, and the tables roll back; the index
\* entries of the blocks it went through stay.
RunFails(last, upTo) ==
  /\ AtRun
  /\ RunEndsAt(last)
  /\ upTo \in Tip + 1 .. last
  /\ IF IndexCovers(index, batch, Tip + 1 .. last)
     THEN faults < MaxFaults /\ faults' = faults + 1
     ELSE UNCHANGED faults
  /\ index' = IndexAfter(index, batch, Tip + 1 .. upTo)
  /\ pc' = "pass"
  /\ PassOver
  /\ UNCHANGED <<world, db, closes, lastPrune, probeFaults>>

---------------------------------------------------------------------------
(* snapshotAndRollupDay(runDay). *)

\* A mutant of AlreadyFinalized: the guard dropped.
NeverFinalized == FALSE

\* The idempotency guard.
AlreadyFinalized == runDay <= finalized

\* What the code requires of a day it finalizes: a stored close, and a supply
\* counter that equals the sum of the stored blocks' subsidies.
MayFinalize == runDay <= closes /\ supply = TotalSubsidy(blocks, DOMAIN blocks)

FinalizeDay(answered) ==
  /\ AtBoundary /\ ~AlreadyFinalized /\ MayFinalize
  /\ metrics' = InsertRow(metrics, runDay, DayRow(blocks, utxos, staged, supply, runDay))
  /\ coinDays' = coinDays + supply
  /\ finalized' = runDay
  /\ staged' = UnstageDays(staged, runDay)
  /\ Continues(answered, "process")
  /\ IF answered THEN runDay' = NextDay /\ UNCHANGED <<cursor, goal, batch>> ELSE PassOver
  /\ UNCHANGED <<world, blocks, agg, utxos, supply, closes, index, lastPrune, probeFaults>>

SkipFinalizedDay ==
  /\ AtBoundary /\ AlreadyFinalized
  /\ runDay' = NextDay
  /\ UNCHANGED <<world, db, closes, pc, index, cursor, goal, batch, lastPrune, budget>>

\* No close for the day yet, or the books do not reconcile: the call throws.
RefuseToFinalize ==
  /\ AtBoundary /\ ~AlreadyFinalized /\ ~MayFinalize
  /\ pc' = "pass"
  /\ PassOver
  /\ UNCHANGED <<world, db, closes, index, lastPrune, budget>>

---------------------------------------------------------------------------
(* The end of a batch. *)

BatchStored ==
  /\ pc = "process" /\ Tip >= goal
  /\ pc' = "prune"
  /\ UNCHANGED <<world, db, closes, memory, budget>>

PruneFloor == Tip - PruneDepth

\* pruneSpent, once PruneEvery blocks have passed; then the next pass.
EndPass(answered) ==
  /\ pc = "prune"
  /\ IF Tip - lastPrune > PruneEvery
     THEN utxos' = Pruned(utxos, PruneFloor)
     ELSE answered /\ UNCHANGED utxos
  /\ lastPrune' = IF answered /\ Tip - lastPrune > PruneEvery THEN Tip ELSE lastPrune
  /\ Continues(answered, "pass")
  /\ PassOver
  /\ UNCHANGED <<world, blocks, agg, staged, supply, metrics, coinDays, finalized, closes, index, probeFaults>>

---------------------------------------------------------------------------
WorkerStep ==
  \/ StartPass \/ ProbeAgrees \/ RollBack(TRUE) \/ RewindMetrics(TRUE)
  \/ ReadNodeTip \/ \E h \in Height : FetchBlock(h)
  \/ \E last \in Height : FlushRun(TRUE, last)
  \/ FinalizeDay(TRUE) \/ SkipFinalizedDay \/ RefuseToFinalize
  \/ BatchStored \/ EndPass(TRUE)

Failure ==
  \/ Crash \/ PassFails \/ ProbeFails
  \/ RollBack(FALSE) \/ RewindMetrics(FALSE) \/ FinalizeDay(FALSE) \/ EndPass(FALSE)
  \/ \E last \in Height : FlushRun(FALSE, last) \/ \E upTo \in Height : RunFails(last, upTo)

NodeStep == NodeExtends \/ \E br \in Branch, fork \in Height : NodeReorgs(br, fork)

Next == Boot \/ WorkerStep \/ Failure \/ NodeStep

Spec == Init /\ [][Next]_vars

\* main() loops for ever over its errors, the platform restarts the process,
\* and the provider ends up publishing the closes of past days.
Fairness ==
  /\ WF_vars(Boot) /\ WF_vars(WorkerStep)
  /\ SF_vars(StartPass /\ closes' = LastClose)

FairSpec == Spec /\ Fairness

---------------------------------------------------------------------------
(* Properties that hold however the node reorganizes and whatever fails.   *)

\* The blocks table has no gap, and the in-memory block index, which prices
\* every spend, gives the day of every stored block: after failed runs that
\* left entries behind, transactions whose COMMIT was never acknowledged,
\* rollbacks, crashes and restarts.
IndexAgrees ==
  /\ DOMAIN blocks = 0..Tip
  /\ pc # "down" => \A h \in DOMAIN blocks : index[h] = DayOf[blocks[h]]

\* Every utxos row is backed by the chain: the block at its created_height
\* creates the coin, and the block at its spent_height spends it.  A rollback
\* that misses a row or a mark leaves one that is backed by nothing.
RowsBacked ==
  \A c \in DOMAIN utxos :
    /\ utxos[c].created \in DOMAIN blocks
    /\ c \in Creates[blocks[utxos[c].created]]
    /\ utxos[c].spent # None =>
         /\ utxos[c].spent \in DOMAIN blocks
         /\ c \in SpentCoins(blocks[utxos[c].spent])

\* The supply half of the reconciliation gate never trips: the running counter
\* and the table it summarizes are moved by different code and stay equal.
SupplyReconciles == supply = TotalSubsidy(blocks, DOMAIN blocks)

\* The accumulators of the daily roll-up are those of the rows it has written:
\* no day is counted twice and none survives a rewind, whatever was retried.
RollupReconciles == coinDays = CoinDays(metrics) /\ finalized = LastDay(metrics)

\* For a day not finalized yet, the staging table names exactly the addresses
\* its stored blocks touch, each at the lowest such height: what a rollback
\* relies on to remove exactly the sightings of the abandoned blocks.
StagingExact ==
  LET Touches(d, a) == {h \in DOMAIN blocks : DayOf[blocks[h]] = d /\ a \in Touched(blocks[h])}
      seen == {<<DayOf[blocks[h]], a>> : h \in DOMAIN blocks, a \in {Owner[c] : c \in Coin}}
  IN \A key \in seen \cup DOMAIN staged :
       key[1] > finalized =>
         /\ key \in DOMAIN staged <=> Touches(key[1], key[2]) # {}
         /\ key \in DOMAIN staged => staged[key] = Min(Touches(key[1], key[2]))

---------------------------------------------------------------------------
(* Properties that need the environment stated in the runs that check them.*)

\* The stored blocks are one branch of the node's, not a mixture of two.
StoredChainLinked ==
  \E br \in Branch : \A h \in DOMAIN blocks : h \in DOMAIN br /\ blocks[h] = br[h]

\* The tables implement the abstract ledger.
ReplayLedger == INSTANCE Ledger WITH chain <- blocks, live <- LiveCoins(utxos)
ImplementsLedger == ReplayLedger!Spec

\* Value is conserved: what was issued is what is unspent plus what was burned.
SupplyIsUnspentPlusBurned ==
  supply = ValueOf(LiveCoins(utxos))
           + SumFunction([h \in DOMAIN blocks |-> Burns[blocks[h]]])

\* A spend deducts the close of the very day its coin's creation was credited
\* at.
SpendsPricedAtCreation ==
  \A h \in DOMAIN agg : \A s \in agg[h] :
    s.coin \in DOMAIN utxos => s.day = DayOf[blocks[utxos[s.coin].created]]

\* The unspent coins at the end of day d, from the blocks alone.
LiveAtEndOf(d) ==
  LET upTo == {h \in DOMAIN blocks : DayOf[blocks[h]] <= d}
  IN (UNION {Creates[blocks[h]] : h \in upTo}) \ UNION {SpentCoins(blocks[h]) : h \in upTo}

\* Every finalized row is what the stored chain says of that day: all of its
\* blocks, the live set and the active addresses it ended with.
FinalizedDaysExact ==
  \A d \in DOMAIN metrics :
    /\ metrics[d].flow = BlocksOfDay(blocks, d)
    /\ metrics[d].live = LiveAtEndOf(d)
    /\ metrics[d].active = UNION {Touched(b) : b \in metrics[d].flow}

\* When fetching resumes, no finalized row lies ahead of the stored chain: the
\* rollback's rewind has removed the rows of every abandoned day.
NoRowAheadOfChain ==
  pc = "info" /\ Tip # None => \A d \in DOMAIN metrics : d <= DayOf[blocks[Tip]]

\* No day is left behind: once a block of a later day is stored, every earlier
\* day of the chain has its row.
NoDayMissed ==
  \A h \in DOMAIN blocks :
    DayOf[blocks[h]] < DayOf[blocks[Tip]] => DayOf[blocks[h]] \in DOMAIN metrics

\* However often it fails, the worker ends up storing the node's chain.
CatchesUp ==
  <>[](DOMAIN blocks = 0..node.height /\ \A h \in DOMAIN blocks : blocks[h] = NodeBlock(h))

---------------------------------------------------------------------------
(* Premises: what the theorems may assume of the chain and of the node.    *)
(* All of it is about constants; nothing in the code secures it.           *)
(* ValidBranches is what every node of the network enforces; the others    *)
(* are how chains mostly are, and the runs that expect a violation show    *)
(* what the tables lose where they are not.  MCSyncWorker evaluates them   *)
(* on the universe of the runs.                                            *)

\* The consensus rules, as far as coins go: a chain creates a coin once and
\* spends it once, in the block that creates it or later, and the input names
\* the height of that block.
ValidChain(c) ==
  /\ \A h, k \in DOMAIN c : h # k => /\ Creates[c[h]] \cap Creates[c[k]] = {}
                                     /\ SpentCoins(c[h]) \cap SpentCoins(c[k]) = {}
  /\ \A h \in DOMAIN c : \A i \in Inputs[c[h]] :
       i.height \in DOMAIN c /\ i.height <= h /\ i.coin \in Creates[c[i.height]]

ValidBranches == \A br \in Branch : ValidChain(br)

\* All branches start with the same block.
SharedGenesis == \A br, other \in Branch : br[0] = other[0]

\* Rival blocks of one height share a UTC day, and no block of a greater
\* height is of an earlier day.
SharedDays ==
  \A br, other \in Branch : \A h \in DOMAIN br, k \in DOMAIN other :
    h <= k => DayOf[br[h]] <= DayOf[other[k]]

\* The node abandons no block; or it abandons its last one at most, not while
\* a pass is under way, and no probe of the reorg scan fails.
NoReorgs == MaxReorgs = 0

Benign == NoReorgs \/ (MaxReorgDepth <= 1 /\ ~ReorgDuringPass /\ MaxProbeFaults = 0)
=============================================================================
