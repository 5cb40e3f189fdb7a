---------------------------- MODULE ChainTables ----------------------------
(***************************************************************************)
(* The tables the sync worker derives from the block chain, and what each  *)
(* of its SQL transactions does to them (server/src/sync.js,               *)
(* server/src/metricsDaily.js, server/src/schema.sql).  Every operator     *)
(* here is a function from tables to tables; module SyncWorker decides     *)
(* when each one runs, and what a failure or a crash leaves behind.        *)
(*                                                                         *)
(* A table is a function from its primary key:                             *)
(*   blocks : height -> block            utxos : coin -> row               *)
(*   agg    : height -> priced spends    staged : <<day, address>> -> height*)
(*                                                                         *)
(* The chain itself is data: Block is the universe of blocks that any of   *)
(* the competing branches may hold, a branch is a function from 0..length  *)
(* to Block, and the content of a block never changes.                     *)
(***************************************************************************)
EXTENDS Integers, FiniteSets, FiniteSetsExt

CONSTANTS
  Block,       \* all blocks; a block stands for its hash
  Coin,        \* all transaction outputs <<txid, vout>>
  Branch,      \* the competing chains, each a function [0..n -> Block]
  MaxHeight,   \* bound: the longest branch
  DayOf,       \* [Block -> 1, 2, ...]: the UTC day of the block's timestamp
  Creates,     \* [Block -> SUBSET Coin]: outputs that get a row
  Inputs,      \* [Block -> set of [coin, height]]: inputs with their prevout
               \*   height, as the node reports them
  Burns,       \* [Block -> Nat]: value sent to OP_RETURN outputs (no row)
  Value,       \* [Coin -> Nat]
  Owner        \* [Coin -> address]

Height == 0..MaxHeight
None == -1     \* SQL NULL in spent_height; the tip of an empty table
NoDay == 0     \* an undefined entry of the in-memory block index
Days == Nat \ {NoDay}

ASSUME ChainAssumption ==
  /\ MaxHeight \in Nat
  /\ DayOf \in [Block -> Days]
  /\ Creates \in [Block -> SUBSET Coin]
  /\ Inputs \in [Block -> SUBSET [coin : Coin, height : Height]]
  /\ Burns \in [Block -> Nat]
  /\ Value \in [Coin -> Nat]
  /\ Coin \subseteq DOMAIN Owner
  /\ \A b \in Block : IsFiniteSet(Creates[b]) /\ IsFiniteSet(Inputs[b])
  /\ \A br \in Branch : \E n \in Height : br \in [0..n -> Block]

---------------------------------------------------------------------------
(* What a block says. *)

SpentCoins(b) == {i.coin : i \in Inputs[b]}

\* Addresses seen as sender or receiver.
Touched(b) == {Owner[c] : c \in Creates[b] \cup SpentCoins(b)}

ValueOf(coins) == SumFunctionOnSet(Value, coins)

\* A mutant of Subsidy: burned value is taken for a tip to the miner.
SubsidyWithoutBurns(b) == ValueOf(Creates[b]) - ValueOf(SpentCoins(b))

\* mintedSat - feesSat: all outputs, burned ones included, minus all inputs.
Subsidy(b) == ValueOf(Creates[b]) + Burns[b] - ValueOf(SpentCoins(b))

TotalSubsidy(chain, heights) == SumFunction([h \in heights |-> Subsidy(chain[h])])

---------------------------------------------------------------------------
(* Queries. *)

TipOf(blocks) == IF DOMAIN blocks = {} THEN None ELSE Max(DOMAIN blocks)

LiveCoins(utxos) == {c \in DOMAIN utxos : utxos[c].spent = None}

BlocksOfDay(blocks, d) == {blocks[h] : h \in {k \in DOMAIN blocks : DayOf[blocks[k]] = d}}

StagedOn(staged, d) == {key[2] : key \in {k \in DOMAIN staged : k[1] = d}}

---------------------------------------------------------------------------
(* processBlocks: run is a set of consecutive heights above the tip, and   *)
(* batch gives the fetched block of each.                                  *)

\* The loop over a run's blocks overwrites the index entry of each of them;
\* `done' is the part of the run it has reached.
IndexAfter(index, batch, done) ==
  [h \in Height |-> IF h \in done THEN DayOf[batch[h]] ELSE index[h]]

\* A mutant of CostDay: no fallback for a prevout the index does not know.
CostDayIndexOnly(index, batch, run, h, i) ==
  IF i.height \in run /\ i.height < h THEN DayOf[batch[i.height]]
  ELSE index[i.height]

\* A mutant of CostDay: the spend is priced at the close of its own day.
CostDayOfSpend(index, batch, run, h, i) == DayOf[batch[h]]

\* The day whose close an input of block h deducts from the realized cap:
\* the index entry of the prevout's height, or the block's own day when the
\* index has none.  Lower blocks of the run are already in the index.
CostDay(index, batch, run, h, i) ==
  LET day == IF i.height \in run /\ i.height < h THEN DayOf[batch[i.height]]
             ELSE index[i.height]
  IN IF day = NoDay THEN DayOf[batch[h]] ELSE day

\* Only a prevout of the block itself may be missing from the index.
IndexCovers(index, batch, run) ==
  \A h \in run : \A i \in Inputs[batch[h]] :
    i.height = h \/ i.height \in {k \in run : k < h} \/ index[i.height] # NoDay

PricedSpends(index, batch, run, h) ==
  {[coin |-> i.coin, day |-> CostDay(index, batch, run, h, i)] : i \in Inputs[batch[h]]}

\* INSERT INTO utxos ... ON CONFLICT (txid, vout) DO NOTHING, in block order.
InsertCoins(utxos, batch, run) ==
  LET made == UNION {Creates[batch[h]] : h \in run}
  IN [c \in DOMAIN utxos \cup made |->
        IF c \in DOMAIN utxos THEN utxos[c]
        ELSE [created |-> Min({h \in run : c \in Creates[batch[h]]}), spent |-> None]]

\* The pairings the UPDATE ... FROM join may choose.  A coin has more than
\* one spender in a run only when the run mixes two branches; SQL leaves open
\* which one is then recorded.
Spenders(batch, run) ==
  LET spent == UNION {SpentCoins(batch[h]) : h \in run}
  IN {f \in [spent -> run] : \A c \in spent : c \in SpentCoins(batch[f[c]])}

\* UPDATE utxos SET spent_height ... WHERE spent_height IS NULL.
MarkSpent(rows, spender) ==
  [c \in DOMAIN rows |->
     IF c \in DOMAIN spender /\ rows[c].spent = None
     THEN [rows[c] EXCEPT !.spent = spender[c]] ELSE rows[c]]

\* A mutant of ApplySpends: the batched statements in the other order.
SpendsBeforeCreations(utxos, batch, run, spender) ==
  InsertCoins(MarkSpent(utxos, spender), batch, run)

\* Creations are inserted before spends are marked.
ApplySpends(utxos, batch, run, spender) ==
  MarkSpent(InsertCoins(utxos, batch, run), spender)

\* INSERT INTO day_active_addresses ... ON CONFLICT DO NOTHING.
StageAddresses(staged, batch, run) ==
  LET Seen(h) == {<<DayOf[batch[h]], a>> : a \in Touched(batch[h])}
      seen == UNION {Seen(h) : h \in run}
  IN [key \in DOMAIN staged \cup seen |->
        IF key \in DOMAIN staged THEN staged[key]
        ELSE Min({h \in run : key \in Seen(h)})]

Stored(table, batch, run) ==
  [h \in DOMAIN table \cup run |-> IF h \in run THEN batch[h] ELSE table[h]]

---------------------------------------------------------------------------
(* rollbackAbove(h): the inverse of the transactions above height h. *)

\* A mutant of UnspendAbove: the rows are only deleted, never un-spent.
ForgetSpends(utxos, h) ==
  Restrict(utxos, {c \in DOMAIN utxos : utxos[c].created <= h})

UnspendAbove(utxos, h) ==
  [c \in {k \in DOMAIN utxos : utxos[k].created <= h} |->
     IF utxos[c].spent > h THEN [utxos[c] EXCEPT !.spent = None] ELSE utxos[c]]

TruncateAbove(table, h) == Restrict(table, {k \in DOMAIN table : k <= h})

\* A mutant of UnstageAbove: the staging rows survive the rollback.
KeepStaged(staged, h) == staged

UnstageAbove(staged, h) ==
  Restrict(staged, {k \in DOMAIN staged : staged[k] <= h})

TruncateIndex(index, h) == [k \in Height |-> IF k <= h THEN index[k] ELSE NoDay]

---------------------------------------------------------------------------
(* snapshotAndRollupDay(d) and resetRollupFrom(d). *)

\* The finalized row of day d: its flows (the blocks summed), its snapshot of
\* the live set, its active addresses and the supply that day ended with.
DayRow(blocks, utxos, staged, supply, d) ==
  [flow |-> BlocksOfDay(blocks, d), live |-> LiveCoins(utxos),
   active |-> StagedOn(staged, d), supply |-> supply]

\* INSERT ... ON CONFLICT (day) DO UPDATE: an existing row keeps its content
\* (only price and market cap are rewritten).
InsertRow(metrics, d, row) ==
  [k \in DOMAIN metrics \cup {d} |-> IF k \in DOMAIN metrics THEN metrics[k] ELSE row]

UnstageDays(staged, d) == Restrict(staged, {k \in DOMAIN staged : k[1] > d})

\* A mutant of RowsUpTo: the rewind keeps the rows of the abandoned days.
RowsKept(metrics, d) == metrics

RowsUpTo(metrics, d) == Restrict(metrics, {k \in DOMAIN metrics : k <= d})

CoinDays(metrics) == SumFunction([d \in DOMAIN metrics |-> metrics[d].supply])

LastDay(metrics) == IF DOMAIN metrics = {} THEN NoDay ELSE Max(DOMAIN metrics)

---------------------------------------------------------------------------
(* pruneSpent(tip). *)

\* A mutant of Pruned: spends at the boundary height are dropped too.
PrunedInclusive(utxos, floor) ==
  Restrict(utxos, {c \in DOMAIN utxos : utxos[c].spent = None \/ utxos[c].spent > floor})

Pruned(utxos, floor) ==
  Restrict(utxos, {c \in DOMAIN utxos : utxos[c].spent = None \/ utxos[c].spent >= floor})
============================================================================
