-------------------------- MODULE SyncWorkerProofs --------------------------
(***************************************************************************)
(* Proofs about SyncWorker for every chain, every set of branches and every*)
(* value of the bounds.  TypeOK, IndexAgrees and RowsBacked are not        *)
(* inductive: the index stays right only because a run is stored on top of *)
(* the tip, and that depends on what the scan, the fetch and the processing*)
(* loop hold in their local variables.  Control says what that is, and IInv*)
(* is the conjunction.                                                     *)
(*                                                                         *)
(* The counters follow: the supply is the subsidy of the stored blocks, the*)
(* coin-days are those of the finalized rows, and the last finalized day is*)
(* the last row's.                                                         *)
(***************************************************************************)
EXTENDS SyncWorker, SumTheorems

---------------------------------------------------------------------------
(* The tables of the chain: what Min, Max and TipOf return on the sets the *)
(* worker uses them on, and that every operation on the utxos table keeps  *)
(* the two facts RowsBacked consists of.                                   *)

\* The type of a utxos table.
RowsTyped(coins) ==
  /\ DOMAIN coins \subseteq Coin
  /\ coins \in [DOMAIN coins -> [created : Height, spent : Height \cup {None}]]

\* Every row and every mark of the table comes from a stored block.
Backed(coins, chain) ==
  \A c \in DOMAIN coins :
    /\ coins[c].created \in DOMAIN chain
    /\ c \in Creates[chain[coins[c].created]]
    /\ coins[c].spent # None =>
         /\ coins[c].spent \in DOMAIN chain
         /\ c \in SpentCoins(chain[coins[c].spent])

---------------------------------------------------------------------------
(* Heights. *)

\* A nonempty set of naturals has its least element: Min is defined by CHOOSE
\* and says nothing of a set that has none.
LEMMA MinIsLeast ==
  ASSUME NEW S, S \subseteq Nat, S # {}
  PROVE  Min(S) \in S /\ \A y \in S : Min(S) <= y
<1>1. \E x \in S : \A y \in S : x <= y
  BY LeastNatural
<1> QED
  BY <1>1 DEF Min

\* A nonempty set of integers below a bound has its greatest element: the
\* highest stored block, the last finalized day.
LEMMA MaxIsGreatest ==
  ASSUME NEW S, NEW N \in Int, S \subseteq Int, S # {}, \A x \in S : x <= N
  PROVE  Max(S) \in S /\ \A y \in S : y <= Max(S)
<1> DEFINE T == {N - x : x \in S}
<1>1. T \subseteq Nat /\ T # {}
  <2>1. \A x \in S : N - x \in Nat
    OBVIOUS
  <2>2. PICK x \in S : TRUE
    OBVIOUS
  <2>3. N - x \in T
    OBVIOUS
  <2> QED
    BY <2>1, <2>3
<1>2. PICK t \in T : \A u \in T : t <= u
  BY <1>1, MinIsLeast
<1>3. PICK m \in S : t = N - m
  OBVIOUS
<1>4. \A y \in S : m >= y
  <2> TAKE y \in S
  <2>1. N - y \in T
    OBVIOUS
  <2> QED
    BY <1>2, <1>3, <2>1
<1> HIDE DEF T
<1>5. \E x \in S : \A y \in S : x >= y
  BY <1>4
<1>6. Max(S) \in S /\ \A y \in S : Max(S) >= y
  BY <1>5 DEF Max
<1> QED
  BY <1>6

\* The tip of a table without gaps is its last height.
LEMMA TipOfInterval ==
  ASSUME NEW chain, NEW n \in Height \cup {None}, DOMAIN chain = 0..n
  PROVE  TipOf(chain) = n
<1>1. CASE n = None
  BY <1>1 DEF TipOf, None
<1>2. CASE n \in Height
  <2> n \in Nat
    BY <1>2, ChainAssumption DEF Height
  <2>1. 0..n \subseteq Int /\ n \in 0..n /\ \A x \in 0..n : x <= n
    OBVIOUS
  <2>2. Max(0..n) \in 0..n /\ \A y \in 0..n : y <= Max(0..n)
    BY <2>1, MaxIsGreatest
  <2>3. Max(0..n) = n
    BY <2>1, <2>2
  <2> QED
    BY <2>1, <2>3 DEF TipOf
<1> QED
  BY <1>1, <1>2

\* The last finalized day is one of the rows', or none.
LEMMA LastDayInRange ==
  ASSUME NEW days, NEW N \in Nat, DOMAIN days \subseteq 1..N
  PROVE  LastDay(days) \in 0..N
<1>1. CASE DOMAIN days = {}
  BY <1>1 DEF LastDay, NoDay
<1>2. CASE DOMAIN days # {}
  <2>1. Max(DOMAIN days) \in DOMAIN days
    BY <1>2, MaxIsGreatest
  <2> QED
    BY <1>2, <2>1 DEF LastDay
<1> QED
  BY <1>1, <1>2

---------------------------------------------------------------------------
(* Sums over blocks and over rows. *)

\* The spent coins of a block are finitely many, like its inputs.
LEMMA SpentCoinsFinite ==
  ASSUME NEW b \in Block
  PROVE  IsFiniteSet(SpentCoins(b)) /\ SpentCoins(b) \subseteq Coin
<1> DEFINE coinOf == [i \in Inputs[b] |-> i.coin]
<1>1. IsFiniteSet(Inputs[b]) /\ Inputs[b] \subseteq [coin : Coin, height : Height]
  BY ChainAssumption
<1>2. coinOf \in Surjection(Inputs[b], SpentCoins(b))
  BY DEF Surjection, SpentCoins
<1>3. IsFiniteSet(SpentCoins(b))
  BY <1>1, <1>2, FS_Surjection
<1> QED
  BY <1>1, <1>3 DEF SpentCoins

\* A finite set of coins is worth an integer.
LEMMA ValueType ==
  ASSUME NEW coins, coins \subseteq Coin, IsFiniteSet(coins)
  PROVE  ValueOf(coins) \in Int
<1>1. \A c \in coins : Value[c] \in Int
  BY ChainAssumption
<1> QED
  BY <1>1, SumType DEF ValueOf

\* What a block adds to the supply: less than nothing when its miner claims
\* less than the fees.
LEMMA SubsidyType == ASSUME NEW b \in Block PROVE Subsidy(b) \in Int
<1>1. IsFiniteSet(Creates[b]) /\ Creates[b] \subseteq Coin /\ Burns[b] \in Int
  BY ChainAssumption
<1>2. ValueOf(Creates[b]) \in Int /\ ValueOf(SpentCoins(b)) \in Int
  BY <1>1, SpentCoinsFinite, ValueType
<1> QED
  BY <1>1, <1>2 DEF Subsidy

\* The subsidies of two disjoint sets of heights add up, and depend on the
\* blocks at those heights only.
LEMMA TotalSubsidyOfUnion ==
  ASSUME NEW chain, NEW lower, NEW upper, NEW S, NEW T,
         IsFiniteSet(S), IsFiniteSet(T), S \cap T = {},
         \A h \in S : lower[h] = chain[h] /\ chain[h] \in Block,
         \A h \in T : upper[h] = chain[h] /\ chain[h] \in Block
  PROVE  /\ TotalSubsidy(chain, S \cup T) = TotalSubsidy(lower, S) + TotalSubsidy(upper, T)
         /\ TotalSubsidy(lower, S) \in Int /\ TotalSubsidy(upper, T) \in Int
<1> DEFINE all == [h \in S \cup T |-> Subsidy(chain[h])]
           low == [h \in S |-> Subsidy(lower[h])]
           up == [h \in T |-> Subsidy(upper[h])]
<1>1. \A h \in S \cup T : all[h] \in Int
  BY SubsidyType
<1>2. \A h \in S : low[h] = all[h] /\ low[h] \in Int
  BY <1>1
<1>3. \A h \in T : up[h] = all[h] /\ up[h] \in Int
  BY <1>1
<1>4. /\ TotalSubsidy(chain, S \cup T) = SumFunctionOnSet(all, S \cup T)
      /\ TotalSubsidy(lower, S) = SumFunctionOnSet(low, S)
      /\ TotalSubsidy(upper, T) = SumFunctionOnSet(up, T)
  BY DEF TotalSubsidy, SumFunction
<1> HIDE DEF all, low, up
<1>5. SumFunctionOnSet(all, S \cup T) = SumFunctionOnSet(all, S) + SumFunctionOnSet(all, T)
  BY <1>1, SumOfUnion
<1>6. SumFunctionOnSet(all, S) = SumFunctionOnSet(low, S)
  BY <1>2, SumOfEqual
<1>7. SumFunctionOnSet(all, T) = SumFunctionOnSet(up, T)
  BY <1>3, SumOfEqual
<1>8. SumFunctionOnSet(low, S) \in Int /\ SumFunctionOnSet(up, T) \in Int
  BY <1>2, <1>3, SumType
<1> QED
  BY <1>4, <1>5, <1>6, <1>7, <1>8

\* A new row adds its supply to the coin-days, and is the last one when its
\* day is after all others.
LEMMA CoinDaysOfNewRow ==
  ASSUME NEW days, NEW N \in Nat, NEW d \in 1..N, NEW row,
         DOMAIN days \subseteq 1..N, d > LastDay(days),
         \A k \in DOMAIN days : days[k].supply \in Int, row.supply \in Int
  PROVE  /\ CoinDays(InsertRow(days, d, row)) = CoinDays(days) + row.supply
         /\ LastDay(InsertRow(days, d, row)) = d
         /\ \A k \in DOMAIN days \cup {d} : InsertRow(days, d, row)[k].supply \in Int
<1> DEFINE new == InsertRow(days, d, row)
           after == [k \in DOMAIN days \cup {d} |-> new[k].supply]
           before == [k \in DOMAIN days |-> days[k].supply]
<1>1. \A k \in DOMAIN days : k < d
  <2> SUFFICES ASSUME NEW k \in DOMAIN days PROVE k < d
    OBVIOUS
  <2>1. Max(DOMAIN days) \in DOMAIN days /\ \A y \in DOMAIN days : y <= Max(DOMAIN days)
    BY MaxIsGreatest
  <2> QED
    BY <2>1 DEF LastDay
<1>2. /\ DOMAIN new = DOMAIN days \cup {d}
      /\ new[d] = row /\ \A k \in DOMAIN days : new[k] = days[k]
  BY <1>1 DEF InsertRow
<1> HIDE DEF new
<1>3. LastDay(new) = d
  <2>1. DOMAIN new \subseteq Int /\ d \in DOMAIN new /\ \A k \in DOMAIN new : k <= d
    BY <1>1, <1>2
  <2>2. Max(DOMAIN new) \in DOMAIN new /\ \A y \in DOMAIN new : y <= Max(DOMAIN new)
    BY <2>1, MaxIsGreatest
  <2>3. Max(DOMAIN new) = d
    BY <2>1, <2>2
  <2> QED
    BY <2>1, <2>3 DEF LastDay
<1>4. /\ \A k \in DOMAIN days \cup {d} : after[k] \in Int
      /\ \A k \in DOMAIN days : after[k] \in Int /\ before[k] = after[k]
      /\ after[d] = row.supply
  BY <1>2
<1>5. /\ CoinDays(new) = SumFunctionOnSet(after, DOMAIN days \cup {d})
      /\ CoinDays(days) = SumFunctionOnSet(before, DOMAIN days)
  BY <1>2 DEF CoinDays, SumFunction
<1> HIDE DEF after, before
<1>6. IsFiniteSet(DOMAIN days) /\ IsFiniteSet({d}) /\ DOMAIN days \cap {d} = {}
  BY <1>1, FS_Interval, FS_Subset, FS_Singleton
<1>7. SumFunctionOnSet(after, DOMAIN days \cup {d})
        = SumFunctionOnSet(after, DOMAIN days) + SumFunctionOnSet(after, {d})
  BY <1>4, <1>6, SumOfUnion
<1>8. SumFunctionOnSet(after, {d}) = row.supply
  BY <1>4, SumOfOne
<1>9. SumFunctionOnSet(before, DOMAIN days) = SumFunctionOnSet(after, DOMAIN days)
  BY <1>4, <1>6, SumOfEqual
<1> QED
  BY <1>2, <1>3, <1>5, <1>7, <1>8, <1>9 DEF new

---------------------------------------------------------------------------
(* The utxos table. *)

\* INSERT gives each new row the height of a block of the run that creates it.
LEMMA InsertKeepsBacked ==
  ASSUME NEW coins, NEW chain, NEW fetched, NEW run,
         RowsTyped(coins), Backed(coins, chain),
         run \subseteq Height, \A h \in run : fetched[h] \in Block,
         DOMAIN chain \cap run = {}
  PROVE  LET rows == InsertCoins(coins, fetched, run)
         IN RowsTyped(rows) /\ Backed(rows, Stored(chain, fetched, run))
<1> DEFINE rows == InsertCoins(coins, fetched, run)
           stored == Stored(chain, fetched, run)
           made == UNION {Creates[fetched[h]] : h \in run}
           makers(c) == {h \in run : c \in Creates[fetched[h]]}
<1>1. DOMAIN rows = DOMAIN coins \cup made
  BY DEF InsertCoins
<1>2. made \subseteq Coin
  BY ChainAssumption
<1>3. \A h \in DOMAIN chain : h \in DOMAIN stored /\ stored[h] = chain[h]
  BY DEF Stored
<1>4. \A h \in run : h \in DOMAIN stored /\ stored[h] = fetched[h]
  BY DEF Stored
<1>5. ASSUME NEW c \in DOMAIN coins
      PROVE  /\ rows[c] \in [created : Height, spent : Height \cup {None}]
             /\ rows[c] = coins[c]
  BY <1>1 DEF InsertCoins, RowsTyped
<1>6. ASSUME NEW c \in made, c \notin DOMAIN coins
      PROVE  /\ rows[c] \in [created : Height, spent : Height \cup {None}]
             /\ rows[c].spent = None /\ rows[c].created \in makers(c)
  <2>1. makers(c) \subseteq Nat /\ makers(c) # {}
    <3>1. PICK h \in run : c \in Creates[fetched[h]]
      BY <1>6
    <3>2. Height \subseteq Nat
      BY ChainAssumption DEF Height
    <3> QED
      BY <3>1, <3>2
  <2>2. Min(makers(c)) \in makers(c)
    BY <2>1, MinIsLeast
  <2>3. rows[c] = [created |-> Min(makers(c)), spent |-> None]
    BY <1>1, <1>6 DEF InsertCoins
  <2> QED
    BY <2>2, <2>3
<1>7. RowsTyped(rows)
  <2>1. rows = [c \in DOMAIN rows |-> rows[c]]
    BY DEF InsertCoins
  <2>2. \A c \in DOMAIN rows : rows[c] \in [created : Height, spent : Height \cup {None}]
    BY <1>1, <1>5, <1>6
  <2>3. DOMAIN rows \subseteq Coin
    BY <1>1, <1>2 DEF RowsTyped
  <2> HIDE DEF rows
  <2> QED
    BY <2>1, <2>2, <2>3 DEF RowsTyped
<1>8. Backed(rows, stored)
  <2> SUFFICES ASSUME NEW c \in DOMAIN rows
               PROVE  /\ rows[c].created \in DOMAIN stored
                      /\ c \in Creates[stored[rows[c].created]]
                      /\ rows[c].spent # None =>
                           /\ rows[c].spent \in DOMAIN stored
                           /\ c \in SpentCoins(stored[rows[c].spent])
    BY DEF Backed
  <2>1. CASE c \in DOMAIN coins
    BY <2>1, <1>3, <1>5 DEF Backed
  <2>2. CASE c \notin DOMAIN coins
    BY <2>2, <1>1, <1>4, <1>6
  <2> QED
    BY <2>1, <2>2
<1> QED
  BY <1>7, <1>8

\* UPDATE marks a row with the height of a block of the run that spends it.
LEMMA MarkKeepsBacked ==
  ASSUME NEW rows, NEW stored, NEW fetched, NEW run, NEW spender \in Spenders(fetched, run),
         RowsTyped(rows), Backed(rows, stored),
         run \subseteq Height,
         \A h \in run : h \in DOMAIN stored /\ stored[h] = fetched[h]
  PROVE  LET marked == MarkSpent(rows, spender)
         IN RowsTyped(marked) /\ Backed(marked, stored)
<1> DEFINE marked == MarkSpent(rows, spender)
<1>1. DOMAIN marked = DOMAIN rows
  BY DEF MarkSpent
<1>2. \A c \in DOMAIN spender : spender[c] \in run /\ c \in SpentCoins(fetched[spender[c]])
  BY DEF Spenders
<1>3. ASSUME NEW c \in DOMAIN rows
      PROVE  /\ rows[c] \in [created : Height, spent : Height \cup {None}]
             /\ \/ marked[c] = rows[c]
                \/ /\ c \in DOMAIN spender
                   /\ marked[c] = [rows[c] EXCEPT !.spent = spender[c]]
  BY DEF MarkSpent, RowsTyped
<1>4. ASSUME NEW c \in DOMAIN rows
      PROVE  /\ marked[c] \in [created : Height, spent : Height \cup {None}]
             /\ marked[c].created = rows[c].created
             /\ \/ marked[c].spent = rows[c].spent
                \/ c \in DOMAIN spender /\ marked[c].spent = spender[c]
  BY <1>2, <1>3
<1>5. RowsTyped(marked)
  <2>1. marked = [c \in DOMAIN marked |-> marked[c]]
    BY DEF MarkSpent
  <2> HIDE DEF marked
  <2> QED
    BY <2>1, <1>1, <1>4 DEF RowsTyped
<1>6. Backed(marked, stored)
  BY <1>1, <1>2, <1>4 DEF Backed
<1> QED
  BY <1>5, <1>6

\* Processing a run above the stored blocks keeps the table backed.
LEMMA ApplySpendsKeepsBacked ==
  ASSUME NEW coins, NEW chain, NEW fetched, NEW run, NEW spender \in Spenders(fetched, run),
         RowsTyped(coins), Backed(coins, chain),
         run \subseteq Height, \A h \in run : fetched[h] \in Block,
         DOMAIN chain \cap run = {}
  PROVE  LET after == ApplySpends(coins, fetched, run, spender)
         IN RowsTyped(after) /\ Backed(after, Stored(chain, fetched, run))
<1> DEFINE rows == InsertCoins(coins, fetched, run)
           stored == Stored(chain, fetched, run)
<1>1. RowsTyped(rows) /\ Backed(rows, stored)
  BY InsertKeepsBacked
<1>2. \A h \in run : h \in DOMAIN stored /\ stored[h] = fetched[h]
  BY DEF Stored
<1> HIDE DEF rows, stored
<1>3. RowsTyped(MarkSpent(rows, spender)) /\ Backed(MarkSpent(rows, spender), stored)
  BY <1>1, <1>2, MarkKeepsBacked
<1> QED
  BY <1>3 DEF ApplySpends, rows, stored

\* A rollback deletes the rows of the removed blocks and takes back their
\* marks, so no row is left without its block.
LEMMA UnspendKeepsBacked ==
  ASSUME NEW coins, NEW chain, NEW h \in Int,
         RowsTyped(coins), Backed(coins, chain), DOMAIN chain \subseteq Height
  PROVE  LET after == UnspendAbove(coins, h)
         IN RowsTyped(after) /\ Backed(after, TruncateAbove(chain, h))
<1> DEFINE after == UnspendAbove(coins, h)
           kept == TruncateAbove(chain, h)
<1>1. DOMAIN after = {c \in DOMAIN coins : coins[c].created <= h}
  BY DEF UnspendAbove
<1>2. \A k \in DOMAIN chain : k <= h => k \in DOMAIN kept /\ kept[k] = chain[k]
  BY DEF TruncateAbove, Restrict
<1>3. ASSUME NEW c \in DOMAIN after
      PROVE  /\ after[c] \in [created : Height, spent : Height \cup {None}]
             /\ after[c].created = coins[c].created /\ coins[c].created <= h
             /\ after[c].spent # None => after[c].spent = coins[c].spent /\ coins[c].spent <= h
  <2>1. c \in DOMAIN coins /\ coins[c].created <= h
    BY <1>1
  <2>2. coins[c] \in [created : Height, spent : Height \cup {None}]
    BY <2>1 DEF RowsTyped
  <2>3. after[c] = IF coins[c].spent > h THEN [coins[c] EXCEPT !.spent = None] ELSE coins[c]
    BY <2>1 DEF UnspendAbove
  <2>4. coins[c].spent \in Int
    BY <2>2 DEF Height, None
  <2>5. CASE coins[c].spent > h
    BY <2>1, <2>2, <2>3, <2>5
  <2>6. CASE ~(coins[c].spent > h)
    BY <2>1, <2>2, <2>3, <2>4, <2>6
  <2> QED
    BY <2>5, <2>6
<1>4. RowsTyped(after)
  <2>1. after = [c \in DOMAIN after |-> after[c]]
    BY DEF UnspendAbove
  <2>2. DOMAIN after \subseteq Coin
    BY <1>1 DEF RowsTyped
  <2> HIDE DEF after
  <2> QED
    BY <2>1, <2>2, <1>3 DEF RowsTyped
<1>5. Backed(after, kept)
  <2> SUFFICES ASSUME NEW c \in DOMAIN after
               PROVE  /\ after[c].created \in DOMAIN kept
                      /\ c \in Creates[kept[after[c].created]]
                      /\ after[c].spent # None =>
                           /\ after[c].spent \in DOMAIN kept
                           /\ c \in SpentCoins(kept[after[c].spent])
    BY DEF Backed
  <2>1. c \in DOMAIN coins
    BY <1>1
  <2> HIDE DEF after, kept
  <2> QED
    BY <2>1, <1>2, <1>3 DEF Backed
<1> QED
  BY <1>4, <1>5

\* Pruning only deletes rows.
LEMMA PruneKeepsBacked ==
  ASSUME NEW coins, NEW chain, NEW floor, RowsTyped(coins), Backed(coins, chain)
  PROVE  RowsTyped(Pruned(coins, floor)) /\ Backed(Pruned(coins, floor), chain)
<1> DEFINE rows == Pruned(coins, floor)
<1>1. /\ DOMAIN rows \subseteq DOMAIN coins
      /\ rows = [c \in DOMAIN rows |-> rows[c]]
      /\ \A c \in DOMAIN rows : rows[c] = coins[c]
  BY DEF Pruned, Restrict
<1> HIDE DEF rows
<1>2. RowsTyped(rows)
  BY <1>1 DEF RowsTyped
<1>3. Backed(rows, chain)
  BY <1>1 DEF Backed
<1> QED
  BY <1>2, <1>3 DEF rows

---------------------------------------------------------------------------
(* The invariant. *)

\* What the locals of the pass promise to the step that uses them next: the
\* scan probes a stored height; the batch being fetched lies above the tip and
\* within the node's chain; every block still to be processed is there.
Control ==
  /\ pc = "scan" => cursor \in 0..Tip
  /\ pc = "fetch" => /\ goal \in Tip + 1 .. node.height
                     /\ DOMAIN batch \subseteq Tip + 1 .. goal
  /\ pc = "process" => goal \in Height /\ Tip + 1 .. goal \subseteq DOMAIN batch

IInv == TypeOK /\ IndexAgrees /\ RowsBacked /\ Control

---------------------------------------------------------------------------
\* The empty tuple is a table without rows.
LEMMA EmptyTable == ASSUME NEW T PROVE DOMAIN <<>> = {} /\ <<>> \in [{} -> T]
OBVIOUS

\* The tip is a height or, for an empty table, None; and a table without gaps
\* holds exactly the heights up to it.
LEMMA TipInRange ==
  ASSUME TablesType
  PROVE  Tip \in Height \cup {None}
<1>1. CASE DOMAIN blocks = {}
  BY <1>1 DEF Tip, TipOf
<1>2. CASE DOMAIN blocks # {}
  <2>1. /\ DOMAIN blocks \subseteq Int
        /\ MaxHeight \in Int
        /\ \A x \in DOMAIN blocks : x <= MaxHeight
    BY ChainAssumption DEF TablesType, Height
  <2>2. Max(DOMAIN blocks) \in DOMAIN blocks
    BY <1>2, <2>1, MaxIsGreatest
  <2> QED
    BY <1>2, <2>2 DEF Tip, TipOf, TablesType
<1> QED
  BY <1>1, <1>2

\* A branch holds the heights 0..n of some n.
LEMMA BranchHeights ==
  ASSUME NEW br \in Branch
  PROVE  /\ DOMAIN br \subseteq Height
         /\ \A h \in DOMAIN br : br[h] \in Block
         /\ \A h \in DOMAIN br : \A k \in 0..h : k \in DOMAIN br
<1>1. PICK n \in Height : br \in [0..n -> Block]
  BY ChainAssumption
<1> QED
  BY <1>1, ChainAssumption DEF Height

---------------------------------------------------------------------------
\* Empty tables and a stopped process satisfy the invariant.
LEMMA InitEstablishes == Init => IInv
<1> SUFFICES ASSUME Init PROVE IInv
  OBVIOUS
<1>1. NodeType
  <2>1. PICK br \in Branch : node = [chain |-> br, height |-> 0]
    BY DEF Init
  <2>2. PICK n \in Height : br \in [0..n -> Block]
    BY ChainAssumption
  <2>3. 0 \in 0..n /\ 0 \in Height
    BY ChainAssumption DEF Height
  <2> QED
    BY <2>1, <2>2, <2>3 DEF NodeType
<1>2. TablesType
  BY EmptyTable DEF Init, TablesType
<1>3. RollupType
  BY EmptyTable, WorkerAssumption DEF Init, RollupType, NoDay
<1>4. MemoryType
  BY EmptyTable DEF Init, MemoryType, Phases, EmptyIndex, NoDay
<1>5. BudgetType
  BY WorkerAssumption DEF Init, BudgetType
<1>6. Tip = None /\ DOMAIN blocks = 0..Tip
  BY EmptyTable DEF Init, Tip, TipOf, None
<1>7. IndexAgrees
  BY <1>6 DEF Init, IndexAgrees
<1>8. RowsBacked
  BY EmptyTable DEF Init, RowsBacked
<1>9. Control
  BY DEF Init, Control
<1> QED
  BY <1>1, <1>2, <1>3, <1>4, <1>5, <1>7, <1>8, <1>9 DEF IInv, TypeOK

\* The node moves: only node and reorgs change, and the node's height grows.
LEMMA NodeKeeps == IInv /\ NodeStep => IInv'
<1> SUFFICES ASSUME IInv, NodeStep PROVE IInv'
  OBVIOUS
<1> USE DEF IInv, TypeOK
<1>1. /\ UNCHANGED <<db, closes, pc, memory, budget>>
      /\ NodeType' /\ node.height \in Int /\ node'.height = node.height + 1
      /\ reorgs' \in 0..MaxReorgs
  <2>1. CASE NodeExtends
    <3>1. node'.chain = node.chain /\ node'.height = node.height + 1
      BY <2>1 DEF NodeExtends, NodeType
    <3>2. node' \in [chain : Branch, height : Height] /\ node'.height \in DOMAIN node'.chain
      BY <2>1, <3>1, BranchHeights DEF NodeExtends, NodeType
    <3>3. node.height \in Int
      BY ChainAssumption DEF NodeType, Height
    <3>4. UNCHANGED <<db, closes, pc, memory, budget>> /\ reorgs' \in 0..MaxReorgs
      BY <2>1 DEF NodeExtends, BudgetType
    <3> QED
      BY <3>1, <3>2, <3>3, <3>4 DEF NodeType
  <2>2. ASSUME NEW br \in Branch, NEW fork \in Height, NodeReorgs(br, fork)
        PROVE  /\ UNCHANGED <<db, closes, pc, memory, budget>>
               /\ NodeType' /\ node.height \in Int /\ node'.height = node.height + 1
               /\ reorgs' \in 0..MaxReorgs
    <3>1. node' = [chain |-> br, height |-> node.height + 1] /\ node.height + 1 \in DOMAIN br
      BY <2>2 DEF NodeReorgs
    <3>2. NodeType'
      BY <3>1, BranchHeights DEF NodeType
    <3>3. node.height \in Int
      BY ChainAssumption DEF NodeType, Height
    <3>4. reorgs' \in 0..MaxReorgs
      BY <2>2, WorkerAssumption DEF NodeReorgs, BudgetType
    <3>5. UNCHANGED <<db, closes, pc, memory, budget>>
      BY <2>2 DEF NodeReorgs
    <3> QED
      BY <3>1, <3>2, <3>3, <3>4, <3>5
  <2> QED
    BY <2>1, <2>2 DEF NodeStep
<1>2. TablesType' /\ RollupType' /\ MemoryType' /\ BudgetType'
  BY <1>1 DEF TablesType, RollupType, MemoryType, BudgetType, db, memory, budget
<1>3. IndexAgrees' /\ RowsBacked'
  BY <1>1 DEF IndexAgrees, RowsBacked, Tip, db, memory
<1>4. Control'
  <2>1. Tip' = Tip /\ Tip \in Int
    BY <1>1, TipInRange, ChainAssumption DEF Tip, db, Height, None
  <2> QED
    BY <1>1, <2>1 DEF Control, memory
<1> QED
  BY <1>1, <1>2, <1>3, <1>4

---------------------------------------------------------------------------
(* Steps that leave the chain tables alone. *)

\* Such a step keeps everything that is said of the node and of the tables.
LEMMA StoreStays ==
  ASSUME IInv, UNCHANGED <<world, blocks, agg, utxos, staged>>
  PROVE  /\ NodeType' /\ TablesType' /\ RowsBacked' /\ Tip' = Tip
         /\ Tip \in Height \cup {None} /\ Tip \in Int /\ DOMAIN blocks = 0..Tip
         /\ node'.height = node.height /\ reorgs' \in 0..MaxReorgs
<1>1. NodeType' /\ TablesType' /\ RowsBacked'
  BY DEF IInv, TypeOK, NodeType, TablesType, RowsBacked, world
<1>2. Tip' = Tip
  BY DEF Tip
<1>3. Tip \in Height \cup {None}
  BY TipInRange DEF IInv, TypeOK
<1>4. Tip \in Int
  BY <1>3, ChainAssumption DEF Height, None
<1>5. DOMAIN blocks = 0..Tip
  BY DEF IInv, IndexAgrees
<1> QED
  BY <1>1, <1>2, <1>3, <1>4, <1>5 DEF world, IInv, TypeOK, BudgetType

\* Booting rebuilds the index from the table.
LEMMA BootKeeps == IInv /\ Boot => IInv'
<1> SUFFICES ASSUME IInv, Boot PROVE IInv'
  OBVIOUS
<1>1. UNCHANGED <<world, blocks, agg, utxos, staged, metrics, finalized, cursor, goal, batch,
                  runDay, faults, probeFaults>>
  BY DEF Boot, db, budget
<1>2. NodeType' /\ TablesType' /\ RowsBacked' /\ Tip' = Tip /\ DOMAIN blocks = 0..Tip
  BY <1>1, StoreStays
<1>3. RollupType'
  BY <1>1, WorkerAssumption DEF Boot, PricesRefreshed, RollupType, IInv, TypeOK
<1>4. index' \in [Height -> Nat] /\ \A h \in DOMAIN blocks : index'[h] = DayOf[blocks[h]]
  BY ChainAssumption DEF Boot, IndexOfTable, IInv, TypeOK, TablesType, Days, NoDay
<1>5. MemoryType' /\ BudgetType'
  BY <1>1, <1>4 DEF Boot, MemoryType, BudgetType, Phases, IInv, TypeOK, world
<1>6. IndexAgrees'
  BY <1>1, <1>2, <1>4 DEF IndexAgrees
<1>7. Control'
  BY DEF Boot, Control
<1> QED
  BY <1>2, <1>3, <1>5, <1>6, <1>7 DEF IInv, TypeOK

\* A pass that ends empties its locals: nothing is promised to its next step.
LEMMA PassOverKeeps ==
  ASSUME PassOver, pc' = "pass", index' \in [Height -> Nat], lastPrune' \in Nat
  PROVE  MemoryType' /\ Control'
BY EmptyTable DEF PassOver, MemoryType, Control, Phases, NoDay

\* An error is counted within its bound; nothing else of the budget moves.
LEMMA BudgetKeeps ==
  ASSUME IInv, reorgs' \in 0..MaxReorgs, probeFaults' \in 0..MaxProbeFaults,
         faults' = faults \/ (faults < MaxFaults /\ faults' = faults + 1)
  PROVE  BudgetType'
BY WorkerAssumption DEF IInv, TypeOK, BudgetType

\* A crash empties the memory, and a stopped process promises nothing of it.
LEMMA CrashKeeps == IInv /\ Crash => IInv'
<1> SUFFICES ASSUME IInv, Crash PROVE IInv'
  OBVIOUS
<1>1. UNCHANGED <<world, blocks, agg, utxos, staged, metrics, finalized, closes, probeFaults>>
  BY DEF Crash, db
<1>2. NodeType' /\ TablesType' /\ RowsBacked' /\ Tip' = Tip /\ DOMAIN blocks = 0..Tip
      /\ reorgs' \in 0..MaxReorgs
  BY <1>1, StoreStays
<1>3. RollupType'
  BY <1>1 DEF RollupType, IInv, TypeOK
<1>4. MemoryType'
  BY EmptyTable DEF Crash, EmptyIndex, MemoryType, Phases, NoDay
<1>5. BudgetType'
  BY <1>1, <1>2, BudgetKeeps DEF Crash, IInv, TypeOK, BudgetType
<1>6. IndexAgrees' /\ Control'
  BY <1>1, <1>2 DEF Crash, IndexAgrees, Control
<1> QED
  BY <1>2, <1>3, <1>4, <1>5, <1>6 DEF IInv, TypeOK

\* A failed pass keeps tables and index, and drops its locals.
LEMMA PassFailsKeeps == IInv /\ PassFails => IInv'
<1> SUFFICES ASSUME IInv, PassFails PROVE IInv'
  OBVIOUS
<1>1. UNCHANGED <<world, blocks, agg, utxos, staged, metrics, finalized, closes, index,
                  lastPrune, probeFaults>>
  BY DEF PassFails, db
<1>2. NodeType' /\ TablesType' /\ RowsBacked' /\ Tip' = Tip /\ DOMAIN blocks = 0..Tip
      /\ reorgs' \in 0..MaxReorgs
  BY <1>1, StoreStays
<1>3. RollupType'
  BY <1>1 DEF RollupType, IInv, TypeOK
<1>4. MemoryType' /\ Control'
  BY <1>1, PassOverKeeps DEF PassFails, IInv, TypeOK, MemoryType
<1>5. BudgetType'
  BY <1>1, <1>2, BudgetKeeps DEF PassFails, IInv, TypeOK, BudgetType
<1>6. IndexAgrees'
  BY <1>1, <1>2 DEF PassFails, Running, IndexAgrees, IInv
<1> QED
  BY <1>2, <1>3, <1>4, <1>5, <1>6 DEF IInv, TypeOK

\* The scan starts at a stored height, the tip.
LEMMA StartPassKeeps == IInv /\ StartPass => IInv'
<1> SUFFICES ASSUME IInv, StartPass PROVE IInv'
  OBVIOUS
<1>1. UNCHANGED <<world, blocks, agg, utxos, staged, metrics, finalized, index, goal, batch,
                  runDay, lastPrune, faults, probeFaults>>
  BY DEF StartPass, db, budget
<1>2. NodeType' /\ TablesType' /\ RowsBacked' /\ Tip' = Tip /\ DOMAIN blocks = 0..Tip
      /\ Tip \in Height \cup {None} /\ Tip \in Int
  BY <1>1, StoreStays
<1>3. RollupType'
  BY <1>1, WorkerAssumption DEF StartPass, PricesRefreshed, RollupType, IInv, TypeOK
<1>4. MemoryType' /\ BudgetType'
  BY <1>1, <1>2 DEF StartPass, MemoryType, BudgetType, Phases, IInv, TypeOK, world
<1>5. IndexAgrees'
  BY <1>1, <1>2 DEF StartPass, IndexAgrees, IInv
<1>6. Control'
  <2>1. pc' = "scan" => cursor' \in 0..Tip'
    <3>1. CASE Tip = None
      BY <3>1 DEF StartPass
    <3>2. CASE Tip \in Height
      BY <3>2, <1>2, ChainAssumption DEF StartPass, Height
    <3> QED
      BY <3>1, <3>2, <1>2
  <2> QED
    BY <2>1 DEF StartPass, Control
<1> QED
  BY <1>2, <1>3, <1>4, <1>5, <1>6 DEF IInv, TypeOK

\* A probe moves the cursor to another stored height, or ends the scan.
LEMMA ProbeKeeps == IInv /\ (ProbeAgrees \/ ProbeFails) => IInv'
<1> SUFFICES ASSUME IInv, ProbeAgrees \/ ProbeFails PROVE IInv'
  OBVIOUS
<1>1. /\ UNCHANGED <<world, blocks, agg, utxos, staged, metrics, finalized, closes, index, goal,
                     batch, runDay, lastPrune, faults>>
      /\ pc = "scan"
  BY DEF ProbeAgrees, ProbeFails, db, memory, budget
<1>2. NodeType' /\ TablesType' /\ RowsBacked' /\ Tip' = Tip /\ DOMAIN blocks = 0..Tip
      /\ Tip \in Height \cup {None} /\ Tip \in Int /\ reorgs' \in 0..MaxReorgs
  BY <1>1, StoreStays
<1>3. RollupType'
  BY <1>1 DEF RollupType, IInv, TypeOK
<1>4. cursor \in 0..Tip
  BY <1>1 DEF IInv, Control
<1>5. \/ pc' = "info" /\ cursor' = cursor
      \/ pc' = "scan" /\ cursor' = cursor - 1 /\ cursor > ScanFloor
  <2>1. CASE ProbeAgrees
    BY <2>1 DEF ProbeAgrees, memory
  <2>2. CASE ProbeFails
    BY <2>2 DEF ProbeFails
  <2> QED
    BY <2>1, <2>2
<1>6. ScanFloor \in Nat
  BY <1>2, WorkerAssumption DEF ScanFloor
<1>7. cursor' \in 0..Tip
  BY <1>2, <1>4, <1>5, <1>6
<1>8. 0..Tip \subseteq Height
  BY <1>2 DEF IInv, TypeOK, TablesType
<1>9. MemoryType'
  BY <1>1, <1>5, <1>7, <1>8 DEF MemoryType, Phases, IInv, TypeOK
<1>10. BudgetType'
  <2>1. probeFaults \in 0..MaxProbeFaults
    BY DEF IInv, TypeOK, BudgetType
  <2>2. probeFaults' = probeFaults \/ (probeFaults < MaxProbeFaults /\ probeFaults' = probeFaults + 1)
    BY DEF ProbeAgrees, ProbeFails, budget
  <2>3. probeFaults' \in 0..MaxProbeFaults
    BY <2>1, <2>2, WorkerAssumption
  <2> QED
    BY <1>1, <1>2, <2>3, BudgetKeeps
<1>11. IndexAgrees'
  BY <1>1, <1>2 DEF IndexAgrees, IInv
<1>12. Control'
  BY <1>1, <1>2, <1>5, <1>7 DEF Control
<1> QED
  BY <1>2, <1>3, <1>9, <1>10, <1>11, <1>12 DEF IInv, TypeOK

---------------------------------------------------------------------------
(* The rollback and the rewind. *)

\* Cutting a table of heights back to h leaves the heights up to h.
LEMMA TruncateKeeps ==
  ASSUME NEW table, NEW n \in Int, NEW h \in Int, DOMAIN table = 0..n, h <= n
  PROVE  /\ DOMAIN TruncateAbove(table, h) = 0..h
         /\ \A k \in 0..h : TruncateAbove(table, h)[k] = table[k]
         /\ TruncateAbove(table, h) = [k \in 0..h |-> table[k]]
BY DEF TruncateAbove, Restrict

\* A rollback cuts every table at the same height, and the index once it is answered.
LEMMA RollBackKeeps ==
  ASSUME IInv, NEW answered \in BOOLEAN, RollBack(answered)
  PROVE  IInv'
<1>1. /\ UNCHANGED <<world, metrics, finalized, closes, lastPrune, probeFaults>>
      /\ pc = "scan"
      /\ blocks' = TruncateAbove(blocks, ForkHeight)
      /\ agg' = TruncateAbove(agg, ForkHeight)
      /\ utxos' = UnspendAbove(utxos, ForkHeight)
      /\ staged' = UnstageAbove(staged, ForkHeight)
  BY DEF RollBack
<1>2. /\ Tip \in Int /\ DOMAIN blocks = 0..Tip /\ 0..Tip \subseteq Height
      /\ ForkHeight \in Int /\ ForkHeight < Tip /\ ForkHeight \in Height \cup {None}
  <2>1. Tip \in Int
    BY TipInRange, ChainAssumption DEF IInv, TypeOK, Height, None
  <2>2. DOMAIN blocks = 0..Tip /\ 0..Tip \subseteq Height
    BY DEF IInv, IndexAgrees, TypeOK, TablesType
  <2>3. cursor \in 0..Tip
    BY <1>1 DEF IInv, Control
  <2>4. ForkHeight \in 0..Tip \/ ForkHeight = None
    BY <2>1, <2>3 DEF ForkHeight, None
  <2> QED
    BY <2>1, <2>2, <2>3, <2>4 DEF ForkHeight
<1>3. /\ DOMAIN blocks' = 0..ForkHeight /\ \A k \in 0..ForkHeight : blocks'[k] = blocks[k]
      /\ blocks' = [k \in 0..ForkHeight |-> blocks[k]]
  BY <1>1, <1>2, TruncateKeeps
<1>4. Tip' = ForkHeight
  BY <1>2, <1>3, TipOfInterval DEF Tip
<1>5. 0..ForkHeight \subseteq 0..Tip
  BY <1>2
<1>6. TablesType' /\ RowsBacked'
  <2>1. DOMAIN blocks' \subseteq Height /\ blocks' \in [DOMAIN blocks' -> Block]
    BY <1>2, <1>3, <1>5 DEF IInv, TypeOK, TablesType
  <2>2. agg' \in [DOMAIN blocks' -> SUBSET [coin : Coin, day : Days]]
    <3>1. DOMAIN agg = 0..Tip
      BY <1>2 DEF IInv, TypeOK, TablesType
    <3>2. agg' = [k \in 0..ForkHeight |-> agg[k]]
      BY <3>1, <1>1, <1>2, TruncateKeeps
    <3> QED
      BY <1>2, <1>3, <1>5, <3>2 DEF IInv, TypeOK, TablesType
  <2>3. RowsTyped(utxos) /\ Backed(utxos, blocks)
    BY DEF IInv, TypeOK, TablesType, RowsBacked, RowsTyped, Backed
  <2>4. RowsTyped(utxos') /\ Backed(utxos', blocks')
    BY <1>1, <1>2, <2>3, UnspendKeepsBacked
  <2>5. staged' = [k \in {x \in DOMAIN staged : staged[x] <= ForkHeight} |-> staged[k]]
    BY <1>1 DEF UnstageAbove, Restrict
  <2>6. /\ DOMAIN staged' \subseteq Days \X {Owner[c] : c \in Coin}
        /\ staged' \in [DOMAIN staged' -> Height]
    BY <2>5 DEF IInv, TypeOK, TablesType
  <2> QED
    BY <2>1, <2>2, <2>4, <2>6 DEF TablesType, RowsTyped, RowsBacked, Backed
<1>7. index' \in [Height -> Nat] /\ \A k \in 0..ForkHeight : index'[k] = index[k]
  <2>1. CASE answered
    BY <2>1, <1>2, <1>5 DEF RollBack, TruncateIndex, IInv, TypeOK, MemoryType, NoDay
  <2>2. CASE ~answered
    BY <2>2 DEF RollBack, IInv, TypeOK, MemoryType
  <2> QED
    BY <2>1, <2>2
<1>8. IndexAgrees'
  BY <1>1, <1>3, <1>4, <1>5, <1>7 DEF IndexAgrees, IInv
<1>9. MemoryType' /\ Control'
  <2>1. CASE answered
    <3>1. pc' = "rewind" /\ UNCHANGED <<cursor, goal, batch, runDay>>
      BY <2>1 DEF RollBack, Continues
    <3> QED
      BY <3>1, <1>1, <1>7 DEF MemoryType, Control, Phases, IInv, TypeOK
  <2>2. CASE ~answered
    <3>1. pc' = "pass" /\ PassOver
      BY <2>2 DEF RollBack, Continues
    <3> QED
      BY <3>1, <1>1, <1>7, PassOverKeeps DEF IInv, TypeOK, MemoryType
  <2> QED
    BY <2>1, <2>2
<1>10. NodeType' /\ RollupType'
  BY <1>1 DEF NodeType, RollupType, IInv, TypeOK, world
<1>11. BudgetType'
  BY <1>1, BudgetKeeps DEF RollBack, Continues, world, IInv, TypeOK, BudgetType
<1> QED
  BY <1>6, <1>8, <1>9, <1>10, <1>11 DEF IInv, TypeOK

\* The rewind keeps a part of the rows and recomputes the counters.
LEMMA RewindMetricsKeeps ==
  ASSUME IInv, NEW answered \in BOOLEAN, RewindMetrics(answered)
  PROVE  IInv'
<1>1. /\ UNCHANGED <<world, blocks, agg, utxos, staged, closes, index, lastPrune, probeFaults>>
      /\ pc = "rewind"
  BY DEF RewindMetrics
<1>2. NodeType' /\ TablesType' /\ RowsBacked' /\ Tip' = Tip /\ DOMAIN blocks = 0..Tip
      /\ reorgs' \in 0..MaxReorgs
  BY <1>1, StoreStays
<1>3. RollupType'
  <2> DEFINE day == IF Tip = None THEN NoDay ELSE index[Tip]
             kept == RowsUpTo(metrics, day)
  <2>1. CASE UNCHANGED <<metrics, finalized>>
    BY <1>1, <2>1 DEF RollupType, IInv, TypeOK
  <2>2. CASE metrics' = kept /\ finalized' = LastDay(kept)
    <3>1. DOMAIN kept \subseteq 1..LastClose
      BY DEF RowsUpTo, Restrict, IInv, TypeOK, RollupType
    <3> HIDE DEF kept
    <3>2. LastDay(kept) \in 0..LastClose
      BY <3>1, LastDayInRange, WorkerAssumption
    <3> QED
      BY <1>1, <2>2, <3>1, <3>2 DEF RollupType, IInv, TypeOK
  <2> QED
    BY <2>1, <2>2 DEF RewindMetrics
<1>4. MemoryType' /\ Control'
  <2>1. CASE answered
    <3>1. pc' = "info" /\ UNCHANGED <<cursor, goal, batch, runDay>>
      BY <2>1 DEF RewindMetrics, Continues
    <3> QED
      BY <3>1, <1>1 DEF MemoryType, Control, Phases, IInv, TypeOK
  <2>2. CASE ~answered
    <3>1. pc' = "pass" /\ PassOver
      BY <2>2 DEF RewindMetrics, Continues
    <3> QED
      BY <3>1, <1>1, PassOverKeeps DEF IInv, TypeOK, MemoryType
  <2> QED
    BY <2>1, <2>2
<1>5. BudgetType'
  BY <1>1, <1>2, BudgetKeeps DEF RewindMetrics, Continues, IInv, TypeOK, BudgetType
<1>6. IndexAgrees'
  BY <1>1, <1>2 DEF IndexAgrees, IInv
<1> QED
  BY <1>2, <1>3, <1>4, <1>5, <1>6 DEF IInv, TypeOK

---------------------------------------------------------------------------
(* Fetching. *)

\* A batch starts right above the tip and ends within the node's chain.
LEMMA ReadNodeTipKeeps == IInv /\ ReadNodeTip => IInv'
<1> SUFFICES ASSUME IInv, ReadNodeTip PROVE IInv'
  OBVIOUS
<1>1. UNCHANGED <<world, blocks, agg, utxos, staged, metrics, finalized, closes, index,
                  lastPrune, faults, probeFaults>>
  BY DEF ReadNodeTip, db, budget
<1>2. NodeType' /\ TablesType' /\ RowsBacked' /\ Tip' = Tip /\ DOMAIN blocks = 0..Tip
      /\ Tip \in Height \cup {None} /\ Tip \in Int /\ node'.height = node.height
      /\ reorgs' \in 0..MaxReorgs
  BY <1>1, StoreStays
<1>3. RollupType'
  BY <1>1 DEF RollupType, IInv, TypeOK
<1>4. IndexAgrees'
  BY <1>1, <1>2 DEF ReadNodeTip, IndexAgrees, IInv
<1>5. BudgetType'
  BY <1>1, <1>2, BudgetKeeps DEF IInv, TypeOK, BudgetType
<1>6. MemoryType' /\ Control'
  <2>1. CASE AtNodeTip
    BY <2>1, <1>1, PassOverKeeps DEF ReadNodeTip, IInv, TypeOK, MemoryType
  <2>2. CASE ~AtNodeTip
    <3>1. /\ pc' = "fetch" /\ batch' = <<>> /\ runDay' = SeedDay /\ cursor' = None
          /\ goal' = Min({node.height, Tip + BatchBlocks})
      BY <2>2 DEF ReadNodeTip
    <3>2. node.height \in Height /\ node.height \in Nat /\ Tip < node.height
      BY <1>2, <2>2, ChainAssumption DEF AtNodeTip, NodeType, IInv, TypeOK, Height
    <3>3. Tip + BatchBlocks \in Nat /\ Tip < Tip + BatchBlocks
      BY <1>2, WorkerAssumption, ChainAssumption DEF Height, None
    <3> DEFINE ends == {node.height, Tip + BatchBlocks}
    <3>4. Min(ends) \in ends /\ \A y \in ends : Min(ends) <= y
      BY <3>2, <3>3, MinIsLeast
    <3>5. goal' \in Tip + 1 .. node.height /\ goal' \in Height
      BY <1>2, <3>1, <3>2, <3>3, <3>4, ChainAssumption DEF Height
    <3>6. SeedDay \in Nat
      <4>1. CASE Tip = None
        BY <4>1 DEF SeedDay, NoDay
      <4>2. CASE Tip \in Height
        BY <4>2 DEF SeedDay, NoDay, IInv, TypeOK, MemoryType
      <4> QED
        BY <4>1, <4>2, <1>2
    <3>7. MemoryType'
      BY <1>1, <3>1, <3>5, <3>6, EmptyTable DEF MemoryType, Phases, IInv, TypeOK
    <3>8. Control'
      BY <1>2, <3>1, <3>5, EmptyTable DEF Control
    <3> QED
      BY <3>7, <3>8
  <2> QED
    BY <2>1, <2>2
<1> QED
  BY <1>2, <1>3, <1>4, <1>5, <1>6 DEF IInv, TypeOK

\* The heights of a batch stay within the node's chain, so each of them has a
\* block; the last one to arrive completes the batch.
LEMMA FetchBlockKeeps ==
  ASSUME IInv, NEW h \in Height, FetchBlock(h)
  PROVE  IInv'
<1>1. /\ UNCHANGED <<world, blocks, agg, utxos, staged, metrics, finalized, closes, index,
                     cursor, goal, runDay, lastPrune, faults, probeFaults>>
      /\ pc = "fetch" /\ pc' \in {"fetch", "process"}
      /\ pc' = "process" => DOMAIN batch' = Tip + 1 .. goal
  BY DEF FetchBlock, db, budget
<1>2. NodeType' /\ TablesType' /\ RowsBacked' /\ Tip' = Tip /\ DOMAIN blocks = 0..Tip
      /\ Tip \in Int /\ Tip \in Height \cup {None} /\ node'.height = node.height
      /\ reorgs' \in 0..MaxReorgs
  BY <1>1, StoreStays
<1>3. goal \in Tip + 1 .. node.height /\ DOMAIN batch \subseteq Tip + 1 .. goal
  BY <1>1 DEF IInv, Control
<1>4. node.height \in Height /\ node.chain \in Branch /\ node.height \in DOMAIN node.chain
  BY DEF IInv, TypeOK, NodeType
<1>5. h \in Tip + 1 .. goal
  BY DEF FetchBlock
<1>6. NodeBlock(h) \in Block
  <2>1. h \in 0..node.height
    BY <1>2, <1>3, <1>4, <1>5, ChainAssumption DEF Height, None
  <2> QED
    BY <1>4, <2>1, BranchHeights DEF NodeBlock
<1>7. batch' = [k \in DOMAIN batch \cup {h} |-> IF k = h THEN NodeBlock(h) ELSE batch[k]]
  BY DEF FetchBlock
<1>8. DOMAIN batch' \subseteq Height /\ batch' \in [DOMAIN batch' -> Block]
  BY <1>6, <1>7 DEF IInv, TypeOK, MemoryType
<1>9. MemoryType'
  BY <1>1, <1>8 DEF MemoryType, Phases, IInv, TypeOK
<1>10. Control'
  <2>1. DOMAIN batch' \subseteq Tip' + 1 .. goal'
    BY <1>1, <1>2, <1>3, <1>5, <1>7
  <2>2. goal' \in Tip' + 1 .. node'.height
    BY <1>1, <1>2, <1>3
  <2>3. goal' \in Height
    BY <1>1, <1>2, <1>3, <1>4, ChainAssumption DEF Height, None
  <2>4. pc' = "process" => Tip' + 1 .. goal' \subseteq DOMAIN batch'
    BY <1>1, <1>2
  <2> QED
    BY <1>1, <2>1, <2>2, <2>3, <2>4 DEF Control
<1>11. RollupType' /\ IndexAgrees'
  BY <1>1, <1>2 DEF RollupType, IndexAgrees, IInv, TypeOK
<1>12. BudgetType'
  BY <1>1, <1>2, BudgetKeeps DEF IInv, TypeOK, BudgetType
<1> QED
  BY <1>2, <1>9, <1>10, <1>11, <1>12 DEF IInv, TypeOK

---------------------------------------------------------------------------
(* Processing. *)

\* The blocks still to be processed lie above the tip, and are blocks.
LEMMA RestOfBatch ==
  ASSUME IInv, pc = "process", Tip < goal
  PROVE  /\ Tip \in Int /\ goal \in Int /\ DOMAIN blocks = 0..Tip /\ Tip + 1 \in Tip + 1 .. goal
         /\ \A h \in Tip + 1 .. goal :
              h \in Height /\ batch[h] \in Block /\ DayOf[batch[h]] \in Days
         /\ NextDay \in Nat
<1>1. Tip \in Int
  BY TipInRange, ChainAssumption DEF IInv, TypeOK, Height, None
<1>2. goal \in Height /\ goal \in Int /\ Tip + 1 .. goal \subseteq DOMAIN batch
  BY ChainAssumption DEF IInv, Control, Height
<1>3. DOMAIN batch \subseteq Height /\ batch \in [DOMAIN batch -> Block]
  BY DEF IInv, TypeOK, MemoryType
<1>4. \A h \in Tip + 1 .. goal : h \in Height /\ batch[h] \in Block
  BY <1>2, <1>3
<1>5. \A h \in Tip + 1 .. goal : DayOf[batch[h]] \in Days
  BY <1>4, ChainAssumption
<1>6. Tip + 1 \in Tip + 1 .. goal
  BY <1>1, <1>2
<1>7. NextDay \in Nat
  BY <1>5, <1>6 DEF NextDay, Days
<1> QED
  BY <1>1, <1>2, <1>4, <1>5, <1>6, <1>7 DEF IInv, IndexAgrees

\* Writing the index entries of part of a run leaves those of the stored
\* blocks as they are, and gives the days of the blocks written.
LEMMA IndexAfterKeeps ==
  ASSUME IInv, pc = "process", Tip < goal, NEW upTo \in Tip + 1 .. goal
  PROVE  LET after == IndexAfter(index, batch, Tip + 1 .. upTo)
         IN /\ after \in [Height -> Nat]
            /\ \A h \in DOMAIN blocks : after[h] = DayOf[blocks[h]]
            /\ \A h \in Tip + 1 .. upTo : after[h] = DayOf[batch[h]]
<1> DEFINE run == Tip + 1 .. upTo
           after == IndexAfter(index, batch, run)
<1>1. /\ Tip \in Int /\ goal \in Int /\ DOMAIN blocks = 0..Tip
      /\ \A h \in Tip + 1 .. goal : h \in Height /\ DayOf[batch[h]] \in Days
  BY RestOfBatch
<1>2. run \subseteq Tip + 1 .. goal
  BY <1>1
<1>3. index \in [Height -> Nat]
  BY DEF IInv, TypeOK, MemoryType
<1>4. DOMAIN blocks \subseteq Height /\ \A h \in DOMAIN blocks : index[h] = DayOf[blocks[h]]
  BY DEF IInv, IndexAgrees, TypeOK, TablesType
<1>5. \A h \in DOMAIN blocks : h \notin run
  BY <1>1
<1>6. after = [h \in Height |-> IF h \in run THEN DayOf[batch[h]] ELSE index[h]]
  BY DEF IndexAfter
<1> HIDE DEF run, after
<1>7. after \in [Height -> Nat]
  BY <1>1, <1>2, <1>3, <1>6 DEF Days
<1>8. \A h \in DOMAIN blocks : after[h] = DayOf[blocks[h]]
  BY <1>4, <1>5, <1>6
<1>9. \A h \in run : after[h] = DayOf[batch[h]]
  BY <1>1, <1>2, <1>6
<1> QED
  BY <1>7, <1>8, <1>9 DEF run, after

\* The staging rows of a run: a day, an address, a height of the run.
LEMMA StageKeeps ==
  ASSUME NEW run, run \subseteq Height, \A h \in run : batch[h] \in Block,
         DOMAIN staged \subseteq Days \X {Owner[c] : c \in Coin}, staged \in [DOMAIN staged -> Height]
  PROVE  LET after == StageAddresses(staged, batch, run)
         IN /\ DOMAIN after \subseteq Days \X {Owner[c] : c \in Coin}
            /\ after \in [DOMAIN after -> Height]
<1> DEFINE after == StageAddresses(staged, batch, run)
           Seen(h) == {<<DayOf[batch[h]], a>> : a \in Touched(batch[h])}
           seen == UNION {Seen(h) : h \in run}
           sighted(key) == {h \in run : key \in Seen(h)}
<1>1. \A h \in run : Seen(h) \subseteq Days \X {Owner[c] : c \in Coin}
  <2> TAKE h \in run
  <2>1. DayOf[batch[h]] \in Days /\ Creates[batch[h]] \subseteq Coin
    BY ChainAssumption
  <2>2. SpentCoins(batch[h]) \subseteq Coin
    BY ChainAssumption DEF SpentCoins
  <2> QED
    BY <2>1, <2>2 DEF Touched
<1>2. DOMAIN after = DOMAIN staged \cup seen
  BY DEF StageAddresses
<1>3. \A key \in DOMAIN staged : after[key] \in Height
  BY DEF StageAddresses
<1>4. \A key \in seen : key \notin DOMAIN staged => after[key] \in Height
  <2> SUFFICES ASSUME NEW key \in seen, key \notin DOMAIN staged PROVE after[key] \in Height
    OBVIOUS
  <2>1. PICK h \in run : key \in Seen(h)
    OBVIOUS
  <2>2. sighted(key) \subseteq Nat /\ sighted(key) # {} /\ sighted(key) \subseteq Height
    BY <2>1, ChainAssumption DEF Height
  <2>3. after[key] = Min(sighted(key))
    BY DEF StageAddresses
  <2> HIDE DEF after, Seen, seen
  <2> QED
    BY <2>2, <2>3, MinIsLeast
<1>5. after = [key \in DOMAIN after |-> after[key]]
  BY DEF StageAddresses
<1>6. seen \subseteq Days \X {Owner[c] : c \in Coin}
  BY <1>1
<1> HIDE DEF after, seen
<1> QED
  BY <1>2, <1>3, <1>4, <1>5, <1>6 DEF after

\* Every spend of a run is priced at the close of a day.
LEMMA PricedSpendsType ==
  ASSUME index \in [Height -> Nat], NEW run, \A k \in run : batch[k] \in Block, NEW h \in run
  PROVE  PricedSpends(index, batch, run, h) \subseteq [coin : Coin, day : Days]
<1> SUFFICES ASSUME NEW i \in Inputs[batch[h]]
             PROVE  [coin |-> i.coin, day |-> CostDay(index, batch, run, h, i)]
                      \in [coin : Coin, day : Days]
  BY DEF PricedSpends
<1>1. i.coin \in Coin /\ i.height \in Height
  BY ChainAssumption
<1>2. DayOf[batch[h]] \in Days /\ \A k \in run : DayOf[batch[k]] \in Days
  BY ChainAssumption
<1>3. CostDay(index, batch, run, h, i) \in Days
  BY <1>1, <1>2 DEF CostDay, Days
<1> QED
  BY <1>1, <1>3

\* A run stores blocks, rows, sightings and index entries of the same heights.
LEMMA FlushRunKeeps ==
  ASSUME IInv, NEW answered \in BOOLEAN, NEW last \in Height, FlushRun(answered, last)
  PROVE  IInv'
<1> DEFINE run == Tip + 1 .. last
<1>1. /\ pc = "process" /\ Tip < goal /\ last \in Tip + 1 .. goal
      /\ UNCHANGED <<world, metrics, finalized, closes, lastPrune, probeFaults>>
      /\ blocks' = Stored(blocks, batch, run)
      /\ agg' = [h \in DOMAIN agg \cup run |->
                   IF h \in run THEN PricedSpends(index, batch, run, h) ELSE agg[h]]
      /\ \E spender \in Spenders(batch, run) : utxos' = ApplySpends(utxos, batch, run, spender)
      /\ staged' = StageAddresses(staged, batch, run)
      /\ index' = IndexAfter(index, batch, run)
  BY DEF FlushRun, AtRun, RunEndsAt, IndexAfterRun
<1>2. /\ Tip \in Int /\ goal \in Int /\ DOMAIN blocks = 0..Tip
      /\ \A h \in Tip + 1 .. goal : h \in Height /\ batch[h] \in Block
      /\ NextDay \in Nat
  BY <1>1, RestOfBatch
<1>3. /\ run \subseteq Height /\ \A h \in run : batch[h] \in Block
      /\ DOMAIN blocks \cap run = {}
  BY <1>1, <1>2
<1>4. TablesType /\ index \in [Height -> Nat]
  BY DEF IInv, TypeOK, MemoryType
<1>5. /\ blocks' = [h \in 0..last |-> IF h \in run THEN batch[h] ELSE blocks[h]]
      /\ DOMAIN blocks' = 0..last
  <2>1. Tip >= -1
    BY <1>4, TipInRange, ChainAssumption DEF Height, None
  <2>2. 0..Tip \cup run = 0..last
    BY <1>1, <1>2, <2>1
  <2> HIDE DEF run
  <2> QED
    BY <1>1, <1>2, <2>2 DEF Stored
<1>6. Tip' = last
  BY <1>5, TipOfInterval DEF Tip
<1> HIDE DEF run
<1>7. TablesType' /\ RowsBacked'
  <2>1. DOMAIN blocks' \subseteq Height
    BY <1>5, ChainAssumption DEF Height
  <2>2. \A h \in 0..last : blocks'[h] \in Block
    <3>1. 0..last \subseteq (0..Tip) \cup run
      BY <1>2 DEF run
    <3> QED
      BY <1>2, <1>3, <1>4, <1>5, <3>1 DEF TablesType
  <2>3. agg' \in [DOMAIN blocks' -> SUBSET [coin : Coin, day : Days]]
    <3>1. DOMAIN agg = 0..Tip /\ \A h \in DOMAIN agg : agg[h] \in SUBSET [coin : Coin, day : Days]
      BY <1>2, <1>4 DEF TablesType
    <3>2. \A h \in run : PricedSpends(index, batch, run, h) \in SUBSET [coin : Coin, day : Days]
      BY <1>3, <1>4, PricedSpendsType
    <3>3. DOMAIN blocks' = DOMAIN agg \cup run
      BY <1>1, <1>2, <3>1 DEF Stored
    <3> QED
      BY <1>1, <3>1, <3>2, <3>3
  <2>4. RowsTyped(utxos) /\ Backed(utxos, blocks)
    BY DEF IInv, TypeOK, TablesType, RowsBacked, RowsTyped, Backed
  <2>5. RowsTyped(utxos') /\ Backed(utxos', blocks')
    BY <1>1, <1>3, <2>4, ApplySpendsKeepsBacked
  <2>6. /\ DOMAIN staged' \subseteq Days \X {Owner[c] : c \in Coin}
        /\ staged' \in [DOMAIN staged' -> Height]
    BY <1>1, <1>3, <1>4, StageKeeps DEF TablesType
  <2>7. blocks' \in [DOMAIN blocks' -> Block]
    BY <1>5, <2>2
  <2> QED
    BY <2>1, <2>3, <2>5, <2>6, <2>7 DEF TablesType, RowsTyped, RowsBacked, Backed
<1>8. /\ index' \in [Height -> Nat]
      /\ \A h \in DOMAIN blocks : index'[h] = DayOf[blocks[h]]
      /\ \A h \in run : index'[h] = DayOf[batch[h]]
  BY <1>1, IndexAfterKeeps DEF run
<1>9. IndexAgrees'
  <2>1. \A h \in 0..last : index'[h] = DayOf[blocks'[h]]
    <3>1. 0..last \subseteq (0..Tip) \cup run
      BY <1>2 DEF run
    <3> QED
      BY <1>2, <1>5, <1>8, <3>1
  <2> QED
    BY <1>5, <1>6, <2>1 DEF IndexAgrees
<1>10. MemoryType' /\ Control'
  <2>1. CASE answered
    <3>1. pc' = "process" /\ runDay' = NextDay /\ UNCHANGED <<cursor, goal, batch>>
      BY <2>1 DEF FlushRun, Continues
    <3>2. MemoryType'
      BY <3>1, <1>1, <1>2, <1>8 DEF MemoryType, Phases, IInv, TypeOK
    <3>3. goal \in Height /\ Tip + 1 .. goal \subseteq DOMAIN batch
      BY <1>1 DEF IInv, Control
    <3>4. last + 1 .. goal \subseteq Tip + 1 .. goal
      BY <1>1, <1>2
    <3>5. Control'
      BY <3>1, <3>3, <3>4, <1>6 DEF Control
    <3> QED
      BY <3>2, <3>5
  <2>2. CASE ~answered
    <3>1. pc' = "pass" /\ PassOver
      BY <2>2 DEF FlushRun, Continues
    <3>2. lastPrune' \in Nat
      BY <1>1 DEF IInv, TypeOK, MemoryType
    <3> QED
      BY <3>1, <3>2, <1>8, PassOverKeeps
  <2> QED
    BY <2>1, <2>2
<1>11. NodeType' /\ RollupType'
  BY <1>1 DEF NodeType, RollupType, IInv, TypeOK, world
<1>12. BudgetType'
  BY <1>1, BudgetKeeps DEF FlushRun, Continues, world, IInv, TypeOK, BudgetType
<1> QED
  BY <1>7, <1>9, <1>10, <1>11, <1>12 DEF IInv, TypeOK

\* A run that fails leaves index entries above the tip, and none is believed.
LEMMA RunFailsKeeps ==
  ASSUME IInv, NEW last \in Height, NEW upTo \in Height, RunFails(last, upTo)
  PROVE  IInv'
<1>1. /\ UNCHANGED <<world, blocks, agg, utxos, staged, metrics, finalized, closes, lastPrune,
                     probeFaults>>
      /\ pc = "process" /\ Tip < goal /\ last \in Tip + 1 .. goal /\ upTo \in Tip + 1 .. last
      /\ index' = IndexAfter(index, batch, Tip + 1 .. upTo)
      /\ pc' = "pass" /\ PassOver
      /\ faults' = faults \/ (faults < MaxFaults /\ faults' = faults + 1)
  BY DEF RunFails, AtRun, RunEndsAt, db
<1>2. NodeType' /\ TablesType' /\ RowsBacked' /\ Tip' = Tip /\ DOMAIN blocks = 0..Tip
      /\ reorgs' \in 0..MaxReorgs
  BY <1>1, StoreStays
<1>3. upTo \in Tip + 1 .. goal
  BY <1>1, RestOfBatch
<1>4. index' \in [Height -> Nat] /\ \A h \in DOMAIN blocks : index'[h] = DayOf[blocks[h]]
  BY <1>1, <1>3, IndexAfterKeeps
<1>5. MemoryType' /\ Control'
  BY <1>1, <1>4, PassOverKeeps DEF IInv, TypeOK, MemoryType
<1>6. RollupType' /\ IndexAgrees'
  BY <1>1, <1>2, <1>4 DEF RollupType, IndexAgrees, IInv, TypeOK
<1>7. BudgetType'
  BY <1>1, <1>2, BudgetKeeps DEF IInv, TypeOK, BudgetType
<1> QED
  BY <1>2, <1>5, <1>6, <1>7 DEF IInv, TypeOK

\* Finalizing a day adds its row and drops its sightings.
LEMMA FinalizeDayKeeps ==
  ASSUME IInv, NEW answered \in BOOLEAN, FinalizeDay(answered)
  PROVE  IInv'
<1>1. /\ UNCHANGED <<world, blocks, agg, utxos, closes, index, lastPrune, probeFaults>>
      /\ pc = "process" /\ Tip < goal /\ runDay # NoDay /\ runDay <= closes
      /\ finalized' = runDay /\ DOMAIN metrics' = DOMAIN metrics \cup {runDay}
      /\ staged' = UnstageDays(staged, runDay)
  BY DEF FinalizeDay, AtBoundary, MayFinalize, InsertRow
<1>2. NodeType' /\ RowsBacked' /\ Tip' = Tip
  BY <1>1 DEF NodeType, RowsBacked, Tip, IInv, TypeOK, world
<1>3. TablesType'
  <2>1. staged' = [key \in {k \in DOMAIN staged : k[1] > runDay} |-> staged[key]]
    BY <1>1 DEF UnstageDays, Restrict
  <2> QED
    BY <1>1, <2>1 DEF TablesType, IInv, TypeOK
<1>4. RollupType'
  BY <1>1, WorkerAssumption DEF RollupType, MemoryType, NoDay, IInv, TypeOK
<1>5. MemoryType' /\ Control'
  <2>1. CASE answered
    <3>1. pc' = "process" /\ runDay' = NextDay /\ UNCHANGED <<cursor, goal, batch>>
      BY <2>1 DEF FinalizeDay, Continues
    <3>2. NextDay \in Nat
      BY <1>1, RestOfBatch
    <3> QED
      BY <3>1, <3>2, <1>1, <1>2 DEF MemoryType, Control, Phases, IInv, TypeOK
  <2>2. CASE ~answered
    BY <2>2, <1>1, PassOverKeeps DEF FinalizeDay, Continues, IInv, TypeOK, MemoryType
  <2> QED
    BY <2>1, <2>2
<1>6. IndexAgrees'
  BY <1>1, <1>2 DEF IndexAgrees, IInv
<1>7. BudgetType'
  BY <1>1, BudgetKeeps DEF FinalizeDay, Continues, world, IInv, TypeOK, BudgetType
<1> QED
  BY <1>2, <1>3, <1>4, <1>5, <1>6, <1>7 DEF IInv, TypeOK

\* Skipping a finalized day only moves the run's day on.
LEMMA SkipFinalizedDayKeeps == IInv /\ SkipFinalizedDay => IInv'
<1> SUFFICES ASSUME IInv, SkipFinalizedDay PROVE IInv'
  OBVIOUS
<1>1. /\ UNCHANGED <<world, blocks, agg, utxos, staged, metrics, finalized, closes, pc, index,
                     cursor, goal, batch, lastPrune, faults, probeFaults>>
      /\ pc = "process" /\ Tip < goal /\ runDay' = NextDay
  BY DEF SkipFinalizedDay, AtBoundary, db, budget
<1>2. NodeType' /\ TablesType' /\ RowsBacked' /\ Tip' = Tip /\ reorgs' \in 0..MaxReorgs
  BY <1>1, StoreStays
<1>3. NextDay \in Nat
  BY <1>1, RestOfBatch
<1>4. MemoryType' /\ Control'
  BY <1>1, <1>2, <1>3 DEF MemoryType, Control, IInv, TypeOK
<1>5. RollupType' /\ IndexAgrees'
  BY <1>1, <1>2 DEF RollupType, IndexAgrees, IInv, TypeOK
<1>6. BudgetType'
  BY <1>1, <1>2, BudgetKeeps DEF IInv, TypeOK, BudgetType
<1> QED
  BY <1>2, <1>4, <1>5, <1>6 DEF IInv, TypeOK

\* A refusal ends the pass and writes nothing.
LEMMA RefuseToFinalizeKeeps == IInv /\ RefuseToFinalize => IInv'
<1> SUFFICES ASSUME IInv, RefuseToFinalize PROVE IInv'
  OBVIOUS
<1>1. /\ UNCHANGED <<world, blocks, agg, utxos, staged, metrics, finalized, closes, index,
                     lastPrune, faults, probeFaults>>
      /\ pc = "process" /\ pc' = "pass" /\ PassOver
  BY DEF RefuseToFinalize, AtBoundary, db, budget
<1>2. NodeType' /\ TablesType' /\ RowsBacked' /\ Tip' = Tip /\ reorgs' \in 0..MaxReorgs
  BY <1>1, StoreStays
<1>3. MemoryType' /\ Control'
  BY <1>1, PassOverKeeps DEF IInv, TypeOK, MemoryType
<1>4. RollupType' /\ IndexAgrees'
  BY <1>1, <1>2 DEF RollupType, IndexAgrees, IInv, TypeOK
<1>5. BudgetType'
  BY <1>1, <1>2, BudgetKeeps DEF IInv, TypeOK, BudgetType
<1> QED
  BY <1>2, <1>3, <1>4, <1>5 DEF IInv, TypeOK

\* The end of a batch writes nothing.
LEMMA BatchStoredKeeps == IInv /\ BatchStored => IInv'
<1> SUFFICES ASSUME IInv, BatchStored PROVE IInv'
  OBVIOUS
<1>1. /\ UNCHANGED <<world, blocks, agg, utxos, staged, metrics, finalized, closes, index,
                     cursor, goal, batch, runDay, lastPrune, faults, probeFaults>>
      /\ pc = "process" /\ pc' = "prune"
  BY DEF BatchStored, db, memory, budget
<1>2. NodeType' /\ TablesType' /\ RowsBacked' /\ Tip' = Tip /\ reorgs' \in 0..MaxReorgs
  BY <1>1, StoreStays
<1>3. MemoryType' /\ Control'
  BY <1>1 DEF MemoryType, Control, Phases, IInv, TypeOK
<1>4. RollupType' /\ IndexAgrees'
  BY <1>1, <1>2 DEF RollupType, IndexAgrees, IInv, TypeOK
<1>5. BudgetType'
  BY <1>1, <1>2, BudgetKeeps DEF IInv, TypeOK, BudgetType
<1> QED
  BY <1>2, <1>3, <1>4, <1>5 DEF IInv, TypeOK

\* Pruning removes spent rows only.
LEMMA EndPassKeeps ==
  ASSUME IInv, NEW answered \in BOOLEAN, EndPass(answered)
  PROVE  IInv'
<1>1. /\ UNCHANGED <<world, blocks, agg, staged, metrics, finalized, closes, index, probeFaults>>
      /\ utxos' = utxos \/ utxos' = Pruned(utxos, PruneFloor)
      /\ lastPrune' = lastPrune \/ (lastPrune' = Tip /\ Tip - lastPrune > PruneEvery)
      /\ pc = "prune" /\ pc' = "pass" /\ PassOver
  BY DEF EndPass, Continues
<1>2. /\ RowsTyped(utxos) /\ Backed(utxos, blocks)
      /\ RowsTyped(utxos') /\ Backed(utxos', blocks)
  <2>1. RowsTyped(utxos) /\ Backed(utxos, blocks)
    BY DEF IInv, TypeOK, TablesType, RowsBacked, RowsTyped, Backed
  <2> QED
    BY <1>1, <2>1, PruneKeepsBacked
<1>3. TablesType' /\ RowsBacked'
  BY <1>1, <1>2 DEF TablesType, RowsTyped, RowsBacked, Backed, IInv, TypeOK
<1>4. lastPrune' \in Nat
  <2>1. Tip \in Int /\ lastPrune \in Nat
    BY TipInRange, ChainAssumption DEF IInv, TypeOK, MemoryType, Height, None
  <2> QED
    BY <1>1, <2>1, WorkerAssumption
<1>5. MemoryType' /\ Control'
  BY <1>1, <1>4, PassOverKeeps DEF IInv, TypeOK, MemoryType
<1>6. NodeType' /\ RollupType' /\ IndexAgrees'
  BY <1>1 DEF NodeType, RollupType, IndexAgrees, Tip, IInv, TypeOK, world
<1>7. BudgetType'
  BY <1>1, BudgetKeeps DEF EndPass, Continues, world, IInv, TypeOK, BudgetType
<1> QED
  BY <1>3, <1>5, <1>6, <1>7 DEF IInv, TypeOK

---------------------------------------------------------------------------
(* The invariant. *)

\* Nothing changes, nothing breaks.
LEMMA StutterKeeps == IInv /\ UNCHANGED vars => IInv'
BY DEF vars, IInv, TypeOK, NodeType, TablesType, RollupType, MemoryType, BudgetType,
       IndexAgrees, RowsBacked, Control, Tip

\* The invariant is inductive.
LEMMA NextKeeps == IInv /\ [Next]_vars => IInv'
<1> SUFFICES ASSUME IInv, [Next]_vars PROVE IInv'
  OBVIOUS
<1>1. CASE UNCHANGED vars
  BY <1>1, StutterKeeps
<1>2. CASE Boot
  BY <1>2, BootKeeps
<1>3. CASE NodeStep
  BY <1>3, NodeKeeps
<1>4. CASE WorkerStep
  <2>1. ASSUME NEW h \in Height, FetchBlock(h) PROVE IInv'
    BY <2>1, FetchBlockKeeps
  <2>2. ASSUME NEW last \in Height, FlushRun(TRUE, last) PROVE IInv'
    BY <2>2, FlushRunKeeps
  <2> QED
    BY <1>4, <2>1, <2>2, StartPassKeeps, ProbeKeeps, RollBackKeeps, RewindMetricsKeeps,
       ReadNodeTipKeeps, FinalizeDayKeeps, SkipFinalizedDayKeeps, RefuseToFinalizeKeeps,
       BatchStoredKeeps, EndPassKeeps DEF WorkerStep
<1>5. CASE Failure
  <2>1. ASSUME NEW last \in Height, FlushRun(FALSE, last) PROVE IInv'
    BY <2>1, FlushRunKeeps
  <2>2. ASSUME NEW last \in Height, NEW upTo \in Height, RunFails(last, upTo) PROVE IInv'
    BY <2>2, RunFailsKeeps
  <2> QED
    BY <1>5, <2>1, <2>2, CrashKeeps, PassFailsKeeps, ProbeKeeps, RollBackKeeps,
       RewindMetricsKeeps, FinalizeDayKeeps, EndPassKeeps DEF Failure
<1> QED
  BY <1>1, <1>2, <1>3, <1>4, <1>5 DEF Next

\* The inductive invariant holds in every reachable state.
THEOREM InductiveInvariant == Spec => []IInv
BY InitEstablishes, NextKeeps, PTL DEF Spec

\* Every table and every variable keeps its shape, for every chain and every
\* bound: no height beyond the node's, no spend without a day to price it at.
THEOREM TypeCorrect == Spec => []TypeOK
<1>1. IInv => TypeOK
  BY DEF IInv
<1> QED
  BY <1>1, InductiveInvariant, PTL

\* The stored chain has no gap, and the in-memory index gives the day of every
\* stored block, through every reorganization, failure and restart.
THEOREM IndexAlwaysAgrees == Spec => []IndexAgrees
<1>1. IInv => IndexAgrees
  BY DEF IInv
<1> QED
  BY <1>1, InductiveInvariant, PTL

\* Every row of utxos is backed by a stored block that creates the coin, and
\* every mark by one that spends it.
THEOREM RowsAlwaysBacked == Spec => []RowsBacked
<1>1. IInv => RowsBacked
  BY DEF IInv
<1> QED
  BY <1>1, InductiveInvariant, PTL
---------------------------------------------------------------------------
(* The counters are the sums they stand for. *)

\* The transactions that write anything but utxos and prices.
Writes ==
  \E answered \in BOOLEAN :
    \/ RollBack(answered) \/ RewindMetrics(answered) \/ FinalizeDay(answered)
    \/ \E last \in Height : FlushRun(answered, last)

\* Every other step leaves those tables alone.
LEMMA OnlyWrites ==
  ASSUME [Next]_vars
  PROVE  Writes \/ UNCHANGED <<blocks, agg, staged, supply, metrics, coinDays, finalized>>
<1> DEFINE Same == UNCHANGED <<blocks, agg, staged, supply, metrics, coinDays, finalized>>
<1>1. UNCHANGED vars => Same
  BY DEF vars
<1>2. Boot => Same
  BY DEF Boot, db
<1>3. NodeStep => Same
  BY DEF NodeStep, NodeExtends, NodeReorgs, db
<1>4. WorkerStep => Writes \/ Same
  <2>1. StartPass \/ ProbeAgrees \/ ReadNodeTip \/ BatchStored \/ EndPass(TRUE) => Same
    BY DEF StartPass, ProbeAgrees, ReadNodeTip, BatchStored, EndPass, db
  <2>2. (\E h \in Height : FetchBlock(h)) \/ SkipFinalizedDay \/ RefuseToFinalize => Same
    BY DEF FetchBlock, SkipFinalizedDay, RefuseToFinalize, db
  <2> HIDE DEF Same
  <2> QED
    BY <2>1, <2>2 DEF WorkerStep, Writes
<1>5. Failure => Writes \/ Same
  <2>1. Crash \/ PassFails \/ ProbeFails \/ EndPass(FALSE) => Same
    BY DEF Crash, PassFails, ProbeFails, EndPass, db
  <2>2. (\E last, upTo \in Height : RunFails(last, upTo)) => Same
    BY DEF RunFails, db
  <2> HIDE DEF Same
  <2> QED
    BY <2>1, <2>2 DEF Failure, Writes
<1> HIDE DEF Same
<1> QED
  BY <1>1, <1>2, <1>3, <1>4, <1>5 DEF Next, Same

\* What each of them writes, as the later proofs use it: the heights before
\* and after, and where the tables were cut or grew.
RollsBack(fork) ==
  /\ fork \in -1..Tip - 1
  /\ blocks' = TruncateAbove(blocks, fork) /\ DOMAIN blocks' = 0..fork /\ Tip' = fork
  /\ \A h \in 0..fork : blocks'[h] = blocks[h]

\* The rollback cuts the tables back to a height below the tip.
LEMMA RollBackHeights ==
  ASSUME IInv, NEW answered \in BOOLEAN, RollBack(answered)
  PROVE  RollsBack(ForkHeight)
<1>1. /\ pc = "scan" /\ blocks' = TruncateAbove(blocks, ForkHeight)
  BY DEF RollBack
<1>2. cursor \in 0..Tip /\ DOMAIN blocks = 0..Tip /\ Tip \in Height \cup {None}
  BY <1>1, TipInRange DEF IInv, TypeOK, Control, IndexAgrees
<1>3. Tip \in Int /\ ForkHeight \in Int /\ ForkHeight = cursor - 1
  BY <1>2, ChainAssumption DEF ForkHeight, Height, None
<1>4. /\ DOMAIN blocks' = {k \in 0..Tip : k <= ForkHeight}
      /\ \A h \in DOMAIN blocks' : blocks'[h] = blocks[h]
  BY <1>1, <1>2 DEF TruncateAbove, Restrict
<1>5. DOMAIN blocks' = 0..ForkHeight /\ ForkHeight \in -1..Tip - 1
  BY <1>2, <1>3, <1>4
<1>6. ForkHeight \in Height \cup {None}
  BY <1>2, <1>3, <1>5, ChainAssumption DEF Height, None
<1>7. Tip' = ForkHeight
  BY <1>5, <1>6, TipOfInterval DEF Tip
<1> QED
  BY <1>1, <1>4, <1>5, <1>7 DEF RollsBack

\* A run appends the batch's blocks to the stored ones.
Appends(last) ==
  /\ last \in Tip + 1 .. goal /\ Tip \in Int /\ Tip >= -1
  /\ DOMAIN blocks = 0..Tip /\ DOMAIN blocks' = 0..last /\ Tip' = last
  /\ \A h \in 0..Tip : blocks'[h] = blocks[h]
  /\ \A h \in Tip + 1 .. last : blocks'[h] = batch[h] /\ batch[h] \in Block /\ h \in Height

\* A run lengthens the tables from the tip to its last height.
LEMMA FlushRunHeights ==
  ASSUME IInv, NEW answered \in BOOLEAN, NEW last \in Height, FlushRun(answered, last)
  PROVE  Appends(last)
<1>1. /\ pc = "process" /\ Tip < goal /\ last \in Tip + 1 .. goal
      /\ blocks' = Stored(blocks, batch, Tip + 1 .. last)
  BY DEF FlushRun, AtRun, RunEndsAt
<1>2. /\ Tip \in Int /\ goal \in Int /\ DOMAIN blocks = 0..Tip
      /\ \A h \in Tip + 1 .. goal : h \in Height /\ batch[h] \in Block
  BY <1>1, RestOfBatch
<1>3. Tip >= -1
  BY TipInRange, ChainAssumption DEF IInv, TypeOK, Height, None
<1>4. 0..Tip \cup Tip + 1 .. last = 0..last
  BY <1>1, <1>2, <1>3
<1>5. /\ DOMAIN blocks' = 0..last
      /\ \A h \in 0..Tip : blocks'[h] = blocks[h]
      /\ \A h \in Tip + 1 .. last : blocks'[h] = batch[h]
  <2>1. blocks' = [h \in 0..last |-> IF h \in Tip + 1 .. last THEN batch[h] ELSE blocks[h]]
    BY <1>1, <1>2, <1>4 DEF Stored
  <2> QED
    BY <1>1, <1>2, <1>3, <2>1
<1>6. Tip' = last
  BY <1>5, TipOfInterval DEF Tip
<1> QED
  BY <1>1, <1>2, <1>3, <1>5, <1>6 DEF Appends
---------------------------------------------------------------------------
(* The supply counter. *)

\* Every stored height holds a block, and there are finitely many.
LEMMA StoredBlocks ==
  ASSUME TablesType
  PROVE  /\ IsFiniteSet(DOMAIN blocks) /\ \A h \in DOMAIN blocks : blocks[h] \in Block
         /\ DOMAIN blocks \subseteq Height
<1>1. DOMAIN blocks \subseteq Height /\ blocks \in [DOMAIN blocks -> Block]
  BY DEF TablesType
<1>2. IsFiniteSet(Height)
  BY ChainAssumption, FS_Interval DEF Height
<1>3. IsFiniteSet(DOMAIN blocks)
  BY <1>1, <1>2, FS_Subset
<1> QED
  BY <1>1, <1>3

\* What a rollback takes off the counter is what the rows it deletes had added.
LEMMA RollBackKeepsSupply ==
  ASSUME IInv, SupplyReconciles, NEW answered \in BOOLEAN, RollBack(answered)
  PROVE  SupplyReconciles'
<1> DEFINE gone == {k \in DOMAIN blocks : k > ForkHeight}
           kept == 0..ForkHeight
<1>1. RollsBack(ForkHeight) /\ supply' = supply - TotalSubsidy(blocks, gone)
  BY RollBackHeights DEF RollBack, RollbackCounters
<1>2. DOMAIN blocks = 0..Tip /\ Tip \in Int /\ ForkHeight \in -1..Tip - 1
  BY <1>1, TipInRange, ChainAssumption
     DEF IInv, TypeOK, IndexAgrees, RollsBack, Height, None
<1>3. kept \cup gone = DOMAIN blocks /\ kept \cap gone = {}
  BY <1>2
<1>4. IsFiniteSet(kept) /\ IsFiniteSet(gone)
  BY <1>3, StoredBlocks, FS_Subset DEF IInv, TypeOK
<1>5. \A h \in kept : blocks'[h] = blocks[h] /\ blocks[h] \in Block
  BY <1>1, <1>3, StoredBlocks DEF RollsBack, IInv, TypeOK
<1>6. \A h \in gone : blocks[h] \in Block
  BY StoredBlocks DEF IInv, TypeOK
<1> HIDE DEF gone, kept
<1>7. /\ TotalSubsidy(blocks, kept \cup gone) = TotalSubsidy(blocks', kept) + TotalSubsidy(blocks, gone)
      /\ TotalSubsidy(blocks', kept) \in Int /\ TotalSubsidy(blocks, gone) \in Int
  BY <1>3, <1>4, <1>5, <1>6, TotalSubsidyOfUnion
<1>8. DOMAIN blocks' = kept
  BY <1>1 DEF RollsBack, kept
<1> QED
  BY <1>1, <1>3, <1>7, <1>8 DEF SupplyReconciles

\* A run adds the subsidies of the blocks it stores.
LEMMA FlushRunKeepsSupply ==
  ASSUME IInv, SupplyReconciles, NEW answered \in BOOLEAN, NEW last \in Height,
         FlushRun(answered, last)
  PROVE  SupplyReconciles'
<1> DEFINE run == Tip + 1 .. last
<1>1. Appends(last) /\ supply' = supply + TotalSubsidy(batch, run)
  BY FlushRunHeights DEF FlushRun
<1>2. /\ IsFiniteSet(DOMAIN blocks) /\ IsFiniteSet(run)
      /\ DOMAIN blocks \cap run = {} /\ DOMAIN blocks \cup run = DOMAIN blocks'
  <2>1. /\ Tip \in Int /\ Tip >= -1 /\ last \in Int /\ last > Tip
        /\ DOMAIN blocks = 0..Tip /\ DOMAIN blocks' = 0..last
    BY <1>1, ChainAssumption DEF Appends, Height
  <2>2. IsFiniteSet(0..Tip) /\ IsFiniteSet(run)
    BY <2>1, FS_Interval
  <2>3. 0..Tip \cap run = {} /\ 0..Tip \cup run = 0..last
    BY <2>1
  <2> QED
    BY <2>1, <2>2, <2>3
<1>3. \A h \in DOMAIN blocks : blocks[h] = blocks'[h] /\ blocks'[h] \in Block
  BY <1>1, StoredBlocks DEF Appends, IInv, TypeOK
<1>4. \A h \in run : batch[h] = blocks'[h] /\ blocks'[h] \in Block
  BY <1>1 DEF Appends
<1> HIDE DEF run
<1>5. /\ TotalSubsidy(blocks', DOMAIN blocks \cup run)
            = TotalSubsidy(blocks, DOMAIN blocks) + TotalSubsidy(batch, run)
  BY <1>2, <1>3, <1>4, TotalSubsidyOfUnion
<1> QED
  BY <1>1, <1>2, <1>5 DEF SupplyReconciles

\* No step moves the counter away from its table.
LEMMA SupplyKept == IInv /\ SupplyReconciles /\ [Next]_vars => SupplyReconciles'
<1> SUFFICES ASSUME IInv, SupplyReconciles, [Next]_vars PROVE SupplyReconciles'
  OBVIOUS
<1>1. CASE UNCHANGED <<blocks, supply>>
  BY <1>1 DEF SupplyReconciles
<1>2. ASSUME NEW answered \in BOOLEAN, RewindMetrics(answered) \/ FinalizeDay(answered)
      PROVE  UNCHANGED <<blocks, supply>>
  BY <1>2 DEF RewindMetrics, FinalizeDay
<1> QED
  BY <1>1, <1>2, OnlyWrites, RollBackKeepsSupply, FlushRunKeepsSupply DEF Writes

\* The supply counter is the subsidy of the stored blocks: for every chain,
\* however the node reorganizes and whatever is lost, retried or restarted.
THEOREM SupplyAlwaysReconciles == Spec => []SupplyReconciles
<1>1. Init => SupplyReconciles
  <2> SUFFICES ASSUME Init PROVE SupplyReconciles
    OBVIOUS
  <2>1. DOMAIN blocks = {} /\ supply = 0
    BY EmptyTable DEF Init
  <2>2. TotalSubsidy(blocks, DOMAIN blocks) = SumFunctionOnSet([h \in {} |-> Subsidy(blocks[h])], {})
    BY <2>1 DEF TotalSubsidy, SumFunction
  <2> QED
    BY <2>1, <2>2, SumOfNone DEF SupplyReconciles
<1> QED
  BY <1>1, SupplyKept, InductiveInvariant, PTL DEF Spec

---------------------------------------------------------------------------
(* The counters of the daily roll-up. *)

\* Every row has a supply that can be summed.
RowSupplies == \A d \in DOMAIN metrics : metrics[d].supply \in Int

RollupInv == SupplyReconciles /\ RollupReconciles /\ RowSupplies

\* The counter itself is an integer, being a sum of subsidies.
LEMMA SupplyType == ASSUME TablesType, SupplyReconciles PROVE supply \in Int
<1> DEFINE added == [h \in DOMAIN blocks |-> Subsidy(blocks[h])]
<1>1. IsFiniteSet(DOMAIN blocks) /\ \A h \in DOMAIN blocks : added[h] \in Int
  BY StoredBlocks, SubsidyType
<1>2. TotalSubsidy(blocks, DOMAIN blocks) = SumFunctionOnSet(added, DOMAIN blocks)
  BY DEF TotalSubsidy, SumFunction
<1> HIDE DEF added
<1> QED
  BY <1>1, <1>2, SumType DEF SupplyReconciles

\* A day is finalized after every day that has a row, so its row is new and
\* its supply is counted once.
LEMMA FinalizeDayKeepsRollup ==
  ASSUME IInv, RollupInv, NEW answered \in BOOLEAN, FinalizeDay(answered)
  PROVE  RollupReconciles' /\ RowSupplies'
<1> DEFINE row == DayRow(blocks, utxos, staged, supply, runDay)
<1>1. /\ runDay # NoDay /\ ~(runDay <= finalized) /\ runDay <= closes
      /\ metrics' = InsertRow(metrics, runDay, row)
      /\ coinDays' = coinDays + supply /\ finalized' = runDay
  BY DEF FinalizeDay, AtBoundary, AlreadyFinalized, MayFinalize
<1>2. /\ runDay \in 1..LastClose /\ DOMAIN metrics \subseteq 1..LastClose
      /\ runDay > finalized /\ finalized = LastDay(metrics) /\ LastClose \in Nat
  BY <1>1, WorkerAssumption
     DEF IInv, TypeOK, RollupType, MemoryType, RollupInv, RollupReconciles, NoDay
<1>3. row.supply = supply /\ supply \in Int
  BY SupplyType DEF DayRow, IInv, TypeOK, RollupInv
<1>4. DOMAIN metrics' = DOMAIN metrics \cup {runDay}
  BY <1>1 DEF InsertRow
<1> HIDE DEF row
<1>5. /\ CoinDays(metrics') = CoinDays(metrics) + row.supply
      /\ LastDay(metrics') = runDay
      /\ \A k \in DOMAIN metrics \cup {runDay} : metrics'[k].supply \in Int
  BY <1>1, <1>2, <1>3, CoinDaysOfNewRow DEF RollupInv, RowSupplies
<1> QED
  BY <1>1, <1>3, <1>4, <1>5 DEF RollupInv, RollupReconciles, RowSupplies

\* The rewind recomputes both counters from the rows it keeps.
LEMMA RewindKeepsRollup ==
  ASSUME RollupInv, NEW answered \in BOOLEAN, RewindMetrics(answered)
  PROVE  RollupReconciles' /\ RowSupplies'
<1> DEFINE kept(d) == RowsUpTo(metrics, d)
<1>1. \A d : \A k \in DOMAIN kept(d) : k \in DOMAIN metrics /\ kept(d)[k] = metrics[k]
  BY DEF RowsUpTo, Restrict
<1>2. CASE UNCHANGED <<metrics, coinDays, finalized>>
  BY <1>2 DEF RollupInv, RollupReconciles, RowSupplies
<1>3. ASSUME NEW d, metrics' = kept(d), coinDays' = CoinDays(kept(d)), finalized' = LastDay(kept(d))
      PROVE  RollupReconciles' /\ RowSupplies'
  BY <1>1, <1>3 DEF RollupInv, RollupReconciles, RowSupplies
<1> QED
  BY <1>2, <1>3 DEF RewindMetrics

\* No step leaves a counter of the roll-up behind its rows.
LEMMA RollupKept == IInv /\ RollupInv /\ [Next]_vars => RollupInv'
<1> SUFFICES ASSUME IInv, RollupInv, [Next]_vars PROVE RollupInv'
  OBVIOUS
<1>1. CASE UNCHANGED <<metrics, coinDays, finalized>>
  BY <1>1, SupplyKept DEF RollupInv, RollupReconciles, RowSupplies
<1>2. ASSUME NEW answered \in BOOLEAN,
             RollBack(answered) \/ \E last \in Height : FlushRun(answered, last)
      PROVE  UNCHANGED <<metrics, coinDays, finalized>>
  BY <1>2 DEF RollBack, FlushRun
<1>3. SupplyReconciles'
  BY SupplyKept DEF RollupInv
<1> QED
  <2>1. ASSUME NEW answered \in BOOLEAN, RewindMetrics(answered) \/ FinalizeDay(answered)
        PROVE  RollupReconciles' /\ RowSupplies'
    BY <2>1, FinalizeDayKeepsRollup, RewindKeepsRollup
  <2>2. RollupReconciles' /\ RowSupplies'
    <3>1. CASE UNCHANGED <<metrics, coinDays, finalized>>
      BY <3>1, <1>1 DEF RollupInv
    <3> QED
      BY <3>1, <2>1, <1>2, OnlyWrites DEF Writes
  <2> QED
    BY <1>3, <2>2 DEF RollupInv

\* Empty tables have empty books.
LEMMA RollupInitially == Init => RollupInv
<1> SUFFICES ASSUME Init PROVE RollupInv
  OBVIOUS
<1>1. DOMAIN blocks = {} /\ supply = 0 /\ DOMAIN metrics = {} /\ coinDays = 0 /\ finalized = NoDay
  BY EmptyTable DEF Init
<1>2. TotalSubsidy(blocks, DOMAIN blocks) = SumFunctionOnSet([h \in {} |-> Subsidy(blocks[h])], {})
  BY <1>1 DEF TotalSubsidy, SumFunction
<1>3. CoinDays(metrics) = SumFunctionOnSet([d \in {} |-> metrics[d].supply], {})
  BY <1>1 DEF CoinDays, SumFunction
<1> QED
  BY <1>1, <1>2, <1>3, SumOfNone
     DEF RollupInv, SupplyReconciles, RollupReconciles, RowSupplies, LastDay

\* No day is counted twice and none survives a rewind: the coin-days are the
\* sum over the finalized rows, and the last finalized day is the last row's,
\* for every chain and every fault.
THEOREM RollupAlwaysReconciles == Spec => []RollupReconciles
<1>1. RollupInv => RollupReconciles
  BY DEF RollupInv
<1> QED
  BY <1>1, RollupInitially, RollupKept, InductiveInvariant, PTL DEF Spec
=============================================================================
