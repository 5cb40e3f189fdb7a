----------------------------- MODULE DailyRows -----------------------------
(***************************************************************************)
(* The daily rows a chart route reads (SELECT day, price, v FROM           *)
(* metrics_daily WHERE price IS NOT NULL ORDER BY day): days are finalized *)
(* in order, some without a price, and a reorg that crosses midnight takes *)
(* the newest away.  A price of 0 is a day before there was a market.      *)
(***************************************************************************)
EXTENDS Integers, Sequences, FiniteSets, SequencesExt

CONSTANTS
  Prices,     \* closes a day may have (0: before the market)
  Values,     \* what else a row holds
  Starts,     \* the halving days (HALVINGS in api.js), the first day among them
  LastDay     \* bound: days

\* What the constants have to satisfy.
RowsAssumption ==
  /\ Prices \subseteq Nat /\ LastDay \in Nat
  /\ Starts \subseteq 1..LastDay /\ 1 \in Starts

VARIABLES
  rows,       \* the rows with a price: day, price and v
  day         \* the newest finalized day, 0 when there is none

RowsInit == rows = <<>> /\ day = 0

Market == \E i \in DOMAIN rows : rows[i].price > 0

\* A day is finalized with its close.
Finalize(p, v) ==
  /\ day < LastDay /\ (p = 0 => ~Market)
  /\ day' = day + 1
  /\ rows' = Append(rows, [day |-> day + 1, price |-> p, v |-> v])

\* A day is finalized whose row has no price: no route returns it.
FinalizeBare == day < LastDay /\ day' = day + 1 /\ UNCHANGED rows

\* resetRollupFrom: a reorg takes the newest finalized day away.
ResetRollup ==
  /\ day > 0 /\ day' = day - 1
  /\ rows' = SelectSeq(rows, LAMBDA r : r.day < day)

RowsNext == (\E p \in Prices, v \in Values : Finalize(p, v)) \/ FinalizeBare \/ ResetRollup

---------------------------------------------------------------------------
(* What the chart modules share.                                           *)
Epochs == 1..Cardinality(Starts)
Start(e) == CHOOSE d \in Starts : Cardinality({x \in Starts : x <= d}) = e
Open(e) == e = Cardinality(Starts)

\* rows.findIndex(r => r.day >= d), one past the end when there is none.
FirstFrom(d) == IF \E i \in DOMAIN rows : rows[i].day >= d
  THEN CHOOSE i \in DOMAIN rows : rows[i].day >= d /\ \A j \in 1..(i - 1) : rows[j].day < d
  ELSE Len(rows) + 1

Low(S) == CHOOSE x \in S : \A y \in S : x <= y
High(S) == CHOOSE x \in S : \A y \in S : x >= y

\* The first of the indices S that is best by the strict order Better.
First(S, Better(_, _)) ==
  CHOOSE i \in S : \A j \in S : ~Better(j, i) /\ (j < i => Better(i, j))
=============================================================================
