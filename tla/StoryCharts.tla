---------------------------- MODULE StoryCharts ----------------------------
(***************************************************************************)
(* The panels of server/src/storyCharts.js that read one more column: the  *)
(* realized losses, the holders' shares, the miners' stress, who bought    *)
(* the dip, and the monthly returns.  v is that column, 0 where it is null *)
(* (for the miners, 1 on a day whose 30-day hashrate is under the 60-day   *)
(* one); a return is the pair of closes it is made of.                     *)
(***************************************************************************)
EXTENDS CycleCharts

CONSTANTS
  TopLosses,  \* losses that are named
  Step,       \* rows between samples
  MinDays,    \* the shortest episode of miner stress
  AfterDays,  \* the 180 days an episode is judged after
  MonthDays,  \* days of a month
  YearMonths  \* months of a year

\* What the constants have to satisfy.
StoryAssumption ==
  {TopLosses, Step, MinDays, AfterDays, MonthDays, YearMonths} \subseteq Nat \ {0}

Indices(P(_)) == SelectSeq([i \in 1..Len(rows) |-> i], P)
OpenBear == Last(<<0>> \o SetToSeq({e \in Found : Open(e)}))

---------------------------------------------------------------------------
(* buildPnl.                                                               *)

\* The days with a loss, the largest first, the earlier of equals first.
ByLoss == SortSeq(Indices(LAMBDA i : rows[i].v > 0),
                  LAMBDA i, j : rows[i].v > rows[j].v \/ (rows[i].v = rows[j].v /\ i < j))
TopLoss == SubSeq(ByLoss, 1, Low({TopLosses, Len(ByLoss)}))

\* A mutant of LargestLoss: it is looked for among the losses that are named.
LargestLossNamed(c) ==
  LET since == SelectSeq(TopLoss, LAMBDA i : i >= c.peak)
  IN IF since = <<>> THEN 0 ELSE Head(since)

\* The largest loss since the open bear's peak, 0 when there is none.
LargestLoss(c) ==
  LET since == SelectSeq(ByLoss, LAMBDA i : i >= c.peak)
  IN IF since = <<>> THEN 0 ELSE Head(since)

---------------------------------------------------------------------------
(* buildHandoff.                                                           *)

\* A mutant of Sample: the latest row is drawn only when it is due.
SampleEvery(s) == {s[k] : k \in {x \in DOMAIN s : (x - 1) % Step = 0}}

\* sample: every Step-th row and the last.
Sample(s) == {s[k] : k \in {x \in DOMAIN s : (x - 1) % Step = 0 \/ x = Len(s)}}

HandoffSeries == Sample(Indices(LAMBDA i : rows[i].v # 0))
HandoffNow == High({i \in DOMAIN rows : rows[i].v # 0} \cup {0})
HandoffSinceLow(c) == HandoffNow # 0 /\ rows[c.bottom].v # 0

---------------------------------------------------------------------------
(* buildMiners.                                                            *)

\* A mutant of Episodes: a run that reaches the last row is not closed.
EpisodesOpen ==
  FoldLeft(LAMBDA a, i :
    IF rows[i].v = 1 THEN [a EXCEPT !.start = IF @ = 0 THEN i ELSE @]
    ELSE IF a.start # 0
      THEN [start |-> 0, found |-> IF rows[i - 1].day - rows[a.start].day + 1 >= MinDays
                                   THEN a.found \cup {<<a.start, i - 1>>} ELSE a.found]
    ELSE a, [start |-> 0, found |-> {}], [i \in 1..Len(rows) |-> i]).found

\* The runs of days under stress that last MinDays or more: one pass over the
\* rows and one step past them, that opens and closes runs.
Episodes ==
  FoldLeft(LAMBDA a, i :
    IF i <= Len(rows) /\ rows[Low({i, Len(rows)})].v = 1
      THEN [a EXCEPT !.start = IF @ = 0 THEN i ELSE @]
    ELSE IF a.start # 0
      THEN [start |-> 0, found |-> IF rows[i - 1].day - rows[a.start].day + 1 >= MinDays
                                   THEN a.found \cup {<<a.start, i - 1>>} ELSE a.found]
    ELSE a, [start |-> 0, found |-> {}], [i \in 1..(Len(rows) + 1) |-> i]).found

Ongoing(x) == x[2] = Len(rows)

\* The row an episode is judged at, 0 while it cannot be.
Judged(x) ==
  LET after == FirstFrom(rows[x[2]].day + AfterDays)
  IN IF Ongoing(x) \/ after > Len(rows) THEN 0
     ELSE IF Priced(after) /\ Priced(x[2]) THEN after ELSE 0

---------------------------------------------------------------------------
(* buildDipBuyers.                                                         *)

\* Days since the open low, 0 when the bands of either end are missing.
DipSpan ==
  IF OpenBear = 0 \/ LastPriced = 0 THEN 0
  ELSE IF rows[Cycle(OpenBear).bottom].v = 0 \/ rows[LastPriced].v = 0 THEN 0
  ELSE rows[LastPriced].day - rows[Cycle(OpenBear).bottom].day

\* A mutant of PriorEnd: one row too far.
PriorEndAfter(e) == Low({Len(rows), Cycle(e).bottom + DipSpan + 1})

\* Where the same span after a prior low ends: counted in rows.
PriorEnd(e) == Low({Len(rows), Cycle(e).bottom + DipSpan})
Priors == {e \in Found : ~Open(e) /\ rows[Cycle(e).bottom].v # 0 /\ rows[PriorEnd(e)].v # 0}
PriorDays(e) == rows[PriorEnd(e)].day - rows[Cycle(e).bottom].day

---------------------------------------------------------------------------
(* buildReturns.                                                           *)
Month(d) == (d - 1) \div MonthDays
Year(m) == m \div YearMonths
Months == {Month(rows[i].day) : i \in {j \in DOMAIN rows : Priced(j)}}

\* Last close of each month.
MonthEnd(m) == Price(High({i \in DOMAIN rows : Priced(i) /\ Month(rows[i].day) = m}))

\* prevKey.
Before(m) == m - 1
Returns == {m \in Months : Before(m) \in Months}
Return(m) == <<MonthEnd(m), MonthEnd(Before(m))>>

ThisYear == Year(Month(rows[LastPriced].day))

\* A mutant of YearTotal: it starts from the year's own first month.
YearTotalOwn(y) ==
  LET last == y * YearMonths + YearMonths - 1
      before == y * YearMonths
  IN IF before \notin Months \/ (last \notin Months /\ y # ThisYear) THEN <<>>
     ELSE <<IF last \in Months THEN MonthEnd(last) ELSE Price(LastPriced), MonthEnd(before)>>

\* A year's total: from the last month of the year before to its own last
\* month, or to the latest close in the running year; <<>> when it has none.
YearTotal(y) ==
  LET last == y * YearMonths + YearMonths - 1
      before == y * YearMonths - 1
  IN IF before \notin Months \/ (last \notin Months /\ y # ThisYear) THEN <<>>
     ELSE <<IF last \in Months THEN MonthEnd(last) ELSE Price(LastPriced), MonthEnd(before)>>

\* A mutant of SameMonth: the returns are not sorted.
SameMonthByYear == SetToSortSeq({m \in Returns : Year(m) < ThisYear
  /\ m % YearMonths = Month(rows[LastPriced].day) % YearMonths}, <)

\* The returns of this month in earlier years, in ascending order.
SameMonth == SetToSortSeq({m \in Returns : Year(m) < ThisYear
  /\ m % YearMonths = Month(rows[LastPriced].day) % YearMonths},
  LAMBDA a, b : Return(a)[1] * Return(b)[2] < Return(b)[1] * Return(a)[2])
MedianReturn == SameMonth[Len(SameMonth) \div 2 + 1]

---------------------------------------------------------------------------
\* The loss named for the open bear is the largest since its peak, the first
\* of equals, however many larger ones history has.
LargestLossSincePeak ==
  OpenBear # 0 =>
    LET c == Cycle(OpenBear) l == LargestLoss(c)
        days == {i \in (c.peak)..Len(rows) : rows[i].v > 0}
    IN /\ l = 0 <=> days = {}
       /\ l # 0 => \A i \in days : rows[i].v < rows[l].v \/ (rows[i].v = rows[l].v /\ l <= i)
       /\ Len(ByLoss) <= TopLosses => (l # 0 => \E k \in DOMAIN TopLoss : TopLoss[k] = l)

\* The last point of the handoff line is the reading quoted under it, and the
\* change since the low is measured forward in time.
HandoffReadsItsLine ==
  HandoffNow # 0 =>
    /\ HandoffNow \in HandoffSeries
    /\ OpenBear # 0 =>
         (HandoffSinceLow(Cycle(OpenBear)) => HandoffNow >= Cycle(OpenBear).bottom)

\* The episodes are the longest runs of stressed rows that cover MinDays or
\* more, the one under way included, and only that one is not judged yet.
EpisodesAreTheRuns ==
  LET stressed(a, b) == \A i \in a..b : rows[i].v = 1
      longest(a, b) == /\ stressed(a, b)
                       /\ a > 1 => rows[a - 1].v # 1
                       /\ b < Len(rows) => rows[b + 1].v # 1
  IN /\ Episodes = {x \in (DOMAIN rows) \X (DOMAIN rows) :
                      /\ x[1] <= x[2] /\ longest(x[1], x[2])
                      /\ rows[x[2]].day - rows[x[1]].day + 1 >= MinDays}
     /\ \A x \in Episodes : Judged(x) # 0 => ~Ongoing(x) /\ Judged(x) > x[2]
     /\ \A x, y \in Episodes : Ongoing(x) /\ Ongoing(y) => x = y

\* While no day lacks a row, the prior lows are followed over the very span
\* since the open low, or to the end of the table.
SameSpanWithoutGaps ==
  (DipSpan # 0 /\ \A i \in DOMAIN rows : rows[i].day = i) =>
    \A e \in Priors : PriorDays(e) = Low({DipSpan, Len(rows) - Cycle(e).bottom})

\* The months of a year compound to its total: the returns of a year that has
\* all of them run from the close before it to the close it ends with.
MonthsCompound ==
  LastPriced # 0 => \A y \in 0..ThisYear :
    LET months == {m \in Returns : Year(m) = y}
        all == {m \in (y * YearMonths)..Low({y * YearMonths + YearMonths - 1,
                                             Month(rows[LastPriced].day)}) : TRUE}
        product(k) == FoldSet(LAMBDA m, a : a * Return(m)[k], 1, months)
    IN (months = all /\ YearTotal(y) # <<>>) =>
         product(1) * YearTotal(y)[2] = product(2) * YearTotal(y)[1]

\* The median quoted for a month splits its history: no less than half of the
\* years did as well or better, and no less than half as well or worse.
MedianSplitsHistory ==
  (LastPriced # 0 /\ SameMonth # <<>>) =>
    LET n == Len(SameMonth) mid == Return(MedianReturn)
        above == {k \in 1..n : Return(SameMonth[k])[1] * mid[2] >= mid[1] * Return(SameMonth[k])[2]}
        below == {k \in 1..n : Return(SameMonth[k])[1] * mid[2] <= mid[1] * Return(SameMonth[k])[2]}
    IN 2 * Cardinality(above) >= n /\ 2 * Cardinality(below) >= n

---------------------------------------------------------------------------
=============================================================================
