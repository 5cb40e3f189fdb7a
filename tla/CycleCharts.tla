---------------------------- MODULE CycleCharts ----------------------------
(***************************************************************************)
(* The charts of server/src/cycleCharts.js, drawn from the cycles: the run *)
(* out of each low, the drawdown from the all-time high with its bears,    *)
(* and the scorecard that quotes both.  A ratio is the pair of closes it   *)
(* is made of.                                                             *)
(***************************************************************************)
EXTENDS Cycles

\* lastPriced: the last row with a close, 0 when there is none.
LastPriced == IF Market THEN High({i \in DOMAIN rows : Priced(i)}) ELSE 0

Found == {e \in Epochs : HasCycle(e)}
NextFound(e) == LET later == {x \in Found : x > e} IN IF later = {} THEN 0 ELSE Low(later)

\* A mutant of RunEnd: a run ends where the next low is.
RunEndAtLow(e) == IF NextFound(e) = 0 THEN LastPriced ELSE Cycle(NextFound(e)).bottom

\* Where the run out of e's low ends: the next cycle's peak, or the latest close.
RunEnd(e) == IF NextFound(e) = 0 THEN LastPriced ELSE Cycle(NextFound(e)).peak

\* buildRuns: the epochs that have a run, ...
RunsOut == {e \in Found : RunEnd(e) > Cycle(e).bottom}

\* ... and each run: its values by days since the low, its top, where it is.
Run(e) ==
  LET start == Cycle(e).bottom
      days == {j \in start..RunEnd(e) : Priced(j)}
  IN [ongoing |-> NextFound(e) = 0, low |-> start, through |-> RunEnd(e),
      top |-> First(days, LAMBDA i, j : Price(i) > Price(j)),
      days |-> rows[High(days)].day - rows[start].day,
      values |-> [d \in {rows[j].day - rows[start].day : j \in days} |->
                    Price(CHOOSE j \in days : rows[j].day - rows[start].day = d)]]

\* Where the completed runs stood on the live run's day; 0 where they have none.
AtDay == {[epoch |-> e, live |-> l, m |-> IF Run(l).days \in DOMAIN Run(e).values
                                          THEN Run(e).values[Run(l).days] ELSE 0] :
            e \in {x \in RunsOut : ~Run(x).ongoing}, l \in {x \in RunsOut : Run(x).ongoing}}

---------------------------------------------------------------------------
\* The rows the drawdown is drawn for: with a close, and outside the flagged days.
Drawn == {i \in DOMAIN rows : Priced(i) /\ Unflagged(i)}

\* A mutant of AthAt: flagged closes set the all-time high too.
AthAtFlagged(i) == First({j \in 1..i : Priced(j)}, LAMBDA a, b : Price(a) > Price(b))

\* The row of the all-time high on day i, the first of equals.
AthAt(i) == First({j \in Drawn : j <= i}, LAMBDA a, b : Price(a) > Price(b))

\* The days at least so many tenths under the all-time high.
Below(tenths) ==
  Cardinality({i \in Drawn : 10 * (Price(AthAt(i)) - Price(i)) >= tenths * Price(AthAt(i))})

\* A mutant of Recovery: it is looked for from the peak on.
RecoveryFromPeak(c) ==
  LET back == {j \in (c.peak)..Len(rows) : Priced(j) /\ Price(j) >= Price(c.peak)}
  IN IF back = {} THEN 0 ELSE Low(back)

\* The first row after the low at or above the peak, 0 while there is none.
Recovery(c) ==
  LET back == {j \in (c.bottom + 1)..Len(rows) : Priced(j) /\ Price(j) >= Price(c.peak)}
  IN IF back = {} THEN 0 ELSE Low(back)

\* buildUnderwater's bears: an open one is measured to the last drawn day.
UnderwaterDays(e) ==
  LET c == Cycle(e)
  IN rows[IF Open(e) THEN High(Drawn) ELSE c.bottom].day - rows[c.peak].day

\* buildUnderwater: today's drawdown and how long the all-time high stands.
Current == [at |-> High(Drawn), ath |-> AthAt(High(Drawn)),
            sinceAth |-> rows[High(Drawn)].day - rows[AthAt(High(Drawn))].day]

\* buildRallies: the bear's length in days.
RallyDays(e) ==
  rows[IF Open(e) THEN Len(rows) ELSE Cycle(e).bottom].day - rows[Cycle(e).peak].day

\* A mutant of CardDays: an open bear is measured to its provisional low.
CardDaysToLow(e) == rows[Cycle(e).bottom].day - rows[Cycle(e).peak].day

\* buildScorecard: the bear's length, ...
CardDays(e) ==
  rows[IF Open(e) THEN LastPriced ELSE Cycle(e).bottom].day - rows[Cycle(e).peak].day

\* ... and the run out of the low: its multiple as a close, and its days.
CardRun(e) ==
  IF e \notin RunsOut THEN [p |-> 0, days |-> 0, ongoing |-> FALSE]
  ELSE [p |-> IF Run(e).ongoing THEN Price(Run(e).through) ELSE Price(Run(e).top),
        days |-> Run(e).days, ongoing |-> Run(e).ongoing]

HalvingToPeak(e) == rows[Cycle(e).peak].day - Start(e)

---------------------------------------------------------------------------
\* Runs and bears alternate: a run ends before the next bear's low begins, no
\* at most one is live, and what a finished run says of the live run's day is
\* a close of that very day since its low.
RunsAndBearsAlternate ==
  /\ Cardinality({e \in RunsOut : Run(e).ongoing}) <= 1
  /\ \A e \in RunsOut : NextFound(e) # 0 =>
       /\ Run(e).through <= Cycle(NextFound(e)).peak
       /\ Run(e).through < Cycle(NextFound(e)).bottom
  /\ \A x \in AtDay : x.m # 0 =>
       \E j \in (Run(x.epoch).low)..(Run(x.epoch).through) :
         /\ Price(j) = x.m
         /\ rows[j].day - rows[Run(x.epoch).low].day = rows[Run(x.live).through].day - rows[Run(x.live).low].day

\* "The open bear is measured to the latest day, like the rallies chart"
\* (cycleCharts.js:138): the scorecard, the rallies and the drawdown chart give
\* a bear one length, the last one unless today's close is flagged.
BearLengthsAgree ==
  \A e \in Found : /\ CardDays(e) = RallyDays(e)
                   /\ (rows[Len(rows)].day \notin Flagged \/ ~Open(e)) =>
                        UnderwaterDays(e) = CardDays(e)

\* A bear and the run out of its low fill the time to the next peak: what a
\* closed epoch's card says of its halving, its bear and its run adds up to where
\* the next card has its own peak.
CardsAddUp ==
  \A e \in RunsOut : LET n == NextFound(e) IN
    (n # 0 /\ ~Open(e)) =>
      /\ ~CardRun(e).ongoing
      /\ Start(e) + HalvingToPeak(e) + CardDays(e) + CardRun(e).days = Start(n) + HalvingToPeak(n)

\* Recovery and drawdown tell one story: when today is an all-time high, every
\* bear whose peak is a drawn close has recovered, and no recovery lies inside
\* its own bear.
AtTheHighAllHaveRecovered ==
  \A e \in Found :
    LET c == Cycle(e) r == Recovery(c)
    IN /\ (c.peak \in Drawn /\ Current.ath = Current.at /\ c.bottom < Current.at)
            => r \in 1..Current.at
       /\ r # 0 => r > c.bottom

\* The all-time high of the drawdown chart is the bottoms chart's, flagged days
\* apart, the shares are nested, and the day of a 50% or deeper bear low counts.
SharesNested ==
  Drawn # {} =>
    /\ Below(8) <= Below(5) /\ Below(5) <= Below(3) /\ Below(3) < Cardinality(Drawn)
    /\ \A i \in Drawn : (DOMAIN rows \ Drawn = {}) => (AthAt(i) = i <=> AllTimeHigh(i))
    /\ \A e \in Found : LET c == Cycle(e) IN
         ({c.peak, c.bottom} \subseteq Drawn /\ 2 * Price(c.bottom) <= Price(c.peak))
           => Below(5) >= 1
=============================================================================
