----------------------------- MODULE EpochHour -----------------------------
(***************************************************************************)
(* The charts that place today in its halving epoch: the cycle clock       *)
(* (server/src/clock.js), the same hour of earlier epochs and the days     *)
(* since (server/src/storyCharts.js).  The angle on a ring is in           *)
(* thousandths of a turn; v is the day's MVRV.                             *)
(***************************************************************************)
EXTENDS CycleCharts

CONSTANTS
  Tips,        \* heights the synced tip may have; NoTip when it is unknown
  NoTip,
  EpochBlocks, \* BLOCKS_PER_EPOCH
  ProgressCap, \* the 0.999 of the code, in thousandths: short of a day's angle
  EpochDays,   \* the 1461 days of an epoch whose progress is unknown
  SampleEvery, \* rows between ring samples
  Horizons     \* days looked forward

\* What the constants have to satisfy.
HourAssumption ==
  /\ Tips \subseteq Nat \cup {NoTip} /\ EpochBlocks \in Nat \ {0} /\ SampleEvery \in Nat \ {0}
  /\ ProgressCap \in 0..1000 /\ EpochDays \in Nat \ {0} /\ Horizons \subseteq Nat

NoValue == 0
Rounded(a, b) == (2 * a + b) \div (2 * b)

Now == Cardinality(Starts)                  \* the open epoch
StartHeight == (Now - 1) * EpochBlocks
BlocksIn(tip) == High({0, tip - StartHeight})
Progress(tip) == Low({ProgressCap, (1000 * BlocksIn(tip)) \div EpochBlocks})

\* The rows of an epoch.
Ring(e) == FromOf(e)..UpTo(e)
Elapsed == rows[UpTo(Now)].day - Start(Now)

\* A mutant of RingDays: the elapsed days are scaled by the blocks that are left.
RingDaysLeft(e, tip) ==
  IF ~Open(e) THEN Start(e + 1) - Start(e)
  ELSE IF tip = NoTip \/ Progress(tip) = 0 THEN EpochDays
  ELSE Rounded(1000 * Elapsed, 1000 - Progress(tip))

\* The length of an epoch: its own, the projected one of the open epoch, or
\* four years when there is no progress to project from.
RingDays(e, tip) ==
  IF ~Open(e) THEN Start(e + 1) - Start(e)
  ELSE IF tip = NoTip \/ Progress(tip) = 0 THEN EpochDays
  ELSE Rounded(1000 * Elapsed, Progress(tip))

\* A mutant of Angle: a day past the projected length is not held at noon.
AngleOpen(e, d, tip) ==
  LET days == RingDays(e, tip)
  IN IF days = 0 THEN -1 ELSE Rounded(1000 * (d - Start(e)), days)

\* tOf: the angle of a day; the code divides by zero on the halving day itself
\* when the progress projects no days, and min() then keeps NaN.
Angle(e, d, tip) ==
  LET days == RingDays(e, tip)
  IN IF days = 0 THEN -1 ELSE Low({1000, Rounded(1000 * (d - Start(e)), days)})

\* A mutant of Sampled: the last day is drawn only when it is due.
SampledEvery(e) == {i \in Ring(e) : rows[i].v # NoValue /\ (i - FromOf(e)) % SampleEvery = 0}

\* The rows sampled on a ring: every so many, and the last.
Sampled(e) == {i \in Ring(e) : rows[i].v # NoValue /\
                 ((i - FromOf(e)) % SampleEvery = 0 \/ i = UpTo(e))}

Distance(a, b) == IF a < b THEN b - a ELSE a - b

\* A mutant of AtHour: the first sample past the hour.
AtHourNext(e, tip) ==
  LET t == Angle(Now, rows[UpTo(Now)].day, tip)
      past == {i \in Sampled(e) : Angle(e, rows[i].day, tip) >= t}
  IN IF past = {} THEN High(Sampled(e)) ELSE Low(past)

\* A closed ring's reading at today's hour: the nearest sample, the first of two.
AtHour(e, tip) ==
  LET t == Angle(Now, rows[UpTo(Now)].day, tip)
      far(i) == Distance(Angle(e, rows[i].day, tip), t)
  IN First(Sampled(e), LAMBDA i, j : far(i) < far(j))

---------------------------------------------------------------------------
\* A mutant of OnOrAfter: the upper half loses its first row.
OnOrAfterSkips(d) ==
  LET bisect[lo \in 0..(Len(rows) + 1), hi \in 0..(Len(rows) + 1)] ==
        IF lo >= hi THEN lo
        ELSE LET m == (lo + hi) \div 2
             IN IF rows[m + 1].day <= d THEN bisect[m + 1, hi] ELSE bisect[lo, m]
      found == bisect[0, Len(rows)]
  IN IF found < Len(rows) THEN found + 1 ELSE 0

\* indexOnOrAfter: the row on a day or the nearest later one, by bisection.
OnOrAfter(d) ==
  LET bisect[lo \in 0..(Len(rows) + 1), hi \in 0..(Len(rows) + 1)] ==
        IF lo >= hi THEN lo
        ELSE LET m == (lo + hi) \div 2
             IN IF rows[m + 1].day < d THEN bisect[m + 1, hi] ELSE bisect[lo, m]
      found == bisect[0, Len(rows)]
  IN IF found < Len(rows) THEN found + 1 ELSE 0

\* buildSameHour: today's position in the epoch.
HourNow(tip) == IF tip # NoTip THEN Progress(tip)
  ELSE Low({ProgressCap, (1000 * (rows[LastPriced].day - Start(Now))) \div EpochDays})

\* The row of an earlier epoch at that position, 0 when there is none.
SameHour(e, tip) ==
  LET i == OnOrAfter(Start(e) + Rounded(HourNow(tip) * (Start(e + 1) - Start(e)), 1000))
  IN IF i # 0 /\ Priced(i) THEN i ELSE 0

\* A mutant of Forward: days with no close yet are looked up all the same.
ForwardOpen(i, h) == LET j == OnOrAfter(rows[i].day + h) IN IF j = 0 THEN Len(rows) ELSE j

\* What came h days later, 0 when it is not known yet.
Forward(i, h) ==
  LET j == OnOrAfter(rows[i].day + h)
  IN IF j # 0 /\ j <= LastPriced /\ Priced(j) THEN j ELSE 0

\* A mutant of HighRow: the last of equal highs.
HighRowLast == High({i \in 1..LastPriced : \A j \in 1..LastPriced : Price(i) >= Price(j)})

\* buildDaysSince: the high, the low to date and the last closed bear.
HighRow == First({i \in 1..LastPriced : Priced(i)}, LAMBDA i, j : Price(i) > Price(j))
SinceHigh == rows[LastPriced].day - rows[HighRow].day
SinceLow == rows[LastPriced].day - rows[Cycle(Now).bottom].day
ClosedBears == {e \in Found : ~Open(e)}

PriorRun == rows[Cycle(Now).peak].day - rows[Cycle(High(ClosedBears)).bottom].day

---------------------------------------------------------------------------
Reached == LastPriced # 0 /\ rows[Len(rows)].day >= Start(Now) /\ FromOf(Now) <= UpTo(Now)

\* Every day has its place on its ring, between noon and the next, later days
\* never before earlier ones.
DaysInOrder ==
  Reached => \A tip \in Tips, e \in Epochs : RingDays(e, tip) # 0 =>
    \A i, j \in Ring(e) : i <= j =>
      0 <= Angle(e, rows[i].day, tip) /\ Angle(e, rows[i].day, tip) <= Angle(e, rows[j].day, tip)
        /\ Angle(e, rows[j].day, tip) <= 1000

\* "The last day always lands on the ring" (clock.js:66): a ring whose last day
\* has a reading ends with it, so that today's hand is among the samples.
LastDayOnTheRing ==
  \A e \in Epochs : (Ring(e) # {} /\ rows[UpTo(e)].v # NoValue) => UpTo(e) \in Sampled(e)

\* The reading quoted at today's hour is as near to it as any on the ring.
NearestReading ==
  Reached => \A tip \in Tips, e \in Epochs :
    (~Open(e) /\ Sampled(e) # {} /\ RingDays(Now, tip) # 0) =>
      LET t == Angle(Now, rows[UpTo(Now)].day, tip)
      IN \A i \in Sampled(e) : Distance(Angle(e, rows[AtHour(e, tip)].day, tip), t)
                                 <= Distance(Angle(e, rows[i].day, tip), t)

\* Bisection finds the first row on or after a day, for every day, gaps and all.
BisectionFindsTheFirst ==
  \A d \in 1..(LastDay + 2) :
    OnOrAfter(d) = IF FirstFrom(d) > Len(rows) THEN 0 ELSE FirstFrom(d)

\* "history": what an earlier epoch did next is read at least h days on, from a
\* close there is, and is left empty while those days have not come.
ForwardIsHistory ==
  LastPriced # 0 => \A tip \in Tips, e \in Epochs :
    (~Open(e) /\ SameHour(e, tip) # 0) => \A h \in Horizons :
      LET i == SameHour(e, tip) j == Forward(i, h)
      IN /\ j # 0 => rows[j].day - rows[i].day >= h /\ Priced(j)
         /\ rows[i].day + h > rows[Len(rows)].day => j = 0

\* The days since agree with the charts they sum up: the high with the drawdown
\* chart where no close is flagged, the low with the rallies chart, and the
\* prior run with the run the comparison draws.
DaysSinceAgree ==
  LastPriced # 0 =>
    /\ (DOMAIN rows \ Drawn \subseteq {i \in DOMAIN rows : ~Priced(i)}) =>
         SinceHigh = Current.sinceAth
    /\ Now \in Found => SinceLow \in 0..RallyDays(Now)
    /\ (Now \in Found /\ ClosedBears # {} /\ High(ClosedBears) \in RunsOut) =>
         PriorRun = Run(High(ClosedBears)).days

\* The clock and the same-hour chart place today at one hour, to within the day
\* that the clock's projected length is rounded by, once the epoch has a block.
HourAgrees ==
  Reached => \A tip \in Tips : 
    (RingDays(Now, tip) # 0 /\ LastPriced = UpTo(Now) /\ (tip = NoTip \/ Progress(tip) # 0)) =>
      Distance(Angle(Now, rows[UpTo(Now)].day, tip), HourNow(tip)) * RingDays(Now, tip) <= 1000
=============================================================================
