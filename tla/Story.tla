------------------------------- MODULE Story -------------------------------
(***************************************************************************)
(* The story of a line metric (server/src/story.js): where today's reading *)
(* stands in its history, which band of the catalog it is in and for how   *)
(* long, and which sentence says so.  A reading is a number, 0 where the   *)
(* column is null; the route returns every row, null or not.               *)
(***************************************************************************)
EXTENDS Integers, Sequences, FiniteSets, SequencesExt

CONSTANTS
  Readings,   \* what a column may hold, 0 for null
  Zones,      \* the catalog's zones in order: from, to, and whether it is a line
  MaxDays     \* bound: days

\* What the constants have to satisfy.
StoryAssumption ==
  /\ Readings \subseteq Nat /\ MaxDays \in Nat
  /\ Zones \in Seq([from : Nat, to : Nat, line : BOOLEAN])

VARIABLE series   \* one reading per finalized day

Init == series = <<>>

\* A day is finalized: its row holds a reading or null.
Finalize(v) == Len(series) < MaxDays /\ series' = Append(series, v)

\* resetRollupFrom: a reorg takes the newest day away.
ResetRollup == series # <<>> /\ series' = Front(series)

Next == (\E v \in Readings : Finalize(v)) \/ ResetRollup
Spec == Init /\ [][Next]_series

---------------------------------------------------------------------------
Read == {i \in DOMAIN series : series[i] # 0}

\* The latest reading's row, 0 when the column is all null.
Latest == IF Read = {} THEN 0 ELSE CHOOSE i \in Read : \A j \in Read : j <= i

\* A mutant of Percentile: readings equal to the latest are left out.
PercentileBelow == IF Cardinality(Read) < 2 THEN <<>>
  ELSE <<Cardinality({i \in Read : series[i] < series[Latest]}), Cardinality(Read)>>

\* percentileOf: readings at or below the latest, of how many; none with fewer than two.
Percentile == IF Cardinality(Read) < 2 THEN <<>>
  ELSE <<Cardinality({i \in Read : series[i] <= series[Latest]}), Cardinality(Read)>>

\* zoneOf: the first band that holds the reading, both ends included; 0 for none.
Zone(v) ==
  LET hit == {i \in DOMAIN Zones : ~Zones[i].line /\ Zones[i].from <= v /\ v <= Zones[i].to}
  IN IF hit = {} THEN 0 ELSE CHOOSE i \in hit : \A j \in hit : i <= j

\* A mutant of Streak: a day without a reading does not end it.
StreakThrough ==
  LET same(i) == series[i] = 0 \/ Zone(series[i]) = Zone(series[Latest])
      starts == {i \in 1..(Len(series) + 1) : \A j \in i..Len(series) : same(j)}
  IN Len(series) + 1 - (CHOOSE i \in starts : \A j \in starts : i <= j)

\* zoneStreak: the days, back from the last row, in the latest reading's band
\* or like it in none; a day without a reading ends it.
Streak ==
  LET same(i) == series[i] # 0 /\ Zone(series[i]) = Zone(series[Latest])
      starts == {i \in 1..(Len(series) + 1) : \A j \in i..Len(series) : same(j)}
  IN Len(series) + 1 - (CHOOSE i \in starts : \A j \in starts : i <= j)

Banded == \E i \in DOMAIN Zones : ~Zones[i].line

\* A mutant of Tenure: the streak is held against the days, null or not.
TenureAll ==
  IF Latest = 0 THEN "none"
  ELSE IF Zone(series[Latest]) # 0 THEN "in a band"
  ELSE IF ~Banded THEN "none"
  ELSE IF 2 * Streak >= Len(series) THEN "never in a band" ELSE "outside"

\* takeaway: what the sentence says of the reading's band and tenure.
Tenure ==
  IF Latest = 0 THEN "none"
  ELSE IF Zone(series[Latest]) # 0 THEN "in a band"
  ELSE IF ~Banded THEN "none"
  ELSE IF Streak >= Cardinality(Read) THEN "never in a band" ELSE "outside"

---------------------------------------------------------------------------
\* "It has never entered a marked band": said only of a metric none of whose
\* readings is in a band, and of every such metric whose days are all read.
NeverMeansNever ==
  LET entered == \E i \in Read : Zone(series[i]) # 0
  IN /\ Tenure = "never in a band" => ~entered
     /\ (Banded /\ Read = DOMAIN series /\ Read # {} /\ ~entered) => Tenure = "never in a band"

\* The tenure is the longest it can be: every day of it has a reading in one
\* and the same place, and the day before has none or one elsewhere.
StreakIsTheLongest ==
  Latest # 0 =>
    LET first == Len(series) - Streak + 1
    IN /\ \A i \in first..Len(series) : series[i] # 0 /\ Zone(series[i]) = Zone(series[Len(series)])
       /\ (first > 1 /\ Streak > 0) =>
            series[first - 1] = 0 \/ Zone(series[first - 1]) # Zone(series[Len(series)])

\* The percentile orders days as their readings do: a record high is higher
\* than all of history, itself included, and any other reading is not.
RecordIsOneHundred ==
  Percentile # <<>> =>
    (Percentile[1] = Percentile[2] <=> \A i \in Read : series[i] <= series[Latest])
=============================================================================
