----------------------------- MODULE MetricRows -----------------------------
(***************************************************************************)
(* The rows a line metric's chart is drawn from (MetricDetail.jsx, sma.js):*)
(* the days in sight, thinned out, with the price beside them, the moving  *)
(* average taken from the whole series, and the projection behind them.    *)
(* The average is kept up row by row; here its window is part of the state.*)
(***************************************************************************)
EXTENDS Integers, Sequences, SequencesExt, FiniteSets, FiniteSetsExt

CONSTANTS
  Values,     \* readings
  Closes,     \* prices
  Window,     \* windowDays
  Ranges,     \* days in sight
  Ahead,      \* projected points
  MaxDays     \* bound: days

Null == -999

\* What the constants have to satisfy.
RowsAssumption ==
  /\ Values \subseteq Int \ {Null} /\ Closes \subseteq Nat /\ Window \in Nat \ {0}
  /\ Ranges \subseteq Nat \ {0} /\ Ahead \in Nat /\ MaxDays \in Nat

VARIABLES
  days,       \* the series: the reading and the close of each day
  buf, sum,   \* the window and the sum of it
  byDay       \* the averages that were emitted, times the window

vars == <<days, buf, sum, byDay>>

TypeOK ==
  /\ Len(days) <= MaxDays /\ Len(buf) <= Window /\ sum \in Int
  /\ DOMAIN byDay \subseteq DOMAIN days

Init == days = <<>> /\ buf = <<>> /\ sum = 0 /\ byDay = [d \in {} |-> 0]

\* A mutant of Average: a gap is stepped over.
AverageOver(v) ==
  IF v = Null THEN UNCHANGED <<buf, sum, byDay>>
  ELSE LET b == Append(buf, v)
           long == Len(b) > Window IN
    /\ buf' = IF long THEN Tail(b) ELSE b
    /\ sum' = IF long THEN sum + v - Head(b) ELSE sum + v
    /\ byDay' = IF Len(buf') = Window
                THEN [d \in DOMAIN byDay \cup {Len(days) + 1} |-> IF d \in DOMAIN byDay THEN byDay[d] ELSE sum']
                ELSE byDay

\* A mutant of Average: the window is shortened a row late.
AverageLate(v) ==
  IF v = Null THEN buf' = <<>> /\ sum' = 0 /\ byDay' = byDay
  ELSE LET b == Append(buf, v)
           long == Len(b) > Window + 1 IN
    /\ buf' = IF long THEN Tail(b) ELSE b
    /\ sum' = IF long THEN sum + v - Head(b) ELSE sum + v
    /\ byDay' = byDay

\* smaByDay, one row on: a gap empties the window.
Average(v) ==
  IF v = Null THEN buf' = <<>> /\ sum' = 0 /\ byDay' = byDay
  ELSE LET b == Append(buf, v)
           long == Len(b) > Window IN
    /\ buf' = IF long THEN Tail(b) ELSE b
    /\ sum' = IF long THEN sum + v - Head(b) ELSE sum + v
    /\ byDay' = IF Len(buf') = Window
                THEN [d \in DOMAIN byDay \cup {Len(days) + 1} |-> IF d \in DOMAIN byDay THEN byDay[d] ELSE sum']
                ELSE byDay

Row(v, p) == Len(days) < MaxDays /\ days' = Append(days, [v |-> v, p |-> p]) /\ Average(v)

Next == \E v \in Values \cup {Null}, p \in Closes : Row(v, p)
Spec == Init /\ [][Next]_vars

---------------------------------------------------------------------------
(* The chart. *)

\* The days in sight: every other one, and the last.
Sight(range) ==
  LET first == Max({1, Len(days) - range + 1}) IN
  SelectSeq([i \in 1..Len(days) |-> i], LAMBDA i : i >= first /\ ((i - first) % 2 = 0 \/ i = Len(days)))

\* A mutant of OnLog: the logarithm of zero is drawn.
OnLogZero(x, log) == IF log /\ x # Null /\ x < 0 THEN Null ELSE x

\* What a logarithmic axis cannot draw is left out.
OnLog(x, log) == IF log /\ x # Null /\ x <= 0 THEN Null ELSE x

\* The price has a logarithmic axis whatever the metric's is.
History(i, log) ==
  [day |-> i,
   v |-> OnLog(days[i].v, log),
   sma |-> OnLog(IF i \in DOMAIN byDay THEN byDay[i] ELSE Null, log),
   price |-> OnLog(days[i].p, TRUE),
   proj |-> Null]

\* A mutant of Charted: the projection is set beside the history, not on it.
ChartedBeside(range, log, proj) ==
  LET s == Sight(range)
      rows == [k \in DOMAIN s |-> History(s[k], log)]
  IN IF ~proj \/ rows = <<>> THEN rows
     ELSE rows \o [k \in 1..Ahead |-> [day |-> Len(days) + k, v |-> Null, sma |-> Null, price |-> Null, proj |-> k]]

\* The projection starts on the last historical row, so that the lines meet.
Charted(range, log, proj) ==
  LET s == Sight(range)
      rows == [k \in DOMAIN s |-> History(s[k], log)]
      n == Len(rows)
  IN IF ~proj \/ n = 0 \/ Ahead = 0 THEN rows
     ELSE [rows EXCEPT ![n].proj = rows[n].v] \o
            [k \in 1..Ahead |-> [day |-> Len(days) + k, v |-> Null, sma |-> Null, price |-> Null, proj |-> k]]

---------------------------------------------------------------------------
(* Properties. *)

\* An average stands on a day just when that day and those before it, a full
\* window, all have a reading, and it is theirs (sma.js:4-9).
AverageIsOfAWindow ==
  \A d \in DOMAIN days :
    LET span == (d - Window + 1)..d
        full == d >= Window /\ \A i \in span : days[i].v # Null IN
      /\ (d \in DOMAIN byDay) = full
      /\ full => byDay[d] = FoldSet(LAMBDA i, a : a + days[i].v, 0, span)

\* No number that a logarithmic axis cannot draw reaches one, neither the
\* metric's nor the overlaid price's (MetricDetail.jsx:261-272).
LogIsPositive ==
  \A r \in Ranges, log, proj \in BOOLEAN :
    \A k \in DOMAIN Charted(r, log, proj) : LET row == Charted(r, log, proj)[k] IN
      /\ row.price # Null => row.price > 0
      /\ log => \A x \in {row.v, row.sma, row.proj} : x # Null => x > 0

\* The projection meets the history in its last row and only there, and the
\* chart ends where the projection does (MetricDetail.jsx:275-284).
ProjectionMeets ==
  \A r \in Ranges, log \in BOOLEAN :
    LET rows == Charted(r, log, TRUE)
        both == {k \in DOMAIN rows : rows[k].v # Null /\ rows[k].proj # Null} IN
    (Ahead > 0 /\ rows # <<>>) =>
      /\ Last(rows).day = Len(days) + Ahead
      /\ \A k \in both : rows[k].day = Len(days) /\ rows[k].v = rows[k].proj
      /\ OnLog(Last(days).v, log) # Null => both # {}
=============================================================================
