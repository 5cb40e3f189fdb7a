----------------------------- MODULE SeriesRows -----------------------------
(***************************************************************************)
(* What two routes of the read API make of one metric's days (api.js):     *)
(* GET /api/cycles/:slug sets each day into its halving epoch and thins    *)
(* every epoch out, GET /api/series/:slug thins the whole range out.  The  *)
(* table grows by a day at a time, its newest days may be taken back.      *)
(***************************************************************************)
EXTENDS Integers, Sequences, FiniteSets, SequencesExt, FiniteSetsExt

CONSTANTS
  Halvings,  \* HALVINGS: the days epochs start
  Points,    \* the points an epoch is thinned out to (500)
  Targets,   \* values of ?downsample=
  MaxDay     \* bound: days

\* What the constants have to satisfy.
SeriesAssumption ==
  /\ Halvings \subseteq Nat /\ Halvings # {} /\ Points \in Nat \ {0}
  /\ Targets \subseteq Nat /\ MaxDay \in Nat

VARIABLES
  upto,      \* the days 0..upto - 1 have a row
  read       \* those on which the metric has a reading

vars == <<upto, read>>

TypeOK == upto \in 0..(MaxDay + 1) /\ read \subseteq 0..(upto - 1)

Init == upto = 0 /\ read = {}

\* The next day is finalized, with or without a reading.
Finalize ==
  /\ upto <= MaxDay /\ upto' = upto + 1
  /\ \E r \in {{}, {upto}} : read' = read \cup r

\* A mutant of Rewind: the reading of the day stays.
RewindKept == upto > 0 /\ upto' = upto - 1 /\ read' = read

\* A rewind deletes the newest day.
Rewind == upto > 0 /\ upto' = upto - 1 /\ read' = read \ {upto - 1}

Next == Finalize \/ Rewind
Spec == Init /\ [][Next]_vars

---------------------------------------------------------------------------
(* ORDER BY day. *)

Rows(days) == SelectSeq([i \in 1..(MaxDay + 1) |-> i - 1], LAMBDA d : d \in days)

\* A mutant of Thinned: the last row is kept only when a step falls on it.
ThinnedOpen(s, n) == [k \in 1..n |-> s[((k - 1) * Len(s)) \div n + 1]]

\* n rows at even steps, and the last one.
Thinned(s, n) ==
  LET keep == [k \in 1..n |-> s[((k - 1) * Len(s)) \div n + 1]]
  IN IF Last(keep) # Last(s) THEN Append(keep, Last(s)) ELSE keep

\* A series is thinned out when it is half as long again as asked for.
Series(s, n) == IF n > 0 /\ 2 * Len(s) > 3 * n THEN Thinned(s, n) ELSE s

\* The day the epoch of a day starts; the last epoch has no end.
EpochStart(d) == Max({h \in Halvings : h <= d})

\* A mutant of Epoch: the day of a halving still belongs to the epoch before.
EpochLate(h) == {d \in read : d > h /\ EpochStart(d - 1) = h}

\* The days of the epoch that starts at h; what is before the first is left out.
Epoch(h) == {d \in read : d >= h /\ EpochStart(d) = h}

\* The overlay: days since the halving.
Overlay(h) ==
  LET since == Rows({d - h : d \in Epoch(h)})
  IN IF Len(since) > Points THEN Thinned(since, Points) ELSE since

---------------------------------------------------------------------------
(* Properties. *)

\* A thinned series starts and ends where the range does, keeps the order,
\* names no day twice and leaves out no stretch as long as two steps.
SeriesSpansTheRange ==
  \A n \in Targets : LET s == Rows(read) t == Series(s, n) IN
    s # <<>> =>
      /\ Head(t) = Head(s) /\ Last(t) = Last(s) /\ Len(t) <= Len(s)
      /\ \A i \in 1..(Len(t) - 1) : LET left == {d \in read : t[i] < d /\ d < t[i + 1]} IN
           t[i] < t[i + 1] /\ n * Cardinality(left) < Len(s)

\* The newest reading is the last of exactly one epoch's overlay, at its
\* distance from that halving, and every epoch's overlay starts within it.
NewestIsOnItsEpoch ==
  LET after == {d \in read : d >= Min(Halvings)} IN
    after # {} =>
      LET d == Max(after) h == EpochStart(d) IN
        /\ Overlay(h) # <<>> /\ Last(Overlay(h)) = d - h
        /\ \A g \in Halvings : Overlay(g) # <<>> =>
             /\ Head(Overlay(g)) = Min({x \in read : x >= g}) - g
             /\ \A k \in Halvings : k > g => Last(Overlay(g)) < k - g
=============================================================================
