---------------------------- MODULE ChartLabels ----------------------------
(***************************************************************************)
(* Where the charts of the web pages put their marks and labels: the days  *)
(* a story is pinned to (storyMarks.js), and labels that are staggered or  *)
(* dropped so that they do not cover each other (cycleRows.js).  Labels    *)
(* come one by one, in pixels.                                             *)
(***************************************************************************)
EXTENDS Integers, Sequences, SequencesExt, FiniteSetsExt

CONSTANTS
  Xs, Ys,     \* where labels may be asked for
  Width, Step, Levels,  \* a label's size, and how many levels there are
  MaxLabels   \* bound: labels

\* What the constants have to satisfy.
LabelAssumption ==
  /\ Xs \subseteq Nat /\ Ys \subseteq Nat /\ {Width, Step} \subseteq Nat \ {0}
  /\ Levels \in Nat \ {0, 1} /\ MaxLabels \in Nat

VARIABLES
  asked,      \* the points labels were asked for at, in order
  placed      \* where layoutLabels put them

vars == <<asked, placed>>

TypeOK == Len(placed) = Len(asked) /\ \A i \in DOMAIN placed : placed[i].x = asked[i].x /\ placed[i].y >= asked[i].y

Dist(a, b) == IF a < b THEN b - a ELSE a - b
Clash(p, q) == Dist(p.x, q.x) < Width /\ Dist(p.y, q.y) < Step

\* A mutant of Dropped: the label is compared with the one before only.
DroppedLast(p) ==
  LET drop[r \in 0..Levels] ==
        LET at == [p EXCEPT !.y = @ + r * Step] IN
          IF r = Levels \/ placed = <<>> \/ ~Clash(at, Last(placed)) THEN at ELSE drop[r + 1]
  IN drop[0]

\* layoutLabels: a label drops by a step while it clashes with one that is
\* placed, at most Levels times.
Dropped(p) ==
  LET drop[r \in 0..Levels] ==
        LET at == [p EXCEPT !.y = @ + r * Step] IN
          IF r = Levels \/ \A i \in DOMAIN placed : ~Clash(at, placed[i]) THEN at ELSE drop[r + 1]
  IN drop[0]

Init == asked = <<>> /\ placed = <<>>

\* A mutant of Place: the label moves to the level of the one before.
PlaceLevel(p) ==
  /\ Len(asked) < MaxLabels /\ asked' = Append(asked, p)
  /\ placed' = Append(placed, IF placed = <<>> THEN p ELSE [p EXCEPT !.y = Last(placed).y])

Place(p) ==
  /\ Len(asked) < MaxLabels /\ asked' = Append(asked, p) /\ placed' = Append(placed, Dropped(p))

Next == \E x \in Xs, y \in Ys : Place([x |-> x, y |-> y])
Spec == Init /\ [][Next]_vars

---------------------------------------------------------------------------
(* staggerLabels: in the order of x, a label that is near the one before   *)
(* goes a level further down, round and round.                             *)

Order == SortSeq([i \in DOMAIN asked |-> i], LAMBDA i, j : asked[i].x < asked[j].x \/ (asked[i].x = asked[j].x /\ i < j))

\* A mutant of Level: as many levels as labels that are near, and back at once.
LevelPair ==
  LET lv[k \in 0..Len(asked)] ==
        IF k <= 1 THEN 0
        ELSE IF asked[Order[k]].x - asked[Order[k - 1]].x < Width THEN 1 - lv[k - 1] ELSE 0
  IN lv

Level ==
  LET lv[k \in 0..Len(asked)] ==
        IF k <= 1 THEN 0
        ELSE IF asked[Order[k]].x - asked[Order[k - 1]].x < Width THEN (lv[k - 1] + 1) % Levels ELSE 0
  IN lv

---------------------------------------------------------------------------
(* nearestDay: the chart draws some of the days, a mark goes to the        *)
(* nearest of them.                                                        *)

Drawn == SelectSeq([i \in 1..(Max(Xs) + 1) |-> i - 1], LAMBDA x : \E i \in DOMAIN asked : asked[i].x = x)

\* A mutant of Nearest: the first drawn day that is not before it.
NearestAfter(days, day) ==
  LET find[lo \in DOMAIN days, hi \in DOMAIN days] ==
        IF lo >= hi THEN lo
        ELSE LET mid == (lo + hi) \div 2 IN IF days[mid] < day THEN find[mid + 1, hi] ELSE find[lo, mid]
  IN days[find[1, Len(days)]]

Nearest(days, day) ==
  LET find[lo \in DOMAIN days, hi \in DOMAIN days] ==
        IF lo >= hi THEN lo
        ELSE LET mid == (lo + hi) \div 2 IN IF days[mid] < day THEN find[mid + 1, hi] ELSE find[lo, mid]
      at == find[1, Len(days)]
  IN IF at > 1 /\ Dist(days[at - 1], day) < Dist(days[at], day) THEN days[at - 1] ELSE days[at]

---------------------------------------------------------------------------
(* Properties. *)

\* As long as there are no more than three labels, none covers another, however
\* close they are asked for (cycleRows.js:67-83, with its four levels).
FewNeverClash ==
  Len(placed) <= 3 => \A i, j \in DOMAIN placed : i < j => ~Clash(placed[i], placed[j])

\* Staggered labels that share a level are apart, unless a full round of levels
\* lies between them (cycleRows.js:49-64).
StaggeredApart ==
  \A k, l \in DOMAIN asked :
    (k < l /\ l - k < Levels /\ Level[k] = Level[l]) => asked[Order[l]].x - asked[Order[k]].x >= Width

\* The bisection finds a drawn day that is nearest, for
\* every day of the range, and two marks keep their order (storyMarks.js:8-20).
MarksAreNearest ==
  asked # <<>> =>
    \A d \in Drawn[1]..Last(Drawn) :
      LET x == Nearest(Drawn, d) IN
        /\ \A i \in DOMAIN Drawn :
             /\ Dist(x, d) <= Dist(Drawn[i], d)
        /\ d > Drawn[1] => Nearest(Drawn, d - 1) <= x
=============================================================================
