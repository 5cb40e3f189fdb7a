------------------------------ MODULE Heatmap ------------------------------
(***************************************************************************)
(* The cost-basis heatmap (server/src/heatmap.js): a day's distribution,   *)
(* buckets of one width, is spread over a fixed grid of geometric rows,    *)
(* and the densest ranges are named.  The grid's edges are integers and an *)
(* amount is counted in shares of a bucket's width, so that proportions    *)
(* stay exact.                                                             *)
(***************************************************************************)
EXTENDS Integers, Sequences, FiniteSets, SequencesExt, FiniteSetsExt

CONSTANTS
  Levels,     \* the grid's edges, ascending: logLevels
  Width,      \* the width of a bucket
  Top,        \* number of buckets
  MaxSupply,  \* supply a bucket may hold
  Share,      \* of the peak row a dense row has, in tenths
  Named       \* ranges that are named

\* What the constants have to satisfy.
HeatmapAssumption ==
  /\ Levels \in Seq(Nat) /\ Len(Levels) > 1
  /\ \A i \in 1..(Len(Levels) - 1) : Levels[i] < Levels[i + 1]
  /\ {Width, Top, MaxSupply, Share, Named} \subseteq Nat \ {0}

VARIABLE buckets   \* the distribution: the supply of bucket [p, p + Width), by p

Prices == {k * Width : k \in 0..(Top - 1)}
Init == buckets = [p \in Prices |-> 0]

\* Another day's snapshot: supply changes hands at some price.
Snapshot(p, v) == buckets[p] # v /\ buckets' = [buckets EXCEPT ![p] = v]
Next == \E p \in Prices, v \in 0..MaxSupply : Snapshot(p, v)
Spec == Init /\ [][Next]_buckets

---------------------------------------------------------------------------
Rows == 1..(Len(Levels) - 1)
Overlap(p, i) == Max({0, Min({p + Width, Levels[i + 1]}) - Max({p, Levels[i]})})

\* A mutant of FirstRow: the search is for the bucket's end.
FirstRowAfter(p) ==
  LET bisect[i \in 0..Len(Levels), j \in 0..Len(Levels)] ==
        IF i >= j THEN i
        ELSE LET m == (i + j) \div 2
             IN IF Levels[m + 2] <= p + Width THEN bisect[m + 1, j] ELSE bisect[i, m]
  IN bisect[0, Len(Levels) - 1] + 1

\* The first row that ends above a price, by bisection; one past the last if none.
FirstRow(p) ==
  LET bisect[i \in 0..Len(Levels), j \in 0..Len(Levels)] ==
        IF i >= j THEN i
        ELSE LET m == (i + j) \div 2
             IN IF Levels[m + 2] <= p THEN bisect[m + 1, j] ELSE bisect[i, m]
  IN bisect[0, Len(Levels) - 1] + 1

\* rebin: each bucket but the first is spread over the rows from there on,
\* while they start below the bucket's end.
Cells ==
  FoldSet(LAMBDA p, c :
    LET first == FirstRow(p)
    IN SubSeq([i \in Rows |-> IF i >= first /\ Levels[i] < p + Width
                               THEN c[i] + buckets[p] * Overlap(p, i) ELSE c[i]],
              1, Len(Levels) - 1),
    [i \in Rows |-> 0], {p \in Prices \ {0} : buckets[p] > 0})

\* The bucket at 0 goes to the floor.
Floor == buckets[0]

\* topClusters: runs of rows with a share of the peak row or more, ...
Dense(c) == {i \in Rows : 10 * c[i] >= Share * Max({c[k] : k \in Rows})}
Runs(c) == {x \in Rows \X Rows :
              /\ x[1] <= x[2] /\ x[1]..x[2] \subseteq Dense(c)
              /\ x[1] - 1 \notin Dense(c) /\ x[2] + 1 \notin Dense(c)}
Held(c, x) == FoldSet(LAMBDA i, a : a + c[i], 0, x[1]..x[2])

\* A mutant of Clusters: the smallest first.
ClustersSmallest(c) ==
  IF Max({c[i] : i \in Rows}) = 0 THEN {}
  ELSE {x \in Runs(c) :
          Cardinality({y \in Runs(c) : Held(c, y) < Held(c, x)
                                       \/ (Held(c, y) = Held(c, x) /\ y[1] < x[1])}) < Named}

\* ... the largest of them, the lower of two equal ones first.
Clusters(c) ==
  IF Max({c[i] : i \in Rows}) = 0 THEN {}
  ELSE {x \in Runs(c) :
          Cardinality({y \in Runs(c) : Held(c, y) > Held(c, x)
                                       \/ (Held(c, y) = Held(c, x) /\ y[1] < x[1])}) < Named}

---------------------------------------------------------------------------
\* No supply is lost or made by the change of grid: the floor, the rows and what
\* lies outside the grid's edges add up to what the buckets hold.
SupplyConserved ==
  LET c == Cells
      inside(p) == Max({0, Min({p + Width, Levels[Len(Levels)]}) - Max({p, Levels[1]})})
      outside == FoldSet(LAMBDA p, a : a + buckets[p] * (Width - inside(p)), 0, Prices \ {0})
  IN Width * Floor + FoldSet(LAMBDA i, a : a + c[i], 0, Rows) + outside
       = Width * FoldSet(LAMBDA p, a : a + buckets[p], 0, Prices)

\* The named ranges are the weightiest: apart from each other by a row that is
\* not dense, at most so many, and no range that is left out holds more.
ClustersAreTheLargest ==
  LET c == Cells s == Clusters(c)
  IN /\ Cardinality(s) <= Named
     /\ \A x, y \in s : x # y => (x[2] + 1 < y[1] \/ y[2] + 1 < x[1])
     /\ \A x \in s, y \in Runs(c) \ s : Held(c, y) <= Held(c, x)
=============================================================================
