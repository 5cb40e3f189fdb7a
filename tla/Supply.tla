------------------------------- MODULE Supply -------------------------------
(***************************************************************************)
(* The projected supply (server/src/supply.js, blockSubsidySat in rpc.js,  *)
(* the projection of GET /api/series in api.js): the route reads the tip   *)
(* and the supply with two statements while the worker moves both, and the *)
(* curve is drawn from what it read.                                       *)
(***************************************************************************)
EXTENDS Integers, FiniteSets, FiniteSetsExt

CONSTANTS
  Interval,   \* blocks between halvings
  Subsidy,    \* the subsidy of the first epoch
  StepBlocks, \* blocks between points
  TailBlocks, \* blocks drawn past the last halving
  Dated,      \* halvings that HALVINGS gives a date
  MaxHeight   \* bound: the chain's height

\* What the constants have to satisfy.
SupplyAssumption ==
  /\ Interval \in Nat \ {0} /\ Subsidy \in Nat \ {0} /\ StepBlocks \in Nat \ {0}
  /\ TailBlocks \in Nat /\ Dated \in Nat /\ MaxHeight \in Nat

VARIABLES
  tip,        \* height of the highest stored block
  supply,     \* circulating_supply_sat
  seen,       \* the tip a request read, -1 before
  drawn       \* the tip and the supply a request drew its curve from

vars == <<tip, supply, seen, drawn>>

\* blockSubsidySat.
BlockSubsidy(h) == Subsidy \div (2 ^ (h \div Interval))

\* A mutant of Issuance: each epoch is taken to be whole.
IssuanceWhole(from, to) ==
  FoldSet(LAMBDA e, a : a + BlockSubsidy(e * Interval) * Interval,
          0, {e \in 0..(to \div Interval) : e >= (from + 1) \div Interval /\ from < to})

\* issuanceBetweenSat: the subsidies of the heights above from and up to to,
\* one product per epoch.
Issuance(from, to) ==
  LET first(e) == Max({from + 1, e * Interval})
      end(e) == Min({to, (e + 1) * Interval - 1})
  IN FoldSet(LAMBDA e, a : a + BlockSubsidy(first(e)) * (end(e) - first(e) + 1),
             0, {e \in 0..(to \div Interval) : e >= (from + 1) \div Interval /\ from < to})

NextHalving(t) == t \div Interval + 1

\* The halving at which the subsidy reaches zero.
LastHalving(t) ==
  LET zero == {n \in NextHalving(t)..(NextHalving(t) + Subsidy) : BlockSubsidy(n * Interval) = 0}
  IN Min(zero)

EndHeight(t) == LastHalving(t) * Interval + TailBlocks

\* A mutant of Heights: the halvings are left to the steps.
HeightsStepped(t) == {t, EndHeight(t)} \cup {t + k * StepBlocks : k \in 1..((EndHeight(t) - t - 1) \div StepBlocks)}

\* The sampled heights: the tip, the end, the steps and every halving.
Heights(t) ==
  {t, EndHeight(t)} \cup {t + k * StepBlocks : k \in 1..((EndHeight(t) - t - 1) \div StepBlocks)}
    \cup {n * Interval : n \in NextHalving(t)..LastHalving(t)}

\* A mutant of Past: a halving at the tip itself is still ahead.
PastBelow(t) == {n \in 1..Dated : n * Interval < t}

\* The dated halvings up to the tip, by number.
Past(t) == {n \in 1..Dated : n * Interval <= t}

\* The estimated ones.
Ahead(t) == NextHalving(t)..LastHalving(t)

\* projectSupply: the curve, by height.
Curve(t, s) == [h \in Heights(t) |-> s + Issuance(t, h)]

---------------------------------------------------------------------------
Init == tip = 0 /\ supply = BlockSubsidy(0) /\ seen = -1 /\ drawn = <<0, BlockSubsidy(0)>>

\* The worker commits a block and the supply it brings.
Connect ==
  /\ tip < MaxHeight /\ tip' = tip + 1 /\ supply' = supply + BlockSubsidy(tip + 1)
  /\ UNCHANGED <<seen, drawn>>

\* A reorg takes the newest block's subsidy back.
Disconnect ==
  /\ tip > 0 /\ tip' = tip - 1 /\ supply' = supply - BlockSubsidy(tip) /\ UNCHANGED <<seen, drawn>>

\* The projection's first statement: MAX(height).
ReadTip == seen = -1 /\ seen' = tip /\ UNCHANGED <<tip, supply, drawn>>

\* Its second: the supply state; the curve is drawn.
ReadSupply == seen # -1 /\ drawn' = <<seen, supply>> /\ seen' = -1 /\ UNCHANGED <<tip, supply>>

Next == Connect \/ Disconnect \/ ReadTip \/ ReadSupply
Spec == Init /\ [][Next]_vars

---------------------------------------------------------------------------
\* Per-epoch arithmetic is exact: between any two heights the issuance is the
\* sum over the blocks, whatever halvings lie between.
IssuanceIsTheSum ==
  \A to \in tip..EndHeight(tip) :
    Issuance(tip, to) = FoldSet(LAMBDA h, a : a + BlockSubsidy(h), 0, (tip + 1)..to)

\* Between two points the subsidy never changes, so that the drawn segments are
\* the curve, but for the one block that a halving falls on.
SegmentsAreExact ==
  \A x \in Heights(tip) : \A h \in (x + 1)..EndHeight(tip) :
    (\A y \in Heights(tip) : y <= x \/ y > h) => BlockSubsidy(h) = BlockSubsidy(x + 1)

AllThereIs == FoldSet(LAMBDA h, a : a + BlockSubsidy(h), 0, 0..EndHeight(0))

\* However far the chain is, the curve it projects ends at the same supply: the
\* one that all blocks there can be issue.
OneCap == Curve(tip, supply)[EndHeight(tip)] = AllThereIs

\* What is marked: each halving once, as past or as ahead, with none left out up
\* to the last, as far as HALVINGS is dated.
MarkersMeet == Past(tip) \cap Ahead(tip) = {} /\
  (tip < (Dated + 1) * Interval => Past(tip) \cup Ahead(tip) = 1..LastHalving(tip))
=============================================================================
