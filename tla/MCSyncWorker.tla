---------------------------- MODULE MCSyncWorker ----------------------------
(***************************************************************************)
(* A universe of three competing branches for TLC.                         *)
(*                                                                         *)
(*   height  0   1    2    3    4    5                                     *)
(*           g - a1 - a2 - a3 - a4 - a5                                    *)
(*                      \- b3 - b4 - b5                                    *)
(*                            \- c4 - c5                                   *)
(*                                                                         *)
(* Coin x, made in the common block a2, is spent by one transaction, which *)
(* makes y; y is spent by one that makes z, and z by one that makes w.  The*)
(* branches mine these three at different heights, and some of them twice  *)
(* in one block (a3 and c4), so the same-block path of processBlocks is    *)
(* taken; a3, b4 and a5 burn value.                                        *)
(***************************************************************************)
EXTENDS SyncWorker, Sequences, TLC

MCBlock == {"g", "a1", "a2", "a3", "a4", "a5", "b3", "b4", "b5", "c4", "c5"}
MCCoin == {"r1", "r2", "ra", "rb", "rc", "x", "y", "z", "w"}

Chain(s) == [h \in 0..Len(s) - 1 |-> s[h + 1]]
BranchA == Chain(<<"g", "a1", "a2", "a3", "a4", "a5">>)
BranchB == Chain(<<"g", "a1", "a2", "b3", "b4", "b5">>)
BranchC == Chain(<<"g", "a1", "a2", "b3", "c4", "c5">>)
OneBranch == {BranchA}
ThreeBranches == {BranchA, BranchB, BranchC}

Content(table, default) == [b \in MCBlock |-> IF b \in DOMAIN table THEN table[b] ELSE default]
Input(c, h) == [coin |-> c, height |-> h]

MCCreates == Content(
  "a1" :> {"r1"} @@ "a2" :> {"r2", "x"} @@ "a3" :> {"ra", "y", "z"} @@ "a5" :> {"w"} @@
  "b3" :> {"rb"} @@ "b4" :> {"y"} @@ "b5" :> {"z"} @@ "c4" :> {"rc", "y", "z", "w"}, {})
MCInputs == Content(
  "a2" :> {Input("r1", 1)} @@
  "a3" :> {Input("x", 2), Input("y", 3)} @@ "a4" :> {Input("r2", 2)} @@ "a5" :> {Input("z", 3)} @@
  "b4" :> {Input("x", 2)} @@ "b5" :> {Input("y", 4)} @@
  "c4" :> {Input("x", 2), Input("y", 4), Input("z", 4)} @@ "c5" :> {Input("r2", 2)}, {})
MCBurns == Content("a3" :> 1 @@ "b4" :> 2 @@ "a5" :> 1, 0)
MCValue == [c \in MCCoin |-> IF c \in {"r1", "r2", "ra", "rb", "rc"} THEN 5 ELSE 3]
MCOwner == [c \in MCCoin |->
  IF c = "ra" THEN "s" ELSE IF c \in {"r1", "rb", "x", "w"} THEN "p" ELSE "q"]

\* Rival blocks of one height share a day.
DayShared == Content(
  "a3" :> 2 @@ "b3" :> 2 @@ "a4" :> 2 @@ "b4" :> 2 @@ "c4" :> 2 @@
  "a5" :> 3 @@ "b5" :> 3 @@ "c5" :> 3, 1)

\* Midnight falls between two blocks of the same height: a3 opens day 2, its
\* rival b3 closes day 1.
DayStraddled == [DayShared EXCEPT !["b3"] = 1]

\* Midnight falls between the rivals at height 4.
DayLateRival == [DayShared EXCEPT !["c4"] = 3]

\* A day per block from a3 on.
DayPerBlock == [DayShared EXCEPT !["a4"] = 3, !["b4"] = 3, !["c4"] = 3,
                                 !["a5"] = 4, !["b5"] = 4, !["c5"] = 4]

\* A timestamp steps back over midnight, as the consensus rules allow: a3,
\* after the first block of day 2, carries the last minute of day 1.
DayBackwards == [DayShared EXCEPT !["a2"] = 2, !["a3"] = 1]

\* The universe obeys the consensus rules, and its rival blocks share their
\* days where no configuration moves midnight between them.
ASSUME PremisesMet ==
  /\ ValidBranches
  /\ SharedGenesis
  /\ DayOf \in {DayShared, DayPerBlock} => SharedDays
=============================================================================
