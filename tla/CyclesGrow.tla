----------------------------- MODULE CyclesGrow -----------------------------
(***************************************************************************)
(* How the detector's answer changes as days are appended: each state's    *)
(* cycles are compared with those the same rows gave k rows in.            *)
(***************************************************************************)
EXTENDS Cycles

Before(k) == INSTANCE Cycles WITH rows <- SubSeq(rows, 1, k), day <- rows[k].day

\* The epoch is closed and a median's half-width of rows lies behind it.
Settled(k, e) == ~Open(e) /\ k >= Before(k)!FirstFrom(Start(e + 1)) - 1 + SmoothHalf

\* An open epoch's low is moved, or lost, by what comes after it; the cycle of
\* an epoch that has been over for a median's half-width never changes.
SettledCyclesStand ==
  \A k \in DOMAIN rows, e \in Epochs : Settled(k, e) => Before(k)!FindCycle(e) = Cycle(e)
=============================================================================
