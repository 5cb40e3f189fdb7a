------------------------------- MODULE Ledger -------------------------------
(***************************************************************************)
(* What the sync worker's tables promise: a chain of blocks and, at every  *)
(* moment, exactly the set of unspent outputs that replaying that chain    *)
(* block by block gives.  Nothing here knows of batches, rows, conflict    *)
(* clauses, un-spending or pruning; SyncWorker is shown to implement it.   *)
(***************************************************************************)
EXTENDS Integers

CONSTANTS Block, Creates, Inputs, MaxHeight

VARIABLES chain,   \* height -> block
          live     \* the unspent outputs

Spends(b) == {i.coin : i \in Inputs[b]}

\* The unspent outputs after the blocks 0..h of a chain.
Replay(c, n) ==
  LET after[h \in -1..n] ==
        IF h = -1 THEN {} ELSE (after[h - 1] \cup Creates[c[h]]) \ Spends(c[h])
  IN after[n]

\* The rule of a ledger: a block spends only what is unspent, or its own.
Honours(c, h) == Spends(c[h]) \subseteq Replay(c, h - 1) \cup Creates[c[h]]

Init == chain = <<>> /\ live = {}

\* The chain grows on top of what it already holds, or is cut back.
Grows(c, n) == /\ \A h \in DOMAIN chain : c[h] = chain[h]
               /\ \A h \in 0..n : h \notin DOMAIN chain => Honours(c, h)
CutBack(c, n) == \A h \in 0..n : h \in DOMAIN chain /\ c[h] = chain[h]

Next ==
  \E n \in -1..MaxHeight :
    /\ DOMAIN chain' = 0..n
    /\ live' = Replay(chain', n)
    /\ \/ DOMAIN chain \subseteq 0..n /\ Grows(chain', n)
       \/ CutBack(chain', n)

Spec == Init /\ [][Next]_<<chain, live>>
=============================================================================
