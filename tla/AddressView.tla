---------------------------- MODULE AddressView -----------------------------
(***************************************************************************)
(* The address page (getAddress in server/src/explorer.js): the balance    *)
(* with its cost basis, the list of unspent outputs and the newest price   *)
(* come from three statements on three connections, which see whatever the *)
(* sync worker has committed when each of them runs.                       *)
(***************************************************************************)
EXTENDS Integers, Sequences, FiniteSets, FiniteSetsExt

CONSTANTS
  Coin,       \* outputs to the address, by the height that creates them
  ListMax,    \* LIMIT 500
  Price,      \* [heights -> price of the day]; 0 before there was a market
  MaxHeight   \* bound: the chain

\* What the constants have to satisfy.
ViewAssumption ==
  Coin \subseteq Nat \ {0} /\ ListMax \in Nat /\ MaxHeight \in Nat /\ Price \in [0..MaxHeight -> Nat]

VARIABLES
  tip,        \* the height the worker has committed
  spent,      \* coins spent: when
  read,       \* the page under way: what its statements returned
  seen        \* the tips its statements saw

vars == <<tip, spent, read, seen>>

Null == -1
Unread == [sat |-> Null, n |-> Null, basis |-> Null, list |-> {}, price |-> Null]
Unspent == {c \in Coin : c <= tip /\ spent[c] = 0}
Total(S) == MapThenSumSet(LAMBDA c : c, S)

TypeOK ==
  /\ tip \in 0..MaxHeight /\ spent \in [Coin -> 0..MaxHeight]
  /\ read.list \subseteq Coin /\ Cardinality(read.list) <= ListMax
  /\ seen \in [{"balance", "list", "price"} -> Null..MaxHeight]

Nothing == [q \in {"balance", "list", "price"} |-> Null]
Init == tip = 0 /\ spent = [c \in Coin |-> 0] /\ read = Unread /\ seen = Nothing

\* The worker commits a block: coins it creates appear, coins it spends go.
Block(spending) ==
  /\ tip < MaxHeight /\ spending \subseteq Unspent
  /\ tip' = tip + 1
  /\ spent' = [c \in Coin |-> IF c \in spending THEN tip' ELSE spent[c]]
  /\ UNCHANGED <<read, seen>>

\* A value of coin c is c satoshi, and its price that of its height.
Basis(c) == c * Price[c]
BasisOf(S) == MapThenSumSet(Basis, S)

See(query) == seen[query] = Null /\ seen' = [seen EXCEPT ![query] = tip]

\* A mutant of Counted: the sums go over all outputs of the address.
CountedAll == {c \in Coin : c <= tip}

\* spent_height IS NULL.
Counted == Unspent

ReadBalance ==
  /\ See("balance")
  /\ read' = [read EXCEPT !.sat = Total(Counted), !.n = Cardinality(Counted), !.basis = BasisOf(Counted)]
  /\ UNCHANGED <<tip, spent>>

\* A mutant of Listed: all are listed.
ListedAll == Unspent

\* ORDER BY created_height DESC LIMIT 500.
Listed == {c \in Unspent : Cardinality({d \in Unspent : d > c}) < ListMax}

ReadList ==
  /\ See("list") /\ read' = [read EXCEPT !.list = Listed]
  /\ UNCHANGED <<tip, spent>>

ReadPrice ==
  /\ See("price") /\ read' = [read EXCEPT !.price = Price[tip]]
  /\ UNCHANGED <<tip, spent>>

\* The page is answered, and another may be asked for.
Reply ==
  /\ \A q \in DOMAIN seen : seen[q] # Null
  /\ read' = Unread /\ seen' = Nothing
  /\ UNCHANGED <<tip, spent>>

Next == (\E s \in SUBSET Unspent : Block(s)) \/ ReadBalance \/ ReadList \/ ReadPrice \/ Reply

Spec == Init /\ [][Next]_vars

---------------------------------------------------------------------------
(* Properties. *)

Whole == \A q \in DOMAIN seen : seen[q] # Null
\* The unspent coins at a past tip.
UnspentAt(h) == {c \in Coin : c <= h /\ (spent[c] = 0 \/ spent[c] > h)}

\* Whatever is committed while a page is read, the balance, its count and its
\* basis are those of one tip, so that the average cost is one of that tip; and
\* the list is the newest of the coins of a tip, of the same one when no block
\* came between (349-379).
EachPartIsOfATip == Whole =>
  /\ read.sat = Total(UnspentAt(seen["balance"])) /\ read.n = Cardinality(UnspentAt(seen["balance"]))
  /\ read.basis = BasisOf(UnspentAt(seen["balance"]))
  /\ read.list \subseteq UnspentAt(seen["list"])
  /\ \A c \in read.list, d \in UnspentAt(seen["list"]) \ read.list : c > d
=============================================================================
