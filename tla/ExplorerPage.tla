---------------------------- MODULE ExplorerPage ----------------------------
(***************************************************************************)
(* The explorer in the browser (web/src/pages/Explorer.jsx): one view per  *)
(* hash route, each loading its data in an effect that is cleaned up when  *)
(* its route or page changes, while answers and timers of the effects      *)
(* before are still to come.                                               *)
(***************************************************************************)
EXTENDS Integers, FiniteSets

CONSTANTS
  Views,        \* views of the run: some of "home", "block", "tx", "address"
  Ids,          \* blocks, transactions, addresses
  TxCount,      \* transactions of every block
  TxPage,       \* TX_PAGE
  PendingPolls, \* PENDING_POLLS
  MaxNav,       \* bound: routes and pages visited
  MaxSearches   \* bound: searches

\* What the constants have to satisfy.
PageAssumption ==
  /\ Views \subseteq {"home", "block", "tx", "address"} /\ {TxCount, TxPage} \subseteq Nat \ {0}
  /\ {PendingPolls, MaxNav, MaxSearches} \subseteq Nat

VARIABLES
  route,      \* [view, id]
  page,       \* of the block's transactions
  shown,      \* what the view holds: Null or [id, page, kind]
  err,        \* the view shows an error instead
  effect,     \* the effect that runs, counted
  mount,      \* the view instance that is mounted, counted
  flight,     \* requests under way: [effect, mount, view, id, page, attempt]
  timers,     \* polls to come, as the requests they will make
  searches,   \* searches under way: [box, to]
  box,        \* the search box that is mounted, counted
  busy        \* it waits

vars == <<route, page, shown, err, effect, mount, flight, timers, searches, box, busy>>

Null == [none |-> TRUE]
Routes == {[view |-> v, id |-> i] : v \in Views \ {"home"}, i \in Ids}
            \cup {[view |-> v, id |-> 0] : v \in Views \cap {"home"}}
Kinds == {"full", "pending", "local", "empty"}

Request(r, p, e, m) == [effect |-> e, mount |-> m, view |-> r.view, id |-> r.id, page |-> p, attempt |-> 0]

TypeOK ==
  /\ route \in Routes /\ page \in Nat /\ err \in BOOLEAN /\ busy \in BOOLEAN
  /\ shown # Null => shown.kind \in Kinds
  /\ \A f \in flight \cup timers : f.effect \in 1..effect /\ f.attempt \in 0..PendingPolls

Init ==
  /\ route \in Routes /\ page = 0 /\ shown = Null /\ err = FALSE
  /\ effect = 1 /\ mount = 1 /\ flight = {Request(route, 0, 1, 1)} /\ timers = {}
  /\ searches = {} /\ box = 1 /\ busy = FALSE

---------------------------------------------------------------------------
(* Routes and pages. *)

\* A mutant of Cleaned: the timer is left.
CleanedNot == timers

\* The cleanup of an effect clears its timer.
Cleaned == {}

\* A block is remounted for every id; the other views only when the view changes.
MountFor(r) == IF r.view = route.view /\ r.view # "block" THEN mount ELSE mount + 1

\* The home page has a search box of its own, the other views share one.
BoxFor(r) == IF (r.view = "home") = (route.view = "home") THEN box ELSE box + 1

\* window.location.hash.
Go(r) ==
  /\ r # route /\ effect < MaxNav
  /\ route' = r /\ page' = 0 /\ shown' = Null /\ err' = FALSE
  /\ effect' = effect + 1 /\ mount' = MountFor(r) /\ box' = BoxFor(r)
  /\ timers' = Cleaned /\ flight' = flight \cup {Request(r, 0, effect', mount')}

Enter(r) ==
  /\ Go(r) /\ busy' = (busy /\ BoxFor(r) = box) /\ UNCHANGED searches

Listed(p) == IF (p + 1) * TxPage <= TxCount THEN TxPage ELSE TxCount - p * TxPage

\* A mutant of HasNext: the comparison lets an exact end through.
HasNextOff == page * TxPage + Listed(shown.page) <= TxCount

\* Next is disabled by the length of the listing that is on the screen, which
\* may still be that of another page.
HasNext == page * TxPage + Listed(shown.page) < TxCount

\* The pager needs a listing; setB is not reset by a turn.
Turn(p) ==
  /\ route.view = "block" /\ ~err /\ shown # Null /\ shown.kind = "full" /\ TxCount > TxPage
  /\ (p = page + 1 /\ HasNext) \/ (p = page - 1 /\ page # 0)
  /\ effect < MaxNav
  /\ page' = p /\ err' = FALSE /\ effect' = effect + 1
  /\ timers' = Cleaned /\ flight' = flight \cup {Request(route, p, effect', mount)}
  /\ UNCHANGED <<route, shown, mount, searches, box, busy>>

---------------------------------------------------------------------------
(* Answers. *)

\* A mutant of Live: no alive flag, and nothing is unmounted.
LiveAlways(f) == TRUE

\* setState reaches the instance that asked; block and tx check their alive
\* flag, the address view and the home page have none.
Live(f) == f.mount = mount /\ (f.view \in {"block", "tx"} => f.effect = effect)

\* A mutant of PollsOn: polling does not end.
PollsOnAlways(f) == TRUE

PollsOn(f) == f.attempt < PendingPolls

\* Block and tx may still wait for the node, or have none; the home page takes
\* a failure for an empty list.
Reply(f, kind) ==
  /\ f \in flight /\ kind # "empty"
  /\ kind \in {"pending", "local"} => f.view \in {"block", "tx"}
  /\ flight' = flight \ {f}
  /\ shown' = IF Live(f) THEN [id |-> f.id, page |-> f.page, kind |-> kind] ELSE shown
  /\ timers' = IF Live(f) /\ kind = "pending" /\ PollsOn(f)
               THEN timers \cup {[f EXCEPT !.attempt = @ + 1]} ELSE timers
  /\ UNCHANGED <<route, page, err, effect, mount, searches, box, busy>>

\* A mutant of ErrAfter: the view swallows the error.
ErrAfterSilent(f) == err

ErrAfter(f) == err \/ (Live(f) /\ f.view # "home")

\* An error of the API, or REQUEST_TIMEOUT_MS.
Fail(f) ==
  /\ f \in flight /\ flight' = flight \ {f}
  /\ err' = ErrAfter(f)
  /\ shown' = IF Live(f) /\ f.view = "home" THEN [id |-> 0, page |-> 0, kind |-> "empty"] ELSE shown
  /\ UNCHANGED <<route, page, effect, mount, timers, searches, box, busy>>

\* PENDING_POLL_MS has passed.
Poll(t) ==
  /\ t \in timers /\ timers' = timers \ {t} /\ flight' = flight \cup {t}
  /\ UNCHANGED <<route, page, shown, err, effect, mount, searches, box, busy>>

---------------------------------------------------------------------------
(* The search box. *)

Submit(r) ==
  /\ ~busy /\ effect + Cardinality(searches) <= MaxSearches
  /\ busy' = TRUE /\ searches' = searches \cup {[box |-> box, to |-> r]}
  /\ UNCHANGED <<route, page, shown, err, effect, mount, flight, timers, box>>

\* A mutant of Done: a search that ends clears whatever box is mounted.
DoneAny(s) == FALSE

\* The finally of the box that asked.
Done(s) == busy /\ s.box # box

\* What is found is opened, wherever the reader is by now.
Found(s) ==
  /\ s \in searches /\ searches' = searches \ {s}
  /\ IF s.to # route THEN Go(s.to) /\ busy' = (Done(s) /\ BoxFor(s.to) = box)
     ELSE busy' = Done(s) /\ UNCHANGED <<route, page, shown, err, effect, mount, flight, timers, box>>

\* Nothing found, or the search failed: the box says so.
Missed(s) ==
  /\ s \in searches /\ searches' = searches \ {s} /\ busy' = Done(s)
  /\ UNCHANGED <<route, page, shown, err, effect, mount, flight, timers, box>>

Answered == \E f \in flight : Fail(f) \/ \E k \in Kinds : Reply(f, k)

Next ==
  \/ \E r \in Routes : Enter(r) \/ Submit(r)
  \/ \E p \in 0..(TxCount + 1) : Turn(p)
  \/ Answered \/ (\E t \in timers : Poll(t))
  \/ \E s \in searches : Found(s) \/ Missed(s)

Spec == Init /\ [][Next]_vars

---------------------------------------------------------------------------
(* Properties. *)

Loading == shown = Null /\ ~err

\* A block or transaction on the screen is the one of the route, although the
\* answers for those left come late, and of the block's id, not of another
\* (Explorer.jsx:185-195, 278-288, and the key at 457).
ShownIsTheRoute ==
  (shown # Null /\ route.view \in {"block", "tx"}) => shown.id = route.id

\* The pager never leaves the block, although Next is decided by the listing on
\* the screen, which after a quick second press is not the page's own
\* (Explorer.jsx:201-202, 249-252).
PageExists == page * TxPage < TxCount

\* A view polls for itself alone and one request at a time, at most
\* PENDING_POLLS times after the first (Explorer.jsx:176-195).
OnePoller ==
  /\ \A t \in timers : t.effect = effect
  /\ \A f \in flight \cup timers : f.attempt <= PendingPolls
  /\ Cardinality({f \in flight : f.effect = effect}) + Cardinality(timers) <= 1

\* A search box waits exactly while a search of its own is under way, and never
\* has two of them, however its answers and the reader move between the pages
\* (Explorer.jsx:44-57).
BusyIsASearch ==
  /\ busy <=> \E s \in searches : s.box = box
  /\ \A s, t \in searches : s.box = t.box => s = t
=============================================================================
