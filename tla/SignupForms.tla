---------------------------- MODULE SignupForms ----------------------------
(***************************************************************************)
(* The form that sets an alert on the page of a metric (AlertForm.jsx) and *)
(* the form of the footer that subscribes (SubscribeForm.jsx).  A page     *)
(* keeps the alert form from one scalar metric to the next and drops it on *)
(* any other page, also while a request is under way.                      *)
(***************************************************************************)
EXTENDS Integers, FiniteSets

CONSTANTS
  Metrics,     \* scalar metrics, each named by its own default threshold
  Thresholds,  \* numbers the field may hold
  Steady,      \* the reader leaves a busy form alone
  MaxActs      \* bound: what the reader does

Blank == 0      \* an empty field: Number('')
Elsewhere == 0  \* a page without the form

\* What the constants have to satisfy.
FormAssumption ==
  /\ Metrics \subseteq Thresholds /\ Thresholds \subseteq Nat \ {Blank}
  /\ Steady \in BOOLEAN /\ MaxActs \in Nat

VARIABLES
  metric,      \* the metric of the page, or Elsewhere
  form,        \* the alert form mounted last: its count and its fields
  sub,         \* the footer's form: has it an address, its state
  flight,      \* requests under way
  alerts,      \* those the server accepted
  acts

vars == <<metric, form, sub, flight, alerts, acts>>

States == {"idle", "busy", "sent", "error"}

TypeOK ==
  /\ metric \in Metrics \cup {Elsewhere} /\ acts \in 0..MaxActs
  /\ form.condition \in {"above", "below"} /\ form.threshold \in Thresholds \cup {Blank}
  /\ form.state \in States /\ sub.state \in States
  /\ \A f \in flight : f.of = "sub" \/ f.form <= form.n
  /\ \A a \in alerts : a.slug \in Metrics /\ a.form <= form.n

\* useState: the threshold is worked out when the form is mounted, and only
\* then (the metric's hot zone, or its value).
Mounted(m, n) == [n |-> n, condition |-> "above", threshold |-> m, email |-> FALSE, state |-> "idle"]

Init ==
  /\ metric \in Metrics /\ form = Mounted(metric, 1) /\ sub = [email |-> FALSE, state |-> "idle"]
  /\ flight = {} /\ alerts = {} /\ acts = 0

Act == acts < MaxActs /\ acts' = acts + 1
Undisturbed == Steady => form.state # "busy"

\* Another page: the form stays as it is from one metric to the next, and is
\* mounted anew after any other page.
Open(m) ==
  /\ Act /\ m # metric /\ Undisturbed /\ metric' = m
  /\ form' = IF metric = Elsewhere THEN Mounted(m, form.n + 1) ELSE form
  /\ UNCHANGED <<sub, flight, alerts>>

\* The fields; they are there until the alert is set.
Fill(c, t, e) ==
  /\ Act /\ metric # Elsewhere /\ form.state # "sent" /\ Undisturbed
  /\ form' = [form EXCEPT !.condition = c, !.threshold = t, !.email = e] /\ form' # form
  /\ UNCHANGED <<metric, sub, flight, alerts>>

\* A mutant of Idle: a busy form may submit again.
IdleAnyway(state) == state # "sent"

Idle(state) == state \notin {"busy", "sent"}

\* A mutant of Submit: a form that left the page submits.
SubmitGone(enter) ==
  /\ Act /\ Idle(form.state)
  /\ enter \/ (form.email /\ form.threshold # Blank)
  /\ form' = [form EXCEPT !.state = "busy"]
  /\ flight' = flight \cup
       {[of |-> "alert", form |-> form.n, nth |-> acts, slug |-> metric, email |-> form.email,
         condition |-> form.condition, threshold |-> form.threshold]}
  /\ UNCHANGED <<metric, sub, alerts>>

\* The button wants an address and a number; Enter in the address does not.
Submit(enter) ==
  /\ Act /\ metric # Elsewhere /\ Idle(form.state)
  /\ enter \/ (form.email /\ form.threshold # Blank)
  /\ form' = [form EXCEPT !.state = "busy"]
  /\ flight' = flight \cup
       {[of |-> "alert", form |-> form.n, nth |-> acts, slug |-> metric, email |-> form.email,
         condition |-> form.condition, threshold |-> form.threshold]}
  /\ UNCHANGED <<metric, sub, alerts>>

\* The footer's form: an error goes with the next change of the address.
FillSub(e) ==
  /\ Act /\ sub.state # "sent" /\ sub.email # e
  /\ sub' = [email |-> e, state |-> IF sub.state = "error" THEN "idle" ELSE sub.state]
  /\ UNCHANGED <<metric, form, flight, alerts>>

SubmitSub ==
  /\ Act /\ sub.email /\ Idle(sub.state)
  /\ sub' = [sub EXCEPT !.state = "busy"] /\ flight' = flight \cup {[of |-> "sub", nth |-> acts]}
  /\ UNCHANGED <<metric, form, alerts>>

\* An answer for a form that is gone changes nothing on the page.
Answered(f, state) ==
  /\ flight' = flight \ {f}
  /\ IF f.of = "sub" THEN sub' = [sub EXCEPT !.state = state] /\ form' = form
     ELSE /\ sub' = sub
          /\ form' = IF f.form = form.n /\ metric # Elsewhere THEN [form EXCEPT !.state = state] ELSE form
  /\ UNCHANGED <<metric, acts>>

\* The alerts once the server has taken the request; one needs an address.
Taken(f) == IF f.of = "alert" /\ f.email THEN alerts \cup {f} ELSE alerts

\* The server takes it and says so.
Accept(f) == (f.of = "alert" => f.email) /\ alerts' = Taken(f) /\ Answered(f, "sent")

\* A mutant of Refuse: any answer is taken for a success.
RefuseUnread(f) == alerts' = alerts /\ Answered(f, "sent")

\* It refuses it, or cannot be reached, or takes it and its answer is lost; the
\* error is shown.
Refuse(f) == alerts' \in {alerts, Taken(f)} /\ Answered(f, "error")

Next ==
  \/ \E m \in Metrics \cup {Elsewhere} : Open(m)
  \/ \E c \in {"above", "below"}, t \in Thresholds \cup {Blank}, e \in BOOLEAN : Fill(c, t, e)
  \/ \E enter \in BOOLEAN : Submit(enter)
  \/ \E e \in BOOLEAN : FillSub(e)
  \/ SubmitSub
  \/ \E f \in flight : Accept(f) \/ Refuse(f)

Spec == Init /\ [][Next]_vars

---------------------------------------------------------------------------
(* Properties. *)

Own == {f \in flight : f.of = "alert" /\ f.form = form.n}

\* A form that is busy has one request under way, no more and no less, however
\* often Enter and the button are used and the pages change: its "..." ends, and
\* one use sets one alert (AlertForm.jsx:22-31, SubscribeForm.jsx:10-22).
OneRequest ==
  /\ metric # Elsewhere => Cardinality(Own) = IF form.state = "busy" THEN 1 ELSE 0
  /\ Cardinality({f \in flight : f.of = "sub"}) = IF sub.state = "busy" THEN 1 ELSE 0

\* Nobody is told to confirm an alert that the server did not take from this
\* form (AlertForm.jsx:33-39).
SentWasAccepted == (metric # Elsewhere /\ form.state = "sent") => \E a \in alerts : a.form = form.n
=============================================================================
