----------------------------- MODULE MetricCopy -----------------------------
(***************************************************************************)
(* The two prose panes of one metric: the catalog's built-in text, the     *)
(* stored override (server/src/metricCopy.js) and the admins' editors (the *)
(* Metric Copy tab of web/src/pages/Admin.jsx), which keep the text they   *)
(* loaded and send both panes with every save.                             *)
(***************************************************************************)
EXTENDS Integers

CONSTANTS
  Admin,
  Drafts,      \* texts they write: Own and, past MAX_COPY_LEN, TooLong
  MaxDeploys,  \* bound: releases that change a built-in text
  MaxCalls     \* bound: saves and resets

VARIABLES
  builtin,    \* catalog.js: [pane -> text]
  row,        \* metric_copy: [there, text]
  list,       \* per admin: the metrics read last, or Null
  editing,    \* per admin: the open editor, or Null
  call,       \* per admin: the save or reset under way, or Null; busy
  reading,    \* per admin: the refresh under way: "no", "sent" or its payload
  err,        \* per admin: an error is on the screen
  typed,      \* history: panes an admin has typed in
  calls       \* bound

vars == <<builtin, row, list, editing, call, reading, err, typed, calls>>

Pane == {"explain", "method"}
Null == [none |-> TRUE]
\* Texts: the built-in ones are numbered by release, one is an admin's own, and
\* one is longer than MAX_COPY_LEN.
Own == 0
TooLong == -1
Unset == -2

\* What the constants have to satisfy.
CopyAssumption == Drafts \subseteq {Own, TooLong} /\ MaxDeploys \in Nat /\ MaxCalls \in Nat

Words == Drafts \union 1..(MaxDeploys + 1)
NoRow == [there |-> FALSE, text |-> [p \in Pane |-> Unset]]

TypeOK ==
  /\ builtin \in [Pane -> 1..(MaxDeploys + 1)]
  /\ row.there \in BOOLEAN /\ row.text \in [Pane -> (Words \ {TooLong}) \union {Unset}]
  /\ err \in [Admin -> BOOLEAN] /\ typed \subseteq Pane

\* o?.explain_text ?? m.explain.
Effective == [p \in Pane |-> IF row.text[p] # Unset THEN row.text[p] ELSE builtin[p]]
Payload == [copy |-> Effective, overridden |-> row.there]

Init ==
  /\ builtin = [p \in Pane |-> 1] /\ row = NoRow
  /\ list = [a \in Admin |-> Null] /\ editing = [a \in Admin |-> Null]
  /\ call = [a \in Admin |-> Null] /\ reading = [a \in Admin |-> [at |-> "sent"]]
  /\ err = [a \in Admin |-> FALSE] /\ typed = {} /\ calls = 0

---------------------------------------------------------------------------
(* The catalog and the router. *)

\* A release brings a new built-in text.
Deploy(p) ==
  /\ builtin[p] <= MaxDeploys
  /\ builtin' = [builtin EXCEPT ![p] = @ + 1]
  /\ UNCHANGED <<row, list, editing, call, reading, err, typed, calls>>

\* A mutant of Stored: the text is stored whatever the default says.
StoredAlways(copy) == [p \in Pane |-> copy[p]]

\* Text identical to the default is NULL.
Stored(copy) == [p \in Pane |-> IF copy[p] = builtin[p] THEN Unset ELSE copy[p]]

\* A mutant of Put: a row of two NULLs is kept.
PutKept(copy) == row' = [there |-> TRUE, text |-> Stored(copy)]

\* A mutant of Put: a pane left NULL keeps what was stored.
PutMerged(copy) ==
  row' = IF Stored(copy) = NoRow.text THEN NoRow
         ELSE [there |-> TRUE, text |-> [p \in Pane |-> IF Stored(copy)[p] = Unset THEN row.text[p] ELSE Stored(copy)[p]]]

\* A row of two NULLs is deleted outright.
Put(copy) == row' = IF Stored(copy) = NoRow.text THEN NoRow ELSE [there |-> TRUE, text |-> Stored(copy)]

\* A mutant of Valid: no limit on the length.
ValidAny(copy) == TRUE

Valid(copy) == \A p \in Pane : copy[p] # TooLong

ServePut(a) ==
  /\ call[a] # Null /\ call[a].op = "save" /\ call[a].at = "sent"
  /\ IF Valid(call[a].copy)
     THEN Put(call[a].copy) /\ call' = [call EXCEPT ![a].at = "ok"]
     ELSE call' = [call EXCEPT ![a].at = "failed"] /\ UNCHANGED row
  /\ UNCHANGED <<builtin, list, editing, reading, err, typed, calls>>

\* The built-in texts ride back so that the editor can refill.
ServeDelete(a) ==
  /\ call[a] # Null /\ call[a].op = "reset" /\ call[a].at = "sent"
  /\ row' = NoRow
  /\ call' = [call EXCEPT ![a].at = "ok", ![a].copy = builtin]
  /\ UNCHANGED <<builtin, list, editing, reading, err, typed, calls>>

ServeList(a) ==
  /\ reading[a] = [at |-> "sent"]
  /\ reading' = [reading EXCEPT ![a] = [at |-> "read", payload |-> Payload]]
  /\ UNCHANGED <<builtin, row, list, editing, call, err, typed, calls>>

\* The request fails before its statement, or its answer is lost after it.
Fault(a) ==
  /\ call[a] # Null /\ call[a].at \in {"sent", "ok"}
  /\ call' = [call EXCEPT ![a].at = "failed"]
  /\ UNCHANGED <<builtin, row, list, editing, reading, err, typed, calls>>

---------------------------------------------------------------------------
(* The tab. *)

Shown(a) == IF editing[a] # Null THEN "editor" ELSE "list"

Edit(a) ==
  /\ Shown(a) = "list" /\ list[a] # Null
  /\ editing' = [editing EXCEPT ![a] = list[a]]
  /\ UNCHANGED <<builtin, row, list, call, reading, err, typed, calls>>

Type(a, p, w) ==
  /\ Shown(a) = "editor" /\ editing[a].copy[p] # w
  /\ editing' = [editing EXCEPT ![a].copy[p] = w]
  /\ typed' = typed \union {p}
  /\ UNCHANGED <<builtin, row, list, call, reading, err, calls>>

Back(a) ==
  /\ Shown(a) = "editor" /\ editing' = [editing EXCEPT ![a] = Null]
  /\ UNCHANGED <<builtin, row, list, call, reading, err, typed, calls>>

\* Save and Restore default are disabled while busy; the second is offered for
\* an overridden metric.
Click(a, op) ==
  /\ Shown(a) = "editor" /\ call[a] = Null /\ calls < MaxCalls
  /\ op = "reset" => editing[a].overridden
  /\ call' = [call EXCEPT ![a] = [op |-> op, at |-> "sent", copy |-> editing[a].copy]]
  /\ err' = [err EXCEPT ![a] = FALSE] /\ calls' = calls + 1
  /\ UNCHANGED <<builtin, row, list, editing, reading, typed>>

\* A mutant of Answer: the list is not read again.
AnswerOnly(a) ==
  /\ call[a] # Null /\ call[a].at = "ok"
  /\ call' = [call EXCEPT ![a] = Null]
  /\ editing' = [editing EXCEPT ![a] =
                   IF call[a].op = "save" THEN Null ELSE [copy |-> call[a].copy, overridden |-> FALSE]]
  /\ UNCHANGED <<builtin, row, list, reading, err, typed, calls>>

\* A save closes the editor that is open, a reset fills one (it is opened again
\* when the admin has left it); then the list is read again, still busy.
Answer(a) ==
  /\ call[a] # Null /\ call[a].at = "ok"
  /\ call' = [call EXCEPT ![a].at = "refresh"]
  /\ editing' = [editing EXCEPT ![a] =
                   IF call[a].op = "save" THEN Null ELSE [copy |-> call[a].copy, overridden |-> FALSE]]
  /\ reading' = [reading EXCEPT ![a] = [at |-> "sent"]]
  /\ UNCHANGED <<builtin, row, list, err, typed, calls>>

\* The editor stays open.
AnswerFailed(a) ==
  /\ call[a] # Null /\ call[a].at = "failed"
  /\ call' = [call EXCEPT ![a] = Null] /\ err' = [err EXCEPT ![a] = TRUE]
  /\ UNCHANGED <<builtin, row, list, editing, reading, typed, calls>>

AfterRefresh(a) == call' = [call EXCEPT ![a] = IF @ # Null /\ @.at = "refresh" THEN Null ELSE @]

Refreshed(a) ==
  /\ reading[a].at = "read"
  /\ list' = [list EXCEPT ![a] = reading[a].payload]
  /\ reading' = [reading EXCEPT ![a] = [at |-> "no"]] /\ AfterRefresh(a)
  /\ UNCHANGED <<builtin, row, editing, err, typed, calls>>

\* refresh catches its own error.
RefreshFailed(a) ==
  /\ reading[a].at # "no"
  /\ reading' = [reading EXCEPT ![a] = [at |-> "no"]] /\ AfterRefresh(a)
  /\ err' = [err EXCEPT ![a] = TRUE]
  /\ UNCHANGED <<builtin, row, list, editing, typed, calls>>

Next ==
  \/ \E p \in Pane : Deploy(p)
  \/ \E a \in Admin :
       \/ ServePut(a) \/ ServeDelete(a) \/ ServeList(a) \/ Fault(a)
       \/ Edit(a) \/ Back(a) \/ Answer(a) \/ AnswerFailed(a) \/ Refreshed(a) \/ RefreshFailed(a)
       \/ \E p \in Pane, w \in Words : Type(a, p, w)
       \/ \E op \in {"save", "reset"} : Click(a, op)

Spec == Init /\ [][Next]_vars

---------------------------------------------------------------------------
(* Properties. *)

\* metricCopy.js:9-11: a pane that no admin has ever typed in is not stored,
\* whatever is saved for the other pane and by whom, so that the next release's
\* text for it is the one the site shows; but for an editor that was filled before
\* a release and saves after it, which stores the old built-in text and no other.
UntouchedNotStored ==
  \A p \in Pane \ typed : row.text[p] = Unset \/ row.text[p] \in 1..(builtin[p] - 1)

\* A metric whose text differs from the built-in one is marked as edited, and no
\* row hides behind equal text, whatever is saved, reset, retyped and released
\* (metricCopy.js:67-82); but where a release has brought the very text that an
\* admin had typed.
EditedMeansDifferent ==
  /\ Effective # builtin => row.there
  /\ row.there /\ Effective = builtin => \E p \in typed : builtin[p] > 1 /\ row.text[p] = builtin[p]

\* What a save stores is what the site shows, in both panes, also when the
\* other admin or a release has changed them since the editor was filled.
SaveIsSeen ==
  \A a \in Admin :
    (call[a] # Null /\ call[a].op = "save" /\ call[a].at = "sent" /\ call'[a] # Null /\ call'[a].at = "ok")
      => Effective' = call[a].copy

\* With one admin and no release, an idle tab without an error lists the text
\* that is stored, so that the next editor starts from it (Admin.jsx:222-251).
ListIsCurrent ==
  ((\A a, b \in Admin : a = b) /\ MaxDeploys = 0) =>
    \A a \in Admin : (call[a] = Null /\ reading[a].at = "no" /\ ~err[a]) => list[a] = Payload
=============================================================================
