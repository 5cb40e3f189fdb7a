------------------------------ MODULE Composer ------------------------------
(***************************************************************************)
(* The newsletter composer (web/src/components/NewsletterTab.jsx) and the  *)
(* routes it calls (newslettersAdminRouter).  The editor is one piece of   *)
(* state which the answers of saves, schedules and opens also write: the   *)
(* admin may have moved on when they arrive.  `strayed' remembers that one *)
(* did: a create's answer reached an editor that had not sent it, or an    *)
(* update was stored behind an editor filled before it.                    *)
(***************************************************************************)
EXTENDS Integers, Sequences

CONSTANTS
  MaxNews,    \* bound: newsletters begun
  MaxEdits,   \* bound: versions of a text
  MaxCalls,   \* bound: requests of the composer
  MaxLost     \* bound: requests that fail, before or after their statement

\* What the constants have to satisfy.
ComposerAssumption == {MaxNews, MaxEdits, MaxCalls, MaxLost} \subseteq Nat

VARIABLES
  news,       \* newsletters: [text, status], by id
  list,       \* the statuses listed last
  editing,    \* the editor: Null or [id, text]; id 0 before the first save
  call,       \* the busy request: Null or [op, id, text, at]
  opening,    \* the GET of openExisting: Null or [id, text]
  begun,      \* newsletters begun
  dirty,      \* history: typed since it was filled, or last saved and answered
  strayed,    \* history: an answer, or a stored update, was not the open editor's
  unseen,     \* history: the newsletters whose create was never answered
  calls, lost

vars == <<news, list, editing, call, opening, begun, dirty, strayed, unseen, calls, lost>>

Null == [none |-> TRUE]
\* A text is known by the newsletter it was begun for and its version.
NoText == [of |-> 0, v |-> 0]
Statuses == [n \in DOMAIN news |-> news[n].status]

TypeOK ==
  /\ \A n \in DOMAIN news : news[n].status \in {"draft", "scheduled", "sent"} /\ news[n].text.of \in 1..MaxNews
  /\ editing # Null => editing.id \in 0..Len(news)
  /\ call # Null => /\ call.op \in {"create", "update", "test", "schedule"} /\ call.at \in {"sent", "ok", "failed"}
                    /\ (call.id = 0) = (call.op = "create" /\ call.at # "ok") \/ call.at = "failed"

Init ==
  /\ news = <<>> /\ list = <<>> /\ editing = Null /\ call = Null /\ opening = Null
  /\ begun = 0 /\ dirty = FALSE /\ strayed = FALSE /\ unseen = {} /\ calls = 0 /\ lost = 0

---------------------------------------------------------------------------
(* The admin.  Only the buttons that send are disabled while a request is  *)
(* under way: the list and the editor can be left and entered.             *)

\* "New newsletter", in the list.
Blank ==
  /\ editing = Null /\ begun < MaxNews
  /\ begun' = begun + 1
  /\ editing' = [id |-> 0, text |-> [of |-> begun', v |-> 0]] /\ dirty' = TRUE
  /\ UNCHANGED <<news, list, call, opening, strayed, unseen, calls, lost>>

\* Edit is offered for what the list shows as draft or scheduled.
OpenExisting(n) ==
  /\ editing = Null /\ opening = Null
  /\ n \in DOMAIN list /\ list[n] \in {"draft", "scheduled"}
  /\ opening' = [id |-> n, text |-> news[n].text]
  /\ UNCHANGED <<news, list, editing, call, begun, dirty, strayed, unseen, calls, lost>>

Opened ==
  /\ opening # Null
  /\ editing' = opening /\ opening' = Null /\ dirty' = FALSE
  /\ UNCHANGED <<news, list, call, begun, strayed, unseen, calls, lost>>

Type ==
  /\ editing # Null /\ editing.text # NoText /\ editing.text.v < MaxEdits
  /\ editing' = [editing EXCEPT !.text.v = @ + 1] /\ dirty' = TRUE
  /\ UNCHANGED <<news, list, call, opening, begun, strayed, unseen, calls, lost>>

Back ==
  /\ editing # Null
  /\ editing' = Null
  /\ UNCHANGED <<news, list, call, opening, begun, dirty, strayed, unseen, calls, lost>>

\* A mutant of Op: every save creates.
OpCreate(what) == IF what = "save" THEN "create" ELSE what

\* Save creates until the editor has an id.
Op(what) == IF what # "save" THEN what ELSE IF editing.id = 0 THEN "create" ELSE "update"

\* The buttons are disabled while busy, and but for Save without an id.  The
\* prompt of Send now and Schedule shows the subject in the editor.
Click(what) ==
  /\ editing # Null /\ editing.text # NoText /\ call = Null /\ calls < MaxCalls
  /\ what = "save" \/ editing.id # 0
  /\ call' = [op |-> Op(what), id |-> editing.id, text |-> editing.text, at |-> "sent"]
  /\ calls' = calls + 1
  /\ UNCHANGED <<news, list, editing, opening, begun, dirty, strayed, unseen, lost>>

---------------------------------------------------------------------------
(* The routes. *)

\* WHERE status IN ('draft','scheduled').
Editable(n) == news[n].status \in {"draft", "scheduled"}

\* A mutant of Refused: an UPDATE that matched no row is not an error.
RefusedNever(c) == FALSE

\* 409: not editable, or not schedulable.
Refused(c) == c.op \in {"update", "schedule"} /\ ~Editable(c.id)

\* An update is stored behind an editor, or an answer on its way to one, that
\* was filled from the row before it.
Behind(c) ==
  /\ c.op = "update"
  /\ \/ editing # Null /\ ~dirty /\ editing.id = c.id /\ editing.text # c.text
     \/ opening # Null /\ opening.id = c.id /\ opening.text # c.text

Serve ==
  /\ call # Null /\ call.at = "sent"
  /\ IF Refused(call) THEN call' = [call EXCEPT !.at = "failed"] /\ UNCHANGED <<news, strayed>>
     ELSE /\ news' = CASE call.op = "create" -> Append(news, [text |-> call.text, status |-> "draft"])
                       [] call.op = "update" ->
                            IF Editable(call.id) THEN [news EXCEPT ![call.id].text = call.text] ELSE news
                       [] call.op = "schedule" -> [news EXCEPT ![call.id].status = "scheduled"]
                       [] OTHER -> news
          /\ call' = [call EXCEPT !.at = "ok", !.id = IF call.op = "create" THEN Len(news') ELSE @]
          /\ strayed' = (strayed \/ Behind(call))
  /\ UNCHANGED <<list, editing, opening, begun, dirty, unseen, calls, lost>>

\* The request fails, or its answer is lost.
Lose ==
  /\ call # Null /\ call.at \in {"sent", "ok"} /\ lost < MaxLost
  /\ call' = [call EXCEPT !.at = "failed"] /\ lost' = lost + 1
  /\ unseen' = IF call.op = "create" /\ call.at = "ok" THEN unseen \union {call.id} ELSE unseen
  /\ UNCHANGED <<news, list, editing, opening, begun, dirty, strayed, calls>>

\* Only a scheduled one can be cancelled; then the list is read again.
Cancel(n) ==
  /\ editing = Null /\ calls < MaxCalls
  /\ n \in DOMAIN list /\ list[n] = "scheduled"
  /\ calls' = calls + 1
  /\ news' = IF news[n].status = "scheduled" THEN [news EXCEPT ![n].status = "draft"] ELSE news
  /\ list' = IF news[n].status = "scheduled" THEN [k \in DOMAIN news' |-> news'[k].status] ELSE list
  /\ UNCHANGED <<editing, call, opening, begun, dirty, strayed, unseen, lost>>

\* processNewsletters; `sending', the claim, is as little editable as `sent'.
Dispatch(n) ==
  /\ n \in DOMAIN news /\ news[n].status = "scheduled"
  /\ news' = [news EXCEPT ![n].status = "sent"]
  /\ UNCHANGED <<list, editing, call, opening, begun, dirty, strayed, unseen, calls, lost>>

---------------------------------------------------------------------------
(* The answers. *)

\* A mutant of EditorAfter: the id is taken from the length of the list.
EditorAfterGuessed ==
  IF call.op = "create" /\ editing # Null THEN [editing EXCEPT !.id = Len(list) + 1]
  ELSE IF call.op = "schedule" THEN Null ELSE editing

\* A create writes its id into the editor that is open then, and into none it
\* makes one; a schedule closes the editor.
EditorAfter ==
  CASE call.op = "create" -> IF editing = Null THEN [id |-> call.id, text |-> NoText]
                             ELSE [editing EXCEPT !.id = call.id]
    [] call.op = "schedule" -> Null
    [] OTHER -> editing

\* The answer is that of the editor that is open.
Own == editing # Null /\ editing.text.of = call.text.of /\ editing.id = IF call.op = "create" THEN 0 ELSE call.id

Answer ==
  /\ call # Null /\ call.at = "ok"
  /\ editing' = EditorAfter
  /\ dirty' = (dirty /\ ~(call.op \in {"create", "update"} /\ Own /\ editing.text = call.text))
  /\ strayed' = (strayed \/ (call.op = "create" /\ ~Own))
  /\ list' = IF call.op = "test" THEN list ELSE Statuses
  /\ call' = Null
  /\ UNCHANGED <<news, opening, begun, unseen, calls, lost>>

AnswerFailed ==
  /\ call # Null /\ call.at = "failed" /\ call' = Null
  /\ UNCHANGED <<news, list, editing, opening, begun, dirty, strayed, unseen, calls, lost>>

Next ==
  \/ Blank \/ Opened \/ Type \/ Back \/ Serve \/ Lose \/ Answer \/ AnswerFailed
  \/ \E what \in {"save", "test", "schedule"} : Click(what)
  \/ \E n \in 1..MaxNews : OpenExisting(n) \/ Cancel(n) \/ Dispatch(n)

Spec == Init /\ [][Next]_vars

---------------------------------------------------------------------------
(* Properties. *)

\* A newsletter keeps the text it was begun with, through every edit, also when
\* creates are lost and sent again and the admin turns to another newsletter
\* while a save is under way: until a create's answer reaches an editor that did
\* not send it, no save puts one newsletter's text under another's id
\* (NewsletterTab.jsx:44-59).
KeepsItsText ==
  ~strayed => \A n \in DOMAIN news : news'[n].text.of = news[n].text.of

\* However often the admin saves, and types while a save is under way, two
\* newsletters are made of one only when the answer of a create was lost, and
\* then no more than creates were lost: of two that are of one text, one is of
\* an unanswered create.
OneOfEach ==
  ~strayed => \A m, n \in DOMAIN news :
    news[m].text.of = news[n].text.of => m = n \/ m \in unseen \/ n \in unseen

\* An editor without changes since it was filled or saved shows what is stored,
\* so that what is tested or sent is what is read, also when the dispatcher has
\* sent the newsletter in between (a save is refused then), answers are lost, or
\* the admin comes back to it while another save is under way.
CleanIsStored ==
  (~strayed /\ editing # Null /\ ~dirty) => news[editing.id].text = editing.text
=============================================================================
