---------------------------- MODULE Newsletters ----------------------------
(***************************************************************************)
(* The mailing list and the campaigns of server/src/newsletters.js: the    *)
(* double opt-in, the editorial states of a newsletter, and                *)
(* processNewsletters, which claims what is due and then, campaign by      *)
(* campaign, reads the list and mails it one by one.  Its runs may overlap *)
(* (the interval does not wait, and instances overlap during a deploy) and *)
(* may be cut short by a crash or a failing statement.                     *)
(***************************************************************************)
EXTENDS Integers, Sequences, FiniteSets, SequencesExt, Mail

CONSTANTS
  Address,    \* e-mail addresses
  Readers,    \* those that are confirmed from the start
  Campaign,   \* newsletters
  Tick,       \* the runs of processNewsletters that may overlap
  MaxAsks,    \* bound: POST /api/subscribe requests
  MaxEdits,   \* bound: edits and cancellations
  MaxFaults,  \* bound: sends that do not return
  MaxStops    \* bound: runs cut short

\* What the constants have to satisfy.
NewsAssumption ==
  /\ Readers \subseteq Address /\ IsFiniteSet(Readers)
  /\ {MaxAsks, MaxEdits, MaxFaults, MaxStops} \subseteq Nat
  /\ {"idle", "next"} \cap Campaign = {}

VARIABLES
  rows,       \* subscribers, by id: email, the token of confirm_hash, state, and
              \* whether its unsubscribe link reached the reader
  asks,       \* subscribe requests between their read and their write
  links,      \* confirmation links delivered: <<address, token>>
  tokens,     \* tokens made
  wants,      \* history: addresses whose last click was a confirmation
  news,       \* newsletters
  tick,       \* the runs under way
  inbox,      \* deliveries: campaign -> address -> the texts received
  listed,     \* history: <<campaign, address, wanted>> of every list read
  edits, faults, stops

list == <<rows, asks, links, tokens, wants>>
sending == <<tick, inbox, listed>>
vars == <<list, news, sending, edits, faults, stops>>

Idle == [at |-> "idle", queue |-> {}, text |-> 0, todo |-> {}, sent |-> 0, failed |-> 0]
NoNews == [status |-> "absent", text |-> 0, due |-> FALSE, sent |-> 0, failed |-> 0]
FirstRow(a) == [email |-> a, token |-> 0, state |-> "confirmed", reached |-> FALSE]

TypeOK ==
  /\ \A k \in DOMAIN rows : rows[k].token \in 0..tokens /\ rows[k].reached \in BOOLEAN
       /\ rows[k].email \in Address /\ rows[k].state \in {"asked", "confirmed", "gone"}
  /\ \A q \in asks : q.email \in Address /\ q.row \in 0..Len(rows)
  /\ tokens \in 0..MaxAsks /\ links \subseteq Address \X (1..tokens) /\ wants \subseteq Address
  /\ \A n \in Campaign :
       /\ news[n].status \in {"absent", "draft", "scheduled", "sending", "sent"}
       /\ news[n].due => news[n].status \notin {"absent", "draft"}
       /\ news[n].text \in 0..MaxEdits /\ news[n].sent + news[n].failed <= Len(rows)
  /\ \A t \in Tick : tick[t].at \in Campaign \cup {"idle", "next"}
       /\ tick[t].todo \subseteq DOMAIN rows /\ tick[t].queue \subseteq Campaign \X (0..MaxEdits)
  /\ listed \subseteq Campaign \X Address \X BOOLEAN
  /\ edits \in 0..MaxEdits /\ faults \in 0..MaxFaults /\ stops \in 0..MaxStops

Init ==
  /\ rows \in {[k \in DOMAIN s |-> FirstRow(s[k])] : s \in SetToSeqs(Readers)}
  /\ asks = {} /\ links = {} /\ tokens = 0 /\ wants = Readers
  /\ news = [n \in Campaign |-> NoNews]
  /\ tick = [t \in Tick |-> Idle]
  /\ inbox = [n \in Campaign |-> [a \in Address |-> <<>>]]
  /\ listed = {}
  /\ edits = 0 /\ faults = 0 /\ stops = 0

\* One sendEmail.
Mailing(outcome) ==
  IF outcome = "sent" THEN UNCHANGED faults ELSE faults < MaxFaults /\ faults' = faults + 1

---------------------------------------------------------------------------
(* The mailing list. *)

OpenRows(a) == {k \in DOMAIN rows : rows[k].email = a /\ rows[k].state # "gone"}

\* POST /api/subscribe reads the open row of the address, 0 when there is none;
\* a confirmed one ends the request.
Ask(a) ==
  /\ tokens + Cardinality(asks) < MaxAsks
  /\ \A k \in OpenRows(a) : rows[k].state = "asked"
  /\ asks' = asks \cup {[email |-> a, row |-> IF OpenRows(a) = {} THEN 0 ELSE Min(OpenRows(a)),
                         id |-> tokens + Cardinality(asks)]}
  /\ UNCHANGED <<rows, links, tokens, wants, news, sending, edits, faults, stops>>

\* A mutant of Insertable: no unique index on the open rows of an address.
InsertableAlways(a) == TRUE

\* subscribers_active_email admits one open row per address.
Insertable(a) == OpenRows(a) = {}

\* The request gives the row a new token, or inserts one, and mails the link;
\* the row stays as it is written when the mail fails.
Answer(q, outcome) ==
  /\ q \in asks /\ asks' = asks \ {q}
  /\ q.row = 0 => Insertable(q.email)
  /\ tokens' = tokens + 1
  /\ rows' = IF q.row = 0
             THEN Append(rows, [FirstRow(q.email) EXCEPT !.token = tokens', !.state = "asked"])
             ELSE [rows EXCEPT ![q.row].token = tokens']
  /\ links' = IF Delivered(outcome) THEN links \cup {<<q.email, tokens'>>} ELSE links
  /\ Mailing(outcome)
  /\ UNCHANGED <<wants, news, sending, edits, stops>>

\* The insert of a request that lost the race fails: it ends with an error.
Refuse(q) ==
  /\ q \in asks /\ asks' = asks \ {q}
  /\ q.row = 0 /\ ~Insertable(q.email)
  /\ UNCHANGED <<rows, links, tokens, wants, news, sending, edits, faults, stops>>

\* The link confirms the row that still waits with its token.
Confirm(link) ==
  /\ link \in links
  /\ \E k \in DOMAIN rows : /\ rows[k].token = link[2] /\ rows[k].state = "asked"
                            /\ rows' = [rows EXCEPT ![k].state = "confirmed"]
  /\ wants' = wants \cup {link[1]}
  /\ UNCHANGED <<asks, links, tokens, news, sending, edits, faults, stops>>

\* The link at the foot of a newsletter.
Unsubscribe(k) ==
  /\ rows[k].reached /\ rows[k].state # "gone"
  /\ rows' = [rows EXCEPT ![k].state = "gone"]
  /\ wants' = wants \ {rows[k].email}
  /\ UNCHANGED <<asks, links, tokens, news, sending, edits, faults, stops>>

---------------------------------------------------------------------------
(* The campaigns. *)

Edited == edits < MaxEdits /\ edits' = edits + 1
Editor == UNCHANGED <<list, sending, faults, stops>>

Draft(n) ==
  /\ news[n].status = "absent"
  /\ news' = [news EXCEPT ![n].status = "draft"]
  /\ UNCHANGED edits /\ Editor

\* A mutant of Editable: a newsletter may be corrected while it is being sent.
EditableSending(n) == news[n].status \in {"draft", "scheduled", "sending"}

Editable(n) == news[n].status \in {"draft", "scheduled"}

Edit(n) ==
  /\ Editable(n) /\ Edited
  /\ news' = [news EXCEPT ![n].text = @ + 1]
  /\ Editor

\* POST /:id/test mails the text to an address of the editor.
TestMail(n, outcome) ==
  /\ news[n].status # "absent" /\ Mailing(outcome)
  /\ UNCHANGED <<list, news, sending, edits, stops>>

\* send_at: now, or later.
Schedule(n, now) ==
  /\ Editable(n)
  /\ news' = [news EXCEPT ![n].status = "scheduled", ![n].due = now]
  /\ UNCHANGED edits /\ Editor

\* scheduled_at <= now().
TimeComes(n) ==
  /\ news[n].status = "scheduled" /\ ~news[n].due
  /\ news' = [news EXCEPT ![n].due = TRUE]
  /\ UNCHANGED edits /\ Editor

\* A mutant of Cancelable: what is going out can be taken back.
CancelableSending(n) == news[n].status \in {"scheduled", "sending"}

Cancelable(n) == news[n].status = "scheduled"

\* A mutant of Cancelled: scheduled_at is kept.
CancelledKeepsTime(row) == [row EXCEPT !.status = "draft"]

Cancelled(row) == [row EXCEPT !.status = "draft", !.due = FALSE]

Cancel(n) ==
  /\ Cancelable(n) /\ Edited
  /\ news' = [news EXCEPT ![n] = Cancelled(@)]
  /\ Editor

---------------------------------------------------------------------------
(* processNewsletters. *)

\* A mutant of Due: what is being sent is due as well.
DueAgain == {n \in Campaign : news[n].status \in {"scheduled", "sending"} /\ news[n].due}

Due == {n \in Campaign : news[n].status = "scheduled" /\ news[n].due}

\* A mutant of Claimed: only the first row returned is sent.
ClaimedFirst(due) == {<<n, news[n].text>> : n \in {CHOOSE n \in due : TRUE}}

\* The rows the UPDATE returned, with the text they had.
Claimed(due) == {<<n, news[n].text>> : n \in due}

\* One UPDATE ... RETURNING moves all that is due to `sending'.
Claim(t) ==
  /\ tick[t].at = "idle" /\ Due # {}
  /\ news' = [n \in Campaign |-> IF n \in Due THEN [news[n] EXCEPT !.status = "sending"] ELSE news[n]]
  /\ tick' = [tick EXCEPT ![t] = [Idle EXCEPT !.at = "next", !.queue = Claimed(Due)]]
  /\ UNCHANGED <<list, inbox, listed, edits, faults, stops>>

\* A mutant of Recipients: the filter on unsubscribed_at is dropped.
RecipientsGone == {k \in DOMAIN rows : rows[k].state # "asked"}

\* Confirmed and not unsubscribed.
Recipients == {k \in DOMAIN rows : rows[k].state = "confirmed"}

\* The list is read once per campaign.
ReadList(t) ==
  /\ tick[t].at = "next"
  /\ \E c \in tick[t].queue :
       /\ tick' = [tick EXCEPT ![t] = [Idle EXCEPT !.at = c[1], !.text = c[2], !.todo = Recipients,
                                                   !.queue = tick[t].queue \ {c}]]
       /\ listed' = listed \cup {<<c[1], rows[k].email, rows[k].email \in wants>> : k \in Recipients}
  /\ UNCHANGED <<list, news, inbox, edits, faults, stops>>

\* A send that throws is counted as failed.
Tried(run, k, outcome) ==
  [run EXCEPT !.todo = @ \ {k},
              !.sent = IF Returns(outcome) THEN @ + 1 ELSE @,
              !.failed = IF Returns(outcome) THEN @ ELSE @ + 1]

\* One e-mail, in the order of the ids.
Send(t, outcome) ==
  LET n == tick[t].at
      k == Min(tick[t].todo)
  IN /\ n \in Campaign /\ tick[t].todo # {}
     /\ Mailing(outcome)
     /\ inbox' = IF Delivered(outcome)
                 THEN [inbox EXCEPT ![n][rows[k].email] = Append(@, tick[t].text)] ELSE inbox
     /\ rows' = [rows EXCEPT ![k].reached = @ \/ Delivered(outcome)]
     /\ tick' = [tick EXCEPT ![t] = Tried(@, k, outcome)]
     /\ UNCHANGED <<asks, links, tokens, wants, news, listed, edits, stops>>

\* A mutant of Complete: the row is closed before the last e-mail.
CompleteEarly(t) == Cardinality(tick[t].todo) <= 1

\* The loop over the list has ended.
Complete(t) == tick[t].todo = {}

MarkSent(t) ==
  LET n == tick[t].at IN
  /\ n \in Campaign /\ Complete(t)
  /\ news' = [news EXCEPT ![n] = [@ EXCEPT !.status = "sent", !.sent = tick[t].sent,
                                           !.failed = tick[t].failed]]
  /\ tick' = [tick EXCEPT ![t] = IF @.queue = {} THEN Idle
                                 ELSE [Idle EXCEPT !.at = "next", !.queue = tick[t].queue]]
  /\ UNCHANGED <<list, inbox, listed, edits, faults, stops>>

\* The service stops, or a statement of the run fails: nothing takes it up.
Stop(t) ==
  /\ tick[t].at # "idle" /\ stops < MaxStops /\ stops' = stops + 1
  /\ tick' = [tick EXCEPT ![t] = Idle]
  /\ UNCHANGED <<list, news, inbox, listed, edits, faults>>

---------------------------------------------------------------------------
Run(t) == Claim(t) \/ ReadList(t) \/ (\E o \in Outcomes : Send(t, o)) \/ MarkSent(t)

Next ==
  \/ \E a \in Address : Ask(a)
  \/ \E q \in asks : Refuse(q) \/ \E o \in Outcomes : Answer(q, o)
  \/ \E link \in links : Confirm(link)
  \/ \E k \in DOMAIN rows : Unsubscribe(k)
  \/ \E n \in Campaign :
       \/ Draft(n) \/ Edit(n) \/ TimeComes(n) \/ Cancel(n)
       \/ \E now \in BOOLEAN : Schedule(n, now)
       \/ \E o \in Outcomes : TestMail(n, o)
  \/ \E t \in Tick : Run(t) \/ Stop(t)

Spec == Init /\ [][Next]_vars

---------------------------------------------------------------------------
(* Properties. *)

\* However runs overlap and end, an address receives a newsletter once: one
\* atomic UPDATE decides which run owns it (newsletters.js:242-245).
AtMostOnce == \A n \in Campaign : \A a \in Address : Len(inbox[n][a]) <= 1

\* Every copy that went out is the text the row shows: edits stop when sending
\* starts, although the run mails the copy it was returned (164-178, 254).
FrozenText == \A n \in Campaign : \A a \in Address :
  \A i \in DOMAIN inbox[n][a] : inbox[n][a][i] = news[n].text

\* A newsletter that can still be edited, rescheduled or cancelled has reached
\* nobody (213-219).
DraftIsUnread == \A n \in Campaign : news[n].status \in {"draft", "scheduled"} =>
  \A a \in Address : inbox[n][a] = <<>>

\* A list contains only addresses whose last click was a confirmation, through
\* repeated requests, rotated tokens and new rows of old addresses (248-250).
ConsentFirst == \A l \in listed : l[3]

\* A newsletter marked sent was tried on its whole list, and its counts bracket
\* what arrived: failed sends may still have been delivered (252-271).
SentIsWhole == \A n \in Campaign : news[n].status = "sent" =>
  LET reached == Cardinality({a \in Address : inbox[n][a] # <<>>}) IN
  /\ news[n].sent + news[n].failed = Cardinality({l \in listed : l[1] = n})
  /\ news[n].sent <= reached /\ reached <= news[n].sent + news[n].failed

\* An address has one open row, so that it cannot be listed twice (46-60).
OneOpenRow == \A a \in Address : Cardinality(OpenRows(a)) <= 1

\* Of a newsletter and its list: once each, one text, only to who wanted it.
NewslettersWhole ==
  AtMostOnce /\ FrozenText /\ DraftIsUnread /\ SentIsWhole /\ ConsentFirst /\ OneOpenRow

\* A newsletter whose time has come, and one that was sent or put back.
Owed(n) == news[n].status = "scheduled" /\ news[n].due
Honoured(n) == news[n].status = "sent" \/ ~news[n].due
=============================================================================
