------------------------------- MODULE Alerts -------------------------------
(***************************************************************************)
(* Metric alerts (server/src/alerts.js): the double opt-in of one address, *)
(* and checkAlerts, which reads the armed alerts, then the last two        *)
(* finalized values of their metric, and then mails and marks one alert    *)
(* after another.  Checks run on an interval that does not wait for the    *)
(* previous one, while the sync worker finalizes and rewinds days.         *)
(***************************************************************************)
EXTENDS Integers, Sequences, FiniteSets, FiniteSetsExt, Mail

CONSTANTS
  Alert,      \* the alerts the address may ask for, all on one metric
  Above,      \* those of condition `above'; the others are `below'
  Checker,    \* the checks that may overlap
  Limit,      \* alerts per address: 20
  MaxDays,    \* bound: finalized days
  Nulls,      \* may the metric be NULL on a day?
  MaxRewinds, \* bound: days rewound after a reorganization
  MaxFaults   \* bound: sends and marks that fail, crashes of the service

\* What the constants have to satisfy.
AlertsAssumption ==
  /\ Above \subseteq Alert
  /\ Limit \in Nat /\ MaxDays \in Nat /\ Nulls \in BOOLEAN
  /\ MaxRewinds \in Nat /\ MaxFaults \in Nat

VARIABLES
  state,      \* alerts rows: absent, pending, active (confirmed) or gone
  counted,    \* requests between the count of the rows and the insert
  mailed,     \* alerts whose confirmation mail was delivered
  fired,      \* last_fired_day; 0 is NULL
  series,     \* metrics_daily: the value of the metric by day
  check,      \* the checks under way
  inbox,      \* deliveries of alert_fire, by alert and day
  reported,   \* history: <<alert, day>> a whole check went through in time
  rewinds, faults

table == <<state, counted, mailed>>
vars == <<state, counted, mailed, fired, series, check, inbox, reported, rewinds, faults>>

Day == 1..MaxDays
Value == {"over", "under"} \cup (IF Nulls THEN {"null"} ELSE {})
Idle == [at |-> "idle", listed |-> {}, todo |-> {}, marks |-> [a \in Alert |-> 0], days |-> {},
         mailing |-> {}, clean |-> TRUE]
Active == {a \in Alert : state[a] = "active"}
Mailed(a) == {d \in Day : inbox[a][d] > 0}

TypeOK ==
  /\ state \in [Alert -> {"absent", "pending", "active", "gone"}]
  /\ counted \subseteq {a \in Alert : state[a] = "absent"} /\ mailed \subseteq Alert
  /\ fired \in [Alert -> 0..MaxDays]
  /\ series \in UNION {[1..n -> Value] : n \in 0..MaxDays}
  /\ \A c \in Checker :
       /\ check[c].at \in {"idle", "rows", "send", "mark"}
       /\ check[c].todo \subseteq check[c].listed /\ check[c].listed \subseteq Alert
       /\ check[c].mailing \subseteq check[c].todo
       /\ Cardinality(check[c].days) <= 2
  /\ reported \subseteq Alert \X Day
  /\ rewinds \in 0..MaxRewinds /\ faults \in 0..MaxFaults

Init ==
  /\ state = [a \in Alert |-> "absent"] /\ counted = {} /\ mailed = {}
  /\ fired = [a \in Alert |-> 0] /\ series = <<>>
  /\ check = [c \in Checker |-> Idle]
  /\ inbox = [a \in Alert |-> [d \in Day |-> 0]]
  /\ reported = {} /\ rewinds = 0 /\ faults = 0

Fault(outcome) == IF outcome = "sent" THEN UNCHANGED faults
                  ELSE faults < MaxFaults /\ faults' = faults + 1

---------------------------------------------------------------------------
(* The routes. *)

\* POST /api/alerts counts the rows of the address ...
Count(a) ==
  /\ state[a] = "absent" /\ a \notin counted
  /\ Cardinality({b \in Alert : state[b] \in {"pending", "active"}}) < Limit
  /\ counted' = counted \cup {a}
  /\ UNCHANGED <<state, mailed, fired, series, check, inbox, reported, rewinds, faults>>

\* ... inserts the row, and mails the link; the row stays if that fails.
Create(a, outcome) ==
  /\ a \in counted /\ Fault(outcome)
  /\ counted' = counted \ {a}
  /\ state' = [state EXCEPT ![a] = "pending"]
  /\ mailed' = IF Delivered(outcome) THEN mailed \cup {a} ELSE mailed
  /\ UNCHANGED <<fired, series, check, inbox, reported, rewinds>>

\* GET /confirm, with the token of the mail.
Confirm(a) ==
  /\ a \in mailed /\ state[a] = "pending"
  /\ state' = [state EXCEPT ![a] = "active"]
  /\ UNCHANGED <<counted, mailed, fired, series, check, inbox, reported, rewinds, faults>>

\* GET /unsubscribe, with the token of a mail that reported a crossing.
Unsubscribe(a) ==
  /\ Mailed(a) # {} /\ state[a] = "active"
  /\ state' = [state EXCEPT ![a] = "gone"]
  /\ UNCHANGED <<counted, mailed, fired, series, check, inbox, reported, rewinds, faults>>

---------------------------------------------------------------------------
(* The sync worker. *)

Finalize(v) ==
  /\ Len(series) < MaxDays
  /\ series' = Append(series, v)
  /\ check' = [c \in Checker |-> [check[c] EXCEPT !.clean = FALSE]]
  /\ UNCHANGED <<table, fired, inbox, reported, rewinds, faults>>

Rewind ==
  /\ series # <<>> /\ rewinds < MaxRewinds /\ rewinds' = rewinds + 1
  /\ series' = SubSeq(series, 1, Len(series) - 1)
  /\ reported' = {r \in reported : r[2] < Len(series)}
  /\ check' = [c \in Checker |-> [check[c] EXCEPT !.clean = FALSE]]
  /\ UNCHANGED <<table, fired, inbox, faults>>

---------------------------------------------------------------------------
(* checkAlerts. *)

\* A mutant of Armed: rows that were never confirmed are watched.
ArmedUnconfirmed == {a \in Alert : state[a] \in {"pending", "active"}}

\* confirmed_at IS NOT NULL AND unsubscribed_at IS NULL
Armed == Active

ReadAlerts(c) ==
  /\ check[c].at = "idle" /\ Armed # {}
  /\ check' = [check EXCEPT ![c] = [Idle EXCEPT !.at = "rows", !.listed = Armed,
                                              !.todo = Armed, !.marks = fired]]
  /\ UNCHANGED <<table, fired, series, inbox, reported, rewinds, faults>>

NonNull == {d \in DOMAIN series : series[d] # "null"}

\* A mutant of LatestTwo: without its LIMIT.
LatestAll == {[day |-> d, v |-> series[d]] : d \in NonNull}

\* The last two days with a value, and their values.
LatestTwo ==
  {[day |-> d, v |-> series[d]] :
     d \in {e \in NonNull : Cardinality({f \in NonNull : f > e}) < 2}}

ReadRows(c) ==
  /\ check[c].at = "rows"
  /\ check' = [check EXCEPT ![c].at = "send", ![c].days = LatestTwo, ![c].clean = TRUE]
  /\ UNCHANGED <<table, fired, series, inbox, reported, rewinds, faults>>

Satisfies(a, v) == IF a \in Above THEN v = "over" ELSE v = "under"
Today(days) == CHOOSE r \in days : \A s \in days : s.day <= r.day

\* A mutant of Crossed: the condition alone fires.
CrossedHolds(a, days) == days # {} /\ Satisfies(a, Today(days).v)

\* Today satisfies the condition, and yesterday, if there is one, does not.
Crossed(a, days) ==
  /\ days # {} /\ Satisfies(a, Today(days).v)
  /\ \A r \in days \ {Today(days)} : ~Satisfies(a, r.v)

\* A mutant of MarkedSince: the mark is not looked at.
MarkedNever(c, a) == FALSE

\* last_fired_day, as it was read with the list.
MarkedSince(c, a) == check[c].marks[a] = Today(check[c].days).day

Fires(c, a) == Crossed(a, check[c].days) /\ ~MarkedSince(c, a)

\* A mutant of Passed: the first alert with nothing to say ends the loop.
PassedAll(c, a) == {}

\* The alerts left after a.
Passed(c, a) == check[c].todo \ {a}

\* `continue': no crossing, or reported before.
Skip(c, a) ==
  /\ check[c].at = "send" /\ a \in check[c].todo /\ ~Fires(c, a)
  /\ check' = [check EXCEPT ![c].todo = Passed(c, a)]
  /\ UNCHANGED <<table, fired, series, inbox, reported, rewinds, faults>>

Send(c, a, outcome) ==
  /\ check[c].at = "send" /\ a \in check[c].todo /\ Fires(c, a)
  /\ Fault(outcome)
  /\ inbox' = [inbox EXCEPT ![a][Today(check[c].days).day] =
                 IF Delivered(outcome) THEN @ + 1 ELSE @]
  /\ check' = IF Returns(outcome)
              THEN [check EXCEPT ![c].at = "mark", ![c].mailing = {a}]
              ELSE [check EXCEPT ![c].todo = Passed(c, a), ![c].clean = FALSE]
  /\ UNCHANGED <<table, fired, series, reported, rewinds>>

\* UPDATE alerts SET last_fired_day, which may fail like the send.
Mark(c, fails) ==
  /\ check[c].at = "mark"
  /\ IF fails THEN faults < MaxFaults /\ faults' = faults + 1 /\ UNCHANGED fired
     ELSE /\ fired' = [a \in Alert |-> IF a \in check[c].mailing
                                       THEN Today(check[c].days).day ELSE fired[a]]
          /\ UNCHANGED faults
  /\ check' = [check EXCEPT ![c].at = "send", ![c].mailing = {},
                            ![c].todo = @ \ check[c].mailing]
  /\ UNCHANGED <<table, series, inbox, reported, rewinds>>

\* The check is over.  It was in time if nothing failed and no day was
\* finalized or rewound since it read the rows.
Done(c) ==
  /\ check[c].at = "send" /\ check[c].todo = {}
  /\ check' = [check EXCEPT ![c] = Idle]
  /\ reported' = IF check[c].clean /\ check[c].days # {}
                 THEN reported \cup check[c].listed \X {Today(check[c].days).day}
                 ELSE reported
  /\ UNCHANGED <<table, fired, series, inbox, rewinds, faults>>

\* The service restarts: every check under way is gone.
Crash ==
  /\ \E c \in Checker : check[c].at # "idle"
  /\ faults < MaxFaults /\ faults' = faults + 1
  /\ check' = [c \in Checker |-> Idle]
  /\ UNCHANGED <<table, fired, series, inbox, reported, rewinds>>

---------------------------------------------------------------------------
Next ==
  \/ \E a \in Alert : Count(a) \/ Confirm(a) \/ Unsubscribe(a)
  \/ \E a \in Alert, o \in Outcomes : Create(a, o)
  \/ \E v \in Value : Finalize(v)
  \/ Rewind \/ Crash
  \/ \E c \in Checker : ReadAlerts(c) \/ ReadRows(c) \/ Done(c)
  \/ \E c \in Checker, a \in Alert : Skip(c, a) \/ \E o \in Outcomes : Send(c, a, o)
  \/ \E c \in Checker, fails \in BOOLEAN : Mark(c, fails)

Spec == Init /\ [][Next]_vars

---------------------------------------------------------------------------
(* Properties *)

\* The value of the series on day d is a crossing for alert a: seen on the
\* whole history, the last day with a value before d was on the other side.
Crossing(a, d) ==
  /\ d \in NonNull /\ Satisfies(a, series[d])
  /\ LET before == {e \in NonNull : e < d}
     IN before # {} => ~Satisfies(a, series[Max(before)])

\* A crossing is mailed once, however often it is checked again, and also when
\* its day is rewound and finalized again.
OncePerCrossing == \A a \in Alert, d \in Day : inbox[a][d] <= 1

\* A mail is sent for a crossing only, never while the condition simply holds.
MailMeansCrossing == \A a \in Alert : \A d \in Mailed(a) : Crossing(a, d)

\* A check that ran through before the next day was finalized has mailed every
\* crossing of the alerts it read, if not the run of another check has.
CrossingsReported ==
  \A r \in reported : r[2] \in DOMAIN series /\ Crossing(r[1], r[2]) => r[2] \in Mailed(r[1])

\* Nothing but the confirmation is ever mailed to an address that has not
\* confirmed.
ConsentFirst == \A a \in Alert : Mailed(a) # {} => state[a] \in {"active", "gone"}

OneChecker == \A b, c \in Checker : b = c

\* Whatever fails and overlaps, mail needs consent and a check that went through
\* left no crossing out.  What is mailed is a crossing, until a day is rewound;
\* and it is mailed once, if checks do not overlap and nothing fails.
CrossingsMailed ==
  /\ ConsentFirst /\ CrossingsReported
  /\ rewinds = 0 => MailMeansCrossing
  /\ OneChecker /\ faults = 0 /\ rewinds <= 1 => OncePerCrossing
=============================================================================
