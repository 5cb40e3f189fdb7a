----------------------------- MODULE MetricPage -----------------------------
(***************************************************************************)
(* The page of one metric (web/src/pages/MetricDetail.jsx): its effects    *)
(* ask for the series, the halving cycles, the panel's payload, the story  *)
(* and the full history of the moving averages, and their answers are      *)
(* stored when they come.  The component stays mounted from one metric to  *)
(* the next.                                                               *)
(***************************************************************************)
EXTENDS Integers, Sequences, FiniteSets, SequencesExt

CONSTANTS
  Lines,      \* scalar metrics
  Panels,     \* metrics with a payload of their own (panels.jsx, urpd)
  SmaLines,   \* lines with moving averages
  Active,     \* those whose averages are drawn from the start
  Ranges,     \* RANGES
  InOrder,    \* answers come in the order of their requests
  MaxActs,    \* bound: clicks
  MaxFlashes  \* bound: actions of the share menu

\* What the constants have to satisfy.
PageAssumption ==
  /\ Active \subseteq SmaLines /\ SmaLines \subseteq Lines /\ Lines \cap Panels = {}
  /\ InOrder \in BOOLEAN /\ {MaxActs, MaxFlashes} \subseteq Nat

VARIABLES
  metric, view, range, price, smaOn,  \* what is chosen
  held,       \* the answers held: data, cycles, panel, sma, story
  err,        \* "Could not load series"
  flight,     \* requests under way, in order
  live,       \* the story effect that runs, counted
  copied,     \* the label of the share menu
  clears,     \* timers that will clear it
  acts, flashes

chosen == <<metric, view, range, price, smaOn>>
share == <<copied, clears, flashes>>
vars == <<chosen, held, err, flight, live, share, acts>>

Null == [none |-> TRUE]
NoRows == [none |-> FALSE]   \* the empty sentinel of a failed average
Line == metric \in Lines

TypeOK ==
  /\ metric \in Lines \cup Panels /\ view \in {"series", "cycles"} /\ range \in Ranges
  /\ price \in BOOLEAN /\ smaOn \in BOOLEAN /\ err \in BOOLEAN
  /\ DOMAIN held = {"data", "cycles", "panel", "sma", "story"}
  /\ metric \in Panels => view = "series"

Request(what, m) == [what |-> what, of |-> m, range |-> range, price |-> price, live |-> 0]

---------------------------------------------------------------------------
(* The effects: what they ask for when the state is as given. *)

StoryEffect(m, n) == IF m \in Lines THEN <<[Request("story", m) EXCEPT !.live = n]>> ELSE <<>>

SmaEffect(m, v, on, src) ==
  IF m \in SmaLines /\ on /\ v = "series" /\ src = Null THEN <<Request("sma", m)>> ELSE <<>>

\* A mutant of BaseEffect: held cycles are never asked for again, nor are new ones.
BaseEffectLazy(m, v, rg, pr, cycles) ==
  IF m \in Panels THEN <<Request("panel", m)>>
  ELSE IF v = "cycles" THEN <<>>
  ELSE <<[Request("data", m) EXCEPT !.range = rg, !.price = pr]>>

\* Cycles are kept once they are there.
BaseEffect(m, v, rg, pr, cycles) ==
  IF m \in Panels THEN <<Request("panel", m)>>
  ELSE IF v = "cycles" THEN (IF cycles = Null THEN <<Request("cycles", m)>> ELSE <<>>)
  ELSE <<[Request("data", m) EXCEPT !.range = rg, !.price = pr]>>

\* Asking for the series or a panel lets go of the one held; asking for cycles
\* does not, there are none.
Emptied(h, asked) ==
  [s \in DOMAIN h |-> IF s \in {"data", "panel"} /\ \E i \in DOMAIN asked : asked[i].what = s THEN Null ELSE h[s]]

ErrAfter(asked) == asked = <<>> /\ err

\* A mutant of OnMetric: the metric's own state is kept.
OnMetricKept(m) == [view |-> view, price |-> price, smaOn |-> smaOn, held |-> held]

\* The effect on a new metric: back to its timeline, without overlays but those
\* active for it; cycles, averages and story are dropped.
OnMetric(m) == [view |-> "series", price |-> FALSE, smaOn |-> m \in Active,
                held |-> [held EXCEPT !.cycles = Null, !.sma = Null, !.story = Null]]

Open(m) ==
  LET now == OnMetric(m)
      \* first with the state of the metric before, then with its own
      before == BaseEffect(m, view, range, price, held.cycles)
      after == IF now.view # view \/ now.price # price
               THEN BaseEffect(m, now.view, range, now.price, now.held.cycles) ELSE <<>> IN
  /\ m # metric /\ acts < MaxActs /\ acts' = acts + 1
  /\ metric' = m /\ view' = now.view /\ price' = now.price /\ smaOn' = now.smaOn
  /\ live' = live + 1
  /\ flight' = flight \o StoryEffect(m, live') \o SmaEffect(m, view, smaOn, held.sma) \o before
                 \o SmaEffect(m, now.view, now.smaOn, now.held.sma) \o after
  /\ held' = Emptied(now.held, before \o after) /\ err' = ErrAfter(before \o after)
  /\ UNCHANGED <<range, share>>

Init ==
  /\ metric \in Lines \cup Panels /\ view = "series" /\ range \in Ranges /\ price = FALSE
  /\ smaOn = (metric \in Active)
  /\ held = [s \in {"data", "cycles", "panel", "sma", "story"} |-> Null] /\ err = FALSE
  /\ live = 1
  /\ flight = StoryEffect(metric, 1) \o SmaEffect(metric, view, smaOn, Null)
                \o BaseEffect(metric, view, range, price, Null) \o SmaEffect(metric, view, smaOn, Null)
  /\ copied = FALSE /\ clears = 0 /\ acts = 0 /\ flashes = 0

\* A mutant of Asks: only another range is asked for.
AsksRange(rg, pr, v) == IF rg = range THEN <<>> ELSE BaseEffect(metric, v, rg, pr, held.cycles)

\* The dependencies of the effect.
Asks(rg, pr, v) ==
  IF <<rg, pr, v>> = <<range, price, view>> THEN <<>> ELSE BaseEffect(metric, v, rg, pr, held.cycles)

\* The buttons of the toolbar: range and price overlay on the timeline, the
\* view, and the averages.
Choose(rg, pr, v, on) ==
  LET asked == Asks(rg, pr, v)
      sma == IF <<v, on>> = <<view, smaOn>> THEN <<>> ELSE SmaEffect(metric, v, on, held.sma) IN
  /\ Line /\ acts < MaxActs /\ acts' = acts + 1
  /\ Cardinality({i \in 1..4 : <<rg, pr, v, on>>[i] # <<range, price, view, smaOn>>[i]}) = 1
  /\ rg # range \/ pr # price \/ on # smaOn => view = "series"
  /\ on # smaOn => metric \in SmaLines
  /\ range' = rg /\ price' = pr /\ view' = v /\ smaOn' = on
  /\ flight' = flight \o [i \in DOMAIN sma |-> [sma[i] EXCEPT !.range = rg, !.price = pr]] \o asked
  /\ held' = Emptied(held, asked) /\ err' = ErrAfter(asked)
  /\ UNCHANGED <<metric, live, share>>

---------------------------------------------------------------------------
(* The answers. *)

Next1 == IF InOrder THEN {1} \cap DOMAIN flight ELSE DOMAIN flight

\* A mutant of Wanted: the story has no live flag.
WantedAlways(f) == TRUE

\* Only the story's answer is checked.
Wanted(f) == f.what = "story" => f.live = live

Reply(i) ==
  /\ flight' = RemoveAt(flight, i)
  /\ held' = IF Wanted(flight[i]) THEN [held EXCEPT ![flight[i].what] = flight[i]] ELSE held
  /\ UNCHANGED <<chosen, err, live, share, acts>>

Fail(i) ==
  /\ flight' = RemoveAt(flight, i)
  /\ held' = CASE flight[i].what = "sma" -> [held EXCEPT !.sma = NoRows]
               [] flight[i].what = "story" /\ Wanted(flight[i]) -> [held EXCEPT !.story = Null]
               [] OTHER -> held
  /\ err' = (err \/ flight[i].what \notin {"sma", "story"})
  /\ UNCHANGED <<chosen, live, share, acts>>

---------------------------------------------------------------------------
(* The share menu: every action leaves a label that a timer clears. *)

Flash ==
  /\ flashes < MaxFlashes /\ flashes' = flashes + 1
  /\ copied' = TRUE /\ clears' = clears + 1
  /\ UNCHANGED <<chosen, held, err, flight, live, acts>>

Clear ==
  /\ clears > 0 /\ clears' = clears - 1 /\ copied' = FALSE
  /\ UNCHANGED <<chosen, held, err, flight, live, acts, flashes>>

Next ==
  \/ \E m \in Lines \cup Panels : Open(m)
  \/ \E rg \in Ranges, pr, on \in BOOLEAN, v \in {"series", "cycles"} : Choose(rg, pr, v, on)
  \/ \E i \in Next1 : Reply(i) \/ Fail(i)
  \/ Flash \/ Clear

Spec == Init /\ [][Next]_vars

---------------------------------------------------------------------------
(* Properties. *)

\* What the page draws from, in the view that is chosen.
Drawn == IF ~Line THEN "panel" ELSE IF view = "cycles" THEN "cycles" ELSE "data"

\* The story's annotations and takeaway are of the metric on the page, however
\* late the story of the one before comes (MetricDetail.jsx:118-125).
StoryIsTheMetric == held.story # Null => held.story.of = metric

\* A page that says "Loading" has asked for what it waits for, and for this
\* metric: no order of clicks and answers leaves a spinner that nothing ends
\* (MetricDetail.jsx:113-165, 481, 542-545; api.js:5-6).
LoadingIsAsked ==
  (held[Drawn] = Null /\ ~err) => \E i \in DOMAIN flight : flight[i].what = Drawn /\ flight[i].of = metric

\* When answers come in order, the series drawn once all have come is that of
\* the metric, range and price overlay chosen, and the panel the one opened.
SettledIsChosen ==
  (InOrder /\ ~err /\ Drawn # "cycles" /\ \A i \in DOMAIN flight : flight[i].what # Drawn) =>
    /\ held[Drawn].of = metric
    /\ Drawn = "data" => held.data.range = range /\ held.data.price = price
=============================================================================
