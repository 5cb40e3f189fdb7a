------------------------------ MODULE ReadApi ------------------------------
(***************************************************************************)
(* Routes of the read API that take more than one statement or keep what   *)
(* they built (api.js, og.js): GET /api/latest, GET /api/heatmap with its  *)
(* memo, and the cards of /og with their cache.  The worker finalizes days *)
(* and takes them back between any two statements.                         *)
(***************************************************************************)
EXTENDS Integers, Sequences, FiniteSets, FiniteSetsExt

CONSTANTS
  Requests,    \* requests that may be under way at once
  Kinds,       \* the routes asked for: subset of {"latest", "heatmap", "card"}
  Readings,    \* a day's value of the metric
  Week,        \* days between two samples of the heatmap
  SparkDays,   \* days of a sparkline
  TTL,         \* how long a card is kept
  MaxBuild,    \* longest time a card takes to build
  MaxRewinds, MaxCommits, MaxTime  \* bounds

\* What the constants have to satisfy.
ReadAssumption ==
  /\ Kinds \subseteq {"latest", "heatmap", "card"} /\ Readings \subseteq Nat /\ Readings # {}
  /\ {Week, SparkDays, TTL} \subseteq Nat \ {0}
  /\ {MaxBuild, MaxRewinds, MaxCommits, MaxTime} \subseteq Nat

VARIABLES
  tbl,       \* metrics_daily, by day: the reading and the commit that wrote it
  commits, rewinds,
  now,
  req,       \* by request: its kind, the statements it has left, what it read, when it began
  memo,      \* heatmapMemo
  card,      \* the metric's entry of the cache of cards
  served     \* the answer sent last

table == <<tbl, commits, rewinds>>
vars == <<table, now, req, memo, card, served>>

Null == -1          \* SQL's null
None == [kind |-> "none"]
NoMemo == [asOf |-> 0, rows |-> {}]
NoCard == [at |-> Null, oldest |-> Null]

TypeOK ==
  /\ \A d \in DOMAIN tbl : tbl[d].v \in Readings \cup {Null} /\ tbl[d].by \in 1..commits
  /\ memo.asOf \in 0..MaxCommits /\ card.at \in {Null} \cup 0..now /\ card.oldest <= card.at
  /\ \A r \in Requests : req[r].kind \in Kinds \cup {"none"}

Init ==
  /\ tbl = <<>> /\ commits = 0 /\ rewinds = 0 /\ now = 0
  /\ req = [r \in Requests |-> None] /\ memo = NoMemo /\ card = NoCard /\ served = None

---------------------------------------------------------------------------
(* The worker. *)

Finalize(v) ==
  /\ commits < MaxCommits /\ commits' = commits + 1
  /\ tbl' = Append(tbl, [v |-> v, by |-> commits'])
  /\ UNCHANGED <<rewinds, now, req, memo, card, served>>

Rewind(d) ==
  /\ rewinds < MaxRewinds /\ rewinds' = rewinds + 1
  /\ tbl' = SubSeq(tbl, 1, d) /\ UNCHANGED <<commits, now, req, memo, card, served>>

\* Time passes; a card is built within MaxBuild of it.
Tick ==
  /\ "card" \in Kinds /\ now < MaxTime /\ now' = now + 1
  /\ \A r \in Requests : req[r].kind = "card" => now' - req[r].since <= MaxBuild
  /\ UNCHANGED <<table, req, memo, card, served>>

---------------------------------------------------------------------------
(* The statements. *)

Valued == {d \in DOMAIN tbl : tbl[d].v # Null}
Row(d) == [day |-> d, v |-> tbl[d].v, by |-> tbl[d].by]
Spark == {Row(d) : d \in {x \in DOMAIN tbl : x > Len(tbl) - SparkDays}}

\* Over all days with a reading, the share that is not above that of the day:
\* days below, days counted.  A comparison with null counts none.
Share(v) ==
  IF Cardinality(Valued) <= 1 THEN <<Null>>
  ELSE <<IF v = Null THEN 0 ELSE Cardinality({d \in Valued : tbl[d].v <= v}), Cardinality(Valued), v>>

\* The percentile of the newest day in /api/latest.
PercentileLatest == IF tbl = <<>> THEN <<Null>> ELSE Share(tbl[Len(tbl)].v)

\* The heatmap's days: one a week, and the newest.
Sampled(asOf) == {Row(d) : d \in {x \in Valued : x % Week = 0 \/ x = asOf}}

\* A mutant of Newest: a day too far.
NewestAfter == IF Valued = {} THEN 0 ELSE Max(Valued) + 1

Newest == IF Valued = {} THEN 0 ELSE Max(Valued)

---------------------------------------------------------------------------
(* The routes. *)

\* The statements of each, those of one set being sent together.
\* A mutant of Statements: the sparkline is read before the row.
StatementsSwapped(k) ==
  CASE k = "latest" -> <<{"spark"}, {"row"}, {"pct"}>>
    [] k = "heatmap" -> <<{"asOf"}, {"rows"}>>
    [] OTHER -> <<{"spark", "row", "pct"}, {"png"}>>

Statements(k) ==
  CASE k = "latest" -> <<{"row"}, {"spark"}, {"pct"}>>
    [] k = "heatmap" -> <<{"asOf"}, {"rows"}>>
    [] OTHER -> <<{"spark", "row", "pct"}, {"png"}>>

\* A mutant of IsFresh: a card is kept for good.
IsFreshAlways == card # NoCard

IsFresh == card # NoCard /\ now - card.at < TTL

\* A request comes.  A card that is fresh is sent at once.
Ask(r, k) ==
  /\ req[r] = None
  /\ IF k = "card" /\ IsFresh
     THEN /\ served' = [kind |-> k, oldest |-> card.oldest] /\ req' = req
     ELSE /\ served' = served
          /\ req' = [req EXCEPT ![r] =
               [kind |-> k, left |-> Statements(k), since |-> now, oldest |-> Null, got |-> [s \in {} |-> {}]]]
  /\ UNCHANGED <<table, now, memo, card>>

\* One more statement of a request has its answer.
Left(q, s) == IF q.left[1] = {s} THEN Tail(q.left) ELSE <<q.left[1] \ {s}>> \o Tail(q.left)
Got(q, s, a) == [x \in DOMAIN q.got \cup {s} |-> IF x = s THEN a ELSE q.got[x]]
Reads(q, s, a) ==
  [q EXCEPT !.left = Left(q, s), !.got = Got(q, s, a), !.oldest = IF @ = Null THEN now ELSE @]

\* The answer of /api/latest and of the card, from what the statements read.
Answer(s) ==
  CASE s = "row" -> Row(Len(tbl))
    [] s = "spark" -> Spark
    [] OTHER -> PercentileLatest

\* A statement of /api/latest; without a row there is no more to do.
ReadLatest(r, s) ==
  LET q == req[r] IN
  /\ q.kind = "latest" /\ s \in q.left[1]
  /\ IF s = "row" /\ tbl = <<>>
     THEN req' = [req EXCEPT ![r] = None] /\ served' = [kind |-> "empty"]
     ELSE LET done == Reads(q, s, Answer(s)) IN
          IF done.left = <<>>
          THEN req' = [req EXCEPT ![r] = None] /\ served' = [kind |-> "latest", got |-> done.got]
          ELSE req' = [req EXCEPT ![r] = done] /\ served' = served
  /\ UNCHANGED <<table, now, memo, card>>

\* A mutant of Memoized: what is memoized is taken to be of any day.
MemoizedAny(asOf) == memo # NoMemo

Memoized(asOf) == memo.asOf = asOf

Heat(asOf, rows) == [kind |-> "heatmap", asOf |-> asOf, rows |-> rows]

\* The heatmap's first statement: the newest day.  What is memoized for it is
\* sent.
ReadAsOf(r) ==
  LET q == req[r] IN
  /\ q.kind = "heatmap" /\ "asOf" \in q.left[1]
  /\ IF Newest = 0 THEN req' = [req EXCEPT ![r] = None] /\ served' = [kind |-> "empty"]
     ELSE IF Memoized(Newest) THEN req' = [req EXCEPT ![r] = None] /\ served' = Heat(Newest, memo.rows)
     ELSE req' = [req EXCEPT ![r] = Reads(q, "asOf", Newest)] /\ served' = served
  /\ UNCHANGED <<table, now, memo, card>>

\* Its second: the days.  They are memoized and sent.
ReadRows(r) ==
  LET q == req[r] IN
  /\ q.kind = "heatmap" /\ "rows" \in q.left[1]
  /\ memo' = [asOf |-> q.got["asOf"], rows |-> Sampled(q.got["asOf"])]
  /\ req' = [req EXCEPT ![r] = None] /\ served' = Heat(memo'.asOf, memo'.rows)
  /\ UNCHANGED <<table, now, card>>

\* A statement of a card, in any order; the row and the percentile are of the
\* newest day that has a reading, and a card is drawn of nothing too.
ReadCard(r, s) ==
  /\ req[r].kind = "card" /\ s \in req[r].left[1] \ {"png"}
  /\ req' = [req EXCEPT ![r] = Reads(req[r], s, {})]
  /\ UNCHANGED <<table, now, memo, card, served>>

\* The drawn card is kept, from now on, and sent.
DrawCard(r) ==
  /\ req[r].kind = "card" /\ req[r].left[1] = {"png"}
  /\ card' = [at |-> now, oldest |-> req[r].oldest]
  /\ req' = [req EXCEPT ![r] = None] /\ served' = [kind |-> "card", oldest |-> req[r].oldest]
  /\ UNCHANGED <<table, now, memo>>

\* A statement fails: 500, and what is kept stays.
Fail(r) ==
  /\ req[r] # None /\ req' = [req EXCEPT ![r] = None] /\ served' = [kind |-> "error"]
  /\ UNCHANGED <<table, now, memo, card>>

Next ==
  \/ \E v \in Readings \cup {Null} : Finalize(v)
  \/ \E d \in 0..(Len(tbl) - 1) : Rewind(d)
  \/ Tick
  \/ \E r \in Requests :
       \/ \E k \in Kinds : Ask(r, k)
       \/ \E s \in {"row", "spark", "pct"} : ReadLatest(r, s) \/ ReadCard(r, s)
       \/ ReadAsOf(r) \/ ReadRows(r) \/ DrawCard(r) \/ Fail(r)

Spec == Init /\ [][Next]_vars

---------------------------------------------------------------------------
(* Properties. *)

\* While no day is taken back, a heatmap that is sent has the newest day its
\* request saw and every weekly day up to it, as they are stored, whatever other
\* request memoized another day in the meantime (api.js:197-214).
HeatmapHasItsDays ==
  (rewinds = 0 /\ served.kind = "heatmap") =>
    {Row(d) : d \in {x \in Valued : x <= served.asOf /\ (x % Week = 0 \/ x = served.asOf)}} \subseteq served.rows

\* While no day is taken back, the sparkline under a value reaches its day, and
\* the two meet in the days they share (api.js:329-363).
SparkReachesTheDay ==
  (rewinds = 0 /\ served.kind = "latest") =>
    LET row == served.got["row"] IN
      /\ \E s \in served.got["spark"] : s.day >= row.day
      /\ \A s \in served.got["spark"] : s.day = row.day => s = row

\* A card shows nothing older than an hour and the time a card takes to build,
\* however builds overlap (og.js:12, 160-172).
CardIsOfTheHour == 
  served' # served /\ served'.kind = "card" => now - served'.oldest < TTL + MaxBuild
=============================================================================
