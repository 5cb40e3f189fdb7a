----------------------------- MODULE SitePages -----------------------------
(***************************************************************************)
(* The pages and forms of the site, and the routes that read more than     *)
(* once, with constants of their own each.  None writes what another       *)
(* writes: the first state picks the part that runs, the others rest.      *)
(* MCSite adds what is computed from the rows.                             *)
(***************************************************************************)
EXTENDS Integers, Sequences, FiniteSets

CONSTANTS  \* a record per part, with the constants of its module
  ForCard, ForLatest, ForRacing, ForChoosing, ForEditor, ForEditors, ForReleased,
  ForCompose, ForSign

VARIABLES
  part,  \* the component that runs
  \* ReadApi
  tbl, commits, rewinds, now, req, memo, card, reply,
  \* MetricPage
  metric, view, range, price, smaOn, held, err, flight, live, copied, clears, acts,
  flashes,
  \* MetricCopy
  builtin, row, listed, open, saving, reading, failed, typed, saves,
  \* Composer
  news, list, editing, call, opening, begun, dirty, strayed, unseen,
  calls, lost,
  \* SignupForms
  signupFor, form, sub, posts, alerts, moves

api == <<tbl, commits, rewinds, now, req, memo, card, reply>>
metricPage == <<metric, view, range, price, smaOn, held, err, flight, live, copied,
  clears, acts, flashes>>
texts == <<builtin, row, listed, open, saving, reading, failed, typed, saves>>
composer == <<news, list, editing, call, opening, begun, dirty, strayed, unseen, calls, lost>>
forms == <<signupFor, form, sub, posts, alerts, moves>>
pageVars == <<part, api, metricPage, texts, composer, forms>>

Card == INSTANCE ReadApi WITH
  Requests <- ForCard.Requests, Kinds <- ForCard.Kinds, Readings <- ForCard.Readings,
  Week <- ForCard.Week, SparkDays <- ForCard.SparkDays, TTL <- ForCard.TTL,
  MaxBuild <- ForCard.MaxBuild, MaxRewinds <- ForCard.MaxRewinds,
  MaxCommits <- ForCard.MaxCommits, MaxTime <- ForCard.MaxTime, served <- reply
Latest == INSTANCE ReadApi WITH
  Requests <- ForLatest.Requests, Kinds <- ForLatest.Kinds,
  Readings <- ForLatest.Readings, Week <- ForLatest.Week,
  SparkDays <- ForLatest.SparkDays, TTL <- ForLatest.TTL,
  MaxBuild <- ForLatest.MaxBuild, MaxRewinds <- ForLatest.MaxRewinds,
  MaxCommits <- ForLatest.MaxCommits, MaxTime <- ForLatest.MaxTime, served <- reply
Racing == INSTANCE MetricPage WITH
  Lines <- ForRacing.Lines, Panels <- ForRacing.Panels, SmaLines <- ForRacing.SmaLines,
  Active <- ForRacing.Active, Ranges <- ForRacing.Ranges, InOrder <- ForRacing.InOrder,
  MaxActs <- ForRacing.MaxActs, MaxFlashes <- ForRacing.MaxFlashes
Choosing == INSTANCE MetricPage WITH
  Lines <- ForChoosing.Lines, Panels <- ForChoosing.Panels,
  SmaLines <- ForChoosing.SmaLines, Active <- ForChoosing.Active,
  Ranges <- ForChoosing.Ranges, InOrder <- ForChoosing.InOrder,
  MaxActs <- ForChoosing.MaxActs, MaxFlashes <- ForChoosing.MaxFlashes
Editor == INSTANCE MetricCopy WITH
  Drafts <- ForEditor.Drafts, Admin <- ForEditor.Admin,
  MaxDeploys <- ForEditor.MaxDeploys, MaxCalls <- ForEditor.MaxCalls, list <- listed,
  editing <- open, call <- saving, calls <- saves, err <- failed
Editors == INSTANCE MetricCopy WITH
  Drafts <- ForEditors.Drafts, Admin <- ForEditors.Admin,
  MaxDeploys <- ForEditors.MaxDeploys, MaxCalls <- ForEditors.MaxCalls, list <- listed,
  editing <- open, call <- saving, calls <- saves, err <- failed
Released == INSTANCE MetricCopy WITH
  Drafts <- ForReleased.Drafts, Admin <- ForReleased.Admin,
  MaxDeploys <- ForReleased.MaxDeploys, MaxCalls <- ForReleased.MaxCalls, list <- listed,
  editing <- open, call <- saving, calls <- saves, err <- failed
Compose == INSTANCE Composer WITH
  MaxNews <- ForCompose.MaxNews, MaxEdits <- ForCompose.MaxEdits,
  MaxCalls <- ForCompose.MaxCalls,
  MaxLost <- ForCompose.MaxLost
Sign == INSTANCE SignupForms WITH
  Metrics <- ForSign.Metrics, Thresholds <- ForSign.Thresholds,
  Steady <- ForSign.Steady, MaxActs <- ForSign.MaxActs, metric <- signupFor,
  flight <- posts, acts <- moves

ASSUME PagesAssumption ==
  /\ Card!ReadAssumption /\ Latest!ReadAssumption
  /\ Racing!PageAssumption /\ Choosing!PageAssumption
  /\ Editor!CopyAssumption /\ Editors!CopyAssumption /\ Released!CopyAssumption
  /\ Compose!ComposerAssumption /\ Sign!FormAssumption

\* Components of several initial states have one while they rest.
PagesInit ==
  /\ IF part = "latest" THEN Latest!Init ELSE Card!Init
  /\ IF part = "racing" THEN Racing!Init ELSE Choosing!Init
  /\ part \notin {"racing", "choosing"} => metric = "runs" /\ range = 1
  /\ CASE part = "editors" -> Editors!Init
       [] part = "released" -> Released!Init
       [] OTHER -> Editor!Init
  /\ Compose!Init /\ Sign!Init /\ (part # "sign" => signupFor = 1)

\* A step of one part; the others rest.
InReadApi(p, A) == part = p /\ A /\ UNCHANGED <<part, metricPage, texts, composer, forms>>
InMetricPage(p, A) == part = p /\ A /\ UNCHANGED <<part, api, texts, composer, forms>>
InMetricCopy(p, A) == part = p /\ A /\ UNCHANGED <<part, api, metricPage, composer, forms>>
InComposer(p, A) == part = p /\ A /\ UNCHANGED <<part, api, metricPage, texts, forms>>
InSignupForms(p, A) == part = p /\ A /\ UNCHANGED <<part, api, metricPage, texts, composer>>

PagesNext ==
  \/ InReadApi("card", Card!Next) \/ InReadApi("latest", Latest!Next)
  \/ InMetricPage("racing", Racing!Next) \/ InMetricPage("choosing", Choosing!Next)
  \/ InMetricCopy("editor", Editor!Next) \/ InMetricCopy("editors", Editors!Next)
  \/ InMetricCopy("released", Released!Next)
  \/ InComposer("compose", Compose!Next) \/ InSignupForms("sign", Sign!Next)

PagesSpec == PagesInit /\ [][PagesNext]_pageVars

---------------------------------------------------------------------------
(* Properties *)

\* Days are finalized between the statements of an answer (api.js:197-214,
\* 329-363), and yet, as long as none is taken back, a heatmap has the days it was
\* asked for, whichever request memoized them, and a sparkline reaches the day of
\* the value above it and gives that day the same value.
AnswersAreWhole ==
  part = "latest" => Latest!HeatmapHasItsDays /\ Latest!SparkReachesTheDay

\* The metric page shows the metric it is open on (MetricDetail.jsx:100-190): in
\* whatever order answers come its story is that metric's, and a page that says
\* it loads has asked; when they come in order, what is drawn once they are in
\* is what was chosen last.
ScreenIsTheMetric ==
  /\ part = "racing" => Racing!StoryIsTheMetric /\ Racing!LoadingIsAsked
  /\ part = "choosing" => Choosing!SettledIsChosen

\* The editor of metric texts (Admin.jsx:205-262, metricCopy.js): whoever else saves,
\* a pane nobody typed in is not stored, but for an older release's text by an
\* editor that was filled before the release; a stored row means that the site's
\* text differs from the built-in one, unless a release has brought the text an
\* admin had typed; and with one admin and no release an idle list shows what is
\* stored.
CopyTellsTheTruth ==
  /\ part = "editor" => Editor!ListIsCurrent
  /\ part = "editors" => Editors!UntouchedNotStored /\ Editors!EditedMeansDifferent
  /\ part = "released" => Released!UntouchedNotStored /\ Released!EditedMeansDifferent

\* Forms send what they show once.  Until a create's answer reaches an editor that
\* did not send it or an update is stored behind one, a newsletter that is saved
\* over and over, typed in while a save is under way, is one newsletter but for
\* creates whose answers were lost, and an editor without changes shows what is
\* stored (NewsletterTab.jsx:40-60).  One request of a sign-up form is under way,
\* and one that reports success was accepted (AlertForm.jsx, SubscribeForm.jsx).
FormsSendOnce ==
  /\ part = "compose" => Compose!OneOfEach /\ Compose!CleanIsStored
  /\ part = "sign" => Sign!OneRequest /\ Sign!SentWasAccepted

\* No step puts one newsletter's text under another's id, until a create's answer
\* has reached an editor that did not send it; the text of a save is what the
\* site shows, whatever other admins and releases do (the last save wins); and no
\* card that is served is older than an hour and the time it took to build
\* (og.js:155-175).
StepsHold ==
  [][/\ part = "compose" => Compose!KeepsItsText
     /\ part = "editors" => Editors!SaveIsSeen
     /\ part = "released" => Released!SaveIsSeen
     /\ part = "card" => Card!CardIsOfTheHour]_pageVars
=============================================================================
