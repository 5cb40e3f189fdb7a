------------------------------- MODULE MCSite -------------------------------
(***************************************************************************)
(* What is made of the daily rows, with constants of its own each: charts  *)
(* and answers computed from them, and the pages and forms of the web app  *)
(* that show them.  None writes what another writes, so they are checked   *)
(* side by side: the first state picks the part that runs, the others      *)
(* rest.  A component with several sets of bounds is several parts.        *)
(***************************************************************************)
EXTENDS SitePages

CONSTANTS  \* a record per part, with the constants of its module
  ForDaily, ForSpike, ForGrow, ForHour, ForCharts, ForMonths, ForTold, ForHeat,
  ForCurve, ForThinned, ForFew, ForDrawn

VARIABLES
  \* Cycles
  rows, day, cycles,
  \* Story
  series,
  \* Heatmap
  buckets,
  \* Supply
  tip, supply, seen, drawn,
  \* SeriesRows
  upto, read,
  \* ChartLabels
  asked, placed,
  \* MetricRows
  days, buf, sum, byDay

daily == <<rows, day, cycles>>
story == <<series>>
heat == <<buckets>>
curve == <<tip, supply, seen, drawn>>
readings == <<upto, read>>
labels == <<asked, placed>>
chartRows == <<days, buf, sum, byDay>>
calculated == <<daily, story, heat, curve, readings, labels, chartRows>>
vars == <<pageVars, calculated>>

Daily == INSTANCE CycleCharts WITH
  Prices <- ForDaily.Prices, Values <- ForDaily.Values, Starts <- ForDaily.Starts,
  LastDay <- ForDaily.LastDay, SmoothHalf <- ForDaily.SmoothHalf,
  MinFall <- ForDaily.MinFall, SmaDays <- ForDaily.SmaDays, Window <- ForDaily.Window,
  Flagged <- ForDaily.Flagged
Spike == INSTANCE Cycles WITH
  Prices <- ForSpike.Prices, Values <- ForSpike.Values, Starts <- ForSpike.Starts,
  LastDay <- ForSpike.LastDay, SmoothHalf <- ForSpike.SmoothHalf,
  MinFall <- ForSpike.MinFall, SmaDays <- ForSpike.SmaDays, Window <- ForSpike.Window,
  Flagged <- ForSpike.Flagged
Grow == INSTANCE CyclesGrow WITH
  Prices <- ForGrow.Prices, Values <- ForGrow.Values, Starts <- ForGrow.Starts,
  LastDay <- ForGrow.LastDay, SmoothHalf <- ForGrow.SmoothHalf,
  MinFall <- ForGrow.MinFall, SmaDays <- ForGrow.SmaDays, Window <- ForGrow.Window,
  Flagged <- ForGrow.Flagged
Hour == INSTANCE EpochHour WITH
  Prices <- ForHour.Prices, Values <- ForHour.Values, Starts <- ForHour.Starts,
  LastDay <- ForHour.LastDay, SmoothHalf <- ForHour.SmoothHalf,
  MinFall <- ForHour.MinFall, SmaDays <- ForHour.SmaDays, Window <- ForHour.Window,
  Flagged <- ForHour.Flagged, NoTip <- ForHour.NoTip, Tips <- ForHour.Tips,
  EpochBlocks <- ForHour.EpochBlocks, ProgressCap <- ForHour.ProgressCap,
  EpochDays <- ForHour.EpochDays, SampleEvery <- ForHour.SampleEvery,
  Horizons <- ForHour.Horizons
Charts == INSTANCE StoryCharts WITH
  Prices <- ForCharts.Prices, Values <- ForCharts.Values, Starts <- ForCharts.Starts,
  LastDay <- ForCharts.LastDay, SmoothHalf <- ForCharts.SmoothHalf,
  MinFall <- ForCharts.MinFall, SmaDays <- ForCharts.SmaDays,
  Window <- ForCharts.Window, Flagged <- ForCharts.Flagged,
  TopLosses <- ForCharts.TopLosses, Step <- ForCharts.Step,
  MinDays <- ForCharts.MinDays, AfterDays <- ForCharts.AfterDays,
  MonthDays <- ForCharts.MonthDays, YearMonths <- ForCharts.YearMonths
Months == INSTANCE StoryCharts WITH
  Prices <- ForMonths.Prices, Values <- ForMonths.Values, Starts <- ForMonths.Starts,
  LastDay <- ForMonths.LastDay, SmoothHalf <- ForMonths.SmoothHalf,
  MinFall <- ForMonths.MinFall, SmaDays <- ForMonths.SmaDays,
  Window <- ForMonths.Window, Flagged <- ForMonths.Flagged,
  TopLosses <- ForMonths.TopLosses, Step <- ForMonths.Step,
  MinDays <- ForMonths.MinDays, AfterDays <- ForMonths.AfterDays,
  MonthDays <- ForMonths.MonthDays, YearMonths <- ForMonths.YearMonths
Told == INSTANCE Story WITH
  Readings <- ForTold.Readings, MaxDays <- ForTold.MaxDays, Zones <- ForTold.Zones
Heat == INSTANCE Heatmap WITH
  Levels <- ForHeat.Levels, Width <- ForHeat.Width, Top <- ForHeat.Top,
  MaxSupply <- ForHeat.MaxSupply, Share <- ForHeat.Share, Named <- ForHeat.Named
Curve == INSTANCE Supply WITH
  Interval <- ForCurve.Interval, Subsidy <- ForCurve.Subsidy,
  StepBlocks <- ForCurve.StepBlocks, TailBlocks <- ForCurve.TailBlocks,
  Dated <- ForCurve.Dated, MaxHeight <- ForCurve.MaxHeight
Thinned == INSTANCE SeriesRows WITH
  Halvings <- ForThinned.Halvings, Points <- ForThinned.Points,
  Targets <- ForThinned.Targets, MaxDay <- ForThinned.MaxDay
Few == INSTANCE ChartLabels WITH
  Xs <- ForFew.Xs, Ys <- ForFew.Ys, Width <- ForFew.Width, Step <- ForFew.Step,
  Levels <- ForFew.Levels, MaxLabels <- ForFew.MaxLabels
Drawn == INSTANCE MetricRows WITH
  Values <- ForDrawn.Values, Closes <- ForDrawn.Closes, Window <- ForDrawn.Window,
  Ranges <- ForDrawn.Ranges, Ahead <- ForDrawn.Ahead, MaxDays <- ForDrawn.MaxDays

ASSUME SiteAssumption ==
  /\ Daily!RowsAssumption /\ Daily!CyclesAssumption /\ Spike!CyclesAssumption
  /\ Hour!HourAssumption /\ Charts!StoryAssumption /\ Months!StoryAssumption
  /\ Told!StoryAssumption /\ Heat!HeatmapAssumption /\ Curve!SupplyAssumption
  /\ Thinned!SeriesAssumption /\ Few!LabelAssumption /\ Drawn!RowsAssumption

Parts == {"daily", "spike", "grow", "hour", "charts", "months", "told", "heat", "curve",
  "thinned", "latest", "card", "racing", "choosing", "editor", "editors", "released",
  "compose", "sign", "few", "drawn"}

Init ==
  /\ part \in Parts /\ PagesInit
  /\ Daily!CyclesInit /\ Told!Init /\ Heat!Init /\ Curve!Init /\ Thinned!Init
  /\ Few!Init /\ Drawn!Init

\* A step of one part; the others rest.
InCycles(p, A) == part = p /\ A /\ UNCHANGED <<pageVars, story, heat, curve, readings, labels, chartRows>>
InStory(p, A) == part = p /\ A /\ UNCHANGED <<pageVars, daily, heat, curve, readings, labels, chartRows>>
InHeatmap(p, A) == part = p /\ A /\ UNCHANGED <<pageVars, daily, story, curve, readings, labels, chartRows>>
InSupply(p, A) == part = p /\ A /\ UNCHANGED <<pageVars, daily, story, heat, readings, labels, chartRows>>
InSeriesRows(p, A) == part = p /\ A /\ UNCHANGED <<pageVars, daily, story, heat, curve, labels, chartRows>>
InChartLabels(p, A) == part = p /\ A /\ UNCHANGED <<pageVars, daily, story, heat, curve, readings, chartRows>>
InMetricRows(p, A) == part = p /\ A /\ UNCHANGED <<pageVars, daily, story, heat, curve, readings, labels>>

Next ==
  \/ PagesNext /\ UNCHANGED calculated
  \/ InCycles("daily", Daily!CyclesNext) \/ InCycles("spike", Spike!CyclesNext)
  \/ InCycles("grow", Grow!CyclesNext) \/ InCycles("hour", Hour!CyclesNext)
  \/ InCycles("charts", Charts!CyclesNext) \/ InCycles("months", Months!CyclesNext)
  \/ InStory("told", Told!Next) \/ InHeatmap("heat", Heat!Next)
  \/ InSupply("curve", Curve!Next) \/ InSeriesRows("thinned", Thinned!Next)
  \/ InChartLabels("few", Few!Next) \/ InMetricRows("drawn", Drawn!Next)

Spec == Init /\ [][Next]_vars

---------------------------------------------------------------------------
(* The bounds of each part. *)

MCForDaily ==
  [Prices |-> {0, 2, 4, 9}, Values |-> {0}, Starts |-> {1, 4}, LastDay |-> 7, SmoothHalf |-> 1,
   MinFall |-> 4, SmaDays |-> 2, Window |-> 2, Flagged |-> {5}]
MCForSpike ==
  [Prices |-> {1, 8, 9, 60}, Values |-> {0}, Starts |-> {1, 4}, LastDay |-> 6, SmoothHalf |-> 2,
   MinFall |-> 4, SmaDays |-> 2, Window |-> 2, Flagged |-> {}]
MCForGrow ==
  [Prices |-> {0, 2, 3, 7}, Values |-> {0}, Starts |-> {1, 4}, LastDay |-> 6, SmoothHalf |-> 1,
   MinFall |-> 4, SmaDays |-> 2, Window |-> 2, Flagged |-> {5}]
MCForHour ==
  [Prices |-> {0, 2, 9}, Values |-> {0, 1}, Starts |-> {1, 3}, LastDay |-> 5, SmoothHalf |-> 1,
   MinFall |-> 4, SmaDays |-> 2, Window |-> 2, Flagged |-> {}, NoTip |-> 99, Tips |-> {99, 4, 8,
   9, 11, 15, 20}, EpochBlocks |-> 8, ProgressCap |-> 830, EpochDays |-> 1, SampleEvery |-> 2,
   Horizons |-> {1, 2, 3}]
MCForCharts ==
  [Prices |-> {2, 9}, Values |-> {0, 1, 2}, Starts |-> {1, 3}, LastDay |-> 5, SmoothHalf |-> 1,
   MinFall |-> 4, SmaDays |-> 2, Window |-> 2, Flagged |-> {}, TopLosses |-> 1, Step |-> 2,
   MinDays |-> 2, AfterDays |-> 2, MonthDays |-> 1, YearMonths |-> 2]
MCForMonths ==
  [Prices |-> {0, 2, 5}, Values |-> {1}, Starts |-> {1, 3}, LastDay |-> 8, SmoothHalf |-> 1,
   MinFall |-> 4, SmaDays |-> 2, Window |-> 2, Flagged |-> {}, TopLosses |-> 1, Step |-> 2,
   MinDays |-> 2, AfterDays |-> 2, MonthDays |-> 1, YearMonths |-> 2]
MCForTold ==
  [Readings |-> 0..5, MaxDays |-> 5, Zones |-> << [from |-> 1, to |-> 2, line |-> FALSE],
   [from |-> 4, to |-> 4, line |-> TRUE], [from |-> 2, to |-> 3, line |-> FALSE] >>]
MCForHeat ==
  [Levels |-> <<2, 3, 4, 6, 8, 11, 13>>, Width |-> 2, Top |-> 7, MaxSupply |-> 2, Share |-> 6,
   Named |-> 2]
MCForCurve ==
  [Interval |-> 4, Subsidy |-> 9, StepBlocks |-> 3, TailBlocks |-> 2, Dated |-> 2,
   MaxHeight |-> 13]
MCForThinned ==
  [Halvings |-> {1, 5, 8}, Points |-> 3, Targets |-> 0..4, MaxDay |-> 11]
MCForLatest ==
  [Requests |-> {1, 2}, Kinds |-> {"latest", "heatmap"}, Readings |-> {1, 2}, Week |-> 2,
   SparkDays |-> 2, TTL |-> 3, MaxBuild |-> 2, MaxRewinds |-> 1, MaxCommits |-> 2,
   MaxTime |-> 0]
MCForCard ==
  [Requests |-> {1, 2}, Kinds |-> {"card"}, Readings |-> {1, 2}, Week |-> 2, SparkDays |-> 2,
   TTL |-> 3, MaxBuild |-> 2, MaxRewinds |-> 0, MaxCommits |-> 0, MaxTime |-> 7]
MCForRacing ==
  [Lines |-> {"mvrv", "sopr"}, Panels |-> {"runs"}, SmaLines |-> {"mvrv"}, Active |-> {"mvrv"},
   Ranges |-> {1, 2}, InOrder |-> FALSE, MaxActs |-> 2, MaxFlashes |-> 0]
MCForChoosing ==
  [Lines |-> {"mvrv", "sopr"}, Panels |-> {"runs", "clock"}, SmaLines |-> {"mvrv", "sopr"},
   Active |-> {"mvrv"}, Ranges |-> {1, 2}, InOrder |-> TRUE, MaxActs |-> 3, MaxFlashes |-> 1]
MCForEditor ==
  [Drafts |-> {0, -1}, Admin |-> {"x1"}, MaxDeploys |-> 0, MaxCalls |-> 4]
MCForEditors ==
  [Drafts |-> {0}, Admin |-> {"x1", "x2"}, MaxDeploys |-> 0, MaxCalls |-> 2]
MCForReleased ==
  [Drafts |-> {0}, Admin |-> {"x1"}, MaxDeploys |-> 1, MaxCalls |-> 2]
MCForCompose ==
  [MaxNews |-> 2, MaxEdits |-> 2, MaxCalls |-> 4, MaxLost |-> 1]
MCForSign ==
  [Metrics |-> {1, 2}, Thresholds |-> {1, 2}, Steady |-> FALSE, MaxActs |-> 5]
MCForFew ==
  [Xs |-> {0, 1, 2, 4, 7}, Ys |-> {0, 1, 2}, Width |-> 3, Step |-> 2, Levels |-> 4,
   MaxLabels |-> 4]
MCForDrawn ==
  [Values |-> {0, 2, 3}, Closes |-> {0, 5}, Window |-> 2, Ranges |-> {2, 3, 9}, Ahead |-> 2,
   MaxDays |-> 5]

---------------------------------------------------------------------------
(* Properties *)

\* Each component's variables have their types.
TypeOK ==
  /\ part \in Parts
  /\ part = "thinned" => Thinned!TypeOK
  /\ part = "latest" => Latest!TypeOK
  /\ part = "racing" => Racing!TypeOK
  /\ part = "editor" => Editor!TypeOK
  /\ part = "compose" => Compose!TypeOK
  /\ part = "sign" => Sign!TypeOK
  /\ part = "few" => Few!TypeOK
  /\ part = "drawn" => Drawn!TypeOK

\* The charts tell the past as they will always tell it, and one as the other.
\* The cycle of an epoch that has been over for half a median's window never
\* changes as days come and go, a bear that is found fell from its epoch's highest
\* close, one bad print makes no bear, the largest rally is the largest there is,
\* the moving average is that of its window, and panels are cut by calendar days,
\* days without a row included (bottoms.js).  Runs and bears take turns and fill
\* the time between two peaks, the lengths of the open bear differ only where its
\* last days are flagged or have no close, at a high all have recovered, and the
\* shares nest (cycleCharts.js).  On the clock the days of an epoch lie in order
\* on its ring, the newest is always drawn, a reading at an hour is the nearest
\* there is, what is said to have followed did, and the days since a high and the
\* hour are those of the other charts (clock.js).
ChartsAgree ==
  /\ part = "grow" /\ Daily!Served => Grow!SettledCyclesStand
  /\ part = "spike" /\ Daily!Served => Spike!OnePrintMakesNoBear
  /\ part = "daily" /\ Daily!Served =>
       /\ Daily!BearsFall /\ Daily!LargestRally /\ Daily!SmaIsTheWindow
       /\ Daily!PanelsByCalendar /\ Daily!RunsAndBearsAlternate /\ Daily!BearLengthsAgree
       /\ Daily!CardsAddUp /\ Daily!AtTheHighAllHaveRecovered /\ Daily!SharesNested
  /\ part = "hour" /\ Daily!Served =>
       /\ Hour!DaysInOrder /\ Hour!LastDayOnTheRing /\ Hour!NearestReading
       /\ Hour!BisectionFindsTheFirst /\ Hour!ForwardIsHistory
       /\ Hour!DaysSinceAgree /\ Hour!HourAgrees

\* What the panels and the sentence under a metric claim is so (storyCharts.js,
\* story.js): the largest loss is the largest since the peak, a hand-over reads
\* the line it names, episodes are the runs of stressed days that are long
\* enough, without gaps the spans compared are as long as each other, the median
\* splits the months there have been and months compound to the year; `never'
\* is said of a metric that never was in a band, the streak is the longest there
\* is, and a record is higher than all of history.
StoryAgrees ==
  /\ part = "charts" /\ Daily!Served =>
       Charts!LargestLossSincePeak /\ Charts!HandoffReadsItsLine /\ Charts!EpisodesAreTheRuns
  /\ part = "months" /\ Daily!Served =>
       Months!SameSpanWithoutGaps /\ Months!MedianSplitsHistory /\ Months!MonthsCompound
  /\ part = "told" =>
       Told!NeverMeansNever /\ Told!StreakIsTheLongest /\ Told!RecordIsOneHundred

\* No coin is lost or made by arithmetic: the supply curve issues per epoch what
\* its blocks issue one by one, is straight between its points, ends at one cap
\* from every tip and marks each dated halving once (supply.js, api.js:389-405);
\* the heatmap's rows hold what the buckets hold between the grid's edges, and
\* the ranges it names are the heaviest (heatmap.js).
SupplyExact ==
  /\ part = "curve" =>
       Curve!IssuanceIsTheSum /\ Curve!SegmentsAreExact /\ Curve!OneCap /\ Curve!MarkersMeet
  /\ part = "heat" => Heat!SupplyConserved /\ Heat!ClustersAreTheLargest

\* What is served and drawn is there: a thinned series spans its range and the
\* newest day is on its epoch's line (api.js:81-105, 376-386); averages are of a
\* whole window, nothing at or below zero reaches a logarithmic axis, the
\* projection starts where the rows end (sma.js, MetricDetail.jsx:240-300); and
\* as long as labels are few none covers another (cycleRows.js, storyMarks.js).
RowsShown ==
  /\ part = "thinned" => Thinned!SeriesSpansTheRange /\ Thinned!NewestIsOnItsEpoch
  /\ part = "drawn" => Drawn!AverageIsOfAWindow /\ Drawn!LogIsPositive /\ Drawn!ProjectionMeets
  /\ part = "few" => Few!FewNeverClash /\ Few!StaggeredApart /\ Few!MarksAreNearest
=============================================================================
