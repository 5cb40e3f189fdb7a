CONSTANTS
  ForDaily <- MCForDaily
  ForSpike <- MCForSpike
  ForGrow <- MCForGrow
  ForHour <- MCForHour
  ForCharts <- MCForCharts
  ForMonths <- MCForMonths
  ForTold <- MCForTold
  ForHeat <- MCForHeat
  ForCurve <- MCForCurve
  ForThinned <- MCForThinned
  ForLatest <- MCForLatest
  ForCard <- MCForCard
  ForRacing <- MCForRacing
  ForChoosing <- MCForChoosing
  ForEditor <- MCForEditor
  ForEditors <- MCForEditors
  ForReleased <- MCForReleased
  ForCompose <- MCForCompose
  ForSign <- MCForSign
  ForFew <- MCForFew
  ForDrawn <- MCForDrawn
SPECIFICATION Spec
INVARIANTS
  TypeOK ChartsAgree StoryAgrees SupplyExact
  RowsShown AnswersAreWhole ScreenIsTheMetric CopyTellsTheTruth FormsSendOnce
PROPERTY StepsHold
CHECK_DEADLOCK FALSE
