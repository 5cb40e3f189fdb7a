CONSTANTS
  Block <- MCBlock
  Coin <- MCCoin
  Branch <- OneBranch
  MaxHeight = 5
  DayOf <- DayShared
  Creates <- MCCreates
  Inputs <- MCInputs
  Burns <- MCBurns
  Value <- MCValue
  Owner <- MCOwner
  BatchBlocks = 2
  ScanDepth = 2
  PruneDepth = 0
  PruneEvery = 1
  LastClose = 3
  MaxReorgs = 0
  MaxReorgDepth = 0
  ReorgDuringPass = FALSE
  MaxFaults = 2
  MaxProbeFaults = 1
SPECIFICATION FairSpec
INVARIANT FinalizedDaysExact
INVARIANT NoDayMissed
INVARIANT SupplyIsUnspentPlusBurned
PROPERTY CatchesUp
