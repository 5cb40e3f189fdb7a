CONSTANTS
  Block <- MCBlock
  Coin <- MCCoin
  Branch <- ThreeBranches
  MaxHeight = 5
  DayOf <- DayShared
  Creates <- MCCreates
  Inputs <- MCInputs
  Burns <- MCBurns
  Value <- MCValue
  Owner <- MCOwner
  BatchBlocks = 2
  ScanDepth = 3
  PruneDepth = 0
  PruneEvery = 1
  LastClose = 3
  MaxReorgs = 2
  MaxReorgDepth = 3
  ReorgDuringPass = TRUE
  MaxFaults = 1
  MaxProbeFaults = 2
SPECIFICATION Spec
INVARIANT TypeOK
INVARIANT IndexAgrees
INVARIANT RowsBacked
INVARIANT SupplyReconciles
INVARIANT RollupReconciles
INVARIANT StagingExact
