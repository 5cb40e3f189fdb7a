CONSTANTS
  Block <- MCBlock
  Coin <- MCCoin
  Branch <- ThreeBranches
  MaxHeight = 5
  DayOf <- DayShared
  Creates <- MCCreates
  Inputs <- MCInputs
  Burns <- MCBurns
  Value <- MCValue
  Owner <- MCOwner
  BatchBlocks = 2
  ScanDepth = 5
  PruneDepth = 1
  PruneEvery = 1
  LastClose = 3
  MaxReorgs = 1
  MaxReorgDepth = 2
  ReorgDuringPass = FALSE
  MaxFaults = 0
  MaxProbeFaults = 0
SPECIFICATION Spec
INVARIANT StoredChainLinked
