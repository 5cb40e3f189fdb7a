CONSTANTS
  Block <- MCBlock
  Coin <- MCCoin
  Branch <- ThreeBranches
  MaxHeight = 5
  DayOf <- DayLateRival
  Creates <- MCCreates
  Inputs <- MCInputs
  Burns <- MCBurns
  Value <- MCValue
  Owner <- MCOwner
  BatchBlocks = 2
  ScanDepth = 2
  PruneDepth = 1
  PruneEvery = 1
  LastClose = 3
  MaxReorgs = 2
  MaxReorgDepth = 1
  ReorgDuringPass = FALSE
  MaxFaults = 1
  MaxProbeFaults = 0
SPECIFICATION Spec
INVARIANT SpendsPricedAtCreation
