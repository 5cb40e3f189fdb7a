CONSTANTS
  Block <- MCBlock
  Coin <- MCCoin
  Branch <- ThreeBranches
  MaxHeight = 5
  DayOf <- DayPerBlock
  Creates <- MCCreates
  Inputs <- MCInputs
  Burns <- MCBurns
  Value <- MCValue
  Owner <- MCOwner
  BatchBlocks = 2
  ScanDepth = 3
  PruneDepth = 0
  PruneEvery = 1
  LastClose = 4
  MaxReorgs = 2
  MaxReorgDepth = 3
  ReorgDuringPass = TRUE
  MaxFaults = 0
  MaxProbeFaults = 2
SPECIFICATION Spec
INVARIANT NoRowAheadOfChain
