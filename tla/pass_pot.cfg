CONSTANTS
  p1 = p1  p2 = p2
  Pass <- Passes
  Rate = 1
  MaxTokens = 1
  MaxRuns = 2
  MaxReplans = 1
  MaxBatch = 1
  MaxCall = 2
  Funds = 1
  MaxFunds = 2
  LateSweep = FALSE
SPECIFICATION FairSpec
INVARIANTS PotNotOversold EndedHoldsNothing
PROPERTIES HoldsReturn
CHECK_DEADLOCK FALSE
