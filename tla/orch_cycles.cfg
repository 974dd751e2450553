CONSTANTS
  p1 = p1  p2 = p2  p3 = p3
  NoOne = NoOne
  Pass <- TwoPasses
  Routed <- NoPasses
  Threads <- TwoThreads
  Orch = {o1, o2}
  Cycles = 2
  Concurrency = 2
  MaxPasses = 1
  MaxRuns = 0
  Funds = 1
  MaxFunds = 2
  Rate = 1
  MaxTokens = 1
  MaxReplans = 0
  MaxBatch = 1
  MaxCall = 0
  LateSweep = FALSE
SPECIFICATION OSpec
INVARIANTS OneCyclePerThread CountsItsPasses
PROPERTY ImplementsRows
SYMMETRY Symmetry
CHECK_DEADLOCK FALSE
