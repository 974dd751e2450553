CONSTANTS
  p1 = p1  p2 = p2  p3 = p3
  NoOne = NoOne
  Pass <- ThreePasses
  Routed <- NoPasses
  Threads <- ThreeThreads
  Orch = {o1}
  Cycles = 1
  Concurrency = 3
  MaxPasses = 3
  MaxRuns = 0
  Funds = 2
  MaxFunds = 2
  Rate = 1
  MaxTokens = 1
  MaxReplans = 0
  MaxBatch = 1
  MaxCall = 1
  LateSweep = FALSE
SPECIFICATION OFairSpec
PROPERTIES OrchestrationEnds
CHECK_DEADLOCK FALSE
