CONSTANTS
  p1 = p1  p2 = p2  p3 = p3
  NoOne = NoOne
  Pass <- ThreePasses
  Routed <- OnePass
  Threads <- TwoThreads
  Orch = {o1}
  Cycles = 1
  Concurrency = 2
  MaxPasses = 2
  MaxRuns = 0
  Funds = 1
  MaxFunds = 2
  Rate = 1
  MaxTokens = 1
  MaxReplans = 0
  MaxBatch = 1
  MaxCall = 1
  LateSweep = FALSE
SPECIFICATION OFairSpec
INVARIANTS NoneLeftRunning DecidedOnce
PROPERTY OrchestrationEnds
CHECK_DEADLOCK FALSE
