CONSTANTS
  c1 = c1
  c2 = c2
  c3 = c3
  Call = {c1, c2, c3}
  Slots = 1
  Question <- MCQuestion
  Parts <- MCParts
  Awaited <- MCRetrieval
  Asks <- MCAsks
  Verdicts <- MCVerdicts
  None = None
SPECIFICATION FairSpec
INVARIANTS SlotsConserved NoStrayChild MintedFromAnswer GradesEarned
PROPERTIES EveryCallEnds ImplementsWorkbench
