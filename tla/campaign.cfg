\* A campaign of up to three cycles in waves of two, beside standalone orchestrations.
CONSTANTS
  Orch = {o1, o2}
  Camp = {c1}
  NoOrch = NoOrch
  NoCamp = NoCamp
  MaxPasses = 1
  MaxCycles = 3
  Width = 2
  ErrorBudget = 2
  MaxEligible = 2
SPECIFICATION FairSpec
INVARIANTS OneLoop ErrorsAreTrailing CancelBites CompletedLeavesNone StopsForCause
PROPERTY CampaignEnds
CHECK_DEADLOCK FALSE
