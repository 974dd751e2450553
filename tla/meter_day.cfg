CONSTANTS
  s1 = s1
  s2 = s2
  a1 = a1
  a2 = a2
  Session = {s1, s2}
  Request = {r1, r2, r3}
  Actor = {a1}
  CredentialsOf <- SharedSeat
  AgentCap <- Caps
  Nobody = Nobody
  MaxTurns = 1
  DayCap = 2
  Floor = 1
  TTL = 2
  MaxTurn = 1
  DayLen = 3
  Pot = 3
  Funded = TRUE
  Overshoot = 1
  QuietMidnight = TRUE
  MaxNow = 4
SYMMETRY Symmetry
SPECIFICATION Spec
CHECK_DEADLOCK FALSE
INVARIANTS RunningTurnHolds DailyCap LedgerBalances AgentCapHolds
PROPERTIES HonestRefusal ImplementsSlot
