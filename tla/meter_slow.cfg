CONSTANTS
  s1 = s1
  s2 = s2
  a1 = a1
  a2 = a2
  Session = {s1}
  Request = {r1, r2}
  Actor = {a1, a2}
  CredentialsOf <- Replaced
  AgentCap <- NoCaps
  Nobody = Nobody
  MaxTurns = 1
  DayCap = 2
  Floor = 1
  TTL = 1
  MaxTurn = 2
  DayLen = 3
  Pot = 3
  Funded = FALSE
  Overshoot = 0
  QuietMidnight = TRUE
  MaxNow = 3
SPECIFICATION FairSpec
CHECK_DEADLOCK FALSE
PROPERTY HoldsComeBack
