CONSTANTS
  t1 = t1
  b1 = b1
  b2 = b2
  b3 = b3
  c1 = c1
  n1 = n1
  s1 = s1
  s2 = s2
  Thread = {t1}
  Branch = {b1, b2, b3}
  Claim = {}
  TagName = {n1}
  Slot = {s1, s2}
  Worker = {s1, s2}
  Main = Main
  NoThread = NoThread
  NoClaim = NoClaim
  Outcome = {}
  Run <- Proof
  MaxParents = 0
  MaxStamps = 4
SPECIFICATION Spec
SYMMETRY Symmetry
CHECK_DEADLOCK FALSE
INVARIANTS  AgentLinesBounded
PROPERTIES SealedStaysQuiet
