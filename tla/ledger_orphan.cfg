CONSTANTS
  t1 = t1
  b1 = b1
  c1 = c1
  s1 = s1
  s2 = s2
  Thread = {t1}
  Branch = {b1}
  Claim = {c1}
  TagName = {}
  Slot = {s1, s2}
  Worker = {s1}
  Main = Main
  NoThread = NoThread
  NoClaim = NoClaim
  Outcome = {}
  Run <- Proof
  MaxParents = 0
  MaxStamps = 5
SPECIFICATION Spec
CHECK_DEADLOCK FALSE
INVARIANTS EvidenceHasProvenance
