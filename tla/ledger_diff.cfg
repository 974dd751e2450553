CONSTANTS
  t1 = t1
  b1 = b1
  b2 = b2
  b3 = b3
  c1 = c1
  n1 = n1
  s1 = s1
  s2 = s2
  Thread = {t1}
  Branch = {b1, b2}
  Claim = {c1}
  TagName = {n1}
  Slot = {s1, s2}
  Worker = {}
  Main = Main
  NoThread = NoThread
  NoClaim = NoClaim
  Outcome = {"contradicts"}
  Run <- Runs
  MaxParents = 2
  MaxStamps = 4
SPECIFICATION Spec
SYMMETRY Symmetry
CHECK_DEADLOCK FALSE
INVARIANTS BlameCreditsRung ForwardDiffOnlyAdds BlameExplainsDiff
PROPERTIES SettledStays
