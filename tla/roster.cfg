CONSTANTS
  Account = {a, b}
  Founder = a
  Named = {g}
  Crew = Crew
  Token = {t1, t2}
  Slot = {s1, s2}
  CrewRace = FALSE
  NoOne = NoOne
SPECIFICATION Spec
SYMMETRY Symmetry
INVARIANTS OneOwner MemberAccepted LiveTokensAct SeatsChosen
PROPERTY ImplementsDoor
