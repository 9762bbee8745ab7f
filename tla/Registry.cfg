SPECIFICATION Spec
CONSTANTS
  Ids = {i1, i2}
  Publics = {a}
  Privates = {}
  Displays = {d}
  Offered <- OneProfile
  Nil = Nil
  Absent = Absent
  None = None
  p1 = p1
  p2 = p2
  p3 = p3
  Callers = {p1, p2, p3}
  Calls <- BatchCalls
  Generations = {g1, g2}
SYMMETRY RegistrySymmetry
INVARIANTS
  NoUseAfterTeardown
  OneClientPerConnection
  StatusIsTruthful
  CloseLeavesNothing
PROPERTIES
  DrainBeforePublish
