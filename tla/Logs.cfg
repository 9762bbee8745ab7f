SPECIFICATION Spec
CONSTANTS
  c1 = c1
  c2 = c2
  Creates = {c1, c2}
  Resource = {c1}
  Ids = {i}
  IdOf <- SameId
  Sources = {s1, s2}
  SourcesOf <- FirstHasSources
  Resolving = {c1}
  Limit = 1
  MaxAttempts = 0
  MaxLaunches = 2
  MaxEvents = 2
  Closers = {k1}
  Updaters = {u1}
  None = None
SYMMETRY SourceSymmetry
INVARIANTS
  NoOrphanSession
  InitializingIsPending
PROPERTIES
  TerminalStatusSticks
CHECK_DEADLOCK FALSE
