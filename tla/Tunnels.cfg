SPECIFICATION Spec
CONSTANTS
  Starts = {r1, s1}
  Resource = {r1}
  Named = {n1}
  Closers = {c1}
  Events = {"stop"}
  None = None
INVARIANTS
  NoOrphanTunnel
  FailedStartLeavesNoTunnel
  StopAllIsFinal
  CloseIsNotFailure
