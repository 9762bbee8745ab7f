SPECIFICATION FairSpec
CONSTANTS
  Starts = {r1}
  Resource = {r1}
  Named = {n1}
  Closers = {c1}
  Events = {"cancel", "stop", "retire"}
  None = None
INVARIANTS
  TunnelWithinGeneration
PROPERTIES
  AcceptedTunnelOutlivesRequest
  EveryStartReturns
  LeasesComeBack
