SPECIFICATION Spec
CONSTANTS
  Emitters = {p1, p2}
  Modes = {"snapshot", "updates"}
  Window = 1
  MaxFrames = 2
  Events = {"retire", "break", "timeout"}
  Root = Root
  None = None
SYMMETRY EmitterSymmetry
INVARIANTS
  WireIsOneSession
  OutcomesAreTruthful
  FollowingIsUnlimited
CHECK_DEADLOCK FALSE
