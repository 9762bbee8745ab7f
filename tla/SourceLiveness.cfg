SPECIFICATION FairSpec
CONSTANTS
  Emitters = {p1}
  Modes = {"updates"}
  Window = 1
  MaxFrames = 2
  Events = {"retire", "break", "limit"}
  Root = Root
  None = None
PROPERTIES
  SessionSettles
CHECK_DEADLOCK FALSE
