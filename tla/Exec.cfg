SPECIFICATION FairSpec
CONSTANTS
  Creates = {c1, c2}
  Resource = {c1}
  Ids = {i}
  IdOf <- SameId
  Capacity = 1
  MaxChunks = 2
  MaxEvents = 3
  None = None
INVARIANTS
  RegisteredWhileRunning
  AttachmentMissesNothing
PROPERTIES
  EverySessionEnds
CHECK_DEADLOCK FALSE
