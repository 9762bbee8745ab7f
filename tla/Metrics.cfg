SPECIFICATION FairSpec
CONSTANTS
  Lanes = {l1, l2}
  Leased = {l1}
  Ids = {a, b}
  Full = 3
  Compact = 1
  MaxBytes = 4
  MaxIds = 2
  Buffer = 1
  MaxEvents = 3
  None = None
INVARIANTS
  LateOutputIsBounded
  AccountingIsExact
  AdmittedIsPolled
PROPERTIES
  LaneDrains
CHECK_DEADLOCK FALSE
