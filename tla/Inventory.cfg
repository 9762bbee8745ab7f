SPECIFICATION FairSpec
CONSTANTS
  Ids = {i1}
  Publics = {"a", "b"}
  Privates = {"s"}
  Displays = {"d", "e"}
  Offered <- NativeAndOverride
  Nil = Nil
  Absent = Absent
  None = None
  p1 = p1
  p2 = p2
  p3 = p3
  Callers = {p1, p2}
  Calls <- InventoryCalls
  Generations = {g1}
INVARIANTS
  ServesPublishedProfile
  PublishedMatchesDesired
PROPERTIES
  EveryCallReturns
  RetirementCompletes
