SPECIFICATION FairSpec
CONSTANTS
  r1 = r1
  l1 = l1
  p1 = p1
  Writers = {r1, l1, p1}
  Kind <- KindOf
  Saves = {r1, l1}
  Change <- Changes
  Settings = {"a", "b", "c"}
  CategoryOf <- OneCategory
  Initial <- InitialSettings
  Normal <- NormalForm
  None = None
INVARIANTS
  RefusedCommitHasNoEffect
  DurableIsAppliedOrInDoubt
PROPERTIES
  ChangesAreNotified
  EveryCommitReturns
  DefinitionsChangeByRegistration
CHECK_DEADLOCK FALSE
