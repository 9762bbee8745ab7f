SPECIFICATION FairSpec
CONSTANTS
  Ids = {a}
  Generations = {g1, g2}
  Keys = {k1}
  Jobs = {j1, j2}
  Refreshers = {r1}
  Watchers = {w1}
  Capacity = 1
  MaxRevision = 4
  Events = {"cancel", "replace", "close"}
  None = None
INVARIANTS
  MetadataIsConsistent
PROPERTIES
  WatchersFollowFeed
  EveryRevisionArrives
  ObservationsSettle
CHECK_DEADLOCK FALSE
