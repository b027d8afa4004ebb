CONSTANTS
  Instances = {w1}
  Templates = {t1}
  Handlers = {h1}
  PostedTypes = {"plan", "execute", "review", "other"}
  StageLists <- MCDefaultLists
  MaxStages = 3
  PatchStatuses = {}
  Faults = FALSE
  MaxInFlight = 1
  MaxRequests = 4
  NoInstance = NoInstance
  NoTemplate = NoTemplate
SPECIFICATION Spec
INVARIANT StagesInOrder
CHECK_DEADLOCK FALSE
