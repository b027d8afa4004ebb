CONSTANTS
  Instances = {w1, w2}
  Templates = {t1}
  Handlers = {h1, h2, h3}
  PostedTypes = {"plan", "execute", "review", "other"}
  StageLists <- MCLists
  MaxStages = 3
  PatchStatuses = {"active"}
  Faults = TRUE
  MaxInFlight = 3
  MaxRequests = 5
  NoInstance = NoInstance
  NoTemplate = NoTemplate
SYMMETRY Symmetry
SPECIFICATION Spec
INVARIANTS TypeOK AnnouncedIsWhole StageIsBacked CompletedIsEarned ViewConsistent
PROPERTY LedgerKept
CHECK_DEADLOCK FALSE
