CONSTANTS
  Instances = {w1, w2}
  Templates = {t1}
  Handlers = {h1, h2}
  PostedTypes = {"plan", "execute", "review", "other"}
  StageLists <- MCGoodLists
  MaxStages = 3
  PatchStatuses = {}
  Faults = FALSE
  MaxInFlight = 2
  MaxRequests = 5
  NoInstance = NoInstance
  NoTemplate = NoTemplate
SPECIFICATION CalmFairSpec
INVARIANTS CalmExact EndHasFinisher StartedHasStarter
PROPERTIES EndReachedIsCompleted StartedIsAnnounced
CHECK_DEADLOCK FALSE
