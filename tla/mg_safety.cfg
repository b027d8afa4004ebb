CONSTANTS
  Servers = {a, b, c}
  N = 4
  Rerunnable = {1, 2, 3}
  Seeds = {2}
  Refusals <- MCSome
  Faults = TRUE
  MaxStarts = 5
SYMMETRY Symmetry
SPECIFICATION Spec
INVARIANTS TypeOK RecordedOnce RefusedStops
PROPERTY HistoryKept
CHECK_DEADLOCK FALSE
