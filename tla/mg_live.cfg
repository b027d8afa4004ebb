CONSTANTS
  Servers = {a, b, c}
  N = 3
  Rerunnable = {1, 2}
  Seeds = {2}
  Refusals <- MCNone
  Faults = FALSE
  MaxStarts = 4
SPECIFICATION FairSpec
INVARIANTS RestIsServing
PROPERTY ServesEventually
CHECK_DEADLOCK FALSE
