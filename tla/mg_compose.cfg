CONSTANTS
  Servers = {a}
  N = 10
  Rerunnable = {1, 2, 3, 4}
  Seeds = {2}
  Refusals <- MCThird
  Faults = FALSE
  MaxStarts = 3
SPECIFICATION FairSpec
PROPERTY ServesEventually
CHECK_DEADLOCK FALSE
