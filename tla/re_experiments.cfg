CONSTANTS
  MaxRows = 3
  NULL = NULL
  done1 = done1
  done2 = done2
  end1 = end1
  w1 = w1
  GivenScores <- MCGivenScores
  Workflows <- MCWorkflows
  Results <- MCResults
  Conclusions <- MCConclusions
  Priorities = {0, 1}
  Limits = {0, 1, 101}
SPECIFICATION Spec
INVARIANT ExperimentsListed
