CONSTANTS
  Actors = {a1}
  Handlers = {h1, h2, h3}
  Unit = 2
  Outcomes = {0, 2}
  Alphas <- MCAlphas
  Faults = TRUE
  MaxInFlight = 3
  MaxRequests = 5
  NoRow = NoRow
  NoOutcome = NoOutcome
  NoActor = NoActor
SYMMETRY Symmetry
SPECIFICATION CalmSpec
INVARIANTS TypeOK RowExplained ScoreMatches ScoreInRange VersionsDense CalmExact CalmVersions
PROPERTY FirstIsNeutral
CHECK_DEADLOCK FALSE
