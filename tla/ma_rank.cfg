CONSTANTS
  MaxRows = 3
  MaxWords = 2
  Limit = 2
SPECIFICATION FairSpec
INVARIANTS TypeOK Accounted BestMatches
PROPERTY Answers
CHECK_DEADLOCK FALSE
