CONSTANTS
  r1 = r1
  r2 = r2
  Reqs = {r1, r2}
  MaxItems <- Lengths
  INITIAL_MAX_RESULTS = 1
  MAX_BROWSE_RESULT = 2
  ErrorEnds = TRUE
SPECIFICATION FairSpec
INVARIANTS
  TypeOK
  UserDataLive
PROPERTIES
  ImplementsDelivery
  ResultsArrive
  NothingLeaks
CHECK_DEADLOCK FALSE
