CONSTANTS
  i1 = i1
  i2 = i2
  Imports = {i1, i2}
  MaxItems = 2
SPECIFICATION FairSpec
INVARIANTS
  CancelHolds
  DataLivesWithWork
PROPERTIES
  AnsweredOnce
  EventuallyAnswered
CHECK_DEADLOCK FALSE
