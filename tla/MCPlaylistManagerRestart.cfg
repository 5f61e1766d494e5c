CONSTANTS
  a1 = a1
  Apps = {a1}
  MaxId = 2
  MaxRefs = 2
  MaxQueue = 2
  MaxRestarts = 1
SPECIFICATION Spec
PROPERTY RemovesWhatIsGone
CHECK_DEADLOCK FALSE
