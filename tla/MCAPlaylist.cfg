CONSTANTS
  OIDs = {a, b}
  MaxLen = 3
  MaxInsert = 2
SPECIFICATION SafeSpec
INVARIANTS
  TypeOK
  PlsCheck
  ReplyIsNeighbour
  TimerOnlyWhenDirty
PROPERTIES
  ImplementsPlayOrder
