CONSTANTS
  c1 = c1
  c2 = c2
  n1 = n1
  n2 = n2
  Clients = {c1, c2}
  Names = {n1}
  MaxId = 2
  MaxUse = 2
  MaxInbox = 2
  UintMod = 6
  Calls <- Using
  Faults = {}
SPECIFICATION FairSpec
INVARIANTS
  UseCountIsHolders
  UsedIsKept
PROPERTIES
  GoneEventuallyReleased
CHECK_DEADLOCK FALSE
