CONSTANTS
  c1 = c1
  c2 = c2
  e1 = e1
  e2 = e2
  Clients = {c1, c2}
  Extensions = {e1, e2}
  Activatable = {e1, e2}
  MaxInbox = 3
  Faults = {}
SPECIFICATION Spec
INVARIANTS
  TypeOK
  NoDanglingHolder
  ActiveIsWanted
CHECK_DEADLOCK FALSE
