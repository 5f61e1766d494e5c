CONSTANTS
  s1 = s1
  n1 = n1
  n2 = n2
  Services = {s1}
  Names = {n1, n2}
  NoName = NoName
  MaxLives = 3
  MaxInits = 2
  MaxRenames = 2
SPECIFICATION Spec
INVARIANTS
  TypeOK
  RegistryFollowsBus
  ConnectionAccounted
  NameSettles
PROPERTIES
  EventuallyRegistered
CHECK_DEADLOCK FALSE
