CONSTANTS
  UintMod = 16
  CharMod = 8
  NotAvailable = 7
  Calls = {1, 2}
  Ops <- MCOps
  Playlists = {1}
  GValues <- MCGValues
  Full = 2
  MaxEvents = 3
  MaxMixed = 2
  Null = Null
  Text = Text
  Empty = Empty
  Frozen = Frozen
  Domain = Domain
  Faults = {}
SPECIFICATION Spec
INVARIANTS
  TypeOK
  MessagesParse
  RefsAreHolders
  OutcomeIsTrue
  ShownIsReported
PROPERTIES
  CallsAnswered
CHECK_DEADLOCK FALSE
