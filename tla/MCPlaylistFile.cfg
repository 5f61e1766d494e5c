CONSTANTS
  a = a
  b = b
  OIDs = {a}
  MaxLen = 2
  MaxInsert = 1
  Cut <- WholeIds
  Prefix <- Prefixes
  Faults = {"write", "rename", "kill"}
  Cwds = {TRUE}
SPECIFICATION FairFSpec
INVARIANTS
  NoEditForgotten
PROPERTIES
  SavedComesBack
  EventuallySaved
