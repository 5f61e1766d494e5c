CONSTANTS
  c1 = c1
  c2 = c2
  n1 = n1
  n2 = n2
  Clients = {c1}
  Names = {n1, n2}
  MaxId = 3
  MaxUse = 1
  MaxInbox = 1
  UintMod = 6
  Calls <- Listing
  Faults = {"exit", "kill", "save", "elsewhere"}
SPECIFICATION Spec
SYMMETRY NamesAlike
INVARIANTS
  TreesAgreeUnlessLost
  FilesMatch
PROPERTIES
  RestartKeepsPlaylists
