CONSTANTS
  OIDs = {a, b}
  MaxLen = 3
  MaxInsert = 2
SPECIFICATION Spec
INVARIANT PlsCheck
