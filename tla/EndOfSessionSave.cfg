CONSTANTS
  Secret = {a, b}
  None = None
  MaxCopies = 2
  MaxSaves = 1
SPECIFICATION Spec
INVARIANT
  SavesUseTheKey
CHECK_DEADLOCK FALSE
