CONSTANTS
  Secret = {a, b}
  None = None
  MaxCopies = 2
  MaxSaves = 1
SPECIFICATION Spec
INVARIANT
  SecretDiesWithSession
CHECK_DEADLOCK FALSE
