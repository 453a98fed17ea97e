CONSTANTS
  Request = {r1, r2}
  None = None
  Bootstrap = FALSE
  Idle = TRUE
  MaxRequests = 3
  MaxMints = 0
SPECIFICATION Spec
INVARIANT
  KeysAreZeroedAtExit
CHECK_DEADLOCK FALSE
