CONSTANTS
  Request = {r1}
  None = None
  Bootstrap = TRUE
  Idle = TRUE
  MaxRequests = 3
  MaxMints = 1
SPECIFICATION Spec
INVARIANT
  LoggedOutMustLogin
CHECK_DEADLOCK FALSE
