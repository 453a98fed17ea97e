CONSTANTS
  Request = {r1, r2}
  None = None
  Bootstrap = TRUE
  Idle = TRUE
  MaxRequests = 3
  MaxMints = 2
SPECIFICATION FairSpec
INVARIANTS
  TypeOK
  KeysAreHeldOrZeroed
  HeldKeysAreIntact
  ActiveSessionsAreTimed
  OnlyLogoutsOutliveShutdown
PROPERTIES
  AnswersComeFromLiveSessions
  IdleSessionsLock
CHECK_DEADLOCK FALSE
