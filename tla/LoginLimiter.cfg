CONSTANTS
  Handler = {h1, h2, h3}
  Window = 6
  Thresh = 3
  Cooloff = 3
  MaxTime = 12
SPECIFICATION Spec
SYMMETRY Handlers
INVARIANTS
  TypeOK
  GuessingIsThrottled
  LockoutIsEarned
CHECK_DEADLOCK FALSE
