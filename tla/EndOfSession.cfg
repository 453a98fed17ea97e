CONSTANTS
  Secret = {a, b}
  None = None
  MaxCopies = 2
  MaxSaves = 2
SPECIFICATION FairSpec
INVARIANTS
  TypeOK
  SecretIsWatched
  LastSecretIsBeingCleared
  OnlyIdleLockWipesUnderCommands
PROPERTY
  SecretsAreCleared
CHECK_DEADLOCK FALSE
