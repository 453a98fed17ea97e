CONSTANTS
  Passphrase = {p1, p2}
  Absent = Absent
  Torn = Torn
  None = None
  MaxEdits = 3
  MaxKeys = 4
SPECIFICATION Spec
INVARIANTS
  TypeOK
  AckedIsRecoverable
  EveryImageOpens
  OldPassphraseRetired
  SessionHoldsDiskHeader
  BackupIsNotNewer
PROPERTIES
  CachedKeyKeepsOpening
  ImplementsRegister
CHECK_DEADLOCK FALSE
