CONSTANTS
  Passphrase = {p1, p2}
  Absent = Absent
  Torn = Torn
  None = None
  MaxEdits = 2
  MaxKeys = 3
SPECIFICATION Spec
PROPERTY
  LastFileIsKept
CHECK_DEADLOCK FALSE
