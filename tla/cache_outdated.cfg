SPECIFICATION Spec
CONSTANTS
  evalAll = evalAll
  other = other
  Commands <- Two
  LockUsers <- OneLock
  MayRevert = TRUE
  MaxEdits = 2
  MaxCleans = 1
  MaxCrashes = 0
INVARIANT TrustedIsCurrent
