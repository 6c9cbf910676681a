SPECIFICATION FairSpec
CONSTANTS
  evalAll = evalAll
  other = other
  Commands <- Two
  LockUsers <- LockOrNot
  MayRevert = FALSE
  MaxEdits = 2
  MaxCleans = 1
  MaxCrashes = 2
INVARIANTS
  TypeOK
  TrustedIsCurrent
  UsedIsWhole
  UnlockedRepoIsCurrent
PROPERTY CacheSettles
