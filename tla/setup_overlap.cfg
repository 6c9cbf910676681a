SPECIFICATION FairSpec
CONSTANTS
  eval = eval
  prepare = prepare
  Commands <- Two
  Preparers = {prepare}
  MaxVersions = 2
  MaxEdits = 2
  MaxUpsets = 1
INVARIANTS
  TypeOK
  FreshOkIsInstalled
  UsedIsInstalled
PROPERTY FailureIsRetried
