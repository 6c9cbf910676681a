SPECIFICATION Spec
CONSTANTS
  p1 = p1
  p2 = p2
  p3 = p3
  Proc <- Ids
  Host <- SharedFilesystem
  ForceUsers = {p3}
  CrashProne = {}
  MaxStarts = 3
PROPERTY ReleaseKeepsNewOwner
CHECK_DEADLOCK FALSE
