SPECIFICATION FairSpec
CONSTANTS
  p1 = p1
  p2 = p2
  p3 = p3
  Proc <- Ids
  Host <- SharedFilesystem
  ForceUsers = {p2}
  CrashProne = {p1, p3}
  MaxStarts = 4
INVARIANTS
  TypeOK
  ExclusionUnlessLost
  JudgedStaleIsStale
PROPERTIES
  OwnerLosesOnlyByForceOrStaleRead
  AcquireEnds
  StaleLockReclaimed
CHECK_DEADLOCK FALSE
