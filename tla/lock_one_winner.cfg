SPECIFICATION Spec
CONSTANTS
  p1 = p1
  p2 = p2
  p3 = p3
  Proc <- Ids
  Host <- OneHost
  ForceUsers = {}
  CrashProne = {}
  MaxStarts = 3
INVARIANT MutualExclusion
CHECK_DEADLOCK FALSE
