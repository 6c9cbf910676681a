SPECIFICATION Spec
CONSTANTS
  Settings <- TwoFrameworks
  Windup = 1
  Files = {a, b, t}
  Disallowed = {t}
  Allowed = {a, b, t}
  MaxChanged = 1
  Threads = {t1, t2}
  MaxCalls = 3
CHECK_DEADLOCK FALSE
INVARIANTS
  TypeOK
  ToolsKeepConstraints
  OneEnvelope
  SilenceHasCause
