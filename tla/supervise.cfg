SPECIFICATION FairSpec
CONSTANT Cap = 2
CHECK_DEADLOCK FALSE
INVARIANTS
  TypeOK
  NoMemberLeftRunning
  TimeoutHasCause
  VerdictOnWholeOutput
  HonestRunSucceeds
PROPERTY RunEnds
