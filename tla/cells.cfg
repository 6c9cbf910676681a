SPECIFICATION FairSpec
CONSTANTS
  Cells = {1, 2}
  HiddenCells = {2}
  EvalCells = {1}
  MaxInterrupts = 2
  MaxEvals = 1
  MaxDisturbances = 2
INVARIANTS
  TypeOK
  DoneIsIntact
  DoneIsUnmixed
PROPERTIES
  DoneUntouchedByEvalAll
  ImplementsCellResults
  EveryCellGetsItsResult
  ReportCatchesUp
