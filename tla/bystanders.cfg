SPECIFICATION BystandersSpec
CONSTANTS
  Cells = {1}
  HiddenCells = {1}
  EvalCells = {1}
  MaxInterrupts = 1
  MaxEvals = 1
  MaxDisturbances = 1
  Watched = 1
INVARIANTS
  BystandersTypeOK
  StatusTellsTruth
  OwnWorkIsScored
