SPECIFICATION Spec
CONSTANTS
  Cells = {1, 2}
  HiddenCells = {2}
  EvalCells = {1}
  MaxInterrupts = 1
  MaxEvals = 1
  MaxDisturbances = 2
INVARIANT SentinelMeansIntact
