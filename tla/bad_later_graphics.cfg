\* Two graphics tasks, the second started once the RSP is free.
CONSTANTS
  MaxBatches = 2
  MaxWrites = 0
  WaitsForDp = FALSE
SPECIFICATION Spec
INVARIANT LaterGraphicsIsAdmitted
CHECK_DEADLOCK FALSE
