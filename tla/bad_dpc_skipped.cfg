\* A range that breaks off after whole commands.
CONSTANTS
  MaxUnits = 3
  MaxTokens = 3
  MaxBatch = 2
  NoSubmission = NoSubmission
  NoTail = NoTail
  Limit <- SmallLimit
  Session <- Either
SPECIFICATION Spec
INVARIANTS NothingSkipped
CHECK_DEADLOCK FALSE
