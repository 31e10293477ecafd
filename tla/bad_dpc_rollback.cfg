\* START above the old END, under a session.
CONSTANTS
  MaxUnits = 3
  MaxTokens = 3
  MaxBatch = 2
  NoSubmission = NoSubmission
  NoTail = NoTail
  Limit <- SmallLimit
  Session <- Either
SPECIFICATION Spec
INVARIANTS RollbackConsistent
CHECK_DEADLOCK FALSE
