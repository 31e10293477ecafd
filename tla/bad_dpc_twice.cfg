\* A continued command list under a session.
CONSTANTS
  MaxUnits = 3
  MaxTokens = 3
  MaxBatch = 2
  NoSubmission = NoSubmission
  NoTail = NoTail
  Limit <- SmallLimit
  Session <- Either
SPECIFICATION Spec
INVARIANTS FedOnce
CHECK_DEADLOCK FALSE
