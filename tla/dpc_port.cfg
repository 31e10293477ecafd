\* Commands of up to three units, in two units of RDRAM and one of DMEM, with and
\* without a session.
CONSTANTS
  MaxUnits = 3
  MaxTokens = 3
  MaxBatch = 2
  NoSubmission = NoSubmission
  NoTail = NoTail
  Limit <- SmallLimit
  Session <- Either
SPECIFICATION Spec
INVARIANTS HeldRange LegacyFedOnce StalledIsBusy
PROPERTIES TakenAtOnce
CHECK_DEADLOCK FALSE
