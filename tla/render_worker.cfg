\* Three graphics tasks and three stores around one worker that may die, under both
\* presentation policies, for a game that waits for the DP interrupt.
CONSTANTS
  MaxBatches = 3
  MaxWrites = 3
  WaitsForDp = TRUE
SPECIFICATION Spec
INVARIANTS OneOwner AsIfLocal NoAbort
PROPERTIES EveryBatchPublished HostNeverStuck
CHECK_DEADLOCK FALSE
