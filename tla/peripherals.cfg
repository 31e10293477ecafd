\* Up to three PI transfers and two SI operations, by one thread or nobody, four in
\* all, and one ROM load, by a guest of every conduct.
CONSTANTS
  Thread = {t1}
  MaxTransfers = 3
  MaxSerial = 2
  MaxOperations = 4
  MaxReloads = 1
  Careless = {"AckOccurrence", "ControlWhilePending", "ReloadInFlight", "QueuedOutsideWindow"}
SPECIFICATION Spec
INVARIANTS HostAgrees AbortsForCause
CHECK_DEADLOCK FALSE
PROPERTIES ImplementsDmaQueue EveryoneIsTold OccurrenceServiced
