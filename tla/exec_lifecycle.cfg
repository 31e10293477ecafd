\* Threads created, started, stopped, destroyed and re-prioritised while they
\* wait, restarted wherever they were stopped, with events, faults, time targets
\* and host work between the calls.
CONSTANTS
  t1 = t1  t2 = t2  t3 = t3  q1 = q1  q2 = q2
  NoThread = NoThread  NoQueue = NoQueue  NoMsg = NoMsg
  Thread = {t1, t2, t3}
  Queue = {q1, q2}
  Event = {1001}
  Msg = {1, 2}
  Priority = {1, 2}
  MaxCapacity = 1
  Boot <- BootTwo
  BootPriority <- OneUrgent
  BootCapacity <- OneCreated
  Calls <- LifecycleCalls
SPECIFICATION Spec
INVARIANTS ControlInvariant MoveIsSort
PROPERTIES AbortsOnlyOnStart NoSilentLoss RunsInOrder StoppedStaysStopped
CHECK_DEADLOCK FALSE
