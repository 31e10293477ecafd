\* A thread that was stopped inside a receive is started again.
CONSTANTS
  t1 = t1  t2 = t2  t3 = t3  q1 = q1  q2 = q2
  NoThread = NoThread  NoQueue = NoQueue  NoMsg = NoMsg
  Thread = {t1, t2, t3}
  Queue = {q1}
  Event = {}
  Msg = {1, 2}
  Priority = {1}
  MaxCapacity = 1
  Boot <- BootThree
  BootPriority <- AllEqual
  BootCapacity <- SmallQueues
  Calls <- RestartCalls
SPECIFICATION Spec
INVARIANTS RestartKeepsProtocol
CHECK_DEADLOCK FALSE
