\* Three threads of equal priority on one queue, every send and receive; one
\* only takes and one only puts, so that somebody always goes on.
CONSTANTS
  t1 = t1  t2 = t2  t3 = t3  q1 = q1  q2 = q2
  NoThread = NoThread  NoQueue = NoQueue  NoMsg = NoMsg
  Thread = {t1, t2, t3}
  Queue = {q1}
  Event = {}
  Msg = {1, 2, 3, 4, 5}
  Priority = {1}
  MaxCapacity = 2
  Boot <- BootThree
  BootPriority <- AllEqual
  BootCapacity <- SmallQueues
  Calls <- MesgCalls
SPECIFICATION FairSpec
INVARIANTS TypeOK NoLostWakeup
PROPERTIES ImplementsDeque UrgentRuns ParkedIsServed
