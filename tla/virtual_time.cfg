\* Two timers, a DMA, a render batch, host work and the VI over five cycles.
CONSTANTS
  MaxTime = 5
  MaxTimers = 2
  Latency = {1, 2}
  Countdown = {0, 2}
  Interval = {0, 1}
  FieldTime = 3
  ServiceTime = 2
  Never = 100
SPECIFICATION Spec
INVARIANTS DeliveredOnTime NoTrap
PROPERTIES DeliveredInOrder TargetIsReached
CHECK_DEADLOCK FALSE
