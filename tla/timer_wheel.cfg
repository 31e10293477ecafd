\* Three timers, one-shot and repeating, over five instants (0 to 4) cut every way.
CONSTANTS
  MaxTime = 4
  MaxTimers = 3
  Countdown = {0, 1, 2}
  Interval = {0, 1, 2}
SPECIFICATION WheelSpec
INVARIANTS FiredOnSchedule
