\* Three-bit registers and chunks of up to two and a half turns (40 cycles).
CONSTANTS
  Wrap = 8
  MaxElapsed = 40
SPECIFICATION ClockSpec
INVARIANT BulkIsTicks
