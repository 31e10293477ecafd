------------------------------ MODULE CpuClock ------------------------------
(***************************************************************************)
(* CP0 Count and Compare as Executor::advance_clock_to keeps them: Count   *)
(* steps once every two cycles, wraps at its width, and latches the timer  *)
(* interrupt IP7 on reaching Compare.  The executor moves the clock by     *)
(* whole chunks; Ticks is the hardware's cycle at a time.                  *)
(***************************************************************************)
EXTENDS Integers

CONSTANTS Wrap,       \* the values of Count and Compare; 2^32 in the code
          MaxElapsed  \* the longest chunk explored

ASSUME ClockAssumption == Wrap \in Nat \ {0} /\ MaxElapsed \in Nat

VARIABLES cp0_count, cp0_count_phase, cp0_compare, cp0_timer_pending
clockVars == <<cp0_count, cp0_count_phase, cp0_compare, cp0_timer_pending>>

Word == 0..(Wrap - 1)

\* Mutant: equal Count and Compare match at once instead of a full turn later.
NoDistance == (cp0_compare - cp0_count) % Wrap

\* How many increments Count needs to reach Compare; none is a full turn.
IncrementsToMatch ==
  LET distance == (cp0_compare - cp0_count) % Wrap
  IN IF distance = 0 THEN Wrap ELSE distance

\* Two cycles per increment, the odd one carried over to the next chunk.
Increments(elapsed) ==
  [increments |-> (cp0_count_phase + elapsed) \div 2, phase |-> (cp0_count_phase + elapsed) % 2]

\* advance_clock_to, for `elapsed` cycles at once.
Bulk(elapsed) ==
  LET i == Increments(elapsed)
  IN [count   |-> (cp0_count + i.increments) % Wrap,
      phase   |-> i.phase,
      pending |-> cp0_timer_pending \/ (i.increments # 0 /\ i.increments >= IncrementsToMatch)]

\* n single cycles: every second one steps Count, and Count then compares.
Ticks[n \in Nat] ==
  IF n = 0
  THEN [count |-> cp0_count, phase |-> cp0_count_phase, pending |-> cp0_timer_pending]
  ELSE LET s == Ticks[n - 1]
           c == (s.count + 1) % Wrap
       IN IF s.phase = 0 THEN [s EXCEPT !.phase = 1]
          ELSE [count |-> c, phase |-> 0, pending |-> s.pending \/ c = cp0_compare]

-----------------------------------------------------------------------------
ClockInit ==
  /\ cp0_count = 0
  /\ cp0_count_phase = 0
  /\ cp0_compare = 0
  /\ cp0_timer_pending = FALSE

AdvanceClock(elapsed) ==
  /\ cp0_count' = Bulk(elapsed).count
  /\ cp0_count_phase' = Bulk(elapsed).phase
  /\ cp0_timer_pending' = Bulk(elapsed).pending
  /\ UNCHANGED cp0_compare

\* MTC0 Count starts a fresh two-cycle interval.
SetCount(c) ==
  /\ cp0_count' = c
  /\ cp0_count_phase' = 0
  /\ UNCHANGED <<cp0_compare, cp0_timer_pending>>

\* MTC0 Compare acknowledges IP7.
WriteCompare(c) ==
  /\ cp0_compare' = c
  /\ cp0_timer_pending' = FALSE
  /\ UNCHANGED <<cp0_count, cp0_count_phase>>

\* restore_cp0_clock: a captured state, its latch included.
Restore(c, k, pending) ==
  /\ cp0_count' = c
  /\ cp0_count_phase' = 0
  /\ cp0_compare' = k
  /\ cp0_timer_pending' = pending

ClockNext ==
  \/ \E n \in 0..MaxElapsed : AdvanceClock(n)
  \/ \E c \in Word : SetCount(c) \/ WriteCompare(c)
  \/ \E c, k \in Word, b \in BOOLEAN : Restore(c, k, b)

ClockSpec == ClockInit /\ [][ClockNext]_clockVars

-----------------------------------------------------------------------------
\* From every state, one bulk advance is what the hardware does cycle by
\* cycle: Count, the half-rate phase and the IP7 latch, over wrap-arounds and
\* over Compare set equal to Count.
BulkIsTicks == \A n \in 0..MaxElapsed : Bulk(n) = Ticks[n]
=============================================================================
