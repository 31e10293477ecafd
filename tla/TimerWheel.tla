----------------------------- MODULE TimerWheel -----------------------------
(***************************************************************************)
(* The OS timers (fn64-runtime, timer.rs): osSetTimer arms a countdown that *)
(* may repeat, osStopTimer removes it, and the executor advances the wheel *)
(* by whole stretches of emulated time, in whatever chunks the guest's     *)
(* checkpoints and the host's pump happen to cut it.                       *)
(*                                                                         *)
(* `armed` and `fired` are history: what was asked of each timer and what  *)
(* has been posted since the start.                                        *)
(***************************************************************************)
EXTENDS TimerList

VARIABLES now, armed, fired
wheelVars == <<now, timers, next_id, armed, fired>>

-----------------------------------------------------------------------------
WheelInit ==
  /\ now = 0
  /\ timers = <<>>
  /\ next_id = 0
  /\ armed = <<>>
  /\ fired = <<>>

\* osSetTimer and Executor::set_timer.
SetTimer(countdown, interval) ==
  /\ Arm(now, countdown, interval)
  /\ armed' = Append(armed, [first |-> now + countdown, interval |-> interval,
                             served |-> -1, stopped |-> FALSE])
  /\ UNCHANGED <<now, fired>>

\* stop_timer: a no-op on a timer that is not there.
StopTimer(id) ==
  /\ timers' = StopIn(timers, id)
  /\ armed' = [armed EXCEPT ![id + 1].stopped = TRUE]
  /\ UNCHANGED <<now, next_id, fired>>

\* commit_due_time_events, after advance_clock_to(n).
Advance(n) ==
  LET after == AdvanceWheel(timers, n)
  IN /\ now' = n
     /\ timers' = after.timers
     /\ fired' = fired \o after.fired
     /\ armed' = [k \in DOMAIN armed |->
                    IF armed[k].stopped THEN armed[k] ELSE [armed[k] EXCEPT !.served = n]]
     /\ UNCHANGED next_id

WheelNext ==
  \/ \E c \in Countdown, i \in Interval : SetTimer(c, i)
  \/ \E id \in 0..(next_id - 1) : StopTimer(id)
  \/ \E n \in now..MaxTime : Advance(n)

WheelSpec == WheelInit /\ [][WheelNext]_wheelVars

-----------------------------------------------------------------------------
\* The instants at which a timer armed with these arguments ought to fire, up
\* to the last time the wheel was advanced while it was armed.
Schedule(a) ==
  {d \in a.first..a.served :
     d = a.first \/ (a.interval > 0 /\ (d - a.first) % a.interval = 0)}

\* Every timer has fired exactly at its first deadline and then once per
\* interval, in phase, until it was stopped, however time was cut into
\* advances: nothing is missed, repeated or moved to the end of a chunk.  Posts
\* go out in deadline order, and among timers due at one instant in the order
\* they were armed.
FiredInOrder ==
  \A i, j \in DOMAIN fired :
    i < j => \/ fired[i].at < fired[j].at
             \/ fired[i].at = fired[j].at /\ fired[i].id < fired[j].id
FiredOnSchedule ==
  /\ \A k \in DOMAIN armed :
       {fired[i].at : i \in {j \in DOMAIN fired : fired[j].id = k - 1}} = Schedule(armed[k])
  /\ FiredInOrder
=============================================================================
