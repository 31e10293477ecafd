----------------------------- MODULE TimerList -----------------------------
(***************************************************************************)
(* struct TimerWheel (fn64-runtime, timer.rs): the vector of armed timers, *)
(* and the walk of `advance` over it: as long as some timer is due, the    *)
(* earliest one fires and is armed again or removed.  TimerWheel is the    *)
(* wheel on its own, VirtualTime the wheel among the other deadlines.      *)
(***************************************************************************)
EXTENDS Integers, Sequences, SequencesExt

CONSTANTS MaxTime,   \* emulated time is explored up to here
          MaxTimers, \* so many osSetTimer calls
          Countdown, \* the countdowns the guest asks for
          Interval   \* the intervals it asks for; 0: one shot

ASSUME TimerAssumption ==
  /\ MaxTime \in Nat /\ MaxTimers \in Nat
  /\ Countdown \subseteq Nat /\ Interval \subseteq Nat

VARIABLES timers, next_id

Timer  == [id : Nat, deadline : Nat, interval : Nat]
Firing == [id : Nat, at : Nat]

\* The position `advance` fires next: the earliest deadline that is due, the
\* first of them in the vector.
IsNext(ts, n, i) ==
  /\ ts[i].deadline <= n
  /\ \A j \in DOMAIN ts : /\ ts[j].deadline >= ts[i].deadline
                          /\ j < i => ts[j].deadline > ts[i].deadline
Due(ts, n) == \E i \in DOMAIN ts : ts[i].deadline <= n

\* Mutant: a repeating timer starts over from the time it is served.
RearmLate(ts, i, n) ==
  IF ts[i].interval > 0 THEN [ts EXCEPT ![i].deadline = n + ts[i].interval] ELSE RemoveAt(ts, i)
\* A repeating timer is armed again in place, an interval after its deadline.
Rearm(ts, i, n) ==
  IF ts[i].interval > 0 THEN [ts EXCEPT ![i].deadline = @ + ts[i].interval] ELSE RemoveAt(ts, i)

\* The vector and what the walk has fired so far, in order.
Walk == [timers : Seq(Timer), fired : Seq(Firing)]

\* One turn of the loop.
FireNext(w, n) ==
  LET i == CHOOSE k \in DOMAIN w.timers : IsNext(w.timers, n, k)
      x == w.timers[i]
  IN [timers |-> Rearm(w.timers, i, n), fired |-> Append(w.fired, [id |-> x.id, at |-> x.deadline])]

\* TimerWheel::advance: the wheel afterwards and what it fired.
AdvanceWheel(ts, n) ==
  LET walk[w \in Walk] == IF Due(w.timers, n) THEN walk[FireNext(w, n)] ELSE w
  IN walk[[timers |-> ts, fired |-> <<>>]]

\* TimerWheel::set_timer, called at n.
Arm(n, countdown, interval) ==
  /\ next_id < MaxTimers
  /\ timers' = Append(timers, [id |-> next_id, deadline |-> n + countdown, interval |-> interval])
  /\ next_id' = next_id + 1

\* TimerWheel::stop_timer (Vec::retain): identities do not repeat, and the wheel
\* may have lost the timer already.
StopIn(ts, id) ==
  IF \E i \in DOMAIN ts : ts[i].id = id
  THEN RemoveAt(ts, CHOOSE i \in DOMAIN ts : ts[i].id = id)
  ELSE ts
=============================================================================
