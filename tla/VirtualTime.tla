---------------------------- MODULE VirtualTime ----------------------------
(***************************************************************************)
(* The one emulated clock and everything that is due on it (fn64-abi,      *)
(* host.rs: commit_time_target).  A guest slice ends by asking for a time  *)
(* target; before any coroutine resumes, the host walks every device,      *)
(* host-kernel and OS-timer deadline up to that target.  The render worker *)
(* computes in parallel and publishes a deadline of its own, the DP full   *)
(* sync, only when the host joins it, which is what makes the next         *)
(* boundary a value to be read twice.                                      *)
(*                                                                         *)
(* Each step is one turn of the loop.  A device is a deadline and what its *)
(* completion does to deadlines: a DMA ends, the VI starts its next field. *)
(***************************************************************************)
EXTENDS TimerList, FiniteSets, FiniteSetsExt

CONSTANTS Latency,        \* DMA latencies; a device never answers at once
          FieldTime,      \* from one VI retrace to the next
          ServiceTime,    \* HostKernelAdapterProfile::service_cycles
          Never           \* the deadline of what is not scheduled

ASSUME TimeAssumption ==
  /\ Latency \subseteq Nat \ {0}
  /\ FieldTime \in Nat \ {0} /\ ServiceTime \in Nat \ {0}
  /\ Never \in Nat /\ \A d \in Latency \union Countdown \union Interval
                               \union {FieldTime, ServiceTime} : MaxTime + d < Never

VARIABLES
  sim_time,  \* the executor's clock; the device fabric's follows it
  target,    \* the target being committed, or Never between commits
  device,    \* deadline of each device
  work,      \* deadline of the active HostKernel work
  render,    \* whether a raw-DPC batch is with the worker
  delivered, \* what the last boundary delivered: [what, due]
  trap       \* a failed assertion of the loop

vars == <<sim_time, target, device, timers, next_id, work, render, delivered, trap>>

Device == {"PI", "VI", "DP"}

Init ==
  /\ sim_time = 0
  /\ target = Never
  /\ device = [d \in Device |-> IF d = "VI" THEN FieldTime ELSE Never]
  /\ timers = <<>>
  /\ next_id = 0
  /\ work = Never
  /\ render = FALSE
  /\ delivered = <<>>
  /\ trap = FALSE

-----------------------------------------------------------------------------
(* A guest slice: between commits, and never while host work is active.    *)

GuestRuns == target = Never /\ work = Never /\ ~trap

StartDma(latency) ==
  /\ GuestRuns
  /\ device["PI"] = Never
  /\ device' = [device EXCEPT !["PI"] = sim_time + latency]
  /\ UNCHANGED <<sim_time, target, timers, next_id, work, render, delivered, trap>>

OsSetTimer(countdown, interval) ==
  /\ GuestRuns
  /\ Arm(sim_time, countdown, interval)
  /\ UNCHANGED <<sim_time, target, device, work, render, delivered, trap>>

StartRender ==
  /\ GuestRuns
  /\ ~render /\ device["DP"] = Never
  /\ render' = TRUE
  /\ UNCHANGED <<sim_time, target, device, timers, next_id, work, delivered, trap>>

\* accept_host_kernel_work.
AcceptHostWork ==
  /\ GuestRuns
  /\ work' = sim_time + ServiceTime
  /\ UNCHANGED <<sim_time, target, device, timers, next_id, render, delivered, trap>>

\* The slice yields with a target (run_one_step), the next step finds host
\* work active and heads for its deadline, or the host pump advances time.
AskFor(t) ==
  /\ target = Never /\ ~trap
  /\ sim_time <= t
  /\ target' = t
  /\ UNCHANGED <<sim_time, device, timers, next_id, work, render, delivered, trap>>

-----------------------------------------------------------------------------
(* The host.                                                               *)

\* Every pending deadline, given the devices'.
Deadlines(dev) ==
  {dev[d] : d \in Device} \union {work} \union {timers[i].deadline : i \in DOMAIN timers}

\* The earliest deadline up to the target, or else the target.
Boundary(dev) == Min({d \in Deadlines(dev) : d <= target} \union {target})

\* settle_renderer_before_vi, for a boundary that reaches the retrace: the
\* batch is joined, and its full sync published one cycle from now.  Under
\* audio-priority presentation the join does not wait, so the batch may not
\* have finished.
MustSettle == render /\ device["VI"] <= Boundary(device)
Settle(finished) ==
  IF MustSettle /\ finished THEN [device EXCEPT !["DP"] = sim_time + 1] ELSE device

Event(what, due) == [what |-> what, due |-> due]

\* The devices due by b, earliest first.
DueDevices(dev, b) ==
  LET due == {d \in Device : dev[d] <= b}
  IN CHOOSE s \in [1..Cardinality(due) -> due] :
       \A i, j \in DOMAIN s : i < j => s[i] # s[j] /\ dev[s[i]] <= dev[s[j]]

\* Mutant: OS timers are served before the devices.
TimersFirst(dev, b) ==
  LET wheel == AdvanceWheel(timers, b) IN
     [i \in DOMAIN wheel.fired |-> Event("timer", wheel.fired[i].at)]
  \o [i \in DOMAIN DueDevices(dev, b) |-> Event("device", dev[DueDevices(dev, b)[i]])]
  \o IF work <= b THEN <<Event("host_kernel", work)>> ELSE <<>>

\* advance_device_time, commit_due_host_kernel_work, commit_due_time_events.
Deliver(dev, b) ==
  LET wheel == AdvanceWheel(timers, b) IN
     [i \in DOMAIN DueDevices(dev, b) |-> Event("device", dev[DueDevices(dev, b)[i]])]
  \o (IF work <= b THEN <<Event("host_kernel", work)>> ELSE <<>>)
  \o [i \in DOMAIN wheel.fired |-> Event("timer", wheel.fired[i].at)]

\* Mutant: the VI is due again at once.
NextFieldAtOnce(dev, b) ==
  [d \in Device |-> IF dev[d] > b THEN dev[d] ELSE IF d = "VI" THEN b ELSE Never]

\* What the due devices schedule next.
AfterDevices(dev, b) ==
  [d \in Device |-> IF dev[d] > b THEN dev[d] ELSE IF d = "VI" THEN dev[d] + FieldTime ELSE Never]

\* Mutants: the boundary is not read again after the join; an equal one also
\* starts the turn again.
NotReadAgain(dev) == TRUE
OnlyLater(dev)    == Boundary(dev) > Boundary(device)

\* The join left the chosen boundary the first one.
StillFirst(dev) == Boundary(dev) >= Boundary(device)

\* The join published a deadline before the boundary: start the turn again.
Restart ==
  /\ target # Never /\ ~trap
  /\ MustSettle
  /\ ~StillFirst(Settle(TRUE))
  /\ device' = Settle(TRUE)
  /\ render' = FALSE
  /\ UNCHANGED <<sim_time, target, timers, next_id, work, delivered, trap>>

\* One boundary: the clock moves to it and everything due on it is delivered.
Commit(finished) ==
  /\ target # Never /\ ~trap
  /\ LET dev == Settle(finished)
         b   == Boundary(device)
     IN /\ StillFirst(dev)
        /\ sim_time' = b
        /\ delivered' = Deliver(dev, b)
        /\ device' = AfterDevices(dev, b)
        /\ work' = IF work <= b THEN Never ELSE work
        /\ timers' = AdvanceWheel(timers, b).timers
        /\ render' = (render /\ ~(MustSettle /\ finished))
        /\ target' = IF b = target THEN Never ELSE target
        /\ trap' = (b # target /\ \E d \in {device'[x] : x \in Device} \union {work'}
                                    \union {timers'[i].deadline : i \in DOMAIN timers'} : d <= b)
  /\ UNCHANGED next_id

Next ==
  \/ \E l \in Latency : StartDma(l)
  \/ \E c \in Countdown, i \in Interval : OsSetTimer(c, i)
  \/ StartRender
  \/ AcceptHostWork
  \/ \E t \in sim_time..MaxTime : AskFor(t)
  \/ Restart
  \/ \E finished \in BOOLEAN : Commit(finished)

Spec == Init /\ [][Next]_vars /\ WF_vars(Restart \/ \E finished \in BOOLEAN : Commit(finished))

-----------------------------------------------------------------------------
\* Between commits nothing is overdue but a timer the guest has just armed with
\* no countdown: the next coroutine sees every effect up to its own time.
NothingOverdue ==
  target = Never =>
    /\ \A d \in Device : device[d] > sim_time
    /\ work > sim_time
    /\ \A i \in DOMAIN timers : timers[i].deadline >= sim_time

\* Whatever is delivered is delivered at the very instant it was due, however
\* far the target lay and whatever the join published in between, never at the
\* end of the chunk; and nothing due is left behind.
DeliveredOnTime == NothingOverdue /\ \A i \in DOMAIN delivered : delivered[i].due = sim_time

\* At one instant devices come before host-kernel work and that before OS
\* timers, also over several commits at that instant: a device or host work
\* that is due is never left for a commit that a timer's receiver ran before.
Rank == [device |-> 1, host_kernel |-> 2, timer |-> 3]
DeliveredInOrder ==
  [][\A j \in DOMAIN delivered' :
       /\ \A i \in DOMAIN delivered' : i < j => Rank[delivered'[i].what] <= Rank[delivered'[j].what]
       /\ sim_time' = sim_time /\ delivered' # delivered =>
            \A i \in DOMAIN delivered : Rank[delivered[i].what] <= Rank[delivered'[j].what]]_vars

\* "same-cycle event fixpoint retained deadline": the loop makes progress.
NoTrap == ~trap

\* Every target is reached: the walk over deadlines ends although the VI and
\* repeating timers keep adding new ones.
TargetIsReached == target # Never ~> target = Never
=============================================================================
