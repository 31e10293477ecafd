------------------------------ MODULE Executor ------------------------------
(***************************************************************************)
(* The fn64 executor (fn64-runtime, executor/mod.rs): guest OSThreads as   *)
(* stackful coroutines on one host thread, a priority run queue, message   *)
(* queues that park and wake them, and the host driver that posts device   *)
(* events between scheduling steps (fn64-abi, host.rs).                    *)
(*                                                                         *)
(* run_one_step is three kinds of step here, because guest code runs in    *)
(* the middle of it: Dispatch resumes the chosen coroutine; while its body *)
(* runs it may call back into the executor (create, stop, destroy, ...);   *)
(* a suspending call ends the step through handle_yield.  Nothing else     *)
(* runs in between, which is what the single RunToken promises.            *)
(*                                                                         *)
(* A failed assertion ends the program.  The ones a step may reach set     *)
(* `panic`; the others guard their action, and ControlInvariant says they  *)
(* hold whenever the action is otherwise possible.                         *)
(*                                                                         *)
(* A definition marked "Mutant" is a plausible error in the code; it is    *)
(* used only to see that a property notices it.                            *)
(***************************************************************************)
EXTENDS WaitList

CONSTANTS
  Thread,       \* OSThread identities; an identity is never reused
  Queue,        \* guest addresses used as OSMesgQueue
  Event,        \* OS event codes; an event's message is the code itself
  Msg,          \* message tokens, 1..n
  Priority,     \* OSPri values
  MaxCapacity,  \* largest msgCount a queue is created with
  NoThread, NoQueue, NoMsg,
  Boot,         \* the threads the host created and started, in run order
  BootPriority, \* their priorities
  BootCapacity, \* the queues' capacities by then; 0: never created
  Calls         \* Calls[t]: which libultra calls the code of t makes

CallKind == {"Yield", "Start", "Create", "Stop", "StopSelf", "StopDead", "Destroy",
             "DestroySelf", "StartUnstopped", "RestartMidCall", "SetPri", "SetParkedPri", "CreateQueue",
             "RecreateQueue", "SetEvent", "Send", "TrySend", "Jam", "TryJam", "Recv",
             "TryRecv", "Pause", "Fault", "Checkpoint", "Interrupt", "Return"}

ASSUME ExecutorAssumption ==
  /\ NoThread \notin Thread /\ NoQueue \notin Queue
  /\ NoMsg \notin Msg \union Event
  /\ Msg \subseteq Nat
  /\ Priority \subseteq Int
  /\ MaxCapacity \in Nat \ {0}
  /\ Boot \in Seq(Thread) /\ NoRepeats(Boot)
  /\ BootPriority \in [Thread -> Priority]
  /\ Descending([i \in DOMAIN Boot |-> BootPriority[Boot[i]]])
  /\ BootCapacity \in [Queue -> 0..MaxCapacity]
  /\ Calls \in [Thread -> SUBSET CallKind]

VARIABLES
  state,          \* GameThread.state; "Absent" before osCreateThread
  priority,       \* GameThread.priority
  retired,        \* whether the saved RCP interrupt mask is retired
  point,          \* where the coroutine stands: in its body, or in which call
  run_queue,
  running,        \* the owner of the run token
  last_resumed,   \* last_resumed_thread
  pending_resume,
  queues,         \* MesgQueue by address, in its logical view (see MesgQueue)
  event_table,
  pending_target, \* whether a checkpoint's time target awaits its commit
  host_work,      \* the thread interrupted by active HostKernel work
  panic           \* the assertion that ended the program

threadVars == <<state, priority, retired, point>>
runVars    == <<run_queue, running, last_resumed, pending_resume>>
hostVars   == <<event_table, pending_target, host_work, panic>>
vars       == <<threadVars, runVars, queues, hostVars>>

ThreadState == {"Absent", "Stopped", "Runnable", "Running", "BlockedOnRecv",
                "BlockedOnSend", "Dead"}
Blocked     == {"BlockedOnRecv", "BlockedOnSend"}

Payload   == Msg \union Event
Placement == {"Tail", "Head"}
Resume(k, m)  == [kind |-> k, msg |-> m]
NoResume      == Resume("None", NoMsg)
Start         == Resume("Start", NoMsg)
Continue      == Resume("Continue", NoMsg)
WouldBlock    == Resume("WouldBlock", NoMsg)
SendUnblocked == Resume("SendUnblocked", NoMsg)
Delivered(m)  == Resume("Delivered", m)
Resumes == {NoResume, Start, WouldBlock, SendUnblocked} \union {Delivered(m) : m \in Payload}

(***************************************************************************)
(* Which Resume variants the code at a suspension point accepts: the body  *)
(* starts on Start; osStartThread insists on Continue, osRecvMesg and      *)
(* osSendMesg on an answer; a plain yield takes anything; a faulted thread *)
(* and a finished coroutine cannot be resumed.                             *)
(***************************************************************************)
Points == {"entry", "body", "any", "start", "recv", "send", "fault", "returned"}
Accepts(pt) ==
  CASE pt = "entry" -> {"Start"}
    [] pt = "start" -> {"Continue"}
    [] pt = "recv"  -> {"Delivered", "WouldBlock"}
    [] pt = "send"  -> {"SendUnblocked", "WouldBlock"}
    [] pt = "any"   -> {"Continue", "Delivered", "SendUnblocked", "WouldBlock"}
    [] OTHER        -> {}

Started(t) == point[t] # "entry"
Created(t) == state[t] # "Absent"
\* No coroutine body is on the host stack.
Quiescent == \A t \in Thread : point[t] # "body"

QueueState ==
  [capacity  : 0..MaxCapacity,
   messages  : Seq(Payload),
   receivers : Seq([id : Thread, pri : Priority]),
   senders   : Seq([id : Thread, pri : Priority, msg : Payload, place : Placement])]

NewQueue(n) == [capacity |-> n, messages |-> <<>>, receivers |-> <<>>, senders |-> <<>>]

WaitsOn(t, q) ==
  \E w \in ToSet(queues[q].receivers) \union ToSet(queues[q].senders) : w.id = t

Init ==
  /\ state = [t \in Thread |-> IF t \in ToSet(Boot) THEN "Runnable" ELSE "Absent"]
  /\ priority = BootPriority
  /\ retired = [t \in Thread |-> FALSE]
  /\ point = [t \in Thread |-> "entry"]
  /\ run_queue = Boot
  /\ running = NoThread
  /\ last_resumed = NoThread
  /\ pending_resume = [t \in Thread |-> IF t \in ToSet(Boot) THEN Start ELSE NoResume]
  /\ queues = [q \in Queue |-> NewQueue(BootCapacity[q])]
  /\ event_table = [e \in Event |-> NoQueue]
  /\ pending_target = FALSE
  /\ host_work = NoThread
  /\ panic = "None"

-----------------------------------------------------------------------------
(* The run queue.                                                          *)

Ranks(rq) == [i \in DOMAIN rq |-> priority[rq[i]]]

\* Mutant: the newcomer goes in front of its equals.
EnqueueInFront(rq, t) ==
  InsertAt(rq, FirstIn(Ranks(rq), {i \in DOMAIN rq : Ranks(rq)[i] <= priority[t]}), t)

\* run_queue.push(t); sort_run_queue()
Enqueue(rq, t) == PriorityInsert(rq, Ranks(rq), t, priority[t])

\* if self.running == Some(t) { self.running = None }
Release(t) == IF running = t THEN NoThread ELSE running

\* What t is resumed with next: the answer kept for it, or Continue.
Answer(t) == IF pending_resume[t] = NoResume THEN Continue ELSE pending_resume[t]

(***************************************************************************)
(* run_one_step_with_thread_switch, up to the coroutine's resume: the head *)
(* of the run queue takes the token.  A switch to another thread reads its *)
(* saved interrupt mask, which a dead thread no longer has.                *)
(***************************************************************************)
Dispatch ==
  /\ panic = "None"
  /\ Quiescent
  /\ ~pending_target
  /\ host_work = NoThread
  /\ run_queue # <<>>
  /\ LET t == Head(run_queue)
     IN /\ run_queue' = Without(run_queue, t)
        /\ pending_resume' = [pending_resume EXCEPT ![t] = NoResume]
        /\ running' = t
        /\ state' = [state EXCEPT ![t] = "Running"]
        /\ last_resumed' = t
        /\ panic' = IF last_resumed # t /\ retired[t] THEN "RetiredMask"
                    ELSE IF Answer(t).kind \notin Accepts(point[t]) THEN "UnexpectedResume"
                    ELSE "None"
        /\ point' = [point EXCEPT ![t] = "body"]
  /\ UNCHANGED <<priority, retired, queues, event_table, pending_target, host_work>>

\* The code of t is running and makes a call of this kind.
CallsNow(t, kind) ==
  /\ panic = "None"
  /\ point[t] = "body"
  /\ kind \in Calls[t]

-----------------------------------------------------------------------------
(* Calls that return to the caller without suspending it.                  *)

\* create_thread: a stopped coroutine that has not been entered.
CreateThread(me, t, p) ==
  /\ CallsNow(me, "Create")
  /\ ~Created(t)
  /\ state' = [state EXCEPT ![t] = "Stopped"]
  /\ priority' = [priority EXCEPT ![t] = p]
  /\ UNCHANGED <<retired, point, runVars, queues, hostVars>>

\* Mutant: a stopped thread stays on the waiter lists.
StillWaiting(t) == queues

\* remove_thread_from_waiters: out of every list of every queue.
Unwaited(t) ==
  [q \in Queue |-> [capacity  |-> queues[q].capacity,
                    messages  |-> queues[q].messages,
                    receivers |-> Unpark(queues[q].receivers, t),
                    senders   |-> Unpark(queues[q].senders, t)]]

\* Mutant: a stopped thread stays on the run queue.
StopThreadQueued(me, t) ==
  /\ CallsNow(me, "Stop")
  /\ Created(t) /\ t # me
  /\ queues' = Unwaited(t)
  /\ state' = [state EXCEPT ![t] = "Stopped"]
  /\ pending_resume' = [pending_resume EXCEPT ![t] = NoResume]
  /\ UNCHANGED <<priority, retired, point, run_queue, running, last_resumed, hostVars>>

\* stop_thread, osStopThread.  The shim does not suspend a thread that stops
\* itself, so its body goes on.
StopThread(me, t) ==
  /\ CallsNow(me, IF t = me THEN "StopSelf"
                  ELSE IF state[t] = "Dead" THEN "StopDead" ELSE "Stop")
  /\ Created(t)
  /\ queues' = Unwaited(t)
  /\ state' = [state EXCEPT ![t] = "Stopped"]
  /\ run_queue' = Without(run_queue, t)
  /\ pending_resume' = [pending_resume EXCEPT ![t] = NoResume]
  /\ running' = Release(t)
  /\ UNCHANGED <<priority, retired, point, last_resumed, hostVars>>

\* destroy_thread, osDestroyThread; a thread may destroy itself and go on too.
DestroyThread(me, t) ==
  /\ CallsNow(me, IF t = me THEN "DestroySelf" ELSE "Destroy")
  /\ Created(t)
  /\ queues' = Unwaited(t)
  /\ state' = [state EXCEPT ![t] = "Dead"]
  /\ retired' = [retired EXCEPT ![t] = TRUE]
  /\ run_queue' = Without(run_queue, t)
  /\ pending_resume' = [pending_resume EXCEPT ![t] = NoResume]
  /\ running' = Release(t)
  /\ last_resumed' = IF last_resumed = t THEN NoThread ELSE last_resumed
  /\ UNCHANGED <<priority, point, hostVars>>

\* Mutant: the run queue is not sorted again.
SetThreadPriUnsorted(me, t, p) ==
  /\ CallsNow(me, IF state[t] \in Blocked THEN "SetParkedPri" ELSE "SetPri")
  /\ Created(t)
  /\ priority' = [priority EXCEPT ![t] = p]
  /\ UNCHANGED <<state, retired, point, runVars, queues, hostVars>>

\* set_thread_pri: re-sorts the run queue; a waiter list keeps the priority
\* its thread parked with.
SetThreadPri(me, t, p) ==
  /\ CallsNow(me, IF state[t] \in Blocked THEN "SetParkedPri" ELSE "SetPri")
  /\ Created(t)
  /\ priority' = [priority EXCEPT ![t] = p]
  /\ run_queue' = Reposition(run_queue, Ranks(run_queue), t, priority[t], p)
  /\ UNCHANGED <<state, retired, point, running, last_resumed, pending_resume, queues, hostVars>>

\* create_mesg_queue replaces the queue wholesale, its waiters included.
CreateMesgQueue(me, q, count) ==
  /\ CallsNow(me, IF \E t \in Thread : WaitsOn(t, q) THEN "RecreateQueue" ELSE "CreateQueue")
  /\ queues' = [queues EXCEPT ![q] = NewQueue(IF count = 0 THEN 1 ELSE count)]
  /\ UNCHANGED <<threadVars, runVars, hostVars>>

SetEventMesg(me, e, q) ==
  /\ CallsNow(me, "SetEvent")
  /\ event_table' = [event_table EXCEPT ![e] = q]
  /\ UNCHANGED <<threadVars, runVars, queues, pending_target, host_work, panic>>

-----------------------------------------------------------------------------
(* Suspending calls: the rest of run_one_step, through handle_yield.       *)

\* The thread suspends at pt in state s; the run token comes back.
Suspend(t, pt, st, s) ==
  /\ point' = [point EXCEPT ![t] = pt]
  /\ state' = [st EXCEPT ![t] = s]
  /\ running' = Release(t)

\* Yield::PauseSelf: runnable again at once, behind its equals.
YieldThread(me) ==
  /\ CallsNow(me, "Yield")
  /\ Suspend(me, "any", state, "Runnable")
  /\ run_queue' = Enqueue(run_queue, me)
  /\ UNCHANGED <<priority, retired, last_resumed, pending_resume, queues, hostVars>>

\* Suspended where only an answer lets the code go on, or for good.
MidCall(t) == point[t] \in {"recv", "send", "fault"}

\* Mutant: every start installs Start.
StartAfresh(me, t) ==
  /\ CallsNow(me, "Start")
  /\ state[t] = "Stopped"
  /\ MidCall(t) => "RestartMidCall" \in Calls[me]
  /\ pending_resume' = [pending_resume EXCEPT ![t] = Start]
  /\ Suspend(me, "start", [state EXCEPT ![t] = "Runnable"], "Runnable")
  /\ run_queue' = Enqueue(Enqueue(run_queue, t), me)
  /\ UNCHANGED <<priority, retired, last_resumed, queues, hostVars>>

\* osStartThread of a stopped thread: start_thread, then the shim yields so
\* that a more urgent thread runs first.  A restart installs no resume.
StartStopped(me, t) ==
  /\ CallsNow(me, "Start")
  /\ state[t] = "Stopped"
  /\ MidCall(t) => "RestartMidCall" \in Calls[me]
  /\ pending_resume' = IF Started(t) THEN pending_resume
                       ELSE [pending_resume EXCEPT ![t] = Start]
  /\ Suspend(me, "start", [state EXCEPT ![t] = "Runnable"], "Runnable")
  /\ run_queue' = Enqueue(Enqueue(run_queue, t), me)
  /\ UNCHANGED <<priority, retired, last_resumed, queues, hostVars>>

\* Of any other, the caller for one: start_thread's first assertion fails.
StartUnstopped(me, t) ==
  /\ CallsNow(me, "StartUnstopped")
  /\ Created(t)
  /\ state[t] # "Stopped"
  /\ panic' = "NotStopped"
  /\ UNCHANGED <<threadVars, runVars, queues, event_table, pending_target, host_work>>

StartThread(me, t) == StartStopped(me, t) \/ StartUnstopped(me, t)

\* Yield::StopSelf: pause_self, where N64Recomp found a guest self-branch.
PauseSelf(me) ==
  /\ CallsNow(me, "Pause")
  /\ Suspend(me, "any", state, "Stopped")
  /\ queues' = Unwaited(me)
  /\ run_queue' = Without(run_queue, me)
  /\ pending_resume' = [pending_resume EXCEPT ![me] = NoResume]
  /\ UNCHANGED <<priority, retired, last_resumed, hostVars>>

\* Yield::InstructionCheckpoint: a time target the host must commit first.
Checkpoint(me) ==
  /\ CallsNow(me, "Checkpoint")
  /\ Suspend(me, "any", state, "Runnable")
  /\ run_queue' = Enqueue(run_queue, me)
  /\ pending_target' = TRUE
  /\ UNCHANGED <<priority, retired, last_resumed, pending_resume, queues, event_table,
                 host_work, panic>>

\* Yield::HostInterruptAccepted and accept_host_kernel_work.
AcceptInterrupt(me) ==
  /\ CallsNow(me, "Interrupt")
  /\ host_work = NoThread /\ ~pending_target
  /\ running \in {me, NoThread}
  /\ Suspend(me, "any", state, "Runnable")
  /\ run_queue' = Enqueue(run_queue, me)
  /\ host_work' = me
  /\ UNCHANGED <<priority, retired, last_resumed, pending_resume, queues, event_table,
                 pending_target, panic>>

\* The body returns: destroy_thread.
Return(me) ==
  /\ CallsNow(me, "Return")
  /\ Suspend(me, "returned", state, "Dead")
  /\ retired' = [retired EXCEPT ![me] = TRUE]
  /\ queues' = Unwaited(me)
  /\ run_queue' = Without(run_queue, me)
  /\ pending_resume' = [pending_resume EXCEPT ![me] = NoResume]
  /\ last_resumed' = IF last_resumed = me THEN NoThread ELSE last_resumed
  /\ UNCHANGED <<priority, hostVars>>

-----------------------------------------------------------------------------
(* Messages.                                                               *)

\* Mutants: off by one.
HasTwoReceivers(q) == Len(queues[q].receivers) > 1
IsOverfull(q)      == Len(queues[q].messages) > queues[q].capacity

HasReceiver(q) == queues[q].receivers # <<>>
HasSender(q)   == queues[q].senders # <<>>
IsFull(q)      == Len(queues[q].messages) = queues[q].capacity
IsEmpty(q)     == queues[q].messages = <<>>

\* Mutant: a jam is queued like a send.
PutLast(ms, m, place) == Append(ms, m)

\* try_send, try_jam.
Put(ms, m, place) == IF place = "Head" THEN <<m>> \o ms ELSE Append(ms, m)

\* The queue with one more message.
Queued(q, m, place) == [queues[q] EXCEPT !.messages = Put(@, m, place)]

\* block_receiver, block_sender.
ReceiverParked(q, w) == [queues[q] EXCEPT !.receivers = Park(@, w)]
SenderParked(q, w)   == [queues[q] EXCEPT !.senders = Park(@, w)]

FirstReceiver(q) == Head(queues[q].receivers).id
FirstSender(q)   == Head(queues[q].senders)

\* The queue once its first receiver has been taken off the list.
ReceiverGone(q)  == [queues[q] EXCEPT !.receivers = Tail(@)]

\* Mutant: the freed slot stays free and the sender parked.
ReceivedOnly(q)  == [queues[q] EXCEPT !.messages = Tail(@)]

\* try_recv, and wake_one_sender when a sender waits for the slot.
Received(q) ==
  IF HasSender(q)
  THEN [capacity  |-> queues[q].capacity,
        messages  |-> Put(Tail(queues[q].messages), FirstSender(q).msg, FirstSender(q).place),
        receivers |-> queues[q].receivers,
        senders   |-> Tail(queues[q].senders)]
  ELSE [queues[q] EXCEPT !.messages = Tail(@)]

\* Yield::BlockOnRecv: osRecvMesg and try_deliver_recv.
RecvMesg(me, q, may_block) ==
  /\ CallsNow(me, IF may_block THEN "Recv" ELSE "TryRecv")
  /\ \/ /\ ~IsEmpty(q) /\ ~HasSender(q)
        /\ queues' = [queues EXCEPT ![q] = Received(q)]
        /\ pending_resume' = [pending_resume EXCEPT ![me] = Delivered(Head(queues[q].messages))]
        /\ Suspend(me, "recv", state, "Runnable")
        /\ run_queue' = Enqueue(run_queue, me)
     \/ /\ ~IsEmpty(q) /\ HasSender(q)
        /\ LET w == FirstSender(q).id IN
             /\ state[w] \in Blocked
             /\ queues' = [queues EXCEPT ![q] = Received(q)]
             /\ pending_resume' = [pending_resume EXCEPT ![w]  = SendUnblocked,
                                     ![me] = Delivered(Head(queues[q].messages))]
             /\ Suspend(me, "recv", [state EXCEPT ![w] = "Runnable"], "Runnable")
             /\ run_queue' = Enqueue(Enqueue(run_queue, w), me)
     \/ /\ IsEmpty(q) /\ may_block
        /\ queues' = [queues EXCEPT ![q] = ReceiverParked(q, [id |-> me, pri |-> priority[me]])]
        /\ Suspend(me, "recv", state, "BlockedOnRecv")
        /\ UNCHANGED <<run_queue, pending_resume>>
     \/ /\ IsEmpty(q) /\ ~may_block
        /\ pending_resume' = [pending_resume EXCEPT ![me] = WouldBlock]
        /\ Suspend(me, "recv", state, "Runnable")
        /\ run_queue' = Enqueue(run_queue, me)
        /\ UNCHANGED queues
  /\ UNCHANGED <<priority, retired, last_resumed, hostVars>>

SendCall(place, may_block) ==
  IF place = "Head" THEN IF may_block THEN "Jam" ELSE "TryJam"
                    ELSE IF may_block THEN "Send" ELSE "TrySend"

\* Yield::BlockOnSend: osSendMesg, osJamMesg and try_deliver_send.
SendMesg(me, q, m, place, may_block) ==
  /\ CallsNow(me, SendCall(place, may_block))
  /\ \/ /\ HasReceiver(q)
        /\ LET w == FirstReceiver(q) IN
             /\ state[w] \in Blocked
             /\ queues' = [queues EXCEPT ![q] = ReceiverGone(q)]
             /\ pending_resume' = [pending_resume EXCEPT ![w] = Delivered(m), ![me] = SendUnblocked]
             /\ Suspend(me, "send", [state EXCEPT ![w] = "Runnable"], "Runnable")
             /\ run_queue' = Enqueue(Enqueue(run_queue, w), me)
     \/ /\ ~HasReceiver(q) /\ ~IsFull(q)
        /\ queues' = [queues EXCEPT ![q] = Queued(q, m, place)]
        /\ pending_resume' = [pending_resume EXCEPT ![me] = SendUnblocked]
        /\ Suspend(me, "send", state, "Runnable")
        /\ run_queue' = Enqueue(run_queue, me)
     \/ /\ ~HasReceiver(q) /\ IsFull(q) /\ may_block
        /\ queues' = [queues EXCEPT ![q] =
                        SenderParked(q, [id |-> me, pri |-> priority[me], msg |-> m, place |-> place])]
        /\ Suspend(me, "send", state, "BlockedOnSend")
        /\ UNCHANGED <<run_queue, pending_resume>>
     \/ /\ ~HasReceiver(q) /\ IsFull(q) /\ ~may_block
        /\ pending_resume' = [pending_resume EXCEPT ![me] = WouldBlock]
        /\ Suspend(me, "send", state, "Runnable")
        /\ run_queue' = Enqueue(run_queue, me)
        /\ UNCHANGED queues
  /\ UNCHANGED <<priority, retired, last_resumed, hostVars>>

\* Mutant: a full queue gives up its oldest message.
PostedNewest(q, m) ==
  [queues[q] EXCEPT !.messages = Append(IF IsFull(q) /\ @ # <<>> THEN Tail(@) ELSE @, m)]

\* The queue after a post that finds no receiver: a full one drops it.
Posted(q, m) == IF IsFull(q) THEN queues[q] ELSE Queued(q, m, "Tail")

\* deliver_or_enqueue: hand over, or else queue.
Deliver(q, m) ==
  \/ /\ HasReceiver(q)
     /\ LET w == FirstReceiver(q) IN
          /\ state[w] \in Blocked
          /\ queues' = [queues EXCEPT ![q] = ReceiverGone(q)]
          /\ state' = [state EXCEPT ![w] = "Runnable"]
          /\ run_queue' = Enqueue(run_queue, w)
          /\ pending_resume' = [pending_resume EXCEPT ![w] = Delivered(m)]
  \/ /\ ~HasReceiver(q)
     /\ queues' = [queues EXCEPT ![q] = Posted(q, m)]
     /\ UNCHANGED <<state, run_queue, pending_resume>>

\* A timer, a device's DirectPost, or a manager shim's completion: between
\* steps once the time target is taken, or from inside a guest call.
Post(q, m) ==
  /\ panic = "None"
  /\ ~pending_target
  /\ Deliver(q, m)
  /\ UNCHANGED <<priority, retired, point, running, last_resumed, hostVars>>

\* inject_event for a registered code; deliver_vi_retrace and
\* inject_optional_os_event look the registration up first.
InjectEvent(e) ==
  /\ panic = "None"
  /\ ~pending_target
  /\ event_table[e] # NoQueue
  /\ Deliver(event_table[e], e)
  /\ UNCHANGED <<priority, retired, point, running, last_resumed, hostVars>>

\* A CPU fault: the optional event, then Yield::StopSelf for good.  The
\* faulting thread runs, so the event finds some other thread waiting.
Fault(me, e) ==
  /\ CallsNow(me, "Fault")
  /\ point' = [point EXCEPT ![me] = "fault"]
  /\ running' = Release(me)
  /\ \/ /\ event_table[e] # NoQueue /\ HasReceiver(event_table[e])
        /\ LET q == event_table[e]
               w == FirstReceiver(q)
           IN /\ state[w] \in Blocked
              /\ queues' = [queues EXCEPT ![q] = ReceiverGone(q)]
              /\ state' = [state EXCEPT ![w] = "Runnable", ![me] = "Stopped"]
              /\ run_queue' = Without(Enqueue(run_queue, w), me)
              /\ pending_resume' = [pending_resume EXCEPT ![w] = Delivered(e), ![me] = NoResume]
     \/ /\ event_table[e] # NoQueue /\ ~HasReceiver(event_table[e])
        /\ queues' = [queues EXCEPT ![event_table[e]] = Posted(event_table[e], e)]
        /\ state' = [state EXCEPT ![me] = "Stopped"]
        /\ run_queue' = Without(run_queue, me)
        /\ pending_resume' = [pending_resume EXCEPT ![me] = NoResume]
     \/ /\ event_table[e] = NoQueue
        /\ state' = [state EXCEPT ![me] = "Stopped"]
        /\ run_queue' = Without(run_queue, me)
        /\ pending_resume' = [pending_resume EXCEPT ![me] = NoResume]
        /\ UNCHANGED queues
  /\ UNCHANGED <<priority, retired, last_resumed, hostVars>>

-----------------------------------------------------------------------------
(* The host driver between steps.                                          *)

\* fn64-abi's run_one_step takes the target and walks time up to it.
CommitTimeTarget ==
  /\ panic = "None"
  /\ Quiescent
  /\ pending_target
  /\ pending_target' = FALSE
  /\ UNCHANGED <<threadVars, runVars, queues, event_table, host_work, panic>>

\* commit_host_kernel_work, at the work's deadline.
CommitHostWork ==
  /\ panic = "None"
  /\ Quiescent
  /\ ~pending_target
  /\ host_work # NoThread
  /\ host_work' = NoThread
  /\ UNCHANGED <<threadVars, runVars, queues, event_table, pending_target, panic>>

-----------------------------------------------------------------------------
\* The tokens between a send and the receiver's resume.
InTransit ==
  (UNION {ToSet(queues[q].messages) \union {w.msg : w \in ToSet(queues[q].senders)} : q \in Queue})
    \union {pending_resume[t].msg : t \in {u \in Thread : pending_resume[u].kind = "Delivered"}}
\* Tokens carry no meaning, so a sender takes the lowest one not in use.
Fresh == {m \in Msg \ InTransit : \A k \in Msg \ InTransit : m <= k}

GuestCall(me) ==
  \/ \E t \in Thread, p \in Priority : CreateThread(me, t, p)
  \/ \E t \in Thread : StopThread(me, t)
  \/ \E t \in Thread : DestroyThread(me, t)
  \/ \E t \in Thread, p \in Priority : SetThreadPri(me, t, p)
  \/ \E q \in Queue, c \in 0..MaxCapacity : CreateMesgQueue(me, q, c)
  \/ \E e \in Event, q \in Queue : SetEventMesg(me, e, q)

GuestSuspend(me) ==
  \/ YieldThread(me)
  \/ \E t \in Thread : StartThread(me, t)
  \/ PauseSelf(me)
  \/ Checkpoint(me)
  \/ AcceptInterrupt(me)
  \/ Return(me)
  \/ \E q \in Queue, b \in BOOLEAN : RecvMesg(me, q, b)
  \/ \E q \in Queue, m \in Fresh, place \in Placement, b \in BOOLEAN :
       SendMesg(me, q, m, place, b)
  \/ \E e \in Event : Fault(me, e)

Next ==
  \/ Dispatch
  \/ \E me \in Thread : GuestCall(me) \/ GuestSuspend(me)
  \/ \E q \in Queue, m \in Fresh : Post(q, m)
  \/ \E e \in Event : InjectEvent(e)
  \/ CommitTimeTarget
  \/ CommitHostWork

Spec == Init /\ [][Next]_vars

-----------------------------------------------------------------------------
(***************************************************************************)
(* Properties.                                                             *)
(***************************************************************************)

\* Every variable has its type; RunToken and the pending table name threads
\* that exist, and an address holds a whole queue.
TypeOK ==
  /\ state \in [Thread -> ThreadState]
  /\ priority \in [Thread -> Priority]
  /\ retired \in [Thread -> BOOLEAN]
  /\ point \in [Thread -> Points]
  /\ run_queue \in Seq(Thread)
  /\ running \in Thread \union {NoThread}
  /\ last_resumed \in Thread \union {NoThread}
  /\ pending_resume \in [Thread -> Resumes]
  /\ queues \in [Queue -> QueueState]
  /\ \A q \in Queue : Len(queues[q].messages) <= queues[q].capacity
  /\ event_table \in [Event -> Queue \union {NoQueue}]
  /\ pending_target \in BOOLEAN
  /\ host_work \in Thread \union {NoThread}
  /\ panic \in {"None", "NotStopped", "RetiredMask", "UnexpectedResume"}

(***************************************************************************)
(* ControlInvariant is validate_control_evidence_invariants, one conjunct  *)
(* per group of its ExecutorControlInvariantError values: "a corrupt       *)
(* executor relationship ... structural bugs, never legitimate guest       *)
(* outcomes".  It speaks of five tables that every handler updates one     *)
(* after the other.  UncommittedTimeTarget, its first test, is a matter of *)
(* when the host asks and is a guard of Dispatch here.                     *)
(***************************************************************************)

\* The run queue holds exactly the runnable threads, each once.
RunQueueSound ==
  /\ NoRepeats(run_queue)
  /\ ToSet(run_queue) = {t \in Thread : state[t] = "Runnable"}

\* One thread at most runs: the owner of the run token, which was started and
\* is owed no answer.
RunningSound ==
  /\ \A t \in Thread : state[t] = "Running" <=> running = t
  /\ running # NoThread => Started(running) /\ pending_resume[running] = NoResume

\* Exactly the dead threads have given up their saved interrupt mask.
RetiredSound == \A t \in Thread : retired[t] <=> state[t] = "Dead"

\* A thread waits in one place at most, and is in the state that says so; a
\* blocked thread does wait somewhere.
WaitersSound ==
  /\ \A q \in Queue : /\ NoRepeats(WaiterIds(queues[q].receivers))
                      /\ NoRepeats(WaiterIds(queues[q].senders))
                      /\ \A w \in ToSet(queues[q].receivers) : state[w.id] = "BlockedOnRecv"
                      /\ \A w \in ToSet(queues[q].senders) : state[w.id] = "BlockedOnSend"
  /\ \A p, q \in Queue, t \in Thread : WaitsOn(t, p) /\ WaitsOn(t, q) => p = q
  /\ \A t \in Thread : state[t] \in Blocked => \E q \in Queue : WaitsOn(t, q)

\* An answer is kept only for a runnable thread, and a thread that has never
\* run is scheduled with Start and with nothing else.
PendingSound ==
  \A t \in Thread :
    /\ pending_resume[t] # NoResume => state[t] = "Runnable"
    /\ pending_resume[t] = Start => ~Started(t)
    /\ state[t] = "Runnable" /\ ~Started(t) => pending_resume[t] = Start

\* Host work interrupts a guest that exists, and no guest runs meanwhile.
HostWorkSound ==
  host_work # NoThread => running = NoThread /\ state[host_work] \notin {"Absent", "Dead"}

\* The executor's tables agree whenever control_evidence_snapshot or
\* prepare_process_exit may look at them: between steps and inside a call.
ControlInvariant ==
  RunQueueSound /\ RunningSound /\ RetiredSound /\ WaitersSound /\ PendingSound /\ HostWorkSound

\* The answer t was stopped with is gone, and it was started without another.
RestartedMidCall(t) ==
  state[t] = "Runnable" /\ MidCall(t) /\ pending_resume[t] = NoResume

\* The scheduler's assertions fail for two reasons only: a guest starts a
\* thread that is not stopped, or it restarts one that was stopped inside a
\* receive, a send or a fault, and that one is dispatched.  Otherwise a
\* dispatched coroutine is resumed with a value the code it is suspended in
\* understands (osRecvMesg and osSendMesg panic on any other), and its
\* interrupt mask is still there.
AbortsOnlyOnStart ==
  [][/\ panic' # panic =>
          \/ panic' = "NotStopped" /\ \E me, t \in Thread : StartUnstopped(me, t)
          \/ panic' = "UnexpectedResume" /\ \E t \in Thread : running' = t /\ RestartedMidCall(t)
     /\ \A t \in Thread :
          RestartedMidCall(t)' /\ ~RestartedMidCall(t) => \E me \in Thread : StartThread(me, t)]_vars

\* What start_thread says of itself, that "a later restart preserves the
\* coroutine's already-established continuation protocol": whoever is resumed
\* understands the value it is resumed with.
RestartKeepsProtocol == panic # "UnexpectedResume"

\* Where a thread stands, what state it is in and what is kept for it agree,
\* so that whichever call scheduled a thread last, the code it is suspended in
\* understands the value it is resumed with, unless it was restarted in the
\* middle of a call; only a thread that may be started afresh or has been
\* stopped mid-call is out of the schedule.
ResumeProtocol ==
  \A t \in Thread :
    /\ state[t] = "Runnable" => Answer(t).kind \in Accepts(point[t]) \/ RestartedMidCall(t)
    /\ state[t] = "BlockedOnRecv" => point[t] = "recv"
    /\ state[t] = "BlockedOnSend" => point[t] = "send"
    /\ point[t] = "body" <=> running = t
    /\ point[t] = "returned" => state[t] = "Dead"
    /\ state[t] = "Absent" => point[t] = "entry"

\* No thread waits for what is there: a queue with a parked receiver is
\* empty, one with a parked sender is full.
NoLostWakeup ==
  \A q \in Queue : /\ HasReceiver(q) => IsEmpty(q)
                   /\ HasSender(q) => IsFull(q)

\* A sent token leaves the system only when the thread it was handed to runs,
\* when the thread that was handed it or was parked with it is stopped, or when
\* the guest re-creates the queue; no other write to the pending table or to a
\* queue may drop one.
HeldBy(t, m) ==
  \/ pending_resume[t] = Delivered(m)
  \/ \E q \in Queue : \E w \in ToSet(queues[q].senders) : w.id = t /\ w.msg = m
NoSilentLoss ==
  [][\A m \in Msg \cap (InTransit \ InTransit') :
       \/ \E t \in Thread : pending_resume[t] = Delivered(m) /\ running' = t
       \/ \E t \in Thread : HeldBy(t, m) /\ state'[t] \in {"Stopped", "Dead"}
       \/ \E me \in Thread, q \in Queue, c \in 0..MaxCapacity : CreateMesgQueue(me, q, c)]_vars

\* The run queue is served highest priority first and in turn among equals:
\* whoever runs next is urgent enough, two queued threads never change places
\* unless their priorities say so, and a newcomer goes behind its equals.
Before(rq, t, u) == \E i, j \in DOMAIN rq : i < j /\ rq[i] = t /\ rq[j] = u
RunsInOrder ==
  [][/\ running' # running /\ running' # NoThread =>
          \A t \in Thread : state[t] = "Runnable" => priority[t] <= priority[running']
     /\ \A t, u \in ToSet(run_queue') :
          Before(run_queue', t, u) =>
             /\ priority'[t] >= priority'[u]
             /\ priority'[t] = priority'[u] => ~Before(run_queue, u, t)
             /\ priority'[t] = priority'[u] /\ u \in ToSet(run_queue) => t \in ToSet(run_queue)]_vars

\* A stopped thread does nothing until another thread starts or destroys it,
\* and a dead one is dead for good: no late answer, post, or priority change
\* makes either run.
StoppedStaysStopped ==
  [][\A t \in Thread :
       /\ state[t] = "Stopped" /\ state'[t] # "Stopped" =>
            \E me \in Thread \ {t} : StartThread(me, t) \/ DestroyThread(me, t)
       /\ state[t] = "Dead" => state'[t] = "Dead"]_vars

\* Every queue of the executor is the double-ended list MesgDeque describes,
\* seen by all the threads at once: scheduling, stopping, faults and the host's
\* posts add nothing to its behaviour.  An answer does not say which queue it
\* came from, so this is stated for a single queue.
TheQueue == CHOOSE q \in Queue : TRUE
Answered(t) == pending_resume[t].kind \in {"Delivered", "SendUnblocked", "WouldBlock"}
Deque == INSTANCE MesgDeque
           WITH Msg <- Payload,
                capacity <- queues[TheQueue].capacity, messages <- queues[TheQueue].messages,
                receivers <- queues[TheQueue].receivers, senders <- queues[TheQueue].senders,
                result <- [t \in Thread |-> IF Answered(t) THEN pending_resume[t] ELSE NoResume]
ImplementsDeque == Deque!Spec

(***************************************************************************)
(* Liveness.  The host keeps calling run_one_step and committing deadlines *)
(* (fn64-abi's drivers loop on them), and guest code reaches a suspending  *)
(* call again and again: a body that never does would hang the host, which *)
(* the code answers by making every guest spin loop yield.                 *)
(***************************************************************************)
Fairness ==
  /\ WF_vars(Dispatch)
  /\ WF_vars(\E me \in Thread : GuestSuspend(me))
  /\ WF_vars(CommitTimeTarget)
  /\ WF_vars(CommitHostWork)

FairSpec == Spec /\ Fairness

\* A runnable thread that nothing outranks gets the run token.
UrgentRuns ==
  \A t \in Thread :
    (state[t] = "Runnable" /\ \A u \in Thread : priority[u] <= priority[t])
      ~> (running = t \/ state[t] \in {"Stopped", "Dead"})

\* A parked thread gets its answer: with both sides of a queue at work,
\* neither waits for ever.
ParkedIsServed ==
  \A t \in Thread : (state[t] \in Blocked) ~> (running = t)
=============================================================================
