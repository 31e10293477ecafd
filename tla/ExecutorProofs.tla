--------------------------- MODULE ExecutorProofs ---------------------------
(***************************************************************************)
(* Theorems about Executor, for every set of threads, queues, events and   *)
(* priorities, every capacity and every workload.                          *)
(*                                                                         *)
(* ControlInvariant holds of every workload in which no thread stops or    *)
(* destroys itself, stops a dead thread, or re-creates a queue others wait *)
(* on (Disciplined); a stopped thread may be restarted wherever it stands. *)
(* The inductive invariant is ControlInvariant /\ ResumeProtocol, taken    *)
(* apart into one condition on each thread (Sound), one on the waiter      *)
(* lists (WaitSound), and RunQueueSound and HostWorkSound.  From it follow *)
(* the action properties: AbortsOnlyOnStart, StoppedStaysStopped,          *)
(* RunsInOrder and NoSilentLoss.                                           *)
(* MoveIsSort says that Executor's reading of the run queue's sort is the  *)
(* sort, and QueueImplementsDeque that a queue of the executor is the list *)
(* MesgDeque describes.                                                    *)
(***************************************************************************)
EXTENDS RunQueueSort, WaitListProofs, FiniteSetTheorems, FunctionTheorems

-----------------------------------------------------------------------------
(* What the helpers return.                                                *)

\* The run queue's ranks are integers, one per thread queued.
LEMMA RanksFacts ==
  ASSUME TypeOK, NEW rq \in Seq(Thread)
  PROVE  Ranks(rq) \in Seq(Int) /\ Len(Ranks(rq)) = Len(rq)
  <1>1. Len(rq) \in Nat /\ DOMAIN rq = 1..Len(rq) /\ \A i \in 1..Len(rq) : rq[i] \in Thread
    BY LenProperties, ElementOfSeq
  <1>2. \A i \in 1..Len(rq) : priority[rq[i]] \in Int
    BY <1>1, ExecutorAssumption DEF TypeOK
  <1> QED BY <1>1, <1>2 DEF Ranks

\* Enqueue adds one thread.
LEMMA EnqueueFacts ==
  ASSUME TypeOK, NEW rq \in Seq(Thread), NEW t \in Thread
  PROVE  /\ Enqueue(rq, t) \in Seq(Thread)
         /\ ToSet(Enqueue(rq, t)) = ToSet(rq) \union {t}
         /\ NoRepeats(rq) /\ t \notin ToSet(rq) => NoRepeats(Enqueue(rq, t))
  BY RanksFacts, PriorityInsertFacts DEF Enqueue

\* A queue holds what its capacity allows.
Fits(r) == r \in QueueState /\ Len(r.messages) <= r.capacity

QReceiver == [id : Thread, pri : Priority]
QSender   == [id : Thread, pri : Priority, msg : Payload, place : Placement]

\* The fields of a queue.
LEMMA QueueFields ==
  ASSUME NEW r
  PROVE  r \in QueueState <=>
           /\ r = [capacity |-> r.capacity, messages |-> r.messages,
                   receivers |-> r.receivers, senders |-> r.senders]
           /\ r.capacity \in 0..MaxCapacity
           /\ r.messages \in Seq(Payload)
           /\ r.receivers \in Seq(QReceiver)
           /\ r.senders \in Seq(QSender)
  BY DEF QueueState, QReceiver, QSender

\* Replacing one field of a queue.
LEMMA QueueExcept ==
  ASSUME NEW r \in QueueState, NEW x
  PROVE  /\ [r EXCEPT !.messages = x] =
              [capacity |-> r.capacity, messages |-> x, receivers |-> r.receivers, senders |-> r.senders]
         /\ [r EXCEPT !.receivers = x] =
              [capacity |-> r.capacity, messages |-> r.messages, receivers |-> x, senders |-> r.senders]
         /\ [r EXCEPT !.senders = x] =
              [capacity |-> r.capacity, messages |-> r.messages, receivers |-> r.receivers, senders |-> x]
  <1>1. [r EXCEPT !.messages = x] =
          [capacity |-> r.capacity, messages |-> x, receivers |-> r.receivers, senders |-> r.senders]
    BY DEF QueueState
  <1>2. [r EXCEPT !.receivers = x] =
          [capacity |-> r.capacity, messages |-> r.messages, receivers |-> x, senders |-> r.senders]
    BY DEF QueueState
  <1>3. [r EXCEPT !.senders = x] =
          [capacity |-> r.capacity, messages |-> r.messages, receivers |-> r.receivers, senders |-> x]
    BY DEF QueueState
  <1> QED BY <1>1, <1>2, <1>3

\* TypeOK's part about queues.
LEMMA QueueTypes ==
  ASSUME TypeOK, NEW q \in Queue
  PROVE  /\ Fits(queues[q])
         /\ queues[q].capacity \in 0..MaxCapacity
         /\ queues[q].messages \in Seq(Payload)
         /\ queues[q].receivers \in Seq(QReceiver)
         /\ queues[q].senders \in Seq(QSender)
         /\ Len(queues[q].messages) \in Nat
  BY QueueFields, LenProperties DEF TypeOK, Fits

\* A new queue is empty.
LEMMA NewQueueFacts ==
  ASSUME NEW n \in 0..MaxCapacity
  PROVE  Fits(NewQueue(n))
  <1>1. <<>> \in Seq(Payload) /\ <<>> \in Seq(QReceiver) /\ <<>> \in Seq(QSender) /\ Len(<<>>) = 0
    OBVIOUS
  <1>2. NewQueue(n) \in QueueState
    BY <1>1 DEF NewQueue, QueueState, QReceiver, QSender
  <1>3. NewQueue(n).messages = <<>> /\ NewQueue(n).capacity = n
    BY DEF NewQueue
  <1> QED BY <1>1, <1>2, <1>3, ExecutorAssumption DEF Fits

\* Putting a message in adds one.
LEMMA PutFacts ==
  ASSUME NEW ms \in Seq(Payload), NEW m \in Payload, NEW place
  PROVE  Put(ms, m, place) \in Seq(Payload) /\ Len(Put(ms, m, place)) = Len(ms) + 1
  <1>1. <<m>> \in Seq(Payload) /\ Len(<<m>>) = 1
    OBVIOUS
  <1>2. <<m>> \o ms \in Seq(Payload) /\ Len(<<m>> \o ms) = Len(ms) + 1
    BY <1>1, ConcatProperties, LenProperties
  <1>3. Append(ms, m) \in Seq(Payload) /\ Len(Append(ms, m)) = Len(ms) + 1
    BY AppendProperties
  <1> QED BY <1>2, <1>3 DEF Put

\* Taking a stopped thread off every list leaves the messages alone.
LEMMA UnwaitedFacts ==
  ASSUME TypeOK, NEW t \in Thread
  PROVE  /\ DOMAIN Unwaited(t) = Queue
         /\ \A q \in Queue :
              /\ Fits(Unwaited(t)[q])
              /\ Unwaited(t)[q].capacity = queues[q].capacity
              /\ Unwaited(t)[q].messages = queues[q].messages
              /\ Unwaited(t)[q].receivers = Unpark(queues[q].receivers, t)
              /\ Unwaited(t)[q].senders = Unpark(queues[q].senders, t)
  <1>1. ASSUME NEW q \in Queue
        PROVE  /\ Fits(Unwaited(t)[q])
               /\ Unwaited(t)[q].capacity = queues[q].capacity
               /\ Unwaited(t)[q].messages = queues[q].messages
               /\ Unwaited(t)[q].receivers = Unpark(queues[q].receivers, t)
               /\ Unwaited(t)[q].senders = Unpark(queues[q].senders, t)
    <2>1. /\ Unpark(queues[q].receivers, t) \in Seq(QReceiver)
          /\ Unpark(queues[q].senders, t) \in Seq(QSender)
      BY QueueTypes, UnparkFacts
    <2>2. Unwaited(t)[q] =
            [capacity |-> queues[q].capacity, messages |-> queues[q].messages,
             receivers |-> Unpark(queues[q].receivers, t), senders |-> Unpark(queues[q].senders, t)]
      BY DEF Unwaited
    <2> QED BY <2>1, <2>2, QueueTypes, QueueFields DEF Fits
  <1> QED BY <1>1 DEF Unwaited

\* What is left of a queue whose first receiver was served.
LEMMA ReceiverGoneFacts ==
  ASSUME TypeOK, NEW q \in Queue, HasReceiver(q)
  PROVE  /\ Fits(ReceiverGone(q))
         /\ ReceiverGone(q) =
              [capacity |-> queues[q].capacity, messages |-> queues[q].messages,
               receivers |-> Tail(queues[q].receivers), senders |-> queues[q].senders]
         /\ FirstReceiver(q) \in Thread
  <1>1. /\ Tail(queues[q].receivers) \in Seq(QReceiver)
        /\ Head(queues[q].receivers) \in QReceiver
    BY QueueTypes, TailFacts DEF HasReceiver
  <1>2. queues[q] \in QueueState
    BY QueueTypes DEF Fits
  <1>3. ReceiverGone(q) =
              [capacity |-> queues[q].capacity, messages |-> queues[q].messages,
               receivers |-> Tail(queues[q].receivers), senders |-> queues[q].senders]
    BY <1>2, QueueExcept DEF ReceiverGone
  <1> QED BY <1>1, <1>3, QueueTypes, QueueFields DEF Fits, FirstReceiver, QReceiver

\* What is left of a queue a message was received from.
LEMMA ReceivedFacts ==
  ASSUME TypeOK, NEW q \in Queue, ~IsEmpty(q)
  PROVE  /\ Fits(Received(q))
         /\ Received(q).receivers = queues[q].receivers
         /\ Received(q).capacity = queues[q].capacity
         /\ Head(queues[q].messages) \in Payload
         /\ HasSender(q) =>
              /\ FirstSender(q) \in QSender
              /\ Len(Received(q).messages) = Len(queues[q].messages)
              /\ Received(q).senders = Tail(queues[q].senders)
         /\ ~HasSender(q) =>
              /\ Received(q).messages = Tail(queues[q].messages)
              /\ Received(q).senders = queues[q].senders
  <1> DEFINE s == queues[q].senders
             ms == queues[q].messages
             put == Put(Tail(ms), FirstSender(q).msg, FirstSender(q).place)
  <1>1. queues[q] \in QueueState /\ ms \in Seq(Payload) /\ Len(ms) \in Nat
    BY QueueTypes DEF Fits
  <1>2. Tail(ms) \in Seq(Payload) /\ Head(ms) \in Payload /\ Len(Tail(ms)) = Len(ms) - 1
    BY <1>1, TailFacts DEF IsEmpty
  <1>3. CASE HasSender(q)
    <2>1. Tail(s) \in Seq(QSender) /\ FirstSender(q) \in QSender
      BY <1>3, QueueTypes, TailFacts DEF HasSender, FirstSender
    <2>2. FirstSender(q).msg \in Payload
      BY <2>1 DEF QSender
    <2>4. put \in Seq(Payload) /\ Len(put) = Len(ms)
      <3>1. put \in Seq(Payload) /\ Len(put) = Len(Tail(ms)) + 1
        BY <2>2, <1>2, PutFacts
      <3> HIDE DEF put
      <3> QED BY <3>1, <1>1, <1>2
    <2>3. Received(q) = [capacity |-> queues[q].capacity, messages |-> put,
                         receivers |-> queues[q].receivers, senders |-> Tail(s)]
      BY <1>1, <1>3, QueueExcept DEF Received
    <2> HIDE DEF put, ms, s
    <2>5. Fits(Received(q))
      <3>1. /\ Len(ms) <= queues[q].capacity
            /\ queues[q].capacity \in 0..MaxCapacity
            /\ queues[q].receivers \in Seq(QReceiver)
        BY QueueTypes DEF Fits, ms
      <3>2. Received(q) \in QueueState
        BY <2>1, <2>3, <2>4, <3>1, QueueFields
      <3> QED BY <2>3, <2>4, <3>1, <3>2 DEF Fits
    <2> QED BY <1>2, <1>3, <2>1, <2>3, <2>4, <2>5 DEF ms, s
  <1>4. CASE ~HasSender(q)
    <2>1. Received(q) = [capacity |-> queues[q].capacity, messages |-> Tail(ms),
                         receivers |-> queues[q].receivers, senders |-> s]
      BY <1>1, <1>4, QueueExcept DEF Received
    <2>2. Len(Tail(ms)) <= queues[q].capacity
      BY <1>1, <1>2, QueueTypes DEF Fits
    <2> HIDE DEF ms, s
    <2>3. Fits(Received(q))
      BY <1>2, <2>1, <2>2, QueueTypes, QueueFields DEF Fits, s
    <2> QED BY <1>2, <1>4, <2>1, <2>3 DEF ms, s
  <1> QED BY <1>3, <1>4

\* A queue with one more message.
LEMMA QueuedFacts ==
  ASSUME TypeOK, NEW q \in Queue, NEW m \in Payload, NEW place, ~IsFull(q)
  PROVE  /\ Fits(Queued(q, m, place))
         /\ Queued(q, m, place).receivers = queues[q].receivers
         /\ Queued(q, m, place).senders = queues[q].senders
         /\ Queued(q, m, place).capacity = queues[q].capacity
  <1> DEFINE ms == Put(queues[q].messages, m, place)
  <1>1. queues[q] \in QueueState /\ Len(queues[q].messages) \in Nat /\ queues[q].capacity \in Int
    BY QueueTypes DEF Fits
  <1>2. ms \in Seq(Payload) /\ Len(ms) = Len(queues[q].messages) + 1
    BY QueueTypes, PutFacts
  <1>3. Queued(q, m, place) = [capacity |-> queues[q].capacity, messages |-> ms,
                               receivers |-> queues[q].receivers, senders |-> queues[q].senders]
    BY <1>1, QueueExcept DEF Queued
  <1>4. Len(ms) <= queues[q].capacity
    BY <1>1, <1>2, QueueTypes DEF IsFull, Fits
  <1> HIDE DEF ms
  <1> QED BY <1>2, <1>3, <1>4, QueueTypes, QueueFields DEF Fits

\* What a post that finds nobody leaves.
LEMMA PostedFacts ==
  ASSUME TypeOK, NEW q \in Queue, NEW m \in Payload
  PROVE  /\ Fits(Posted(q, m))
         /\ Posted(q, m).receivers = queues[q].receivers
         /\ Posted(q, m).senders = queues[q].senders
         /\ Posted(q, m).capacity = queues[q].capacity
         /\ IsFull(q) => Posted(q, m) = queues[q]
  BY QueuedFacts, QueueTypes DEF Posted

\* Queues with one more waiter.
LEMMA ReceiverParkedFacts ==
  ASSUME TypeOK, NEW q \in Queue, NEW w \in QReceiver
  PROVE  /\ Fits(ReceiverParked(q, w))
         /\ ReceiverParked(q, w) =
              [capacity |-> queues[q].capacity, messages |-> queues[q].messages,
               receivers |-> Park(queues[q].receivers, w), senders |-> queues[q].senders]
  <1>1. queues[q] \in QueueState /\ Park(queues[q].receivers, w) \in Seq(QReceiver)
    BY QueueTypes, ParkFacts DEF Fits
  <1>2. ReceiverParked(q, w) =
          [capacity |-> queues[q].capacity, messages |-> queues[q].messages,
           receivers |-> Park(queues[q].receivers, w), senders |-> queues[q].senders]
    BY <1>1, QueueExcept DEF ReceiverParked
  <1> QED BY <1>1, <1>2, QueueTypes, QueueFields DEF Fits

\* The same for a sender with its message.
LEMMA SenderParkedFacts ==
  ASSUME TypeOK, NEW q \in Queue, NEW w \in QSender
  PROVE  /\ Fits(SenderParked(q, w))
         /\ SenderParked(q, w) =
              [capacity |-> queues[q].capacity, messages |-> queues[q].messages,
               receivers |-> queues[q].receivers, senders |-> Park(queues[q].senders, w)]
  <1>1. queues[q] \in QueueState /\ Park(queues[q].senders, w) \in Seq(QSender)
    BY QueueTypes, ParkFacts DEF Fits
  <1>2. SenderParked(q, w) =
          [capacity |-> queues[q].capacity, messages |-> queues[q].messages,
           receivers |-> queues[q].receivers, senders |-> Park(queues[q].senders, w)]
    BY <1>1, QueueExcept DEF SenderParked
  <1> QED BY <1>1, <1>2, QueueTypes, QueueFields DEF Fits

-----------------------------------------------------------------------------
(* Types, and no lost wakeup.  The queue part of both is one condition on  *)
(* each queue, which every helper above keeps.                             *)

\* Nobody waits at r for what r has.
Served(r) == /\ r.receivers # <<>> => r.messages = <<>>
             /\ r.senders # <<>> => Len(r.messages) = r.capacity

QueuesOK(f) == f \in [Queue -> QueueState] /\ \A q \in Queue : Fits(f[q]) /\ Served(f[q])

\* What TypeOK and NoLostWakeup say of the queues alone.
LEMMA QueuesOKFacts ==
  TypeOK /\ NoLostWakeup => QueuesOK(queues)
  BY QueueTypes DEF TypeOK, NoLostWakeup, QueuesOK, Served, HasReceiver, HasSender, IsFull, IsEmpty

\* Replacing one queue.
LEMMA QueueReplaced ==
  ASSUME QueuesOK(queues), NEW q \in Queue, NEW r, Fits(r), Served(r)
  PROVE  QueuesOK([queues EXCEPT ![q] = r])
  BY DEF QueuesOK, Fits

\* A stopped thread leaves every queue as well served as before.
LEMMA UnwaitedServed ==
  ASSUME TypeOK, QueuesOK(queues), NEW t \in Thread
  PROVE  QueuesOK(Unwaited(t))
  <1>1. ASSUME NEW q \in Queue PROVE Unwaited(t)[q] \in QueueState /\ Fits(Unwaited(t)[q])
    BY UnwaitedFacts DEF Fits
  <1>2. ASSUME NEW q \in Queue PROVE Served(Unwaited(t)[q])
    <2>1. /\ queues[q].receivers = <<>> => Unpark(queues[q].receivers, t) = <<>>
          /\ queues[q].senders = <<>> => Unpark(queues[q].senders, t) = <<>>
      BY QueueTypes, UnparkFacts
    <2>2. Served(queues[q])
      BY DEF QueuesOK
    <2>3. /\ Unwaited(t)[q].capacity = queues[q].capacity
          /\ Unwaited(t)[q].messages = queues[q].messages
          /\ Unwaited(t)[q].receivers = Unpark(queues[q].receivers, t)
          /\ Unwaited(t)[q].senders = Unpark(queues[q].senders, t)
      BY UnwaitedFacts
    <2> QED BY <2>1, <2>2, <2>3 DEF Served
  <1> QED BY <1>1, <1>2 DEF QueuesOK, Unwaited

\* A handover, a receive, a queued message, a parked waiter.
LEMMA ReceiverGoneServed ==
  ASSUME TypeOK, QueuesOK(queues), NEW q \in Queue, HasReceiver(q)
  PROVE  Fits(ReceiverGone(q)) /\ Served(ReceiverGone(q))
  <1>1. Served(queues[q])
    BY DEF QueuesOK
  <1> QED BY <1>1, ReceiverGoneFacts DEF Served, HasReceiver

\* A receive, which refills the slot from the first sender, leaves nobody unserved.
LEMMA ReceivedServed ==
  ASSUME TypeOK, QueuesOK(queues), NEW q \in Queue, ~IsEmpty(q)
  PROVE  Fits(Received(q)) /\ Served(Received(q))
  <1>1. Served(queues[q])
    BY DEF QueuesOK
  <1>2. CASE HasSender(q)
    BY <1>1, <1>2, ReceivedFacts DEF Served, HasSender, IsEmpty
  <1>3. CASE ~HasSender(q)
    BY <1>1, <1>3, ReceivedFacts DEF Served, HasSender, IsEmpty
  <1> QED BY <1>2, <1>3

\* A message queued where nobody waits to receive.
LEMMA QueuedServed ==
  ASSUME TypeOK, QueuesOK(queues), NEW q \in Queue, NEW m \in Payload, NEW place,
         ~HasReceiver(q), ~IsFull(q)
  PROVE  Fits(Queued(q, m, place)) /\ Served(Queued(q, m, place))
  <1>1. Served(queues[q])
    BY DEF QueuesOK
  <1> QED BY <1>1, QueuedFacts DEF Served, HasReceiver, IsFull

\* A post where nobody waits to receive, kept or dropped.
LEMMA PostedServed ==
  ASSUME TypeOK, QueuesOK(queues), NEW q \in Queue, NEW m \in Payload, ~HasReceiver(q)
  PROVE  Fits(Posted(q, m)) /\ Served(Posted(q, m))
  <1>1. Fits(queues[q]) /\ Served(queues[q])
    BY DEF QueuesOK
  <1> QED BY <1>1, QueuedServed DEF Posted

\* A receiver parked at an empty queue.
LEMMA ReceiverParkedServed ==
  ASSUME TypeOK, QueuesOK(queues), NEW q \in Queue, NEW w \in QReceiver, IsEmpty(q)
  PROVE  Fits(ReceiverParked(q, w)) /\ Served(ReceiverParked(q, w))
  <1>1. Served(queues[q])
    BY DEF QueuesOK
  <1> QED BY <1>1, ReceiverParkedFacts DEF Served, IsEmpty

\* A sender parked at a full queue.
LEMMA SenderParkedServed ==
  ASSUME TypeOK, QueuesOK(queues), NEW q \in Queue, NEW w \in QSender, ~HasReceiver(q), IsFull(q)
  PROVE  Fits(SenderParked(q, w)) /\ Served(SenderParked(q, w))
  <1>1. Served(queues[q])
    BY DEF QueuesOK
  <1> QED BY <1>1, SenderParkedFacts DEF Served, HasReceiver, IsFull

\* A queue just created has no waiters.
LEMMA NewQueueServed ==
  ASSUME NEW n \in 0..MaxCapacity
  PROVE  Fits(NewQueue(n)) /\ Served(NewQueue(n))
  BY NewQueueFacts DEF NewQueue, Served

\* The rest of TypeOK.
OthersOK ==
  /\ state \in [Thread -> ThreadState]
  /\ priority \in [Thread -> Priority]
  /\ retired \in [Thread -> BOOLEAN]
  /\ point \in [Thread -> Points]
  /\ run_queue \in Seq(Thread)
  /\ running \in Thread \union {NoThread}
  /\ last_resumed \in Thread \union {NoThread}
  /\ pending_resume \in [Thread -> Resumes]
  /\ event_table \in [Event -> Queue \union {NoQueue}]
  /\ pending_target \in BOOLEAN
  /\ host_work \in Thread \union {NoThread}
  /\ panic \in {"None", "NotStopped", "RetiredMask", "UnexpectedResume"}

\* TypeOK, taken apart into the queues and the rest.
LEMMA TypeParts ==
  /\ TypeOK => OthersOK
  /\ OthersOK /\ QueuesOK(queues) => TypeOK /\ NoLostWakeup
  <1>1. TypeOK => OthersOK
    BY DEF TypeOK, OthersOK
  <1>2. OthersOK /\ QueuesOK(queues) => TypeOK
    BY DEF TypeOK, OthersOK, QueuesOK, Fits
  <1>3. QueuesOK(queues) => NoLostWakeup
    BY DEF QueuesOK, NoLostWakeup, Served, HasReceiver, HasSender, IsFull, IsEmpty
  <1> QED BY <1>1, <1>2, <1>3

\* The values kept for a thread.
LEMMA ResumeTypes ==
  /\ {NoResume, Start, WouldBlock, SendUnblocked} \subseteq Resumes
  /\ \A m \in Payload : Delivered(m) \in Resumes
  /\ \A m \in Msg \union Event : m \in Payload
  /\ \A m \in Fresh : m \in Payload
  BY DEF Resumes, Payload, Fresh

\* What Suspend leaves.
LEMMA SuspendTypes ==
  ASSUME OthersOK, NEW t \in Thread, NEW pt \in Points, NEW st \in [Thread -> ThreadState],
         NEW s \in ThreadState, Suspend(t, pt, st, s)
  PROVE  /\ point' \in [Thread -> Points]
         /\ state' \in [Thread -> ThreadState]
         /\ running' \in Thread \union {NoThread}
  BY DEF OthersOK, Suspend, Release

\* Every step keeps the types and leaves no waiter unserved.
LEMMA StepTypes ==
  ASSUME TypeOK, NoLostWakeup, [Next]_vars
  PROVE  OthersOK' /\ QueuesOK(queues')
  <1>1. OthersOK /\ QueuesOK(queues)
    BY TypeParts, QueuesOKFacts
  <1> USE <1>1
  <1>2. /\ {"Stopped", "Runnable", "Running", "BlockedOnRecv", "BlockedOnSend", "Dead"} \subseteq ThreadState
        /\ {"body", "any", "start", "recv", "send", "fault", "returned"} \subseteq Points
    BY DEF ThreadState, Points
  <1>3. CASE Dispatch
    <2>1. run_queue # <<>> /\ Head(run_queue) \in Thread
      BY <1>3, TailFacts DEF Dispatch, OthersOK
    <2>2. Without(run_queue, Head(run_queue)) \in Seq(Thread)
      BY WithoutType DEF OthersOK
    <2> QED BY <1>2, <1>3, <2>1, <2>2, ResumeTypes DEF Dispatch, OthersOK
  <1>4. ASSUME NEW me \in Thread, GuestCall(me) PROVE OthersOK' /\ QueuesOK(queues')
    <2>1. ASSUME NEW t \in Thread, NEW p \in Priority, CreateThread(me, t, p)
          PROVE  OthersOK' /\ QueuesOK(queues')
      BY <1>2, <2>1 DEF CreateThread, OthersOK, runVars, hostVars
    <2>2. ASSUME NEW t \in Thread, StopThread(me, t) PROVE OthersOK' /\ QueuesOK(queues')
      <3>1. Without(run_queue, t) \in Seq(Thread) /\ QueuesOK(Unwaited(t))
        BY WithoutType, UnwaitedServed DEF OthersOK
      <3> QED BY <1>2, <2>2, <3>1, ResumeTypes DEF StopThread, OthersOK, hostVars, Release
    <2>3. ASSUME NEW t \in Thread, DestroyThread(me, t) PROVE OthersOK' /\ QueuesOK(queues')
      <3>1. Without(run_queue, t) \in Seq(Thread) /\ QueuesOK(Unwaited(t))
        BY WithoutType, UnwaitedServed DEF OthersOK
      <3> QED BY <1>2, <2>3, <3>1, ResumeTypes DEF DestroyThread, OthersOK, hostVars, Release
    <2>4. ASSUME NEW t \in Thread, NEW p \in Priority, SetThreadPri(me, t, p)
          PROVE  OthersOK' /\ QueuesOK(queues')
      <3>1. priority[t] \in Int /\ p \in Int
        BY ExecutorAssumption DEF OthersOK
      <3>2. Reposition(run_queue, Ranks(run_queue), t, priority[t], p) \in Seq(Thread)
        BY <3>1, RanksFacts, RepositionFacts DEF OthersOK
      <3> QED BY <2>4, <3>2 DEF SetThreadPri, OthersOK, hostVars
    <2>5. ASSUME NEW q \in Queue, NEW c \in 0..MaxCapacity, CreateMesgQueue(me, q, c)
          PROVE  OthersOK' /\ QueuesOK(queues')
      <3>1. (IF c = 0 THEN 1 ELSE c) \in 0..MaxCapacity
        BY ExecutorAssumption
      <3>2. QueuesOK([queues EXCEPT ![q] = NewQueue(IF c = 0 THEN 1 ELSE c)])
        BY <3>1, NewQueueServed, QueueReplaced
      <3> QED BY <2>5, <3>2 DEF CreateMesgQueue, OthersOK, threadVars, runVars, hostVars
    <2>6. ASSUME NEW e \in Event, NEW q \in Queue, SetEventMesg(me, e, q)
          PROVE  OthersOK' /\ QueuesOK(queues')
      BY <2>6 DEF SetEventMesg, OthersOK, threadVars, runVars
    <2> QED BY <1>4, <2>1, <2>2, <2>3, <2>4, <2>5, <2>6 DEF GuestCall
  <1>5. ASSUME NEW me \in Thread, GuestSuspend(me) PROVE OthersOK' /\ QueuesOK(queues')
    <2>0. Enqueue(run_queue, me) \in Seq(Thread)
      BY EnqueueFacts DEF OthersOK
    <2>1. CASE YieldThread(me)
      BY <1>2, <2>0, <2>1, SuspendTypes DEF YieldThread, OthersOK, hostVars
    <2>2. ASSUME NEW t \in Thread, StartStopped(me, t) PROVE OthersOK' /\ QueuesOK(queues')
      <3>1. Enqueue(Enqueue(run_queue, t), me) \in Seq(Thread)
        BY EnqueueFacts DEF OthersOK
      <3>2. [state EXCEPT ![t] = "Runnable"] \in [Thread -> ThreadState]
        BY <1>2 DEF OthersOK
      <3>3. /\ point' \in [Thread -> Points]
            /\ state' \in [Thread -> ThreadState]
            /\ running' \in Thread \union {NoThread}
        BY <1>2, <2>2, <3>2, SuspendTypes DEF StartStopped
      <3> QED BY <2>2, <3>1, <3>3, ResumeTypes DEF StartStopped, OthersOK, hostVars
    <2>2u. ASSUME NEW t \in Thread, StartUnstopped(me, t) PROVE OthersOK' /\ QueuesOK(queues')
      BY <2>2u DEF StartUnstopped, OthersOK, threadVars, runVars
    <2>3. CASE PauseSelf(me)
      <3>1. Without(run_queue, me) \in Seq(Thread) /\ QueuesOK(Unwaited(me))
        BY WithoutType, UnwaitedServed DEF OthersOK
      <3> QED BY <1>2, <2>3, <3>1, SuspendTypes, ResumeTypes DEF PauseSelf, OthersOK, hostVars
    <2>4. CASE Checkpoint(me)
      BY <1>2, <2>0, <2>4, SuspendTypes DEF Checkpoint, OthersOK
    <2>5. CASE AcceptInterrupt(me)
      BY <1>2, <2>0, <2>5, SuspendTypes DEF AcceptInterrupt, OthersOK
    <2>6. CASE Return(me)
      <3>1. Without(run_queue, me) \in Seq(Thread) /\ QueuesOK(Unwaited(me))
        BY WithoutType, UnwaitedServed DEF OthersOK
      <3> QED BY <1>2, <2>6, <3>1, SuspendTypes, ResumeTypes DEF Return, OthersOK, hostVars
    <2>7. ASSUME NEW q \in Queue, NEW b \in BOOLEAN, RecvMesg(me, q, b)
          PROVE  OthersOK' /\ QueuesOK(queues')
      <3>1. CASE IsEmpty(q) /\ b
        <4>1. [id |-> me, pri |-> priority[me]] \in QReceiver
          BY DEF QReceiver, OthersOK
        <4>2. QueuesOK([queues EXCEPT ![q] = ReceiverParked(q, [id |-> me, pri |-> priority[me]])])
          BY <3>1, <4>1, ReceiverParkedServed, QueueReplaced
        <4>3. Suspend(me, "recv", state, "BlockedOnRecv")
          BY <2>7, <3>1 DEF RecvMesg
        <4> QED BY <1>2, <2>7, <3>1, <4>2, <4>3, SuspendTypes DEF RecvMesg, OthersOK, hostVars
      <3>2. CASE IsEmpty(q) /\ ~b
        BY <1>2, <2>0, <2>7, <3>2, SuspendTypes, ResumeTypes DEF RecvMesg, OthersOK, hostVars
      <3>3. CASE ~IsEmpty(q)
        <4>1. QueuesOK([queues EXCEPT ![q] = Received(q)])
          BY <3>3, ReceivedServed, QueueReplaced
        <4>2. Delivered(Head(queues[q].messages)) \in Resumes
          BY <3>3, ReceivedFacts, ResumeTypes
        <4>3. CASE ~HasSender(q)
          BY <1>2, <2>0, <2>7, <3>3, <4>1, <4>2, <4>3, SuspendTypes DEF RecvMesg, OthersOK, hostVars
        <4>4. CASE HasSender(q)
          <5> DEFINE w == FirstSender(q).id
          <5>1. w \in Thread
            BY <3>3, <4>4, ReceivedFacts DEF QSender
          <5> HIDE DEF w
          <5>2. Enqueue(Enqueue(run_queue, w), me) \in Seq(Thread)
            BY <5>1, EnqueueFacts DEF OthersOK
          <5>3. [state EXCEPT ![w] = "Runnable"] \in [Thread -> ThreadState]
            BY <1>2 DEF OthersOK
          <5>4. /\ queues' = [queues EXCEPT ![q] = Received(q)]
                /\ pending_resume' = [pending_resume EXCEPT ![w]  = SendUnblocked,
                                        ![me] = Delivered(Head(queues[q].messages))]
                /\ Suspend(me, "recv", [state EXCEPT ![w] = "Runnable"], "Runnable")
                /\ run_queue' = Enqueue(Enqueue(run_queue, w), me)
            BY <2>7, <3>3, <4>4 DEF RecvMesg, w
          <5>5. /\ point' \in [Thread -> Points]
                /\ state' \in [Thread -> ThreadState]
                /\ running' \in Thread \union {NoThread}
            BY <1>2, <5>3, <5>4, SuspendTypes
          <5> QED BY <2>7, <4>1, <4>2, <5>1, <5>2, <5>4, <5>5, ResumeTypes DEF RecvMesg, OthersOK, hostVars
        <4> QED BY <4>3, <4>4
      <3> QED BY <3>1, <3>2, <3>3
    <2>8. ASSUME NEW q \in Queue, NEW m \in Fresh, NEW place \in Placement, NEW b \in BOOLEAN,
                 SendMesg(me, q, m, place, b)
          PROVE  OthersOK' /\ QueuesOK(queues')
      <3>0. m \in Payload
        BY ResumeTypes
      <3>1. CASE HasReceiver(q)
        <4> DEFINE w == FirstReceiver(q)
        <4>1. w \in Thread
          BY <3>1, ReceiverGoneFacts
        <4>2. QueuesOK([queues EXCEPT ![q] = ReceiverGone(q)])
          BY <3>1, ReceiverGoneServed, QueueReplaced
        <4> HIDE DEF w
        <4>3. Enqueue(Enqueue(run_queue, w), me) \in Seq(Thread)
          BY <4>1, EnqueueFacts DEF OthersOK
        <4>4. [state EXCEPT ![w] = "Runnable"] \in [Thread -> ThreadState]
          BY <1>2 DEF OthersOK
        <4>5. /\ queues' = [queues EXCEPT ![q] = ReceiverGone(q)]
              /\ pending_resume' = [pending_resume EXCEPT ![w] = Delivered(m), ![me] = SendUnblocked]
              /\ Suspend(me, "send", [state EXCEPT ![w] = "Runnable"], "Runnable")
              /\ run_queue' = Enqueue(Enqueue(run_queue, w), me)
          BY <2>8, <3>1 DEF SendMesg, w
        <4>6. /\ point' \in [Thread -> Points]
              /\ state' \in [Thread -> ThreadState]
              /\ running' \in Thread \union {NoThread}
          BY <1>2, <4>4, <4>5, SuspendTypes
        <4> QED BY <2>8, <3>0, <4>1, <4>2, <4>3, <4>5, <4>6, ResumeTypes DEF SendMesg, OthersOK, hostVars
      <3>2. CASE ~HasReceiver(q) /\ ~IsFull(q)
        <4>1. QueuesOK([queues EXCEPT ![q] = Queued(q, m, place)])
          BY <3>0, <3>2, QueuedServed, QueueReplaced
        <4> QED BY <1>2, <2>0, <2>8, <3>2, <4>1, SuspendTypes, ResumeTypes DEF SendMesg, OthersOK, hostVars
      <3>3. CASE ~HasReceiver(q) /\ IsFull(q) /\ b
        <4> DEFINE w == [id |-> me, pri |-> priority[me], msg |-> m, place |-> place]
        <4>1. w \in QSender
          BY <3>0 DEF QSender, OthersOK
        <4>2. QueuesOK([queues EXCEPT ![q] = SenderParked(q, w)])
          BY <3>3, <4>1, SenderParkedServed, QueueReplaced
        <4>3. Suspend(me, "send", state, "BlockedOnSend")
          BY <2>8, <3>3 DEF SendMesg
        <4> QED BY <1>2, <2>8, <3>3, <4>2, <4>3, SuspendTypes DEF SendMesg, OthersOK, hostVars
      <3>4. CASE ~HasReceiver(q) /\ IsFull(q) /\ ~b
        BY <1>2, <2>0, <2>8, <3>4, SuspendTypes, ResumeTypes DEF SendMesg, OthersOK, hostVars
      <3> QED BY <3>1, <3>2, <3>3, <3>4
    <2>9. ASSUME NEW e \in Event, Fault(me, e) PROVE OthersOK' /\ QueuesOK(queues')
      <3> DEFINE q == event_table[e]
      <3>0. /\ e \in Payload /\ q \in Queue \union {NoQueue}
            /\ point' \in [Thread -> Points] /\ running' \in Thread \union {NoThread}
        BY <1>2, <2>9, ResumeTypes DEF Fault, OthersOK, Release
      <3> HIDE DEF q
      <3>1. CASE q # NoQueue /\ HasReceiver(q)
        <4> DEFINE w == FirstReceiver(q)
        <4>1. w \in Thread
          BY <3>0, <3>1, ReceiverGoneFacts
        <4>2. QueuesOK([queues EXCEPT ![q] = ReceiverGone(q)])
          BY <3>0, <3>1, ReceiverGoneServed, QueueReplaced
        <4> HIDE DEF w
        <4>3. Without(Enqueue(run_queue, w), me) \in Seq(Thread)
          BY <4>1, EnqueueFacts, WithoutType DEF OthersOK
        <4>4. /\ queues' = [queues EXCEPT ![q] = ReceiverGone(q)]
              /\ state' = [state EXCEPT ![w] = "Runnable", ![me] = "Stopped"]
              /\ run_queue' = Without(Enqueue(run_queue, w), me)
              /\ pending_resume' = [pending_resume EXCEPT ![w] = Delivered(e), ![me] = NoResume]
          BY <2>9, <3>1 DEF Fault, w, q
        <4> QED BY <1>2, <2>9, <3>0, <4>1, <4>2, <4>3, <4>4, ResumeTypes DEF Fault, OthersOK, hostVars
      <3>2. Without(run_queue, me) \in Seq(Thread)
        BY WithoutType DEF OthersOK
      <3>3. CASE q # NoQueue /\ ~HasReceiver(q)
        <4>1. QueuesOK([queues EXCEPT ![q] = Posted(q, e)])
          BY <3>0, <3>3, PostedServed, QueueReplaced
        <4> QED BY <1>2, <2>9, <3>0, <3>2, <3>3, <4>1, ResumeTypes DEF Fault, OthersOK, hostVars, q
      <3>4. CASE q = NoQueue
        BY <1>2, <2>9, <3>0, <3>2, <3>4, ResumeTypes DEF Fault, OthersOK, hostVars, q
      <3> QED BY <3>1, <3>3, <3>4
    <2> QED BY <1>5, <2>1, <2>2, <2>2u, <2>3, <2>4, <2>5, <2>6, <2>7, <2>8, <2>9 DEF GuestSuspend, StartThread
  <1>6. ASSUME NEW q \in Queue, NEW m \in Payload, Deliver(q, m),
               UNCHANGED <<priority, retired, point, running, last_resumed, hostVars>>
        PROVE  OthersOK' /\ QueuesOK(queues')
    <2>1. CASE HasReceiver(q)
      <3> DEFINE w == FirstReceiver(q)
      <3>1. w \in Thread
        BY <2>1, ReceiverGoneFacts
      <3>2. QueuesOK([queues EXCEPT ![q] = ReceiverGone(q)])
        BY <2>1, ReceiverGoneServed, QueueReplaced
      <3> HIDE DEF w
      <3>3. Enqueue(run_queue, w) \in Seq(Thread)
        BY <3>1, EnqueueFacts DEF OthersOK
      <3>4. /\ queues' = [queues EXCEPT ![q] = ReceiverGone(q)]
            /\ state' = [state EXCEPT ![w] = "Runnable"]
            /\ run_queue' = Enqueue(run_queue, w)
            /\ pending_resume' = [pending_resume EXCEPT ![w] = Delivered(m)]
        BY <1>6, <2>1 DEF Deliver, w
      <3> QED BY <1>2, <1>6, <3>1, <3>2, <3>3, <3>4, ResumeTypes DEF OthersOK, hostVars
    <2>2. CASE ~HasReceiver(q)
      <3>1. QueuesOK([queues EXCEPT ![q] = Posted(q, m)])
        BY <2>2, PostedServed, QueueReplaced
      <3> QED BY <1>6, <2>2, <3>1 DEF Deliver, OthersOK, hostVars
    <2> QED BY <2>1, <2>2
  <1>7. ASSUME NEW q \in Queue, NEW m \in Fresh, Post(q, m) PROVE OthersOK' /\ QueuesOK(queues')
    BY <1>6, <1>7, ResumeTypes DEF Post
  <1>8. ASSUME NEW e \in Event, InjectEvent(e) PROVE OthersOK' /\ QueuesOK(queues')
    <2>1. e \in Payload /\ event_table[e] \in Queue
      BY <1>8, ResumeTypes DEF InjectEvent, OthersOK
    <2> QED BY <1>6, <1>8, <2>1 DEF InjectEvent
  <1>9. CASE CommitTimeTarget
    BY <1>9 DEF CommitTimeTarget, OthersOK, threadVars, runVars
  <1>10. CASE CommitHostWork
    BY <1>10 DEF CommitHostWork, OthersOK, threadVars, runVars
  <1>11. CASE UNCHANGED vars
    BY <1>11 DEF vars, OthersOK, threadVars, runVars, hostVars
  <1> QED BY <1>3, <1>4, <1>5, <1>7, <1>8, <1>9, <1>10, <1>11 DEF Next

\* The inductive step, for TypeOK and NoLostWakeup together.
LEMMA StepTypesOK == TypeOK /\ NoLostWakeup /\ [Next]_vars => TypeOK' /\ NoLostWakeup'
  <1>1. (OthersOK /\ QueuesOK(queues) => TypeOK /\ NoLostWakeup)'
    BY TypeParts, PTL
  <1> QED BY <1>1, StepTypes

\* The booted program is well typed.
LEMMA InitTypes == Init => OthersOK /\ QueuesOK(queues)
  <1> SUFFICES ASSUME Init PROVE OthersOK /\ QueuesOK(queues)
    OBVIOUS
  <1>1. OthersOK
    BY ExecutorAssumption, ResumeTypes DEF Init, OthersOK, ThreadState, Points
  <1>2. ASSUME NEW q \in Queue PROVE Fits(NewQueue(BootCapacity[q])) /\ Served(NewQueue(BootCapacity[q]))
    BY NewQueueServed, ExecutorAssumption
  <1>3. QueuesOK(queues)
    BY <1>2 DEF Init, QueuesOK, Fits
  <1> QED BY <1>1, <1>3

\* TypeOK and NoLostWakeup hold in every state of every workload.
LEMMA SafeTypes == Spec => [](TypeOK /\ NoLostWakeup)
  <1> DEFINE I == TypeOK /\ NoLostWakeup
  <1>1. Init => I
    BY InitTypes, TypeParts
  <1>2. I /\ [Next]_vars => I'
    BY StepTypesOK
  <1> QED BY <1>1, <1>2, PTL DEF Spec

\* Whatever the guest calls and the host posts, every variable has its type
\* and no queue holds more than its capacity.
THEOREM TypeCorrect == Spec => []TypeOK
  BY SafeTypes, PTL

\* Whatever the guest calls and the host posts, no receiver is parked at a
\* queue that holds a message and no sender at one with room.
THEOREM WakeupsNotLost == Spec => []NoLostWakeup
  BY SafeTypes, PTL

-----------------------------------------------------------------------------
(* The tables agree.                                                       *)

\* No thread stops or destroys itself, stops a dead thread, or re-creates a
\* queue others wait on.
Disciplined ==
  \A t \in Thread :
    Calls[t] \intersect {"StopSelf", "DestroySelf", "StopDead", "RecreateQueue"} = {}

Control == ControlInvariant /\ ResumeProtocol

-----------------------------------------------------------------------------
(* Each thread on its own.                                                 *)

\* A thread's state s, point pt, kept answer pr and retired mask ret, and
\* whether it runs, agree.
ThreadSound(s, pt, pr, ret, runs) ==
  /\ s = "Running" <=> runs
  /\ pt = "body" <=> runs
  /\ pr # NoResume => s = "Runnable"
  /\ pr = Start => pt = "entry"
  /\ s = "Runnable" /\ pt = "entry" => pr = Start
  /\ s = "Runnable" => \/ (IF pr = NoResume THEN Continue ELSE pr).kind \in Accepts(pt)
                       \/ pt \in {"recv", "send", "fault"} /\ pr = NoResume
  /\ s = "BlockedOnRecv" => pt = "recv"
  /\ s = "BlockedOnSend" => pt = "send"
  /\ pt = "returned" => s = "Dead"
  /\ s = "Absent" => pt = "entry"
  /\ ret <=> s = "Dead"

Sound(t) == ThreadSound(state[t], point[t], pending_resume[t], retired[t], running = t)

\* Which values a coroutine accepts, by where it stands.
LEMMA AcceptsFacts ==
  /\ Accepts("entry") = {"Start"}
  /\ Accepts("start") = {"Continue"}
  /\ Accepts("recv") = {"Delivered", "WouldBlock"}
  /\ Accepts("send") = {"SendUnblocked", "WouldBlock"}
  /\ Accepts("any") = {"Continue", "Delivered", "SendUnblocked", "WouldBlock"}
  /\ Accepts("fault") = {}
  /\ Accepts("returned") = {}
  /\ Accepts("body") = {}
  BY DEF Accepts

\* A kept value is told apart by its kind, and Continue by NoResume.
LEMMA ResumeKinds ==
  /\ NoResume.kind = "None" /\ Start.kind = "Start" /\ Continue.kind = "Continue"
  /\ WouldBlock.kind = "WouldBlock" /\ SendUnblocked.kind = "SendUnblocked"
  /\ \A m : Delivered(m).kind = "Delivered"
  BY DEF NoResume, Start, Continue, WouldBlock, SendUnblocked, Delivered, Resume

\* The profiles a handler leaves a thread in.
LEMMA Profiles ==
  /\ ThreadSound("Runnable", "any", NoResume, FALSE, FALSE)
  /\ ThreadSound("Runnable", "start", NoResume, FALSE, FALSE)
  /\ \A pt \in {"recv", "send", "fault"} : ThreadSound("Runnable", pt, NoResume, FALSE, FALSE)
  /\ ThreadSound("Runnable", "entry", Start, FALSE, FALSE)
  /\ ThreadSound("Runnable", "recv", WouldBlock, FALSE, FALSE)
  /\ ThreadSound("Runnable", "send", WouldBlock, FALSE, FALSE)
  /\ ThreadSound("Runnable", "send", SendUnblocked, FALSE, FALSE)
  /\ \A m : ThreadSound("Runnable", "recv", Delivered(m), FALSE, FALSE)
  /\ ThreadSound("BlockedOnRecv", "recv", NoResume, FALSE, FALSE)
  /\ ThreadSound("BlockedOnSend", "send", NoResume, FALSE, FALSE)
  /\ ThreadSound("Running", "body", NoResume, FALSE, TRUE)
  /\ \A pt : pt \notin {"body", "returned"} => ThreadSound("Stopped", pt, NoResume, FALSE, FALSE)
  /\ \A pt : pt # "body" => ThreadSound("Dead", pt, NoResume, TRUE, FALSE)
  /\ ThreadSound("Absent", "entry", NoResume, FALSE, FALSE)
  BY AcceptsFacts, ResumeKinds DEF ThreadSound

-----------------------------------------------------------------------------
(* The waiter lists.                                                       *)

Distinct(r) == NoRepeats(WaiterIds(r.receivers)) /\ NoRepeats(WaiterIds(r.senders))
AllIds(r)   == Ids(r.receivers) \union Ids(r.senders)

\* WaitersSound, of queues f and states st.
WaitSound(f, st) ==
  /\ \A q \in Queue : /\ Distinct(f[q])
                      /\ \A t \in Ids(f[q].receivers) : st[t] = "BlockedOnRecv"
                      /\ \A t \in Ids(f[q].senders) : st[t] = "BlockedOnSend"
  /\ \A p, q \in Queue, t \in Thread : t \in AllIds(f[p]) /\ t \in AllIds(f[q]) => p = q
  /\ \A t \in Thread : st[t] \in Blocked => \E q \in Queue : t \in AllIds(f[q])

\* WaitersSound, restated by the sets of threads that wait in each list.
LEMMA WaitersAsIds == WaitersSound <=> WaitSound(queues, state)
  <1>1. \A t \in Thread, q \in Queue : WaitsOn(t, q) <=> t \in AllIds(queues[q])
    BY DEF WaitsOn, AllIds, Ids
  <1>2. \A q \in Queue :
          /\ (\A w \in ToSet(queues[q].receivers) : state[w.id] = "BlockedOnRecv")
               <=> \A t \in Ids(queues[q].receivers) : state[t] = "BlockedOnRecv"
          /\ (\A w \in ToSet(queues[q].senders) : state[w.id] = "BlockedOnSend")
               <=> \A t \in Ids(queues[q].senders) : state[t] = "BlockedOnSend"
    BY DEF Ids
  <1> QED BY <1>1, <1>2 DEF WaitersSound, WaitSound, Distinct

\* The queues still hold whom they held except the threads in L, which are
\* blocked no more.
LEMMA WaitLeave ==
  ASSUME NEW f, NEW g, NEW st, NEW u, WaitSound(f, st), NEW L,
         \A q \in Queue : /\ Distinct(g[q])
                          /\ Ids(g[q].receivers) = Ids(f[q].receivers) \ L
                          /\ Ids(g[q].senders) = Ids(f[q].senders) \ L,
         \A q \in Queue : AllIds(f[q]) \subseteq Thread,
         \A t \in Thread : \/ t \in L /\ u[t] \notin Blocked
                           \/ t \notin L /\ u[t] = st[t]
                           \/ t \notin L /\ st[t] \notin Blocked /\ u[t] \notin Blocked
  PROVE  WaitSound(g, u)
  <1>1. \A q \in Queue : AllIds(g[q]) = AllIds(f[q]) \ L
    BY DEF AllIds
  <1>2. ASSUME NEW q \in Queue, NEW t \in Ids(g[q].receivers) PROVE u[t] = "BlockedOnRecv"
    <2>1. t \in Thread /\ t \notin L /\ st[t] = "BlockedOnRecv"
      BY <1>2 DEF WaitSound, AllIds
    <2> QED BY <2>1 DEF Blocked
  <1>3. ASSUME NEW q \in Queue, NEW t \in Ids(g[q].senders) PROVE u[t] = "BlockedOnSend"
    <2>1. t \in Thread /\ t \notin L /\ st[t] = "BlockedOnSend"
      BY <1>3 DEF WaitSound, AllIds
    <2> QED BY <2>1 DEF Blocked
  <1>4. \A p, q \in Queue, t \in Thread : t \in AllIds(g[p]) /\ t \in AllIds(g[q]) => p = q
    BY <1>1 DEF WaitSound
  <1>5. ASSUME NEW t \in Thread, u[t] \in Blocked PROVE \E q \in Queue : t \in AllIds(g[q])
    <2>1. t \notin L /\ st[t] \in Blocked
      BY <1>5
    <2> QED BY <1>1, <2>1 DEF WaitSound
  <1> QED BY <1>2, <1>3, <1>4, <1>5 DEF WaitSound

\* Thread me, which waited nowhere, joins one of q's lists.
LEMMA WaitJoin ==
  ASSUME NEW f, NEW g, NEW st, NEW u, WaitSound(f, st), NEW q \in Queue, NEW me \in Thread,
         st[me] \notin Blocked,
         \A p \in Queue \ {q} : g[p] = f[p],
         Distinct(g[q]),
         \/ /\ Ids(g[q].receivers) = Ids(f[q].receivers) \union {me}
            /\ Ids(g[q].senders) = Ids(f[q].senders)
            /\ u[me] = "BlockedOnRecv"
         \/ /\ Ids(g[q].receivers) = Ids(f[q].receivers)
            /\ Ids(g[q].senders) = Ids(f[q].senders) \union {me}
            /\ u[me] = "BlockedOnSend",
         \A p \in Queue : AllIds(f[p]) \subseteq Thread,
         \A t \in Thread \ {me} : u[t] = st[t]
  PROVE  WaitSound(g, u)
  <1>1. \A p \in Queue : me \notin AllIds(f[p])
    BY DEF WaitSound, AllIds, Blocked
  <1>2. /\ \A p \in Queue \ {q} : AllIds(g[p]) = AllIds(f[p])
        /\ AllIds(g[q]) = AllIds(f[q]) \union {me}
    BY DEF AllIds
  <1>3. ASSUME NEW p \in Queue
        PROVE  /\ Distinct(g[p])
               /\ \A t \in Ids(g[p].receivers) : u[t] = "BlockedOnRecv"
               /\ \A t \in Ids(g[p].senders) : u[t] = "BlockedOnSend"
    <2>1. /\ \A t \in Ids(f[p].receivers) : t \in Thread \ {me} /\ st[t] = "BlockedOnRecv"
          /\ \A t \in Ids(f[p].senders) : t \in Thread \ {me} /\ st[t] = "BlockedOnSend"
      BY <1>1 DEF WaitSound, AllIds
    <2>2. Distinct(f[p])
      BY DEF WaitSound
    <2>3. CASE p = q
      BY <2>1, <2>3
    <2>4. CASE p # q
      BY <2>1, <2>2, <2>4
    <2> QED BY <2>3, <2>4
  <1>4. \A p, r \in Queue, t \in Thread : t \in AllIds(g[p]) /\ t \in AllIds(g[r]) => p = r
    BY <1>1, <1>2 DEF WaitSound
  <1>5. ASSUME NEW t \in Thread, u[t] \in Blocked PROVE \E p \in Queue : t \in AllIds(g[p])
    <2>1. CASE t = me
      BY <1>2, <2>1
    <2>2. CASE t # me
      <3>1. PICK p \in Queue : t \in AllIds(f[p])
        BY <1>5, <2>2 DEF WaitSound
      <3> QED BY <1>2, <3>1
    <2> QED BY <2>1, <2>2
  <1> QED BY <1>3, <1>4, <1>5 DEF WaitSound

\* Lists hold threads.
LEMMA AllIdsThreads ==
  TypeOK => \A q \in Queue : AllIds(queues[q]) \subseteq Thread
  <1> SUFFICES ASSUME TypeOK, NEW q \in Queue PROVE AllIds(queues[q]) \subseteq Thread
    OBVIOUS
  <1>1. ToSet(queues[q].receivers) \subseteq QReceiver /\ ToSet(queues[q].senders) \subseteq QSender
    BY QueueTypes, ToSetFacts
  <1> QED BY <1>1 DEF AllIds, Ids, QReceiver, QSender

\* Nobody is more or less blocked.
LEMMA QuietWaits ==
  ASSUME TypeOK, WaitSound(queues, state), NEW u,
         \A v \in Thread : u[v] = state[v] \/ (state[v] \notin Blocked /\ u[v] \notin Blocked)
  PROVE  WaitSound(queues, u)
  <1> DEFINE L == {}
  <1>1. \A q \in Queue : /\ Distinct(queues[q])
                         /\ Ids(queues[q].receivers) = Ids(queues[q].receivers) \ L
                         /\ Ids(queues[q].senders) = Ids(queues[q].senders) \ L
    BY DEF WaitSound
  <1>2. \A q \in Queue : AllIds(queues[q]) \subseteq Thread
    BY AllIdsThreads
  <1>3. \A v \in Thread : \/ v \notin L /\ u[v] = state[v]
                          \/ v \notin L /\ state[v] \notin Blocked /\ u[v] \notin Blocked
    OBVIOUS
  <1> HIDE DEF L
  <1> QED BY <1>1, <1>2, <1>3, WaitLeave

\* A thread taken off every list.
LEMMA UnwaitedWaits ==
  ASSUME TypeOK, WaitSound(queues, state), NEW t \in Thread, NEW u, u[t] \notin Blocked,
         \A v \in Thread \ {t} : u[v] = state[v]
  PROVE  WaitSound(Unwaited(t), u)
  <1>1. ASSUME NEW q \in Queue
        PROVE  /\ Distinct(Unwaited(t)[q])
               /\ Ids(Unwaited(t)[q].receivers) = Ids(queues[q].receivers) \ {t}
               /\ Ids(Unwaited(t)[q].senders) = Ids(queues[q].senders) \ {t}
    <2>1. NoRepeats(WaiterIds(queues[q].receivers)) /\ NoRepeats(WaiterIds(queues[q].senders))
      BY DEF WaitSound, Distinct
    <2>2. /\ Unwaited(t)[q].receivers = Unpark(queues[q].receivers, t)
          /\ Unwaited(t)[q].senders = Unpark(queues[q].senders, t)
      BY UnwaitedFacts
    <2>3. /\ Ids(Unpark(queues[q].receivers, t)) = Ids(queues[q].receivers) \ {t}
          /\ NoRepeats(WaiterIds(Unpark(queues[q].receivers, t)))
      BY <2>1, QueueTypes, UnparkIds
    <2>4. /\ Ids(Unpark(queues[q].senders, t)) = Ids(queues[q].senders) \ {t}
          /\ NoRepeats(WaiterIds(Unpark(queues[q].senders, t)))
      BY <2>1, QueueTypes, UnparkIds
    <2> QED BY <2>2, <2>3, <2>4 DEF Distinct
  <1>2. \A q \in Queue : AllIds(queues[q]) \subseteq Thread
    BY AllIdsThreads
  <1> DEFINE g == Unwaited(t)
             L == {t}
  <1>3. \A v \in Thread : \/ v \in L /\ u[v] \notin Blocked
                          \/ v \notin L /\ u[v] = state[v]
    OBVIOUS
  <1>4. \A q \in Queue : /\ Distinct(g[q])
                         /\ Ids(g[q].receivers) = Ids(queues[q].receivers) \ L
                         /\ Ids(g[q].senders) = Ids(queues[q].senders) \ L
    BY <1>1
  <1> HIDE DEF g, L
  <1>5. WaitSound(g, u)
    BY <1>2, <1>3, <1>4, WaitLeave
  <1> QED BY <1>5 DEF g

\* A queue whose lists are as they were, and threads no more or less blocked.
LEMMA SameWaits ==
  ASSUME TypeOK, WaitSound(queues, state), NEW q \in Queue, NEW r,
         r.receivers = queues[q].receivers, r.senders = queues[q].senders, NEW u,
         \A v \in Thread : u[v] = state[v] \/ (state[v] \notin Blocked /\ u[v] \notin Blocked)
  PROVE  WaitSound([queues EXCEPT ![q] = r], u)
  <1> DEFINE g == [queues EXCEPT ![q] = r]
             L == {}
  <1>1. ASSUME NEW p \in Queue
        PROVE  g[p].receivers = queues[p].receivers /\ g[p].senders = queues[p].senders
    BY DEF TypeOK
  <1> HIDE DEF g
  <1>2. ASSUME NEW p \in Queue
        PROVE  /\ Distinct(g[p])
               /\ Ids(g[p].receivers) = Ids(queues[p].receivers) \ L
               /\ Ids(g[p].senders) = Ids(queues[p].senders) \ L
    BY <1>1 DEF WaitSound, Distinct
  <1>3. \A p \in Queue : AllIds(queues[p]) \subseteq Thread
    BY AllIdsThreads
  <1>4. \A v \in Thread : \/ v \notin L /\ u[v] = state[v]
                          \/ v \notin L /\ state[v] \notin Blocked /\ u[v] \notin Blocked
    OBVIOUS
  <1> HIDE DEF L
  <1>5. WaitSound(g, u)
    BY <1>2, <1>3, <1>4, WaitLeave
  <1> QED BY <1>5 DEF g

\* The first receiver, served.
LEMMA ReceiverGoneWaits ==
  ASSUME TypeOK, WaitSound(queues, state), NEW q \in Queue, HasReceiver(q), NEW u,
         u[FirstReceiver(q)] \notin Blocked,
         \A v \in Thread \ {FirstReceiver(q)} :
            u[v] = state[v] \/ (state[v] \notin Blocked /\ u[v] \notin Blocked)
  PROVE  WaitSound([queues EXCEPT ![q] = ReceiverGone(q)], u)
  <1> DEFINE g == [queues EXCEPT ![q] = ReceiverGone(q)]
             w == FirstReceiver(q)
             L == {w}
  <1>1. /\ w \in Ids(queues[q].receivers)
        /\ Ids(Tail(queues[q].receivers)) = Ids(queues[q].receivers) \ {w}
        /\ NoRepeats(WaiterIds(Tail(queues[q].receivers)))
    BY QueueTypes, TailIds DEF WaitSound, Distinct, HasReceiver, FirstReceiver
  <1>2. /\ g[q].receivers = Tail(queues[q].receivers)
        /\ g[q].senders = queues[q].senders
        /\ \A p \in Queue \ {q} : g[p] = queues[p]
    <2>0. ReceiverGone(q) =
            [capacity |-> queues[q].capacity, messages |-> queues[q].messages,
             receivers |-> Tail(queues[q].receivers), senders |-> queues[q].senders]
      BY ReceiverGoneFacts
    <2>1. /\ ReceiverGone(q).receivers = Tail(queues[q].receivers)
          /\ ReceiverGone(q).senders = queues[q].senders
      BY <2>0
    <2>2. g[q] = ReceiverGone(q) /\ \A p \in Queue \ {q} : g[p] = queues[p]
      BY DEF TypeOK
    <2> QED BY <2>1, <2>2
  <1>3. \A p \in Queue : AllIds(queues[p]) \subseteq Thread
    BY AllIdsThreads
  <1>4. w \in Thread /\ state[w] = "BlockedOnRecv" /\ w \in AllIds(queues[q])
    BY <1>1, <1>3 DEF WaitSound, AllIds
  <1> HIDE DEF g, w
  <1>5. /\ w \notin Ids(queues[q].senders)
        /\ \A p \in Queue \ {q} : w \notin AllIds(queues[p])
    BY <1>4 DEF WaitSound
  <1>6. ASSUME NEW p \in Queue
        PROVE  /\ Distinct(g[p])
               /\ Ids(g[p].receivers) = Ids(queues[p].receivers) \ L
               /\ Ids(g[p].senders) = Ids(queues[p].senders) \ L
    <2>1. Distinct(queues[p])
      BY DEF WaitSound
    <2>2. CASE p = q
      BY <1>1, <1>2, <1>5, <2>1, <2>2 DEF Distinct
    <2>3. CASE p # q
      BY <1>2, <1>5, <2>1, <2>3 DEF AllIds
    <2> QED BY <2>2, <2>3
  <1>7. \A v \in Thread : \/ v \in L /\ u[v] \notin Blocked
                          \/ v \notin L /\ u[v] = state[v]
                          \/ v \notin L /\ state[v] \notin Blocked /\ u[v] \notin Blocked
    BY DEF w
  <1> HIDE DEF L
  <1>8. WaitSound(g, u)
    BY <1>3, <1>6, <1>7, WaitLeave
  <1> QED BY <1>8 DEF g

\* The first sender, unblocked by a receive.
LEMMA ReceivedWaits ==
  ASSUME TypeOK, WaitSound(queues, state), NEW q \in Queue, ~IsEmpty(q), HasSender(q), NEW u,
         u[FirstSender(q).id] \notin Blocked,
         \A v \in Thread \ {FirstSender(q).id} :
            u[v] = state[v] \/ (state[v] \notin Blocked /\ u[v] \notin Blocked)
  PROVE  WaitSound([queues EXCEPT ![q] = Received(q)], u)
  <1> DEFINE g == [queues EXCEPT ![q] = Received(q)]
             w == FirstSender(q).id
             L == {w}
  <1>1. /\ w \in Ids(queues[q].senders)
        /\ Ids(Tail(queues[q].senders)) = Ids(queues[q].senders) \ {w}
        /\ NoRepeats(WaiterIds(Tail(queues[q].senders)))
    BY QueueTypes, TailIds DEF WaitSound, Distinct, HasSender, FirstSender
  <1>2. /\ g[q].senders = Tail(queues[q].senders)
        /\ g[q].receivers = queues[q].receivers
        /\ \A p \in Queue \ {q} : g[p] = queues[p]
    BY ReceivedFacts DEF TypeOK
  <1>3. \A p \in Queue : AllIds(queues[p]) \subseteq Thread
    BY AllIdsThreads
  <1>4. w \in Thread /\ state[w] = "BlockedOnSend" /\ w \in AllIds(queues[q])
    BY <1>1, <1>3 DEF WaitSound, AllIds
  <1> HIDE DEF g, w
  <1>5. /\ w \notin Ids(queues[q].receivers)
        /\ \A p \in Queue \ {q} : w \notin AllIds(queues[p])
    BY <1>4 DEF WaitSound
  <1>6. ASSUME NEW p \in Queue
        PROVE  /\ Distinct(g[p])
               /\ Ids(g[p].receivers) = Ids(queues[p].receivers) \ L
               /\ Ids(g[p].senders) = Ids(queues[p].senders) \ L
    <2>1. Distinct(queues[p])
      BY DEF WaitSound
    <2>2. CASE p = q
      BY <1>1, <1>2, <1>5, <2>1, <2>2 DEF Distinct
    <2>3. CASE p # q
      BY <1>2, <1>5, <2>1, <2>3 DEF AllIds
    <2> QED BY <2>2, <2>3
  <1>7. \A v \in Thread : \/ v \in L /\ u[v] \notin Blocked
                          \/ v \notin L /\ u[v] = state[v]
                          \/ v \notin L /\ state[v] \notin Blocked /\ u[v] \notin Blocked
    BY DEF w
  <1> HIDE DEF L
  <1>8. WaitSound(g, u)
    BY <1>3, <1>6, <1>7, WaitLeave
  <1> QED BY <1>8 DEF g

\* The running thread parks.
LEMMA ReceiverParkedWaits ==
  ASSUME TypeOK, WaitSound(queues, state), NEW q \in Queue, NEW me \in Thread,
         state[me] \notin Blocked, NEW w \in QReceiver, w.id = me, NEW u,
         u[me] = "BlockedOnRecv", \A v \in Thread \ {me} : u[v] = state[v]
  PROVE  WaitSound([queues EXCEPT ![q] = ReceiverParked(q, w)], u)
  <1> DEFINE g == [queues EXCEPT ![q] = ReceiverParked(q, w)]
  <1>1. /\ g[q].receivers = Park(queues[q].receivers, w)
        /\ g[q].senders = queues[q].senders
        /\ \A p \in Queue \ {q} : g[p] = queues[p]
    BY ReceiverParkedFacts DEF TypeOK
  <1>2. Distinct(queues[q]) /\ me \notin Ids(queues[q].receivers)
    BY DEF WaitSound, Blocked
  <1>3. /\ Ids(Park(queues[q].receivers, w)) = Ids(queues[q].receivers) \union {me}
        /\ NoRepeats(WaiterIds(Park(queues[q].receivers, w)))
    BY <1>2, QueueTypes, ParkIds DEF Distinct
  <1>4. \A p \in Queue : AllIds(queues[p]) \subseteq Thread
    BY AllIdsThreads
  <1> HIDE DEF g
  <1>5. Distinct(g[q])
    BY <1>1, <1>2, <1>3 DEF Distinct
  <1>6. WaitSound(g, u)
    BY <1>1, <1>3, <1>4, <1>5, WaitJoin
  <1> QED BY <1>6 DEF g

\* The running thread parks as a sender.
LEMMA SenderParkedWaits ==
  ASSUME TypeOK, WaitSound(queues, state), NEW q \in Queue, NEW me \in Thread,
         state[me] \notin Blocked, NEW w \in QSender, w.id = me, NEW u,
         u[me] = "BlockedOnSend", \A v \in Thread \ {me} : u[v] = state[v]
  PROVE  WaitSound([queues EXCEPT ![q] = SenderParked(q, w)], u)
  <1> DEFINE g == [queues EXCEPT ![q] = SenderParked(q, w)]
  <1>1. /\ g[q].senders = Park(queues[q].senders, w)
        /\ g[q].receivers = queues[q].receivers
        /\ \A p \in Queue \ {q} : g[p] = queues[p]
    BY SenderParkedFacts DEF TypeOK
  <1>2. Distinct(queues[q]) /\ me \notin Ids(queues[q].senders)
    BY DEF WaitSound, Blocked
  <1>3. /\ Ids(Park(queues[q].senders, w)) = Ids(queues[q].senders) \union {me}
        /\ NoRepeats(WaiterIds(Park(queues[q].senders, w)))
    BY <1>2, QueueTypes, ParkIds DEF Distinct
  <1>4. \A p \in Queue : AllIds(queues[p]) \subseteq Thread
    BY AllIdsThreads
  <1> HIDE DEF g
  <1>5. Distinct(g[q])
    BY <1>1, <1>2, <1>3 DEF Distinct
  <1>6. WaitSound(g, u)
    BY <1>1, <1>3, <1>4, <1>5, WaitJoin
  <1> QED BY <1>6 DEF g

-----------------------------------------------------------------------------
(* The invariant, taken apart.                                             *)

Parts ==
  /\ RunQueueSound
  /\ WaitSound(queues, state)
  /\ HostWorkSound
  /\ \A t \in Thread : Sound(t)

\* Control, taken apart into the parts the steps are proved for.
LEMMA ControlParts == TypeOK => (Control <=> Parts)
  <1> SUFFICES ASSUME TypeOK PROVE Control <=> Parts
    OBVIOUS
  <1>1. running \in Thread \union {NoThread}
    BY DEF TypeOK
  <1>2. ASSUME Control PROVE \A t \in Thread : Sound(t)
    BY <1>2 DEF Control, ControlInvariant, ResumeProtocol, RunningSound, RetiredSound,
                PendingSound, Started, Answer, RestartedMidCall, MidCall, Sound, ThreadSound
  <1>3. ASSUME \A t \in Thread : Sound(t)
        PROVE  RunningSound /\ RetiredSound /\ PendingSound /\ ResumeProtocol
    <2>1. RetiredSound /\ PendingSound /\ ResumeProtocol
      BY <1>3 DEF ResumeProtocol, RetiredSound, PendingSound, Started, Answer,
                    RestartedMidCall, MidCall, Sound, ThreadSound
    <2>2. RunningSound
      BY <1>1, <1>3 DEF RunningSound, Started, Sound, ThreadSound
    <2> QED BY <2>1, <2>2
  <1> QED BY <1>2, <1>3, WaitersAsIds DEF Control, ControlInvariant, Parts

\* What holds of a thread that makes a call.
LEMMA Calling ==
  ASSUME TypeOK, Parts, NEW me \in Thread, NEW k, CallsNow(me, k)
  PROVE  /\ running = me /\ state[me] = "Running" /\ point[me] = "body"
         /\ pending_resume[me] = NoResume /\ ~retired[me]
         /\ host_work = NoThread
         /\ NoRepeats(run_queue) /\ me \notin ToSet(run_queue)
         /\ \A t \in Thread \ {me} : running # t
  <1>1. /\ running = me /\ state[me] = "Running" /\ point[me] = "body"
        /\ pending_resume[me] = NoResume /\ ~retired[me]
    BY DEF CallsNow, Parts, Sound, ThreadSound
  <1>2. host_work = NoThread
    BY <1>1, ExecutorAssumption DEF Parts, HostWorkSound
  <1>3. NoRepeats(run_queue) /\ me \notin ToSet(run_queue)
    BY <1>1 DEF Parts, RunQueueSound
  <1> QED BY <1>1, <1>2, <1>3

\* A thread suspends; every other one is as it was or in a legal profile.
LEMMA SuspendSound ==
  ASSUME TypeOK, Parts, NEW me \in Thread, NEW pt, NEW st, NEW s,
         st \in [Thread -> ThreadState], running = me, Suspend(me, pt, st, s),
         ThreadSound(s, pt, pending_resume'[me], retired'[me], FALSE),
         \A t \in Thread \ {me} :
           \/ st[t] = state[t] /\ pending_resume'[t] = pending_resume[t] /\ retired'[t] = retired[t]
           \/ ThreadSound(st[t], point[t], pending_resume'[t], retired'[t], FALSE)
  PROVE  \A t \in Thread : Sound(t)'
  <1>1. /\ running' = NoThread /\ \A t \in Thread : NoThread # t
        /\ point' = [point EXCEPT ![me] = pt] /\ point \in [Thread -> Points]
        /\ state' = [st EXCEPT ![me] = s]
    BY ExecutorAssumption DEF Suspend, Release, TypeOK
  <1>2. ThreadSound(state'[me], point'[me], pending_resume'[me], retired'[me], running' = me)
    <2>1. state'[me] = s /\ point'[me] = pt /\ (running' = me) = FALSE
      BY <1>1
    <2> QED BY <2>1 DEF ThreadSound
  <1>3. ASSUME NEW t \in Thread \ {me}
        PROVE  ThreadSound(state'[t], point'[t], pending_resume'[t], retired'[t], running' = t)
    <2>1. state'[t] = st[t] /\ point'[t] = point[t] /\ running' # t /\ running # t
      BY <1>1
    <2>2. Sound(t)
      BY DEF Parts
    <2>3. CASE st[t] = state[t] /\ pending_resume'[t] = pending_resume[t] /\ retired'[t] = retired[t]
      BY <2>1, <2>2, <2>3 DEF Sound, ThreadSound
    <2>4. CASE ThreadSound(st[t], point[t], pending_resume'[t], retired'[t], FALSE)
      BY <2>1, <2>4 DEF ThreadSound
    <2> QED BY <2>3, <2>4
  <1> QED BY <1>2, <1>3 DEF Sound

\* The run queue after one, and after two threads became runnable.
LEMMA RunQueuePlus ==
  ASSUME TypeOK, RunQueueSound, NEW t \in Thread, state[t] # "Runnable"
  PROVE  /\ Enqueue(run_queue, t) \in Seq(Thread)
         /\ NoRepeats(Enqueue(run_queue, t))
         /\ ToSet(Enqueue(run_queue, t)) = {v \in Thread : state[v] = "Runnable" \/ v = t}
  <1>1. run_queue \in Seq(Thread) /\ NoRepeats(run_queue) /\ t \notin ToSet(run_queue)
        /\ ToSet(run_queue) = {v \in Thread : state[v] = "Runnable"}
    BY DEF TypeOK, RunQueueSound
  <1> QED BY <1>1, EnqueueFacts

\* The run queue after two threads became runnable.
LEMMA RunQueuePlusTwo ==
  ASSUME TypeOK, RunQueueSound, NEW w \in Thread, NEW t \in Thread, t # w,
         state[w] # "Runnable", state[t] # "Runnable"
  PROVE  /\ NoRepeats(Enqueue(Enqueue(run_queue, w), t))
         /\ ToSet(Enqueue(Enqueue(run_queue, w), t)) =
              {v \in Thread : state[v] = "Runnable" \/ v = w \/ v = t}
  <1> DEFINE rq == Enqueue(run_queue, w)
  <1>1. rq \in Seq(Thread) /\ NoRepeats(rq) /\ ToSet(rq) = {v \in Thread : state[v] = "Runnable" \/ v = w}
    BY RunQueuePlus
  <1> HIDE DEF rq
  <1>2. /\ ToSet(Enqueue(rq, t)) = ToSet(rq) \union {t}
        /\ NoRepeats(rq) /\ t \notin ToSet(rq) => NoRepeats(Enqueue(rq, t))
    BY <1>1, EnqueueFacts
  <1> QED BY <1>1, <1>2 DEF rq

\* The run queue after a thread left it.
LEMMA RunQueueMinus ==
  ASSUME TypeOK, RunQueueSound, NEW t \in Thread
  PROVE  /\ NoRepeats(Without(run_queue, t))
         /\ ToSet(Without(run_queue, t)) = {v \in Thread : state[v] = "Runnable" /\ v # t}
  <1>1. run_queue \in Seq(Thread) /\ NoRepeats(run_queue)
        /\ ToSet(run_queue) = {v \in Thread : state[v] = "Runnable"}
    BY DEF TypeOK, RunQueueSound
  <1> QED BY <1>1, WithoutFacts

-----------------------------------------------------------------------------
(* Every step keeps the parts: first the calls that return at once.        *)

\* Dispatch hands its thread the token and the value kept for it.
LEMMA DispatchParts ==
  ASSUME TypeOK, Parts, Dispatch
  PROVE  Parts'
  <1> DEFINE t == Head(run_queue)
  <1>1. /\ run_queue \in Seq(Thread) /\ run_queue # <<>>
        /\ t \in Thread /\ t \in ToSet(run_queue)
    BY TailFacts DEF Dispatch, TypeOK
  <1> HIDE DEF t
  <1>2. state[t] = "Runnable" /\ Sound(t)
    BY <1>1 DEF Parts, RunQueueSound
  <1>3. running = NoThread
    BY ExecutorAssumption DEF Dispatch, Quiescent, Parts, Sound, ThreadSound, TypeOK
  <1>4. /\ run_queue' = Without(run_queue, t)
        /\ pending_resume' = [pending_resume EXCEPT ![t] = NoResume]
        /\ running' = t
        /\ state' = [state EXCEPT ![t] = "Running"]
        /\ point' = [point EXCEPT ![t] = "body"]
        /\ retired' = retired /\ queues' = queues
        /\ host_work = NoThread /\ host_work' = host_work
    BY DEF Dispatch, t
  <1>6. RunQueueSound'
    <2>1. /\ NoRepeats(Without(run_queue, t))
          /\ ToSet(Without(run_queue, t)) = {v \in Thread : state[v] = "Runnable" /\ v # t}
      BY <1>1, RunQueueMinus DEF Parts
    <2>2. \A v \in Thread : state'[v] = "Runnable" <=> state[v] = "Runnable" /\ v # t
      BY <1>1, <1>4 DEF TypeOK
    <2> QED BY <1>4, <2>1, <2>2 DEF RunQueueSound
  <1>7. WaitSound(queues', state')
    <2>1. \A v \in Thread : state'[v] = state[v] \/ (state[v] \notin Blocked /\ state'[v] \notin Blocked)
      BY <1>1, <1>2, <1>4 DEF TypeOK, Blocked
    <2>2. WaitSound(queues, state')
      BY <2>1, QuietWaits DEF Parts
    <2> QED BY <1>4, <2>2
  <1>8. ASSUME NEW u \in Thread PROVE Sound(u)'
    <2>1. CASE u = t
      <3>1. /\ state'[t] = "Running" /\ point'[t] = "body" /\ pending_resume'[t] = NoResume
            /\ ~retired'[t] /\ running' = t
        BY <1>1, <1>2, <1>4 DEF TypeOK, Sound, ThreadSound
      <3>2. ThreadSound("Running", "body", NoResume, FALSE, TRUE)
        BY Profiles
      <3> QED BY <2>1, <3>1, <3>2 DEF Sound, ThreadSound
    <2>2. CASE u # t
      <3>1. /\ state'[u] = state[u] /\ point'[u] = point[u] /\ pending_resume'[u] = pending_resume[u]
            /\ retired'[u] = retired[u] /\ running' # u /\ running # u
        BY <1>3, <1>4, <2>2, ExecutorAssumption DEF TypeOK
      <3>2. Sound(u)
        BY DEF Parts
      <3> QED BY <3>1, <3>2 DEF Sound, ThreadSound
    <2> QED BY <2>1, <2>2
  <1>9. HostWorkSound'
    BY <1>4 DEF HostWorkSound
  <1> QED BY <1>6, <1>7, <1>8, <1>9 DEF Parts

\* A call that changes no list but perhaps one other thread's columns.
LEMMA CallSound ==
  ASSUME TypeOK, Parts, NEW me \in Thread, NEW t \in Thread \ {me}, running = me, running' = me,
         point' = point, state'[me] = state[me], pending_resume'[me] = pending_resume[me],
         retired'[me] = retired[me],
         \A u \in Thread \ {me, t} :
           /\ state'[u] = state[u] /\ pending_resume'[u] = pending_resume[u] /\ retired'[u] = retired[u],
         ThreadSound(state'[t], point[t], pending_resume'[t], retired'[t], FALSE)
  PROVE  \A u \in Thread : Sound(u)'
  <1>1. ASSUME NEW u \in Thread, u # t PROVE Sound(u)'
    <2>1. /\ state'[u] = state[u] /\ point'[u] = point[u] /\ pending_resume'[u] = pending_resume[u]
          /\ retired'[u] = retired[u] /\ (running' = u <=> running = u)
      BY <1>1
    <2>2. Sound(u)
      BY DEF Parts
    <2> QED BY <2>1, <2>2 DEF Sound, ThreadSound
  <1>2. Sound(t)'
    <2>1. point'[t] = point[t] /\ running' # t
      OBVIOUS
    <2> QED BY <2>1 DEF Sound, ThreadSound
  <1> QED BY <1>1, <1>2

\* osCreateThread brings a thread to life outside the schedule.
LEMMA CreateThreadParts ==
  ASSUME TypeOK, Parts, NEW me \in Thread, NEW t \in Thread, NEW p \in Priority,
         CreateThread(me, t, p)
  PROVE  Parts'
  <1>1. CallsNow(me, "Create") /\ state[t] = "Absent"
    BY DEF CreateThread, Created
  <1>2. running = me /\ host_work = NoThread /\ state[me] = "Running"
    BY <1>1, Calling
  <1>3. /\ state' = [state EXCEPT ![t] = "Stopped"]
        /\ retired' = retired /\ point' = point /\ run_queue' = run_queue /\ running' = running
        /\ pending_resume' = pending_resume /\ queues' = queues
        /\ host_work' = host_work /\ panic' = panic
    BY DEF CreateThread, runVars, hostVars
  <1>4. /\ t # me /\ state'[t] = "Stopped"
        /\ \A u \in Thread \ {t} : state'[u] = state[u]
    BY <1>1, <1>2, <1>3 DEF TypeOK
  <1>5. ThreadSound(state'[t], point[t], pending_resume'[t], retired'[t], FALSE)
    <2>1. point[t] = "entry" /\ pending_resume[t] = NoResume /\ retired[t] = FALSE
      BY <1>1 DEF Parts, Sound, ThreadSound, TypeOK
    <2>2. ThreadSound("Stopped", "entry", NoResume, FALSE, FALSE)
      BY Profiles
    <2> QED BY <1>3, <1>4, <2>1, <2>2
  <1>6. \A u \in Thread : Sound(u)'
    BY <1>2, <1>3, <1>4, <1>5, CallSound
  <1>7. RunQueueSound'
    BY <1>1, <1>3, <1>4 DEF Parts, RunQueueSound
  <1>8. WaitSound(queues', state')
    <2>1. \A v \in Thread : state'[v] = state[v] \/ (state[v] \notin Blocked /\ state'[v] \notin Blocked)
      BY <1>1, <1>4 DEF Blocked
    <2> QED BY <1>3, <2>1, QuietWaits DEF Parts
  <1> QED BY <1>2, <1>3, <1>6, <1>7, <1>8 DEF Parts, HostWorkSound

\* Stopping and destroying another thread, which ends in state s.
LEMMA StopParts ==
  ASSUME TypeOK, Parts, NEW me \in Thread, NEW t \in Thread \ {me}, NEW k, CallsNow(me, k),
         NEW s, s \notin Blocked, s \notin {"Runnable", "Running"},
         state' = [state EXCEPT ![t] = s],
         queues' = Unwaited(t),
         run_queue' = Without(run_queue, t),
         pending_resume' = [pending_resume EXCEPT ![t] = NoResume],
         running' = Release(t),
         point' = point, host_work' = host_work, panic' = panic,
         \A u \in Thread \ {t} : retired'[u] = retired[u],
         ThreadSound(s, point[t], NoResume, retired'[t], FALSE)
  PROVE  Parts'
  <1>1. running = me /\ host_work = NoThread
    BY Calling
  <1>2. /\ running' = me /\ state'[t] = s /\ pending_resume'[t] = NoResume
        /\ \A u \in Thread \ {t} : state'[u] = state[u] /\ pending_resume'[u] = pending_resume[u]
    BY <1>1 DEF TypeOK, Release
  <1>3. \A u \in Thread : Sound(u)'
    BY <1>1, <1>2, CallSound
  <1>4. RunQueueSound'
    BY <1>2, RunQueueMinus DEF Parts, RunQueueSound
  <1>5. WaitSound(queues', state')
    BY <1>2, UnwaitedWaits DEF Parts
  <1> QED BY <1>1, <1>3, <1>4, <1>5 DEF Parts, HostWorkSound

\* osStopThread on another thread.
LEMMA StopThreadParts ==
  ASSUME TypeOK, Parts, Disciplined, NEW me \in Thread, NEW t \in Thread, StopThread(me, t)
  PROVE  Parts'
  <1>1. t # me /\ state[t] # "Dead" /\ CallsNow(me, "Stop")
    BY DEF StopThread, CallsNow, Disciplined
  <1>2. running = me
    BY <1>1, Calling
  <1>3. point[t] \notin {"body", "returned"} /\ retired[t] = FALSE
    BY <1>1, <1>2 DEF Parts, Sound, ThreadSound, TypeOK
  <1>4. ThreadSound("Stopped", point[t], NoResume, retired[t], FALSE)
    BY <1>3, Profiles
  <1> QED BY <1>1, <1>4, StopParts DEF StopThread, hostVars, Blocked

\* osDestroyThread on another thread.
LEMMA DestroyThreadParts ==
  ASSUME TypeOK, Parts, Disciplined, NEW me \in Thread, NEW t \in Thread, DestroyThread(me, t)
  PROVE  Parts'
  <1>1. t # me /\ CallsNow(me, "Destroy")
    BY DEF DestroyThread, CallsNow, Disciplined
  <1>2. running = me
    BY <1>1, Calling
  <1>3. point[t] # "body"
    BY <1>1, <1>2 DEF Parts, Sound, ThreadSound
  <1>4. ThreadSound("Dead", point[t], NoResume, TRUE, FALSE)
    BY <1>3, Profiles
  <1>5. retired'[t] = TRUE /\ \A u \in Thread \ {t} : retired'[u] = retired[u]
    BY DEF DestroyThread, TypeOK
  <1> QED BY <1>1, <1>4, <1>5, StopParts DEF DestroyThread, hostVars, Blocked

\* osSetThreadPri moves a runnable thread within the run queue.
LEMMA SetThreadPriParts ==
  ASSUME TypeOK, Parts, NEW me \in Thread, NEW t \in Thread, NEW p \in Priority,
         SetThreadPri(me, t, p)
  PROVE  Parts'
  <1>1. /\ run_queue' = Reposition(run_queue, Ranks(run_queue), t, priority[t], p)
        /\ state' = state /\ retired' = retired /\ point' = point /\ running' = running
        /\ pending_resume' = pending_resume /\ queues' = queues
        /\ host_work' = host_work /\ panic' = panic
    BY DEF SetThreadPri, hostVars
  <1>2. NoRepeats(run_queue') /\ ToSet(run_queue') = ToSet(run_queue)
    <2>1. priority[t] \in Int /\ p \in Int /\ run_queue \in Seq(Thread)
      BY ExecutorAssumption DEF TypeOK
    <2>2. NoRepeats(run_queue)
      BY DEF Parts, RunQueueSound
    <2> QED BY <1>1, <2>1, <2>2, RanksFacts, RepositionFacts
  <1> QED BY <1>1, <1>2 DEF Parts, RunQueueSound, HostWorkSound, Sound

\* osCreateMesgQueue on a queue nobody waits on.
LEMMA CreateMesgQueueParts ==
  ASSUME TypeOK, Parts, Disciplined, NEW me \in Thread, NEW q \in Queue, NEW c \in 0..MaxCapacity,
         CreateMesgQueue(me, q, c)
  PROVE  Parts'
  <1> DEFINE n == NewQueue(IF c = 0 THEN 1 ELSE c)
             g == [queues EXCEPT ![q] = n]
             L == {}
  <1>1. queues' = g
    BY DEF CreateMesgQueue
  <1>2. /\ state' = state /\ retired' = retired /\ point' = point /\ running' = running
        /\ pending_resume' = pending_resume /\ run_queue' = run_queue
        /\ host_work' = host_work /\ panic' = panic
    BY DEF CreateMesgQueue, threadVars, runVars, hostVars
  <1>3. AllIds(queues[q]) = {}
    <2>1. ~ \E t \in Thread : WaitsOn(t, q)
      BY DEF CreateMesgQueue, CallsNow, Disciplined
    <2>2. AllIds(queues[q]) \subseteq Thread
      BY AllIdsThreads
    <2> QED BY <2>1, <2>2 DEF WaitsOn, AllIds, Ids
  <1>4. n.receivers = <<>> /\ n.senders = <<>>
    BY DEF NewQueue
  <1>5. Ids(<<>>) = {} /\ NoRepeats(WaiterIds(<<>>))
    BY DEF Ids, ToSet, WaiterIds, NoRepeats
  <1> HIDE DEF n
  <1>6. g[q] = n /\ \A p \in Queue \ {q} : g[p] = queues[p]
    BY DEF TypeOK
  <1> HIDE DEF g
  <1>7. \A p \in Queue : /\ Distinct(g[p])
                         /\ Ids(g[p].receivers) = Ids(queues[p].receivers) \ L
                         /\ Ids(g[p].senders) = Ids(queues[p].senders) \ L
    <2>1. ASSUME NEW p \in Queue, p # q PROVE g[p] = queues[p] /\ Distinct(queues[p])
      BY <1>6, <2>1 DEF Parts, WaitSound
    <2>2. /\ Ids(g[q].receivers) = {} /\ Ids(queues[q].receivers) = {}
          /\ Ids(g[q].senders) = {} /\ Ids(queues[q].senders) = {}
          /\ Distinct(g[q])
      BY <1>3, <1>4, <1>5, <1>6 DEF AllIds, Distinct
    <2>3. ASSUME NEW p \in Queue
          PROVE  /\ Distinct(g[p])
                 /\ Ids(g[p].receivers) = Ids(queues[p].receivers) \ L
                 /\ Ids(g[p].senders) = Ids(queues[p].senders) \ L
      BY <2>1, <2>2
    <2> QED BY <2>3
  <1>8. \A p \in Queue : AllIds(queues[p]) \subseteq Thread
    BY AllIdsThreads
  <1>9. \A v \in Thread : v \notin L /\ state[v] = state[v]
    OBVIOUS
  <1> HIDE DEF L
  <1>10. WaitSound(g, state)
    BY <1>7, <1>8, <1>9, WaitLeave DEF Parts
  <1> QED BY <1>1, <1>2, <1>10 DEF Parts, RunQueueSound, HostWorkSound, Sound

\* Every call that keeps the run token.
LEMMA GuestCallParts ==
  ASSUME TypeOK, Parts, Disciplined, NEW me \in Thread, GuestCall(me)
  PROVE  Parts'
  <1>1. ASSUME NEW e \in Event, NEW q \in Queue, SetEventMesg(me, e, q) PROVE Parts'
    BY <1>1 DEF SetEventMesg, threadVars, runVars, Parts, RunQueueSound, HostWorkSound, Sound
  <1> QED
    BY <1>1, CreateThreadParts, StopThreadParts, DestroyThreadParts, SetThreadPriParts,
       CreateMesgQueueParts DEF GuestCall

-----------------------------------------------------------------------------
(* The calls that suspend.                                                 *)

\* The caller stays runnable and wakes nobody.
LEMMA YieldParts ==
  ASSUME TypeOK, Parts, NEW me \in Thread, NEW k, CallsNow(me, k), NEW pt,
         Suspend(me, pt, state, "Runnable"),
         run_queue' = Enqueue(run_queue, me),
         retired' = retired, panic' = panic,
         \A t \in Thread \ {me} : pending_resume'[t] = pending_resume[t],
         ThreadSound("Runnable", pt, pending_resume'[me], FALSE, FALSE),
         \/ queues' = queues
         \/ \E q \in Queue : \E r : /\ r.receivers = queues[q].receivers
                                   /\ r.senders = queues[q].senders
                                   /\ queues' = [queues EXCEPT ![q] = r],
         host_work' \in {host_work, me}
  PROVE  Parts'
  <1>1. running = me /\ state[me] = "Running" /\ retired[me] = FALSE /\ host_work = NoThread
    BY Calling DEF TypeOK
  <1>2. /\ state' = [state EXCEPT ![me] = "Runnable"] /\ running' = NoThread
        /\ state'[me] = "Runnable" /\ \A t \in Thread \ {me} : state'[t] = state[t]
    BY <1>1 DEF Suspend, Release, TypeOK
  <1>3. \A t \in Thread : Sound(t)'
    <2>1. state \in [Thread -> ThreadState] /\ \A t \in Thread : retired'[t] = retired[t]
      BY DEF TypeOK
    <2>2. ThreadSound("Runnable", pt, pending_resume'[me], retired'[me], FALSE)
      BY <1>1, <2>1
    <2> QED BY <1>1, <2>1, <2>2, SuspendSound
  <1>4. RunQueueSound'
    BY <1>1, <1>2, RunQueuePlus DEF Parts, RunQueueSound
  <1>5. \A v \in Thread : state'[v] = state[v] \/ (state[v] \notin Blocked /\ state'[v] \notin Blocked)
    BY <1>1, <1>2 DEF Blocked
  <1>6. WaitSound(queues', state')
    <2>1. WaitSound(queues, state)
      BY DEF Parts
    <2>2. CASE queues' = queues
      BY <1>5, <2>1, <2>2, QuietWaits
    <2>3. ASSUME NEW q \in Queue, NEW r, r.receivers = queues[q].receivers,
                 r.senders = queues[q].senders, queues' = [queues EXCEPT ![q] = r]
          PROVE  WaitSound(queues', state')
      BY <1>5, <2>1, <2>3, SameWaits
    <2> QED BY <2>2, <2>3
  <1>7. HostWorkSound'
    BY <1>1, <1>2 DEF HostWorkSound
  <1> QED BY <1>3, <1>4, <1>6, <1>7 DEF Parts

\* The caller stays runnable and another thread w becomes runnable.
LEMMA WakeParts ==
  ASSUME TypeOK, Parts, NEW me \in Thread, NEW k, CallsNow(me, k), NEW pt,
         NEW w \in Thread, state[w] \in Blocked \union {"Stopped"},
         Suspend(me, pt, [state EXCEPT ![w] = "Runnable"], "Runnable"),
         run_queue' = Enqueue(Enqueue(run_queue, w), me),
         retired' = retired, panic' = panic, host_work' = host_work,
         \A t \in Thread \ {me, w} : pending_resume'[t] = pending_resume[t],
         ThreadSound("Runnable", pt, pending_resume'[me], FALSE, FALSE),
         ThreadSound("Runnable", point[w], pending_resume'[w], FALSE, FALSE),
         WaitSound(queues', [[state EXCEPT ![w] = "Runnable"] EXCEPT ![me] = "Runnable"])
  PROVE  Parts'
  <1> DEFINE st == [state EXCEPT ![w] = "Runnable"]
  <1>1. running = me /\ state[me] = "Running" /\ retired[me] = FALSE /\ host_work = NoThread
    BY Calling DEF TypeOK
  <1>2. w # me /\ state[w] # "Runnable" /\ retired[w] = FALSE
    BY <1>1 DEF Blocked, Parts, Sound, ThreadSound, TypeOK
  <1>3. /\ state' = [st EXCEPT ![me] = "Runnable"] /\ running' = NoThread
        /\ st \in [Thread -> ThreadState]
        /\ st[w] = "Runnable" /\ \A t \in Thread \ {w} : st[t] = state[t]
    BY <1>1 DEF Suspend, Release, TypeOK, ThreadState
  <1> HIDE DEF st
  <1>4. \A t \in Thread : Sound(t)'
    <2>1. \A t \in Thread : retired'[t] = retired[t]
      OBVIOUS
    <2>2. ThreadSound("Runnable", pt, pending_resume'[me], retired'[me], FALSE)
      BY <1>1, <2>1
    <2>3. ASSUME NEW t \in Thread \ {me}
          PROVE  \/ st[t] = state[t] /\ pending_resume'[t] = pending_resume[t] /\ retired'[t] = retired[t]
                 \/ ThreadSound(st[t], point[t], pending_resume'[t], retired'[t], FALSE)
      <3>1. CASE t = w
        <4>1. st[t] = "Runnable" /\ retired'[t] = FALSE
          BY <1>2, <1>3, <2>1, <3>1
        <4> QED BY <3>1, <4>1
      <3>2. CASE t # w
        BY <1>3, <2>1, <3>2
      <3> QED BY <3>1, <3>2
    <2>4. Suspend(me, pt, st, "Runnable")
      BY DEF st
    <2> QED BY <1>1, <1>3, <2>2, <2>3, <2>4, SuspendSound
  <1>5. RunQueueSound'
    <2>1. /\ NoRepeats(run_queue')
          /\ ToSet(run_queue') = {v \in Thread : state[v] = "Runnable" \/ v = w \/ v = me}
      BY <1>1, <1>2, RunQueuePlusTwo DEF Parts
    <2>2. \A v \in Thread : state'[v] = "Runnable" <=> state[v] = "Runnable" \/ v = w \/ v = me
      BY <1>2, <1>3
    <2> QED BY <2>1, <2>2 DEF RunQueueSound
  <1>6. WaitSound(queues', state')
    BY <1>3 DEF st
  <1> QED BY <1>1, <1>4, <1>5, <1>6 DEF Parts, HostWorkSound

\* The caller leaves the schedule, in state s.
LEMMA LeaveParts ==
  ASSUME TypeOK, Parts, NEW me \in Thread, NEW k, CallsNow(me, k), NEW pt,
         NEW s, s \notin {"Runnable", "Running"},
         Suspend(me, pt, state, s),
         run_queue' \in {run_queue, Without(run_queue, me)},
         panic' = panic, host_work' = host_work,
         \A t \in Thread \ {me} : pending_resume'[t] = pending_resume[t] /\ retired'[t] = retired[t],
         ThreadSound(s, pt, pending_resume'[me], retired'[me], FALSE),
         WaitSound(queues', [state EXCEPT ![me] = s])
  PROVE  Parts'
  <1>1. running = me /\ state[me] = "Running" /\ host_work = NoThread
    BY Calling
  <1>2. /\ state' = [state EXCEPT ![me] = s] /\ running' = NoThread
        /\ state'[me] = s /\ \A t \in Thread \ {me} : state'[t] = state[t]
        /\ state \in [Thread -> ThreadState]
    BY <1>1 DEF Suspend, Release, TypeOK
  <1>3. \A t \in Thread : Sound(t)'
    BY <1>1, <1>2, SuspendSound
  <1>4. RunQueueSound'
    <2>1. \A v \in Thread : state'[v] = "Runnable" <=> state[v] = "Runnable"
      BY <1>1, <1>2
    <2>2. /\ NoRepeats(run_queue) /\ ToSet(run_queue) = {v \in Thread : state[v] = "Runnable"}
          /\ NoRepeats(Without(run_queue, me))
          /\ ToSet(Without(run_queue, me)) = {v \in Thread : state[v] = "Runnable" /\ v # me}
      BY RunQueueMinus DEF Parts, RunQueueSound
    <2>3. {v \in Thread : state[v] = "Runnable" /\ v # me} = {v \in Thread : state[v] = "Runnable"}
      BY <1>1
    <2> QED BY <2>1, <2>2, <2>3 DEF RunQueueSound
  <1>5. WaitSound(queues', state')
    BY <1>2
  <1> QED BY <1>1, <1>3, <1>4, <1>5 DEF Parts, HostWorkSound

\* osYieldThread, a checkpoint and an accepted host interrupt.
LEMMA YieldThreadParts ==
  ASSUME TypeOK, Parts, NEW me \in Thread,
         YieldThread(me) \/ Checkpoint(me) \/ AcceptInterrupt(me)
  PROVE  Parts'
  <1>1. PICK k : CallsNow(me, k)
    BY DEF YieldThread, Checkpoint, AcceptInterrupt
  <1>2. pending_resume[me] = NoResume
    BY <1>1, Calling
  <1>3. /\ Suspend(me, "any", state, "Runnable")
        /\ run_queue' = Enqueue(run_queue, me)
        /\ retired' = retired /\ panic' = panic /\ queues' = queues
        /\ pending_resume' = pending_resume
        /\ host_work' \in {host_work, me}
    BY DEF YieldThread, Checkpoint, AcceptInterrupt, hostVars
  <1>4. ThreadSound("Runnable", "any", pending_resume'[me], FALSE, FALSE)
    BY <1>2, <1>3, Profiles
  <1> QED BY <1>1, <1>3, <1>4, YieldParts

\* osStartThread: the target becomes runnable and the caller yields.
LEMMA StartStoppedParts ==
  ASSUME TypeOK, Parts, NEW me \in Thread, NEW t \in Thread, StartStopped(me, t)
  PROVE  Parts'
  <1>1. /\ CallsNow(me, "Start") /\ t # me /\ state[t] = "Stopped"
    <2>1. CallsNow(me, "Start") /\ state[t] = "Stopped"
      BY DEF StartStopped
    <2>2. state[me] = "Running"
      BY <2>1, Calling
    <2> QED BY <2>1, <2>2
  <1>2. pending_resume[me] = NoResume
    BY <1>1, Calling
  <1>3. /\ pending_resume[t] = NoResume
        /\ point[t] \in {"entry", "start", "any", "recv", "send", "fault"}
    BY <1>1 DEF Parts, Sound, ThreadSound, TypeOK, Points
  <1>4. /\ Suspend(me, "start", [state EXCEPT ![t] = "Runnable"], "Runnable")
        /\ run_queue' = Enqueue(Enqueue(run_queue, t), me)
        /\ retired' = retired /\ panic' = panic /\ queues' = queues /\ host_work' = host_work
        /\ pending_resume' = IF Started(t) THEN pending_resume
                             ELSE [pending_resume EXCEPT ![t] = Start]
    BY DEF StartStopped, hostVars
  <1>5. \A u \in Thread \ {t} : pending_resume'[u] = pending_resume[u]
    BY <1>4 DEF TypeOK
  <1>6. ThreadSound("Runnable", "start", pending_resume'[me], FALSE, FALSE)
    BY <1>1, <1>2, <1>5, Profiles
  <1>7. ThreadSound("Runnable", point[t], pending_resume'[t], FALSE, FALSE)
    <2>1. CASE point[t] = "entry"
      <3>1. pending_resume'[t] = Start
        BY <1>4, <2>1 DEF Started, TypeOK
      <3> QED BY <2>1, <3>1, Profiles
    <2>2. CASE point[t] # "entry"
      <3>1. pending_resume'[t] = NoResume
        BY <1>3, <1>4, <2>2 DEF Started
      <3> QED BY <1>3, <2>2, <3>1, Profiles
    <2> QED BY <2>1, <2>2
  <1>8. WaitSound(queues', [[state EXCEPT ![t] = "Runnable"] EXCEPT ![me] = "Runnable"])
    <2> DEFINE u == [[state EXCEPT ![t] = "Runnable"] EXCEPT ![me] = "Runnable"]
    <2>1. \A v \in Thread : u[v] = state[v] \/ (state[v] \notin Blocked /\ u[v] \notin Blocked)
      <3>1. state[me] = "Running"
        BY <1>1, Calling
      <3> QED BY <1>1, <3>1 DEF TypeOK, Blocked
    <2> HIDE DEF u
    <2>2. WaitSound(queues, u)
      BY <2>1, QuietWaits DEF Parts
    <2> QED BY <1>4, <2>2 DEF u
  <1> QED BY <1>1, <1>4, <1>5, <1>6, <1>7, <1>8, WakeParts

\* A start that fails its assertion touches no table.
LEMMA StartThreadParts ==
  ASSUME TypeOK, Parts, NEW me \in Thread, NEW t \in Thread, StartThread(me, t)
  PROVE  Parts'
  <1>1. CASE StartStopped(me, t)
    BY <1>1, StartStoppedParts
  <1>2. CASE StartUnstopped(me, t)
    BY <1>2 DEF StartUnstopped, threadVars, runVars, Parts, RunQueueSound, HostWorkSound, Sound
  <1> QED BY <1>1, <1>2 DEF StartThread

\* A guest thread that parks itself or returns leaves the schedule.
LEMMA PauseParts ==
  ASSUME TypeOK, Parts, NEW me \in Thread, PauseSelf(me) \/ Return(me)
  PROVE  Parts'
  <1>1. PICK k : CallsNow(me, k)
    BY DEF PauseSelf, Return
  <1>2. ~retired[me]
    BY <1>1, Calling
  <1>3. /\ run_queue' = Without(run_queue, me)
        /\ queues' = Unwaited(me)
        /\ pending_resume' = [pending_resume EXCEPT ![me] = NoResume]
        /\ panic' = panic /\ host_work' = host_work
    BY DEF PauseSelf, Return, hostVars
  <1>4. /\ pending_resume'[me] = NoResume
        /\ \A t \in Thread \ {me} : pending_resume'[t] = pending_resume[t]
    BY <1>3 DEF TypeOK
  <1>5. ASSUME NEW s, s \notin Blocked PROVE WaitSound(queues', [state EXCEPT ![me] = s])
    <2> DEFINE u == [state EXCEPT ![me] = s]
    <2>1. u[me] \notin Blocked /\ \A v \in Thread \ {me} : u[v] = state[v]
      BY <1>5 DEF TypeOK
    <2> HIDE DEF u
    <2>2. WaitSound(Unwaited(me), u)
      BY <2>1, UnwaitedWaits DEF Parts
    <2> QED BY <1>3, <2>2 DEF u
  <1>6. CASE PauseSelf(me)
    <2>1. Suspend(me, "any", state, "Stopped") /\ retired' = retired
      BY <1>6 DEF PauseSelf
    <2>2. retired'[me] = FALSE
      BY <1>2, <2>1 DEF TypeOK
    <2>3. ThreadSound("Stopped", "any", pending_resume'[me], retired'[me], FALSE)
      BY <1>4, <2>2, Profiles
    <2>4. WaitSound(queues', [state EXCEPT ![me] = "Stopped"])
      BY <1>5 DEF Blocked
    <2> QED BY <1>1, <1>3, <1>4, <2>1, <2>3, <2>4, LeaveParts
  <1>7. CASE Return(me)
    <2>1. /\ Suspend(me, "returned", state, "Dead")
          /\ retired'[me] = TRUE /\ \A t \in Thread \ {me} : retired'[t] = retired[t]
      BY <1>7 DEF Return, TypeOK
    <2>2. ThreadSound("Dead", "returned", pending_resume'[me], retired'[me], FALSE)
      BY <1>4, <2>1, Profiles
    <2>3. WaitSound(queues', [state EXCEPT ![me] = "Dead"])
      BY <1>5 DEF Blocked
    <2> QED BY <1>1, <1>3, <1>4, <2>1, <2>2, <2>3, LeaveParts
  <1> QED BY <1>6, <1>7

\* The first waiters of a queue, and where they stand.
LEMMA FirstReceiverFacts ==
  ASSUME TypeOK, Parts, NEW q \in Queue, HasReceiver(q)
  PROVE  /\ FirstReceiver(q) \in Thread
         /\ state[FirstReceiver(q)] = "BlockedOnRecv" /\ point[FirstReceiver(q)] = "recv"
  <1>1. FirstReceiver(q) \in Ids(queues[q].receivers)
    BY QueueTypes, TailIds DEF Parts, WaitSound, Distinct, HasReceiver, FirstReceiver
  <1>2. FirstReceiver(q) \in Thread
    BY <1>1, AllIdsThreads DEF AllIds
  <1>3. state[FirstReceiver(q)] = "BlockedOnRecv"
    BY <1>1 DEF Parts, WaitSound
  <1> QED BY <1>2, <1>3 DEF Parts, Sound, ThreadSound

\* The first parked sender of a queue.
LEMMA FirstSenderFacts ==
  ASSUME TypeOK, Parts, NEW q \in Queue, HasSender(q)
  PROVE  /\ FirstSender(q).id \in Thread
         /\ state[FirstSender(q).id] = "BlockedOnSend" /\ point[FirstSender(q).id] = "send"
  <1>1. FirstSender(q).id \in Ids(queues[q].senders)
    BY QueueTypes, TailIds DEF Parts, WaitSound, Distinct, HasSender, FirstSender
  <1>2. FirstSender(q).id \in Thread
    BY <1>1, AllIdsThreads DEF AllIds
  <1>3. state[FirstSender(q).id] = "BlockedOnSend"
    BY <1>1 DEF Parts, WaitSound
  <1> QED BY <1>2, <1>3 DEF Parts, Sound, ThreadSound

\* osRecvMesg, blocking or not, with and without a parked sender.
LEMMA RecvMesgParts ==
  ASSUME TypeOK, Parts, NEW me \in Thread, NEW q \in Queue, NEW b \in BOOLEAN, RecvMesg(me, q, b)
  PROVE  Parts'
  <1>1. PICK k : CallsNow(me, k)
    BY DEF RecvMesg
  <1>2. state[me] = "Running" /\ pending_resume[me] = NoResume
    BY <1>1, Calling
  <1>3. retired' = retired /\ panic' = panic /\ host_work' = host_work
    BY DEF RecvMesg, hostVars
  <1>4. CASE IsEmpty(q) /\ b
    <2> DEFINE w == [id |-> me, pri |-> priority[me]]
               u == [state EXCEPT ![me] = "BlockedOnRecv"]
    <2>1. w \in QReceiver /\ w.id = me
      BY DEF QReceiver, TypeOK
    <2>2. /\ queues' = [queues EXCEPT ![q] = ReceiverParked(q, w)]
          /\ Suspend(me, "recv", state, "BlockedOnRecv")
          /\ run_queue' = run_queue /\ pending_resume' = pending_resume
      BY <1>4 DEF RecvMesg
    <2>3. u[me] = "BlockedOnRecv" /\ \A v \in Thread \ {me} : u[v] = state[v]
      BY DEF TypeOK
    <2>4. state[me] \notin Blocked
      BY <1>2 DEF Blocked
    <2> HIDE DEF w, u
    <2>5. WaitSound([queues EXCEPT ![q] = ReceiverParked(q, w)], u)
      BY <2>1, <2>3, <2>4, ReceiverParkedWaits DEF Parts
    <2>6. ThreadSound("BlockedOnRecv", "recv", pending_resume'[me], retired'[me], FALSE)
      <3>1. pending_resume'[me] = NoResume /\ retired'[me] = FALSE
        BY <1>1, <1>2, <1>3, <2>2, Calling DEF TypeOK
      <3> QED BY <3>1, Profiles
    <2>7. WaitSound(queues', [state EXCEPT ![me] = "BlockedOnRecv"])
      BY <2>2, <2>5 DEF u
    <2> QED BY <1>1, <1>3, <2>2, <2>6, <2>7, LeaveParts
  <1>5. CASE IsEmpty(q) /\ ~b
    <2>1. /\ pending_resume' = [pending_resume EXCEPT ![me] = WouldBlock]
          /\ Suspend(me, "recv", state, "Runnable")
          /\ run_queue' = Enqueue(run_queue, me)
          /\ queues' = queues
      BY <1>5 DEF RecvMesg
    <2>2. /\ pending_resume'[me] = WouldBlock
          /\ \A t \in Thread \ {me} : pending_resume'[t] = pending_resume[t]
      BY <2>1 DEF TypeOK
    <2>3. ThreadSound("Runnable", "recv", pending_resume'[me], FALSE, FALSE)
      BY <2>2, Profiles
    <2> QED BY <1>1, <1>3, <2>1, <2>2, <2>3, YieldParts
  <1>6. CASE ~IsEmpty(q) /\ ~HasSender(q)
    <2> DEFINE m == Head(queues[q].messages)
    <2>1. /\ pending_resume' = [pending_resume EXCEPT ![me] = Delivered(m)]
          /\ Suspend(me, "recv", state, "Runnable")
          /\ run_queue' = Enqueue(run_queue, me)
          /\ queues' = [queues EXCEPT ![q] = Received(q)]
      BY <1>6 DEF RecvMesg
    <2>2. Received(q).receivers = queues[q].receivers /\ Received(q).senders = queues[q].senders
      BY <1>6, ReceivedFacts
    <2> HIDE DEF m
    <2>3. /\ pending_resume'[me] = Delivered(m)
          /\ \A t \in Thread \ {me} : pending_resume'[t] = pending_resume[t]
      BY <2>1 DEF TypeOK
    <2>4. ThreadSound("Runnable", "recv", pending_resume'[me], FALSE, FALSE)
      BY <2>3, Profiles
    <2> QED BY <1>1, <1>3, <2>1, <2>2, <2>3, <2>4, YieldParts
  <1>7. CASE ~IsEmpty(q) /\ HasSender(q)
    <2> DEFINE w == FirstSender(q).id
               m == Head(queues[q].messages)
               u == [[state EXCEPT ![w] = "Runnable"] EXCEPT ![me] = "Runnable"]
    <2>1. /\ queues' = [queues EXCEPT ![q] = Received(q)]
          /\ pending_resume' = [pending_resume EXCEPT ![w]  = SendUnblocked, ![me] = Delivered(m)]
          /\ Suspend(me, "recv", [state EXCEPT ![w] = "Runnable"], "Runnable")
          /\ run_queue' = Enqueue(Enqueue(run_queue, w), me)
      BY <1>7 DEF RecvMesg
    <2>2. w \in Thread /\ state[w] = "BlockedOnSend" /\ point[w] = "send"
      BY <1>7, FirstSenderFacts
    <2>3. /\ u[w] \notin Blocked
          /\ \A v \in Thread \ {w} : u[v] = state[v] \/ (state[v] \notin Blocked /\ u[v] \notin Blocked)
      BY <1>2, <2>2 DEF TypeOK, Blocked
    <2> HIDE DEF u
    <2>4. WaitSound([queues EXCEPT ![q] = Received(q)], u)
      BY <1>7, <2>3, ReceivedWaits DEF Parts
    <2> HIDE DEF w, m
    <2>5. /\ w # me
          /\ pending_resume'[me] = Delivered(m) /\ pending_resume'[w] = SendUnblocked
          /\ \A t \in Thread \ {me, w} : pending_resume'[t] = pending_resume[t]
      BY <1>2, <2>1, <2>2 DEF TypeOK
    <2>6. /\ ThreadSound("Runnable", "recv", pending_resume'[me], FALSE, FALSE)
          /\ ThreadSound("Runnable", point[w], pending_resume'[w], FALSE, FALSE)
      BY <2>2, <2>5, Profiles
    <2>7. WaitSound(queues', [[state EXCEPT ![w] = "Runnable"] EXCEPT ![me] = "Runnable"])
      BY <2>1, <2>4 DEF u
    <2>8. state[w] \in Blocked \union {"Stopped"}
      BY <2>2 DEF Blocked
    <2> QED BY <1>1, <1>3, <2>1, <2>2, <2>5, <2>6, <2>7, <2>8, WakeParts
  <1> QED BY <1>4, <1>5, <1>6, <1>7

\* osSendMesg and osJamMesg, blocking or not, with and without a parked receiver.
LEMMA SendMesgParts ==
  ASSUME TypeOK, Parts, NEW me \in Thread, NEW q \in Queue, NEW m \in Fresh,
         NEW place \in Placement, NEW b \in BOOLEAN, SendMesg(me, q, m, place, b)
  PROVE  Parts'
  <1>1. PICK k : CallsNow(me, k)
    BY DEF SendMesg
  <1>2. state[me] = "Running" /\ pending_resume[me] = NoResume /\ m \in Payload
    BY <1>1, Calling, ResumeTypes
  <1>3. retired' = retired /\ panic' = panic /\ host_work' = host_work
    BY DEF SendMesg, hostVars
  <1>4. CASE HasReceiver(q)
    <2> DEFINE w == FirstReceiver(q)
               u == [[state EXCEPT ![w] = "Runnable"] EXCEPT ![me] = "Runnable"]
    <2>1. /\ queues' = [queues EXCEPT ![q] = ReceiverGone(q)]
          /\ pending_resume' = [pending_resume EXCEPT ![w]  = Delivered(m), ![me] = SendUnblocked]
          /\ Suspend(me, "send", [state EXCEPT ![w] = "Runnable"], "Runnable")
          /\ run_queue' = Enqueue(Enqueue(run_queue, w), me)
      BY <1>4 DEF SendMesg
    <2>2. w \in Thread /\ state[w] = "BlockedOnRecv" /\ point[w] = "recv"
      BY <1>4, FirstReceiverFacts
    <2>3. /\ u[w] \notin Blocked
          /\ \A v \in Thread \ {w} : u[v] = state[v] \/ (state[v] \notin Blocked /\ u[v] \notin Blocked)
      BY <1>2, <2>2 DEF TypeOK, Blocked
    <2> HIDE DEF u
    <2>4. WaitSound([queues EXCEPT ![q] = ReceiverGone(q)], u)
      BY <1>4, <2>3, ReceiverGoneWaits DEF Parts
    <2> HIDE DEF w
    <2>5. /\ w # me
          /\ pending_resume'[me] = SendUnblocked /\ pending_resume'[w] = Delivered(m)
          /\ \A t \in Thread \ {me, w} : pending_resume'[t] = pending_resume[t]
      BY <1>2, <2>1, <2>2 DEF TypeOK
    <2>6. /\ ThreadSound("Runnable", "send", pending_resume'[me], FALSE, FALSE)
          /\ ThreadSound("Runnable", point[w], pending_resume'[w], FALSE, FALSE)
      BY <2>2, <2>5, Profiles
    <2>7. WaitSound(queues', [[state EXCEPT ![w] = "Runnable"] EXCEPT ![me] = "Runnable"])
      BY <2>1, <2>4 DEF u
    <2>8. state[w] \in Blocked \union {"Stopped"}
      BY <2>2 DEF Blocked
    <2> QED BY <1>1, <1>3, <2>1, <2>2, <2>5, <2>6, <2>7, <2>8, WakeParts
  <1>5. CASE ~HasReceiver(q) /\ ~IsFull(q)
    <2>1. /\ pending_resume' = [pending_resume EXCEPT ![me] = SendUnblocked]
          /\ Suspend(me, "send", state, "Runnable")
          /\ run_queue' = Enqueue(run_queue, me)
          /\ queues' = [queues EXCEPT ![q] = Queued(q, m, place)]
      BY <1>5 DEF SendMesg
    <2>2. Queued(q, m, place).receivers = queues[q].receivers /\ Queued(q, m, place).senders = queues[q].senders
      BY <1>2, <1>5, QueuedFacts
    <2>3. /\ pending_resume'[me] = SendUnblocked
          /\ \A t \in Thread \ {me} : pending_resume'[t] = pending_resume[t]
      BY <2>1 DEF TypeOK
    <2>4. ThreadSound("Runnable", "send", pending_resume'[me], FALSE, FALSE)
      BY <2>3, Profiles
    <2> QED BY <1>1, <1>3, <2>1, <2>2, <2>3, <2>4, YieldParts
  <1>6. CASE ~HasReceiver(q) /\ IsFull(q) /\ b
    <2> DEFINE w == [id |-> me, pri |-> priority[me], msg |-> m, place |-> place]
               u == [state EXCEPT ![me] = "BlockedOnSend"]
    <2>1. w \in QSender /\ w.id = me
      BY <1>2 DEF QSender, TypeOK
    <2>2. /\ queues' = [queues EXCEPT ![q] = SenderParked(q, w)]
          /\ Suspend(me, "send", state, "BlockedOnSend")
          /\ run_queue' = run_queue /\ pending_resume' = pending_resume
      BY <1>6 DEF SendMesg
    <2>3. u[me] = "BlockedOnSend" /\ \A v \in Thread \ {me} : u[v] = state[v]
      BY DEF TypeOK
    <2>4. state[me] \notin Blocked
      BY <1>2 DEF Blocked
    <2> HIDE DEF w, u
    <2>5. WaitSound([queues EXCEPT ![q] = SenderParked(q, w)], u)
      BY <2>1, <2>3, <2>4, SenderParkedWaits DEF Parts
    <2>6. ThreadSound("BlockedOnSend", "send", pending_resume'[me], retired'[me], FALSE)
      <3>1. pending_resume'[me] = NoResume /\ retired'[me] = FALSE
        BY <1>1, <1>2, <1>3, <2>2, Calling DEF TypeOK
      <3> QED BY <3>1, Profiles
    <2>7. WaitSound(queues', [state EXCEPT ![me] = "BlockedOnSend"])
      BY <2>2, <2>5 DEF u
    <2> QED BY <1>1, <1>3, <2>2, <2>6, <2>7, LeaveParts
  <1>7. CASE ~HasReceiver(q) /\ IsFull(q) /\ ~b
    <2>1. /\ pending_resume' = [pending_resume EXCEPT ![me] = WouldBlock]
          /\ Suspend(me, "send", state, "Runnable")
          /\ run_queue' = Enqueue(run_queue, me)
          /\ queues' = queues
      BY <1>7 DEF SendMesg
    <2>2. /\ pending_resume'[me] = WouldBlock
          /\ \A t \in Thread \ {me} : pending_resume'[t] = pending_resume[t]
      BY <2>1 DEF TypeOK
    <2>3. ThreadSound("Runnable", "send", pending_resume'[me], FALSE, FALSE)
      BY <2>2, Profiles
    <2> QED BY <1>1, <1>3, <2>1, <2>2, <2>3, YieldParts
  <1> QED BY <1>4, <1>5, <1>6, <1>7

\* A CPU fault: its event, and the end of its thread.
LEMMA FaultParts ==
  ASSUME TypeOK, Parts, NEW me \in Thread, NEW e \in Event, Fault(me, e)
  PROVE  Parts'
  <1> DEFINE q == event_table[e]
  <1>1. CallsNow(me, "Fault")
    BY DEF Fault
  <1>2. /\ running = me /\ state[me] = "Running" /\ pending_resume[me] = NoResume
        /\ ~retired[me] /\ host_work = NoThread /\ me \notin ToSet(run_queue)
    BY <1>1, Calling
  <1>3. /\ retired' = retired /\ panic' = panic /\ host_work' = host_work
        /\ point' = [point EXCEPT ![me] = "fault"] /\ running' = Release(me)
    BY DEF Fault, hostVars
  <1>4. e \in Payload /\ q \in Queue \union {NoQueue}
    BY ResumeTypes DEF TypeOK
  <1>5. CASE q # NoQueue /\ HasReceiver(q)
    <2> DEFINE w  == FirstReceiver(q)
               st == [state EXCEPT ![w] = "Runnable"]
               u  == [st EXCEPT ![me] = "Stopped"]
               rq == Enqueue(run_queue, w)
    <2>1. /\ queues' = [queues EXCEPT ![q] = ReceiverGone(q)]
          /\ state' = u
          /\ run_queue' = Without(rq, me)
          /\ pending_resume' = [pending_resume EXCEPT ![w] = Delivered(e), ![me] = NoResume]
      BY <1>5 DEF Fault
    <2>2. w \in Thread /\ state[w] = "BlockedOnRecv" /\ point[w] = "recv" /\ w # me
      BY <1>2, <1>4, <1>5, FirstReceiverFacts
    <2>3. /\ u[w] \notin Blocked
          /\ \A v \in Thread \ {w} : u[v] = state[v] \/ (state[v] \notin Blocked /\ u[v] \notin Blocked)
      BY <1>2, <2>2 DEF TypeOK, Blocked
    <2>4. /\ st \in [Thread -> ThreadState] /\ st[w] = "Runnable"
          /\ \A t \in Thread \ {w} : st[t] = state[t]
          /\ \A v \in Thread : u[v] = "Runnable" <=> (state[v] = "Runnable" \/ v = w)
      BY <1>2, <2>2 DEF TypeOK, ThreadState
    <2>5. WaitSound(queues', state')
      <3> HIDE DEF u
      <3>1. WaitSound([queues EXCEPT ![q] = ReceiverGone(q)], u)
        BY <1>4, <1>5, <2>3, ReceiverGoneWaits DEF Parts
      <3> QED BY <2>1, <3>1
    <2>6. Suspend(me, "fault", st, "Stopped")
      BY <1>3, <2>1 DEF Suspend
    <2> HIDE DEF w, u, st
    <2>7. RunQueueSound'
      <3>1. /\ rq \in Seq(Thread) /\ NoRepeats(rq)
            /\ ToSet(rq) = {v \in Thread : state[v] = "Runnable" \/ v = w}
        BY <2>2, RunQueuePlus DEF Parts
      <3> HIDE DEF rq
      <3>2. NoRepeats(Without(rq, me)) /\ ToSet(Without(rq, me)) = ToSet(rq) \ {me}
        BY <3>1, WithoutFacts
      <3>3. ToSet(Without(rq, me)) = {v \in Thread : state[v] = "Runnable" \/ v = w}
        BY <1>2, <2>2, <3>1, <3>2
      <3> QED BY <2>1, <2>4, <3>2, <3>3 DEF RunQueueSound
    <2>8. /\ pending_resume'[me] = NoResume /\ pending_resume'[w] = Delivered(e)
          /\ \A t \in Thread \ {me, w} : pending_resume'[t] = pending_resume[t]
      BY <2>1, <2>2 DEF TypeOK
    <2>9. \A t \in Thread : Sound(t)'
      <3>1. retired'[me] = FALSE /\ retired'[w] = FALSE
        BY <1>2, <1>3, <2>2 DEF TypeOK, Parts, Sound, ThreadSound
      <3>2. /\ ThreadSound("Stopped", "fault", pending_resume'[me], retired'[me], FALSE)
            /\ ThreadSound("Runnable", "recv", pending_resume'[w], retired'[w], FALSE)
        BY <2>8, <3>1, Profiles
      <3>3. ASSUME NEW t \in Thread \ {me}
            PROVE  \/ st[t] = state[t] /\ pending_resume'[t] = pending_resume[t] /\ retired'[t] = retired[t]
                   \/ ThreadSound(st[t], point[t], pending_resume'[t], retired'[t], FALSE)
        <4>1. CASE t = w
          <5>1. st[t] = "Runnable" /\ point[t] = "recv"
            BY <2>2, <2>4, <4>1
          <5> QED BY <3>2, <4>1, <5>1
        <4>2. CASE t # w
          BY <1>3, <2>4, <2>8, <4>2
        <4> QED BY <4>1, <4>2
      <3> QED BY <1>2, <2>4, <2>6, <3>2, <3>3, SuspendSound
    <2> QED BY <1>2, <1>3, <2>5, <2>7, <2>9 DEF Parts, HostWorkSound
  <1>6. CASE q = NoQueue \/ ~HasReceiver(q)
    <2> DEFINE u == [state EXCEPT ![me] = "Stopped"]
    <2>1. /\ state' = u
          /\ run_queue' = Without(run_queue, me)
          /\ pending_resume' = [pending_resume EXCEPT ![me] = NoResume]
          /\ \/ q # NoQueue /\ queues' = [queues EXCEPT ![q] = Posted(q, e)]
             \/ queues' = queues
      BY <1>6 DEF Fault
    <2>2. Suspend(me, "fault", state, "Stopped")
      BY <1>3, <2>1 DEF Suspend
    <2>3. \A v \in Thread : u[v] = state[v] \/ (state[v] \notin Blocked /\ u[v] \notin Blocked)
      BY <1>2 DEF TypeOK, Blocked
    <2> HIDE DEF u
    <2>4. WaitSound(queues', u)
      <3>1. CASE queues' = queues
        BY <2>3, <3>1, QuietWaits DEF Parts
      <3>2. CASE q # NoQueue /\ queues' = [queues EXCEPT ![q] = Posted(q, e)]
        <4>1. Posted(q, e).receivers = queues[q].receivers /\ Posted(q, e).senders = queues[q].senders
          BY <1>4, <3>2, PostedFacts
        <4> HIDE DEF q
        <4>2. WaitSound(queues, state) /\ q \in Queue
          BY <1>4, <3>2 DEF Parts
        <4>3. WaitSound([queues EXCEPT ![q] = Posted(q, e)], u)
          BY <2>3, <4>1, <4>2, SameWaits
        <4> QED BY <3>2, <4>3
      <3> QED BY <2>1, <3>1, <3>2
    <2>5. /\ pending_resume'[me] = NoResume
          /\ \A t \in Thread \ {me} : pending_resume'[t] = pending_resume[t] /\ retired'[t] = retired[t]
      BY <1>3, <2>1 DEF TypeOK
    <2>6. ThreadSound("Stopped", "fault", pending_resume'[me], retired'[me], FALSE)
      <3>1. retired'[me] = FALSE
        BY <1>2, <1>3 DEF TypeOK
      <3> QED BY <2>5, <3>1, Profiles
    <2>7. WaitSound(queues', [state EXCEPT ![me] = "Stopped"])
      BY <2>4 DEF u
    <2> QED BY <1>1, <1>3, <2>1, <2>2, <2>5, <2>6, <2>7, LeaveParts
  <1> QED BY <1>5, <1>6

\* Every call that gives the run token up.
LEMMA GuestSuspendParts ==
  ASSUME TypeOK, Parts, Disciplined, NEW me \in Thread, GuestSuspend(me)
  PROVE  Parts'
  BY YieldThreadParts, StartThreadParts, PauseParts, RecvMesgParts, SendMesgParts, FaultParts
     DEF GuestSuspend

-----------------------------------------------------------------------------
(* The host's steps.                                                       *)

\* A post from outside the guest: a timer, an event or a device.
LEMMA DeliverParts ==
  ASSUME TypeOK, Parts, NEW q \in Queue, NEW m \in Payload, Deliver(q, m),
         UNCHANGED <<priority, retired, point, running, last_resumed, hostVars>>
  PROVE  Parts'
  <1>1. /\ retired' = retired /\ point' = point /\ running' = running
        /\ host_work' = host_work /\ panic' = panic
    BY DEF hostVars
  <1>2. CASE HasReceiver(q)
    <2> DEFINE w == FirstReceiver(q)
               u == [state EXCEPT ![w] = "Runnable"]
    <2>1. /\ queues' = [queues EXCEPT ![q] = ReceiverGone(q)]
          /\ state' = u
          /\ run_queue' = Enqueue(run_queue, w)
          /\ pending_resume' = [pending_resume EXCEPT ![w] = Delivered(m)]
      BY <1>2 DEF Deliver
    <2>2. w \in Thread /\ state[w] = "BlockedOnRecv" /\ point[w] = "recv"
      BY <1>2, FirstReceiverFacts
    <2>3. /\ u[w] = "Runnable" /\ \A v \in Thread \ {w} : u[v] = state[v]
          /\ u[w] \notin Blocked
      BY <2>2 DEF TypeOK, Blocked
    <2>4. retired[w] = FALSE /\ running # w
      BY <2>2 DEF TypeOK, Parts, Sound, ThreadSound
    <2>5. /\ pending_resume'[w] = Delivered(m)
          /\ \A t \in Thread \ {w} : pending_resume'[t] = pending_resume[t]
      BY <2>1, <2>2 DEF TypeOK
    <2>6. WaitSound(queues', state')
      <3> HIDE DEF u
      <3>1. WaitSound([queues EXCEPT ![q] = ReceiverGone(q)], u)
        BY <1>2, <2>3, ReceiverGoneWaits DEF Parts
      <3> QED BY <2>1, <3>1
    <2> HIDE DEF w, u
    <2>7. RunQueueSound'
      <3>1. /\ NoRepeats(run_queue')
            /\ ToSet(run_queue') = {v \in Thread : state[v] = "Runnable" \/ v = w}
        BY <2>1, <2>2, RunQueuePlus DEF Parts
      <3>2. \A v \in Thread : state'[v] = "Runnable" <=> (state[v] = "Runnable" \/ v = w)
        BY <2>1, <2>3
      <3> QED BY <3>1, <3>2 DEF RunQueueSound
    <2>8. ASSUME NEW t \in Thread PROVE Sound(t)'
      <3>1. CASE t = w
        <4>1. ThreadSound("Runnable", "recv", pending_resume'[w], FALSE, FALSE)
          BY <2>5, Profiles
        <4>2. /\ state'[w] = "Runnable" /\ point'[w] = "recv" /\ retired'[w] = FALSE
              /\ running' # w
          BY <1>1, <2>1, <2>2, <2>3, <2>4
        <4> QED BY <3>1, <4>1, <4>2 DEF Sound, ThreadSound
      <3>2. CASE t # w
        <4>1. /\ state'[t] = state[t] /\ point'[t] = point[t] /\ retired'[t] = retired[t]
              /\ pending_resume'[t] = pending_resume[t] /\ running' = running
          BY <1>1, <2>1, <2>3, <2>5, <3>2
        <4>2. Sound(t)
          BY DEF Parts
        <4> QED BY <4>1, <4>2 DEF Sound, ThreadSound
      <3> QED BY <3>1, <3>2
    <2>9. HostWorkSound'
      <3>1. host_work = NoThread \/ host_work \in Thread
        BY DEF TypeOK
      <3>2. HostWorkSound
        BY DEF Parts
      <3> QED BY <1>1, <2>1, <2>3, <3>1, <3>2 DEF HostWorkSound
    <2> QED BY <1>1, <2>6, <2>7, <2>8, <2>9 DEF Parts
  <1>3. CASE ~HasReceiver(q)
    <2>1. /\ queues' = [queues EXCEPT ![q] = Posted(q, m)]
          /\ state' = state /\ run_queue' = run_queue /\ pending_resume' = pending_resume
      BY <1>3 DEF Deliver
    <2>2. Posted(q, m).receivers = queues[q].receivers /\ Posted(q, m).senders = queues[q].senders
      BY PostedFacts
    <2>3. WaitSound([queues EXCEPT ![q] = Posted(q, m)], state)
      BY <2>2, SameWaits DEF Parts
    <2> QED BY <1>1, <2>1, <2>3 DEF Parts, RunQueueSound, HostWorkSound, Sound
  <1> QED BY <1>2, <1>3

\* Every step of a disciplined workload keeps every part.
LEMMA StepParts ==
  ASSUME TypeOK, Parts, Disciplined, [Next]_vars
  PROVE  Parts'
  <1>1. CASE Dispatch
    BY <1>1, DispatchParts
  <1>2. ASSUME NEW me \in Thread, GuestCall(me) \/ GuestSuspend(me) PROVE Parts'
    BY <1>2, GuestCallParts, GuestSuspendParts
  <1>3. ASSUME NEW q \in Queue, NEW m \in Fresh, Post(q, m) PROVE Parts'
    BY <1>3, ResumeTypes, DeliverParts DEF Post
  <1>4. ASSUME NEW e \in Event, InjectEvent(e) PROVE Parts'
    <2>1. e \in Payload /\ event_table[e] \in Queue
      BY <1>4, ResumeTypes DEF InjectEvent, TypeOK
    <2> QED BY <1>4, <2>1, DeliverParts DEF InjectEvent
  <1>5. CASE CommitTimeTarget
    BY <1>5 DEF CommitTimeTarget, threadVars, runVars, Parts, RunQueueSound, HostWorkSound, Sound
  <1>6. CASE CommitHostWork
    BY <1>6 DEF CommitHostWork, threadVars, runVars, Parts, RunQueueSound, HostWorkSound, Sound
  <1>7. CASE UNCHANGED vars
    BY <1>7 DEF vars, threadVars, runVars, hostVars, Parts, RunQueueSound, HostWorkSound, Sound
  <1> QED BY <1>1, <1>2, <1>3, <1>4, <1>5, <1>6, <1>7 DEF Next

\* The booted program has every part.
LEMMA InitParts == Init => Parts
  <1> SUFFICES ASSUME Init PROVE Parts
    OBVIOUS
  <1>1. Boot \in Seq(Thread) /\ NoRepeats(Boot) /\ \A t \in Thread : NoThread # t
    BY ExecutorAssumption
  <1>2. ToSet(Boot) \subseteq Thread
    BY <1>1, ToSetFacts
  <1>3. RunQueueSound
    BY <1>1, <1>2 DEF Init, RunQueueSound
  <1>4. ASSUME NEW t \in Thread PROVE Sound(t)
    <2>1. point[t] = "entry" /\ retired[t] = FALSE /\ running # t
      BY <1>1 DEF Init
    <2>2. CASE t \in ToSet(Boot)
      <3>1. state[t] = "Runnable" /\ pending_resume[t] = Start
        BY <2>2 DEF Init
      <3> QED BY <2>1, <3>1, Profiles DEF Sound, ThreadSound
    <2>3. CASE t \notin ToSet(Boot)
      <3>1. state[t] = "Absent" /\ pending_resume[t] = NoResume
        BY <2>3 DEF Init
      <3> QED BY <2>1, <3>1, Profiles DEF Sound, ThreadSound
    <2> QED BY <2>2, <2>3
  <1>5. WaitSound(queues, state)
    <2>1. ASSUME NEW q \in Queue PROVE queues[q].receivers = <<>> /\ queues[q].senders = <<>>
      BY DEF Init, NewQueue
    <2>2. Ids(<<>>) = {} /\ NoRepeats(WaiterIds(<<>>))
      BY DEF Ids, ToSet, WaiterIds, NoRepeats
    <2>3. \A t \in Thread : state[t] \notin Blocked
      BY DEF Init, Blocked
    <2> QED BY <2>1, <2>2, <2>3 DEF WaitSound, Distinct, AllIds
  <1>6. HostWorkSound
    BY DEF Init, HostWorkSound
  <1> QED BY <1>3, <1>4, <1>5, <1>6 DEF Parts

\* Control holds in every state of a disciplined workload.
LEMMA SafeControl ==
  ASSUME Disciplined
  PROVE  Spec => []Control
  <1> DEFINE I == TypeOK /\ NoLostWakeup /\ Control
  <1>1. Init => I
    BY InitTypes, TypeParts, InitParts, ControlParts
  <1>2. (TypeOK => (Control <=> Parts))'
    BY ControlParts, PTL
  <1>3. I /\ [Next]_vars => I'
    BY <1>2, StepTypesOK, StepParts, ControlParts
  <1> QED BY <1>1, <1>3, PTL DEF Spec

\* Under any disciplined workload, restarts in the middle of a call included, the
\* executor's tables agree after every step and every call: validate_control_evidence_invariants
\* never reports an error.
THEOREM TablesAgree ==
  ASSUME Disciplined
  PROVE  Spec => []ControlInvariant
  <1>1. Control => ControlInvariant
    BY DEF Control
  <1> QED BY <1>1, SafeControl, PTL

-----------------------------------------------------------------------------
(* Which assertions can fail.                                              *)

\* What AbortsOnlyOnStart says of a step.
AbortExplained ==
  panic' # panic =>
    \/ panic' = "NotStopped" /\ \E me, t \in Thread : StartUnstopped(me, t)
    \/ panic' = "UnexpectedResume" /\ \E t \in Thread : running' = t /\ RestartedMidCall(t)
OutOfStep(t) ==
  RestartedMidCall(t)' /\ ~RestartedMidCall(t) => \E me \in Thread : StartThread(me, t)

\* Only a dispatch and a start have assertions that can fail, and a dispatch
\* only for a thread that was restarted in the middle of a call.
LEMMA AbortStep ==
  ASSUME TypeOK, Parts, Next
  PROVE  AbortExplained
  <1>1. CASE Dispatch
    <2> DEFINE t == Head(run_queue)
    <2>1. t \in Thread /\ t \in ToSet(run_queue)
      BY <1>1, TailFacts DEF Dispatch, TypeOK
    <2>2. /\ running' = t /\ panic = "None"
          /\ panic' = IF last_resumed # t /\ retired[t] THEN "RetiredMask"
                      ELSE IF Answer(t).kind \notin Accepts(point[t]) THEN "UnexpectedResume"
                      ELSE "None"
      BY <1>1 DEF Dispatch
    <2> HIDE DEF t
    <2>3. state[t] = "Runnable" /\ Sound(t)
      BY <2>1 DEF Parts, RunQueueSound
    <2>4. /\ ~retired[t]
          /\ Answer(t).kind \in Accepts(point[t]) \/ RestartedMidCall(t)
      BY <2>3 DEF Sound, ThreadSound, Answer, RestartedMidCall, MidCall
    <2> QED BY <2>1, <2>2, <2>4 DEF AbortExplained
  <1>2. ASSUME NEW me \in Thread, GuestCall(me) PROVE panic' = panic
    BY <1>2 DEF GuestCall, CreateThread, StopThread, DestroyThread, SetThreadPri, CreateMesgQueue,
                SetEventMesg, hostVars
  <1>3. ASSUME NEW me \in Thread, GuestSuspend(me) PROVE AbortExplained
    <2>1. ASSUME NEW t \in Thread, StartThread(me, t) PROVE AbortExplained
      BY <2>1 DEF StartThread, StartStopped, StartUnstopped, AbortExplained, hostVars
    <2>2. CASE YieldThread(me) \/ PauseSelf(me) \/ Checkpoint(me) \/ AcceptInterrupt(me) \/ Return(me)
      BY <2>2 DEF YieldThread, PauseSelf, Checkpoint, AcceptInterrupt, Return, AbortExplained, hostVars
    <2>3. ASSUME NEW q \in Queue, NEW b \in BOOLEAN, RecvMesg(me, q, b) PROVE panic' = panic
      BY <2>3 DEF RecvMesg, hostVars
    <2>4. ASSUME NEW q \in Queue, NEW m \in Fresh, NEW place \in Placement, NEW b \in BOOLEAN,
                 SendMesg(me, q, m, place, b)
          PROVE  panic' = panic
      BY <2>4 DEF SendMesg, hostVars
    <2>5. ASSUME NEW e \in Event, Fault(me, e) PROVE panic' = panic
      BY <2>5 DEF Fault, hostVars
    <2> QED BY <1>3, <2>1, <2>2, <2>3, <2>4, <2>5 DEF GuestSuspend, AbortExplained
  <1>4. CASE \/ \E q \in Queue, m \in Fresh : Post(q, m)
             \/ \E e \in Event : InjectEvent(e)
             \/ CommitTimeTarget \/ CommitHostWork
    BY <1>4 DEF Post, InjectEvent, CommitTimeTarget, CommitHostWork, hostVars, AbortExplained
  <1> QED BY <1>1, <1>2, <1>3, <1>4 DEF Next, AbortExplained

\* A thread whose columns a step leaves alone is not put out of step by it,
\* nor is one that is left outside the schedule, with an answer, or outside a
\* call.
LEMMA InStep ==
  ASSUME NEW t \in Thread,
         \/ state'[t] = state[t] /\ point'[t] = point[t] /\ pending_resume'[t] = pending_resume[t]
         \/ state'[t] # "Runnable"
         \/ pending_resume'[t] # NoResume
         \/ point'[t] \in {"any", "start"}
  PROVE  OutOfStep(t)
  BY DEF OutOfStep, RestartedMidCall, MidCall

\* No step but a start puts a thread out of step.
LEMMA StartStep ==
  ASSUME TypeOK, Parts, Next, NEW t \in Thread
  PROVE  OutOfStep(t)
  <1> DEFINE Same == /\ state'[t] = state[t] /\ point'[t] = point[t]
                     /\ pending_resume'[t] = pending_resume[t]
             Fine == \/ Same
                     \/ state'[t] # "Runnable"
                     \/ pending_resume'[t] # NoResume
                     \/ point'[t] \in {"any", "start"}
  <1>0. /\ state \in [Thread -> ThreadState] /\ pending_resume \in [Thread -> Resumes]
        /\ point \in [Thread -> Points]
        /\ \A m : Delivered(m) # NoResume
        /\ SendUnblocked # NoResume /\ WouldBlock # NoResume
    BY DEF TypeOK, Delivered, SendUnblocked, WouldBlock, NoResume, Resume
  <1>1. ASSUME Dispatch PROVE Fine
    BY <1>0, <1>1 DEF Dispatch
  <1>2. ASSUME NEW me \in Thread, GuestCall(me) PROVE Fine
    <2>1. ASSUME NEW v \in Thread, NEW p \in Priority, CreateThread(me, v, p) \/ SetThreadPri(me, v, p)
          PROVE  Fine
      BY <1>0, <2>1 DEF CreateThread, SetThreadPri, runVars
    <2>2. ASSUME NEW v \in Thread, StopThread(me, v) \/ DestroyThread(me, v) PROVE Fine
      BY <1>0, <2>2 DEF StopThread, DestroyThread
    <2>3. ASSUME NEW q \in Queue, NEW c \in 0..MaxCapacity, CreateMesgQueue(me, q, c) PROVE Fine
      BY <2>3 DEF CreateMesgQueue, threadVars, runVars
    <2>4. ASSUME NEW e \in Event, NEW q \in Queue, SetEventMesg(me, e, q) PROVE Fine
      BY <2>4 DEF SetEventMesg, threadVars, runVars
    <2> QED BY <1>2, <2>1, <2>2, <2>3, <2>4 DEF GuestCall
  <1>3. ASSUME NEW me \in Thread, NEW v \in Thread, StartThread(me, v) PROVE OutOfStep(t)
    <2>1. CASE v = t
      BY <1>3, <2>1 DEF OutOfStep
    <2>2. CASE v # t
      <3>1. Fine
        BY <1>0, <1>3, <2>2 DEF StartThread, StartStopped, StartUnstopped, Suspend, threadVars, runVars
      <3> QED BY <3>1, InStep
    <2> QED BY <2>1, <2>2
  <1>4. ASSUME NEW me \in Thread,
               YieldThread(me) \/ PauseSelf(me) \/ Checkpoint(me) \/ AcceptInterrupt(me) \/ Return(me)
        PROVE  Fine
    BY <1>0, <1>4 DEF YieldThread, PauseSelf, Checkpoint, AcceptInterrupt, Return, Suspend
  <1>5. ASSUME NEW me \in Thread, NEW q \in Queue, NEW b \in BOOLEAN, RecvMesg(me, q, b) PROVE Fine
    BY <1>0, <1>5 DEF RecvMesg, Suspend
  <1>6. ASSUME NEW me \in Thread, NEW q \in Queue, NEW m \in Fresh, NEW place \in Placement,
               NEW b \in BOOLEAN, SendMesg(me, q, m, place, b)
        PROVE  Fine
    BY <1>0, <1>6 DEF SendMesg, Suspend
  <1>7. ASSUME NEW me \in Thread, NEW e \in Event, Fault(me, e) PROVE Fine
    BY <1>0, <1>7 DEF Fault
  <1>8. ASSUME NEW q \in Queue, NEW m, Deliver(q, m), point' = point PROVE Fine
    BY <1>0, <1>8 DEF Deliver
  <1>9. ASSUME NEW q \in Queue, NEW m \in Fresh, Post(q, m) PROVE Fine
    BY <1>8, <1>9 DEF Post
  <1>10. ASSUME NEW e \in Event, InjectEvent(e) PROVE Fine
    <2>1. event_table[e] \in Queue
      BY <1>10 DEF InjectEvent, TypeOK
    <2> QED BY <1>8, <1>10, <2>1 DEF InjectEvent
  <1>11. ASSUME CommitTimeTarget \/ CommitHostWork PROVE Fine
    BY <1>11 DEF CommitTimeTarget, CommitHostWork, threadVars, runVars
  <1> HIDE DEF Same
  <1>12. ASSUME NEW me \in Thread, GuestSuspend(me) PROVE OutOfStep(t)
    BY <1>3, <1>4, <1>5, <1>6, <1>7, <1>12, InStep DEF GuestSuspend, Same
  <1> QED BY <1>1, <1>2, <1>9, <1>10, <1>11, <1>12, InStep DEF Next, Same

\* Under such a workload the scheduler's assertions fail for two reasons only,
\* a start of a thread that is not stopped and the dispatch of one that was
\* restarted in the middle of a call, and only osStartThread brings the latter
\* about: every other thread is resumed with a value its call understands.
THEOREM AbortsExplained ==
  ASSUME Disciplined
  PROVE  Spec => AbortsOnlyOnStart
  <1> DEFINE A == AbortExplained /\ \A t \in Thread : OutOfStep(t)
             I == TypeOK /\ NoLostWakeup /\ Control
  <1>1. Init => I
    BY InitTypes, TypeParts, InitParts, ControlParts
  <1>2. (TypeOK => (Control <=> Parts))'
    BY ControlParts, PTL
  <1>3. I /\ [Next]_vars => I'
    BY <1>2, StepTypesOK, StepParts, ControlParts
  <1>4. I /\ [Next]_vars => [A]_vars
    BY AbortStep, StartStep, ControlParts
  <1> QED BY <1>1, <1>3, <1>4, PTL DEF Spec, AbortsOnlyOnStart, AbortExplained, OutOfStep

-----------------------------------------------------------------------------
(* A stopped thread stays stopped.                                         *)

\* Only a start by another thread, or a destroy, changes a thread at rest.
LEMMA AtRest ==
  ASSUME TypeOK, Parts, Disciplined, Next, NEW t \in Thread, state[t] \in {"Stopped", "Dead"}
  PROVE  \/ state'[t] = state[t]
         \/ /\ state[t] = "Stopped"
            /\ \E me \in Thread \ {t} : StartThread(me, t) \/ DestroyThread(me, t)
  <1>1. CASE Dispatch
    <2>1. run_queue # <<>> /\ Head(run_queue) \in ToSet(run_queue)
      BY <1>1, TailFacts DEF Dispatch, TypeOK
    <2>2. Head(run_queue) # t
      BY <2>1 DEF Parts, RunQueueSound
    <2> QED BY <1>1, <2>2 DEF Dispatch, TypeOK
  <1>2. ASSUME NEW me \in Thread, NEW k, CallsNow(me, k) PROVE me # t /\ state[me] = "Running"
    <2>1. state[me] = "Running"
      BY <1>2, Calling
    <2> QED BY <2>1
  <1>3. ASSUME NEW me \in Thread, GuestCall(me)
        PROVE  \/ state'[t] = state[t]
               \/ /\ state[t] = "Stopped"
                  /\ \E u \in Thread \ {t} : StartThread(u, t) \/ DestroyThread(u, t)
    <2>1. ASSUME NEW v \in Thread, NEW p \in Priority, CreateThread(me, v, p) PROVE state'[t] = state[t]
      BY <2>1 DEF CreateThread, Created, TypeOK
    <2>2. ASSUME NEW v \in Thread, StopThread(me, v) PROVE state'[t] = state[t]
      BY <2>2 DEF StopThread, CallsNow, Disciplined, TypeOK
    <2>3. ASSUME NEW v \in Thread, DestroyThread(me, v)
          PROVE  state'[t] = state[t] \/ (state[t] = "Stopped" /\ v = t /\ me # t)
      <3>1. me # t
        BY <1>2, <2>3 DEF DestroyThread
      <3> QED BY <2>3, <3>1 DEF DestroyThread, TypeOK
    <2>4. ASSUME NEW v \in Thread, NEW p \in Priority, SetThreadPri(me, v, p) PROVE state'[t] = state[t]
      BY <2>4 DEF SetThreadPri
    <2>5. ASSUME NEW q \in Queue, NEW c \in 0..MaxCapacity, CreateMesgQueue(me, q, c)
          PROVE  state'[t] = state[t]
      BY <2>5 DEF CreateMesgQueue, threadVars
    <2>6. ASSUME NEW e \in Event, NEW q \in Queue, SetEventMesg(me, e, q) PROVE state'[t] = state[t]
      BY <2>6 DEF SetEventMesg, threadVars
    <2> QED BY <1>3, <2>1, <2>2, <2>3, <2>4, <2>5, <2>6 DEF GuestCall
  <1>4. ASSUME NEW me \in Thread, GuestSuspend(me)
        PROVE  \/ state'[t] = state[t]
               \/ /\ state[t] = "Stopped"
                  /\ \E u \in Thread \ {t} : StartThread(u, t) \/ DestroyThread(u, t)
    <2>0. PICK k : CallsNow(me, k)
      BY <1>4 DEF GuestSuspend, YieldThread, StartThread, StartStopped, StartUnstopped, PauseSelf, Checkpoint,
                  AcceptInterrupt, Return, RecvMesg, SendMesg, Fault
    <2>1. me # t
      BY <1>2, <2>0
    <2>2. CASE YieldThread(me) \/ PauseSelf(me) \/ Checkpoint(me) \/ AcceptInterrupt(me) \/ Return(me)
      BY <2>1, <2>2 DEF YieldThread, PauseSelf, Checkpoint, AcceptInterrupt, Return, Suspend, TypeOK
    <2>3. ASSUME NEW v \in Thread, StartThread(me, v)
          PROVE  state'[t] = state[t] \/ (state[t] = "Stopped" /\ v = t)
      BY <2>1, <2>3 DEF StartThread, StartStopped, StartUnstopped, Suspend, threadVars, TypeOK
    <2>4. ASSUME NEW q \in Queue, NEW b \in BOOLEAN, RecvMesg(me, q, b) PROVE state'[t] = state[t]
      <3>1. CASE ~IsEmpty(q) /\ HasSender(q)
        <4>1. FirstSender(q).id # t
          BY <3>1, FirstSenderFacts
        <4> QED BY <2>1, <2>4, <3>1, <4>1 DEF RecvMesg, Suspend, TypeOK
      <3>2. CASE IsEmpty(q) \/ ~HasSender(q)
        BY <2>1, <2>4, <3>2 DEF RecvMesg, Suspend, TypeOK
      <3> QED BY <3>1, <3>2
    <2>5. ASSUME NEW q \in Queue, NEW m \in Fresh, NEW place \in Placement, NEW b \in BOOLEAN,
                 SendMesg(me, q, m, place, b)
          PROVE  state'[t] = state[t]
      <3>1. CASE HasReceiver(q)
        <4>1. FirstReceiver(q) # t
          BY <3>1, FirstReceiverFacts
        <4> QED BY <2>1, <2>5, <3>1, <4>1 DEF SendMesg, Suspend, TypeOK
      <3>2. CASE ~HasReceiver(q)
        BY <2>1, <2>5, <3>2 DEF SendMesg, Suspend, TypeOK
      <3> QED BY <3>1, <3>2
    <2>6. ASSUME NEW e \in Event, Fault(me, e) PROVE state'[t] = state[t]
      <3> DEFINE q == event_table[e]
      <3>1. CASE q # NoQueue /\ HasReceiver(q)
        <4>1. q \in Queue
          BY <3>1 DEF TypeOK
        <4> HIDE DEF q
        <4>2. FirstReceiver(q) # t
          BY <3>1, <4>1, FirstReceiverFacts
        <4> QED BY <2>1, <2>6, <3>1, <4>2 DEF Fault, TypeOK, q
      <3>2. CASE q = NoQueue \/ ~HasReceiver(q)
        BY <2>1, <2>6, <3>2 DEF Fault, TypeOK
      <3> QED BY <3>1, <3>2
    <2> QED BY <1>4, <2>1, <2>2, <2>3, <2>4, <2>5, <2>6 DEF GuestSuspend
  <1>5. ASSUME NEW q \in Queue, NEW m \in Payload, Deliver(q, m) PROVE state'[t] = state[t]
    <2>1. CASE HasReceiver(q)
      <3>1. FirstReceiver(q) # t
        BY <2>1, FirstReceiverFacts
      <3> QED BY <1>5, <2>1, <3>1 DEF Deliver, TypeOK
    <2>2. CASE ~HasReceiver(q)
      BY <1>5, <2>2 DEF Deliver
    <2> QED BY <2>1, <2>2
  <1>6. ASSUME NEW q \in Queue, NEW m \in Fresh, Post(q, m) PROVE state'[t] = state[t]
    BY <1>5, <1>6, ResumeTypes DEF Post
  <1>7. ASSUME NEW e \in Event, InjectEvent(e) PROVE state'[t] = state[t]
    <2>1. e \in Payload /\ event_table[e] \in Queue
      BY <1>7, ResumeTypes DEF InjectEvent, TypeOK
    <2> QED BY <1>5, <1>7, <2>1 DEF InjectEvent
  <1>8. CASE CommitTimeTarget \/ CommitHostWork
    BY <1>8 DEF CommitTimeTarget, CommitHostWork, threadVars
  <1> QED BY <1>1, <1>3, <1>4, <1>6, <1>7, <1>8 DEF Next

\* Under such a workload no late answer, post, priority change or start of a
\* third thread makes a stopped thread run, and a dead one is dead for good.
THEOREM StoppedForGood ==
  ASSUME Disciplined
  PROVE  Spec => StoppedStaysStopped
  <1> DEFINE A == \A t \in Thread :
                    /\ state[t] = "Stopped" /\ state'[t] # "Stopped" =>
                         \E me \in Thread \ {t} : StartThread(me, t) \/ DestroyThread(me, t)
                    /\ state[t] = "Dead" => state'[t] = "Dead"
             I == TypeOK /\ NoLostWakeup /\ Control
  <1>1. Init => I
    BY InitTypes, TypeParts, InitParts, ControlParts
  <1>2. (TypeOK => (Control <=> Parts))'
    BY ControlParts, PTL
  <1>3. I /\ [Next]_vars => I'
    BY <1>2, StepTypesOK, StepParts, ControlParts
  <1>4. I /\ [Next]_vars => [A]_vars
    BY AtRest, ControlParts
  <1> QED BY <1>1, <1>3, <1>4, PTL DEF Spec, StoppedStaysStopped

-----------------------------------------------------------------------------
(* The run queue is served in order.                                       *)

\* A queue without repeats is a linear order, and its head comes first.
LEMMA BeforeFacts ==
  ASSUME NEW S, NEW s \in Seq(S), NoRepeats(s)
  PROVE  /\ \A t, u : Before(s, t, u) => t \in ToSet(s) /\ u \in ToSet(s) /\ t # u /\ ~Before(s, u, t)
         /\ \A t, u \in ToSet(s) : t # u => Before(s, t, u) \/ Before(s, u, t)
         /\ s # <<>> => \A t \in ToSet(s) : t # Head(s) => Before(s, Head(s), t)
  <1>1. /\ DOMAIN s = 1..Len(s) /\ Len(s) \in Nat
        /\ \A y : y \in ToSet(s) <=> \E j \in 1..Len(s) : s[j] = y
    BY ToSetFacts
  <1>2. \A i, j \in 1..Len(s) : s[i] = s[j] => i = j
    BY <1>1 DEF NoRepeats
  <1>3. \A t, u : Before(s, t, u) <=> \E i, j \in 1..Len(s) : i < j /\ s[i] = t /\ s[j] = u
    BY <1>1 DEF Before
  <1>4. ASSUME NEW t, NEW u, Before(s, t, u)
        PROVE  t \in ToSet(s) /\ u \in ToSet(s) /\ t # u /\ ~Before(s, u, t)
    <2>1. PICK i, j \in 1..Len(s) : i < j /\ s[i] = t /\ s[j] = u
      BY <1>3, <1>4
    <2>2. t \in ToSet(s) /\ u \in ToSet(s) /\ t # u
      BY <1>1, <1>2, <2>1
    <2>3. ASSUME Before(s, u, t) PROVE FALSE
      <3>1. PICK k, l \in 1..Len(s) : k < l /\ s[k] = u /\ s[l] = t
        BY <1>3, <2>3
      <3>2. k = j /\ l = i
        BY <1>2, <2>1, <3>1
      <3> QED BY <2>1, <3>1, <3>2
    <2> QED BY <2>2, <2>3
  <1>5. ASSUME NEW t \in ToSet(s), NEW u \in ToSet(s), t # u PROVE Before(s, t, u) \/ Before(s, u, t)
    <2>1. PICK i \in 1..Len(s) : s[i] = t
      BY <1>1
    <2>2. PICK j \in 1..Len(s) : s[j] = u
      BY <1>1
    <2>3. i < j \/ j < i
      BY <1>5, <2>1, <2>2
    <2> QED BY <1>3, <2>1, <2>2, <2>3
  <1>6. ASSUME s # <<>>, NEW t \in ToSet(s), t # Head(s) PROVE Before(s, Head(s), t)
    <2>1. PICK j \in 1..Len(s) : s[j] = t
      BY <1>1
    <2>2. 1 \in 1..Len(s) /\ Head(s) = s[1]
      BY <1>1, <2>1, HeadTailProperties, EmptySeq
    <2>3. 1 < j
      BY <1>6, <2>1, <2>2
    <2> QED BY <1>3, <2>1, <2>2, <2>3
  <1> QED BY <1>4, <1>5, <1>6

\* Inserting keeps the order of the others; the newcomer's place splits them.
LEMMA InsertedBefore ==
  ASSUME NEW S, NEW s \in Seq(S), NEW i \in 1..(Len(s) + 1), NEW x \in S, x \notin ToSet(s)
  PROVE  /\ \A t, u : Before(InsertAt(s, i, x), t, u) /\ t # x /\ u # x => Before(s, t, u)
         /\ \A u : Before(InsertAt(s, i, x), x, u) => \E j \in 1..Len(s) : ~(j < i) /\ s[j] = u
         /\ \A t : Before(InsertAt(s, i, x), t, x) => \E j \in 1..Len(s) : j < i /\ s[j] = t
  <1>0. /\ InsertAt(s, i, x) \in Seq(S)
        /\ Len(InsertAt(s, i, x)) = Len(s) + 1
        /\ \A j \in 1..(Len(s) + 1) : InsertAt(s, i, x)[j] =
              IF j < i THEN s[j] ELSE IF j = i THEN x ELSE s[j - 1]
    <2>1. InsertAt(s, i, x) \in Seq(S)
      BY InsertAtFacts
    <2>2. Len(InsertAt(s, i, x)) = Len(s) + 1
      BY InsertAtFacts
    <2>3. \A j \in 1..(Len(s) + 1) : InsertAt(s, i, x)[j] =
            IF j < i THEN s[j] ELSE IF j = i THEN x ELSE s[j - 1]
      BY InsertAtFacts
    <2> QED BY <2>1, <2>2, <2>3
  <1> DEFINE r == InsertAt(s, i, x)
             n == Len(s)
  <1>1. /\ r \in Seq(S) /\ Len(r) = n + 1
        /\ \A j \in 1..(n + 1) : r[j] = IF j < i THEN s[j] ELSE IF j = i THEN x ELSE s[j - 1]
    BY <1>0
  <1>2. DOMAIN s = 1..n /\ n \in Nat /\ i \in 1..(n + 1) /\ \A j \in 1..n : s[j] # x
    BY ToSetFacts
  <1> HIDE DEF r, n
  <1>3. DOMAIN r = 1..(n + 1)
    BY <1>1, LenProperties
  <1>4. \A t, u : Before(s, t, u) <=> \E a, b \in 1..n : a < b /\ s[a] = t /\ s[b] = u
    BY <1>2 DEF Before
  <1>5. ASSUME NEW t, NEW u, Before(r, t, u)
        PROVE  /\ t # x /\ u # x => Before(s, t, u)
               /\ t = x => \E j \in 1..n : ~(j < i) /\ s[j] = u
               /\ u = x => \E j \in 1..n : j < i /\ s[j] = t
    <2>1. PICK a, b \in 1..(n + 1) : a < b /\ r[a] = t /\ r[b] = u
      BY <1>3, <1>5 DEF Before
    <2>2. /\ a = i => t = x
          /\ a < i => a \in 1..n /\ s[a] = t /\ t # x
          /\ a > i => a - 1 \in 1..n /\ s[a - 1] = t /\ t # x
      BY <1>1, <1>2, <2>1
    <2>3. /\ b = i => u = x
          /\ b < i => b \in 1..n /\ s[b] = u /\ u # x
          /\ b > i => b - 1 \in 1..n /\ s[b - 1] = u /\ u # x
      BY <1>1, <1>2, <2>1
    <2>4. ASSUME t # x, u # x PROVE Before(s, t, u)
      <3>1. CASE b < i
        BY <1>2, <1>4, <2>1, <2>2, <2>3, <3>1
      <3>2. CASE a < i /\ b > i
        <4>1. a \in 1..n /\ s[a] = t /\ b - 1 \in 1..n /\ s[b - 1] = u /\ a < b - 1
          BY <1>2, <2>1, <2>2, <2>3, <3>2
        <4> QED BY <1>4, <4>1
      <3>3. CASE a > i
        <4>1. a - 1 \in 1..n /\ s[a - 1] = t /\ b - 1 \in 1..n /\ s[b - 1] = u /\ a - 1 < b - 1
          BY <1>2, <2>1, <2>2, <2>3, <3>3
        <4> QED BY <1>4, <4>1
      <3> QED BY <1>2, <2>1, <2>2, <2>3, <2>4, <3>1, <3>2, <3>3
    <2>5. ASSUME t = x PROVE \E j \in 1..n : ~(j < i) /\ s[j] = u
      <3>1. a = i
        BY <1>2, <2>2, <2>5
      <3>2. b - 1 \in 1..n /\ s[b - 1] = u /\ ~(b - 1 < i)
        BY <1>2, <2>1, <2>3, <3>1
      <3> QED BY <3>2
    <2>6. ASSUME u = x PROVE \E j \in 1..n : j < i /\ s[j] = t
      <3>1. b = i
        BY <1>2, <2>3, <2>6
      <3>2. a \in 1..n /\ s[a] = t /\ a < i
        BY <1>2, <2>1, <2>2, <3>1
      <3> QED BY <3>2
    <2> QED BY <2>4, <2>5, <2>6
  <1> QED BY <1>5 DEF r, n

\* Removing keeps the order of the others.
LEMMA RemovedBefore ==
  ASSUME NEW S, NEW s \in Seq(S), NEW k \in 1..Len(s), NEW t, NEW u, Before(RemoveAt(s, k), t, u)
  PROVE  Before(s, t, u)
  <1> DEFINE r == RemoveAt(s, k)
             n == Len(s)
  <1>1. /\ r \in Seq(S) /\ Len(r) = n - 1
        /\ \A j \in 1..(n - 1) : r[j] = IF j < k THEN s[j] ELSE s[j + 1]
    BY RemoveAtFacts
  <1>2. DOMAIN s = 1..n /\ n \in Nat /\ k \in 1..n
    BY ToSetFacts
  <1>3. Before(r, t, u)
    OBVIOUS
  <1> HIDE DEF r, n
  <1>4. DOMAIN r = 1..(n - 1)
    BY <1>1, LenProperties
  <1>5. PICK a, b \in 1..(n - 1) : a < b /\ r[a] = t /\ r[b] = u
    BY <1>3, <1>4 DEF Before
  <1> DEFINE old(m) == IF m < k THEN m ELSE m + 1
  <1>6. old(a) \in 1..n /\ old(b) \in 1..n /\ old(a) < old(b)
    BY <1>2, <1>5
  <1>7. s[old(a)] = t /\ s[old(b)] = u
    BY <1>1, <1>5
  <1> HIDE DEF old
  <1> QED BY <1>2, <1>6, <1>7 DEF Before

\* A queue in the order of the priorities f.
Urgent(rq, f) == \A t, u : Before(rq, t, u) => f[t] >= f[u]

\* What RunsInOrder says of the queue before and after a step, f being the
\* priorities after it.
OrderKept(old, new, f) ==
  \A t, u \in ToSet(new) :
    Before(new, t, u) =>
      /\ f[t] >= f[u]
      /\ f[t] = f[u] => ~Before(old, u, t)
      /\ f[t] = f[u] /\ u \in ToSet(old) => t \in ToSet(old)

\* The first hit splits a list whose hits are all at its end.
LEMMA FirstInSplits ==
  ASSUME NEW S, NEW ks \in Seq(S), NEW Hit \in SUBSET (1..Len(ks)),
         \A i \in Hit, j \in 1..Len(ks) : i < j => j \in Hit
  PROVE  /\ FirstIn(ks, Hit) \in 1..(Len(ks) + 1)
         /\ \A j \in 1..Len(ks) : j < FirstIn(ks, Hit) <=> j \notin Hit
  <1> DEFINE k == FirstIn(ks, Hit)
  <1>1. /\ k \in 1..(Len(ks) + 1) /\ (k \in Hit \/ k = Len(ks) + 1)
        /\ \A j \in 1..Len(ks) : j < k => j \notin Hit
    BY FirstInFacts
  <1>2. Len(ks) \in Nat
    BY LenProperties
  <1> HIDE DEF k
  <1>3. ASSUME NEW j \in 1..Len(ks), ~(j < k) PROVE j \in Hit
    <2>1. k \in Hit
      BY <1>1, <1>2, <1>3
    <2>2. j = k \/ k < j
      BY <1>1, <1>2, <1>3
    <2> QED BY <2>1, <2>2
  <1> QED BY <1>1, <1>3 DEF k

\* By priority means behind the equals: an urgent queue stays urgent.
LEMMA PriorityInsertOrder ==
  ASSUME NEW S, NEW s \in Seq(S), NoRepeats(s), NEW x \in S, x \notin ToSet(s),
         NEW f \in [S -> Int], NEW ks \in Seq(Int), Len(ks) = Len(s),
         \A i \in 1..Len(s) : ks[i] = f[s[i]], NEW p \in Int, Urgent(s, f)
  PROVE  /\ \A t, u : Before(PriorityInsert(s, ks, x, p), t, u) /\ t # x /\ u # x => Before(s, t, u)
         /\ \A u : Before(PriorityInsert(s, ks, x, p), x, u) => u \in ToSet(s) /\ f[u] < p
         /\ \A t : Before(PriorityInsert(s, ks, x, p), t, x) => t \in ToSet(s) /\ f[t] >= p
  <1> DEFINE Hit == {i \in DOMAIN ks : ks[i] < p}
             k == FirstIn(ks, Hit)
  <1>1. /\ DOMAIN ks = 1..Len(s) /\ DOMAIN s = 1..Len(s) /\ Len(s) \in Nat
        /\ \A i \in 1..Len(s) : s[i] \in S /\ f[s[i]] \in Int /\ s[i] \in ToSet(s)
    BY ToSetFacts, LenProperties, ElementOfSeq
  <1>2. ASSUME NEW i \in Hit, NEW j \in 1..Len(ks), i < j PROVE j \in Hit
    <2>1. Before(s, s[i], s[j])
      BY <1>1, <1>2 DEF Before
    <2>2. f[s[i]] >= f[s[j]]
      BY <2>1 DEF Urgent
    <2> QED BY <1>1, <1>2, <2>2
  <1>3. Hit \in SUBSET (1..Len(ks)) /\ \A j \in 1..Len(s) : j \in Hit <=> f[s[j]] < p
    BY <1>1
  <1>4. PriorityInsert(s, ks, x, p) = InsertAt(s, k, x)
    BY DEF PriorityInsert, InsertIndex
  <1> HIDE DEF Hit
  <1>5. k \in 1..(Len(s) + 1) /\ \A j \in 1..Len(s) : j < k <=> j \notin Hit
    BY <1>2, <1>3, FirstInSplits
  <1> HIDE DEF k
  <1>6. /\ \A t, u : Before(InsertAt(s, k, x), t, u) /\ t # x /\ u # x => Before(s, t, u)
        /\ \A u : Before(InsertAt(s, k, x), x, u) => \E j \in 1..Len(s) : ~(j < k) /\ s[j] = u
        /\ \A t : Before(InsertAt(s, k, x), t, x) => \E j \in 1..Len(s) : j < k /\ s[j] = t
    BY <1>5, InsertedBefore
  <1>7. \A j \in 1..Len(s) : IF j < k THEN f[s[j]] >= p ELSE f[s[j]] < p
    BY <1>1, <1>3, <1>5
  <1> QED BY <1>1, <1>4, <1>6, <1>7

\* An urgent queue that leaves out a thread.
LEMMA WithoutOrder ==
  ASSUME NEW S, NEW s \in Seq(S), NoRepeats(s), NEW x, NEW f, Urgent(s, f)
  PROVE  OrderKept(s, Without(s, x), f)
  <1>1. \A t, u : Before(Without(s, x), t, u) => Before(s, t, u)
    <2>1. CASE \E i \in DOMAIN s : s[i] = x
      <3> DEFINE k == CHOOSE i \in DOMAIN s : s[i] = x
      <3>1. k \in 1..Len(s) /\ Without(s, x) = RemoveAt(s, k)
        BY <2>1, ToSetFacts DEF Without
      <3> HIDE DEF k
      <3> QED BY <3>1, RemovedBefore
    <2>2. CASE ~ \E i \in DOMAIN s : s[i] = x
      BY <2>2 DEF Without
    <2> QED BY <2>1, <2>2
  <1>2. \A t, u : Before(s, t, u) => f[t] >= f[u] /\ ~Before(s, u, t) /\ t \in ToSet(s)
    BY BeforeFacts DEF Urgent
  <1> QED BY <1>1, <1>2 DEF OrderKept

\* One thread becomes runnable.
LEMMA EnqueueOrder ==
  ASSUME TypeOK, NEW rq \in Seq(Thread), NoRepeats(rq), NEW x \in Thread, x \notin ToSet(rq),
         Urgent(rq, priority)
  PROVE  /\ Enqueue(rq, x) \in Seq(Thread) /\ NoRepeats(Enqueue(rq, x))
         /\ ToSet(Enqueue(rq, x)) = ToSet(rq) \union {x}
         /\ \A t, u : Before(Enqueue(rq, x), t, u) /\ t # x /\ u # x => Before(rq, t, u)
         /\ \A u : Before(Enqueue(rq, x), x, u) => u \in ToSet(rq) /\ priority[u] < priority[x]
         /\ \A t : Before(Enqueue(rq, x), t, x) => t \in ToSet(rq) /\ priority[t] >= priority[x]
         /\ Urgent(Enqueue(rq, x), priority)
  <1> DEFINE r == Enqueue(rq, x)
  <1>1. priority \in [Thread -> Int] /\ priority[x] \in Int
    BY ExecutorAssumption DEF TypeOK
  <1>2. r \in Seq(Thread) /\ NoRepeats(r) /\ ToSet(r) = ToSet(rq) \union {x}
    BY EnqueueFacts
  <1>3. \A i \in 1..Len(rq) : Ranks(rq)[i] = priority[rq[i]]
    BY LenProperties DEF Ranks
  <1>4. /\ \A t, u : Before(r, t, u) /\ t # x /\ u # x => Before(rq, t, u)
        /\ \A u : Before(r, x, u) => u \in ToSet(rq) /\ priority[u] < priority[x]
        /\ \A t : Before(r, t, x) => t \in ToSet(rq) /\ priority[t] >= priority[x]
    BY <1>1, <1>3, RanksFacts, PriorityInsertOrder DEF Enqueue
  <1> HIDE DEF r
  <1>5. ToSet(rq) \subseteq Thread
    BY ToSetFacts
  <1>6. ASSUME NEW t, NEW u, Before(r, t, u) PROVE priority[t] >= priority[u]
    <2>1. t # u
      BY <1>2, <1>6, BeforeFacts
    <2>2. CASE t = x
      BY <1>1, <1>4, <1>5, <1>6, <2>2
    <2>3. CASE u = x
      BY <1>4, <1>6, <2>3
    <2>4. CASE t # x /\ u # x
      BY <1>4, <1>6, <2>4 DEF Urgent
    <2> QED BY <2>2, <2>3, <2>4
  <1> QED BY <1>2, <1>4, <1>6 DEF r, Urgent

LEMMA OneMoreOrder ==
  ASSUME TypeOK, NEW rq \in Seq(Thread), NoRepeats(rq), NEW x \in Thread, x \notin ToSet(rq),
         Urgent(rq, priority)
  PROVE  OrderKept(rq, Enqueue(rq, x), priority)
  <1> DEFINE r == Enqueue(rq, x)
  <1>1. /\ \A t, u : Before(r, t, u) /\ t # x /\ u # x => Before(rq, t, u)
        /\ \A u : Before(r, x, u) => u \in ToSet(rq) /\ priority[u] < priority[x]
        /\ \A t : Before(r, t, x) => t \in ToSet(rq) /\ priority[t] >= priority[x]
        /\ Urgent(r, priority) /\ NoRepeats(r) /\ r \in Seq(Thread) /\ ToSet(r) = ToSet(rq) \union {x}
    BY EnqueueOrder
  <1>2. /\ priority[x] \in Int /\ \A t \in ToSet(rq) : priority[t] \in Int
    BY ToSetFacts, ExecutorAssumption DEF TypeOK
  <1> HIDE DEF r
  <1> SUFFICES ASSUME NEW t \in ToSet(r), NEW u \in ToSet(r), Before(r, t, u)
               PROVE  /\ priority[t] >= priority[u]
                      /\ priority[t] = priority[u] => ~Before(rq, u, t)
                      /\ priority[t] = priority[u] /\ u \in ToSet(rq) => t \in ToSet(rq)
    BY DEF OrderKept, r
  <1>3. priority[t] >= priority[u]
    BY <1>1 DEF Urgent
  <1>4. ~Before(rq, u, t) \/ t = x \/ u = x
    BY <1>1, BeforeFacts
  <1>5. \A v : ~Before(rq, x, v) /\ ~Before(rq, v, x)
    BY BeforeFacts
  <1>6. t = x => priority[t] # priority[u]
    BY <1>1, <1>2
  <1> QED BY <1>1, <1>3, <1>4, <1>5, <1>6

\* Two threads become runnable.
LEMMA TwoMoreOrder ==
  ASSUME TypeOK, NEW rq \in Seq(Thread), NoRepeats(rq), NEW x \in Thread, NEW y \in Thread, x # y,
         x \notin ToSet(rq), y \notin ToSet(rq), Urgent(rq, priority)
  PROVE  OrderKept(rq, Enqueue(Enqueue(rq, x), y), priority)
  <1> DEFINE mid == Enqueue(rq, x)
             new == Enqueue(mid, y)
  <1>1. /\ Urgent(mid, priority) /\ NoRepeats(mid) /\ mid \in Seq(Thread)
        /\ ToSet(mid) = ToSet(rq) \union {x}
        /\ \A t, u : Before(mid, t, u) /\ t # x /\ u # x => Before(rq, t, u)
    BY EnqueueOrder
  <1>2. OrderKept(rq, mid, priority)
    BY OneMoreOrder
  <1> HIDE DEF mid
  <1>3. y \notin ToSet(mid)
    BY <1>1
  <1>4. OrderKept(mid, new, priority) /\ \A t, u : Before(new, t, u) /\ t # y /\ u # y => Before(mid, t, u)
    BY <1>1, <1>3, OneMoreOrder, EnqueueOrder
  <1>5. ToSet(new) = ToSet(mid) \union {y}
    BY <1>1, <1>3, EnqueueOrder
  <1> HIDE DEF new
  <1> SUFFICES ASSUME NEW t \in ToSet(new), NEW u \in ToSet(new), Before(new, t, u)
               PROVE  /\ priority[t] >= priority[u]
                      /\ priority[t] = priority[u] => ~Before(rq, u, t)
                      /\ priority[t] = priority[u] /\ u \in ToSet(rq) => t \in ToSet(rq)
    BY DEF OrderKept, new, mid
  <1>6. /\ priority[t] >= priority[u]
        /\ priority[t] = priority[u] => ~Before(mid, u, t)
        /\ priority[t] = priority[u] /\ u \in ToSet(mid) => t \in ToSet(mid)
    BY <1>4 DEF OrderKept
  <1>7. CASE t # y /\ u # y
    BY <1>1, <1>2, <1>4, <1>5, <1>6, <1>7 DEF OrderKept
  <1>8. CASE t = y \/ u = y
    <2>1. \A v : ~Before(rq, y, v) /\ ~Before(rq, v, y)
      BY BeforeFacts
    <2>2. t = y /\ priority[t] = priority[u] => u \notin ToSet(mid)
      BY <1>3, <1>6
    <2> QED BY <1>1, <1>6, <1>8, <2>1, <2>2
  <1> QED BY <1>7, <1>8

\* In front of the equals, where a lowered thread goes.
PutInFront(s, ks, x, p) == InsertAt(s, FirstIn(ks, {i \in DOMAIN ks : ks[i] <= p}), x)

LEMMA InFrontOrder ==
  ASSUME NEW S, NEW s \in Seq(S), NoRepeats(s), NEW x \in S, x \notin ToSet(s),
         NEW f \in [S -> Int], NEW ks \in Seq(Int), Len(ks) = Len(s),
         \A i \in 1..Len(s) : ks[i] = f[s[i]], NEW p \in Int, Urgent(s, f)
  PROVE  /\ \A t, u : Before(PutInFront(s, ks, x, p), t, u) /\ t # x /\ u # x => Before(s, t, u)
         /\ \A u : Before(PutInFront(s, ks, x, p), x, u) => u \in ToSet(s) /\ f[u] <= p
         /\ \A t : Before(PutInFront(s, ks, x, p), t, x) => t \in ToSet(s) /\ f[t] > p
  <1> DEFINE Hit == {i \in DOMAIN ks : ks[i] <= p}
             k == FirstIn(ks, Hit)
  <1>1. /\ DOMAIN ks = 1..Len(s) /\ DOMAIN s = 1..Len(s) /\ Len(s) \in Nat
        /\ \A i \in 1..Len(s) : s[i] \in S /\ f[s[i]] \in Int /\ s[i] \in ToSet(s)
    BY ToSetFacts, LenProperties, ElementOfSeq
  <1>2. ASSUME NEW i \in Hit, NEW j \in 1..Len(ks), i < j PROVE j \in Hit
    <2>1. Before(s, s[i], s[j])
      BY <1>1, <1>2 DEF Before
    <2>2. f[s[i]] >= f[s[j]]
      BY <2>1 DEF Urgent
    <2> QED BY <1>1, <1>2, <2>2
  <1>3. Hit \in SUBSET (1..Len(ks)) /\ \A j \in 1..Len(s) : j \in Hit <=> f[s[j]] <= p
    BY <1>1
  <1> HIDE DEF Hit
  <1>5. k \in 1..(Len(s) + 1) /\ \A j \in 1..Len(s) : j < k <=> j \notin Hit
    BY <1>2, <1>3, FirstInSplits
  <1> HIDE DEF k
  <1>6. /\ \A t, u : Before(InsertAt(s, k, x), t, u) /\ t # x /\ u # x => Before(s, t, u)
        /\ \A u : Before(InsertAt(s, k, x), x, u) => \E j \in 1..Len(s) : ~(j < k) /\ s[j] = u
        /\ \A t : Before(InsertAt(s, k, x), t, x) => \E j \in 1..Len(s) : j < k /\ s[j] = t
    BY <1>5, InsertedBefore
  <1>7. \A j \in 1..Len(s) : IF j < k THEN f[s[j]] > p ELSE f[s[j]] <= p
    BY <1>1, <1>3, <1>5
  <1> QED BY <1>1, <1>6, <1>7 DEF k, Hit, PutInFront

\* An urgent queue is kept as it is while its threads keep their priorities.
LEMMA SameQueueOrder ==
  ASSUME NEW S, NEW s \in Seq(S), NoRepeats(s), NEW f, NEW g, Urgent(s, f),
         \A t \in ToSet(s) : g[t] = f[t]
  PROVE  OrderKept(s, s, g)
  <1>1. \A t, u : Before(s, t, u) => f[t] >= f[u] /\ ~Before(s, u, t) /\ t \in ToSet(s)
    BY BeforeFacts DEF Urgent
  <1> QED BY <1>1 DEF OrderKept

\* A new priority moves its thread only, and no further than it has to.
LEMMA RepositionOrder ==
  ASSUME NEW S, NEW s \in Seq(S), NoRepeats(s), NEW f \in [S -> Int], NEW ks \in Seq(Int),
         Len(ks) = Len(s), \A i \in 1..Len(s) : ks[i] = f[s[i]], NEW x \in S, NEW p \in Int, Urgent(s, f)
  PROVE  OrderKept(s, Reposition(s, ks, x, f[x], p), [f EXCEPT ![x] = p])
  <1> DEFINE k    == CHOOSE i \in DOMAIN s : s[i] = x
             rest == RemoveAt(s, k)
             rks  == RemoveAt(ks, k)
             r    == Reposition(s, ks, x, f[x], p)
             g    == [f EXCEPT ![x] = p]
  <1>1. /\ DOMAIN s = 1..Len(s) /\ Len(s) \in Nat /\ ToSet(s) \subseteq S
        /\ \A y : y \in ToSet(s) <=> \E j \in 1..Len(s) : s[j] = y
    BY ToSetFacts
  <1>2. f[x] \in Int /\ g[x] = p /\ \A t \in S : t # x => g[t] = f[t]
    OBVIOUS
  <1>3. ToSet(r) = ToSet(s)
    BY <1>2, RepositionFacts
  <1>4. CASE x \notin ToSet(s) \/ p = f[x]
    <2>1. r = s
      BY <1>1, <1>4 DEF Reposition
    <2>2. \A t \in ToSet(s) : g[t] = f[t]
      BY <1>1, <1>2, <1>4
    <2> HIDE DEF r, g
    <2>3. OrderKept(s, r, g)
      BY <2>1, <2>2, SameQueueOrder
    <2> QED BY <2>3 DEF r, g
  <1>5. CASE x \in ToSet(s) /\ p # f[x]
    <2>1. k \in 1..Len(s) /\ s[k] = x
      BY <1>1, <1>5
    <2>2. /\ p > f[x] => r = PriorityInsert(rest, rks, x, p)
          /\ p < f[x] => r = PutInFront(rest, rks, x, p)
      <3>1. \E i \in DOMAIN s : s[i] = x
        BY <1>1, <1>5
      <3>2. CASE p > f[x]
        BY <1>2, <3>1, <3>2 DEF Reposition
      <3>3. CASE p < f[x]
        BY <1>2, <3>1, <3>3 DEF Reposition, PutInFront
      <3> QED BY <1>2, <1>5, <3>2, <3>3
    <2> HIDE DEF k, r, g
    <2>3. /\ rest \in Seq(S) /\ Len(rest) = Len(s) - 1
          /\ \A j \in 1..(Len(s) - 1) : rest[j] = IF j < k THEN s[j] ELSE s[j + 1]
      BY <2>1, RemoveAtFacts
    <2>4. /\ rks \in Seq(Int) /\ Len(rks) = Len(s) - 1
          /\ \A j \in 1..(Len(s) - 1) : rks[j] = IF j < k THEN ks[j] ELSE ks[j + 1]
      BY <2>1, RemoveAtFacts
    <2>5. ToSet(rest) = ToSet(s) \ {x} /\ NoRepeats(rest)
      BY <2>1, RemoveAtElems
    <2>6. \A t, u : Before(rest, t, u) => Before(s, t, u)
      BY <2>1, RemovedBefore
    <2> HIDE DEF rest, rks
    <2>7. Len(rks) = Len(rest) /\ \A j \in 1..Len(rest) : rks[j] = f[rest[j]]
      <3>1. Len(rks) = Len(rest) /\ Len(rest) = Len(s) - 1
        BY <2>3, <2>4
      <3>2. ASSUME NEW j \in 1..(Len(s) - 1) PROVE rks[j] = f[rest[j]]
        <4>1. j \in 1..Len(s) /\ j + 1 \in 1..Len(s)
          BY <1>1
        <4> QED BY <2>3, <2>4, <4>1
      <3> QED BY <3>1, <3>2
    <2>8. Urgent(rest, f) /\ x \notin ToSet(rest)
      BY <2>5, <2>6 DEF Urgent
    <2>9. ASSUME p > f[x]
          PROVE  /\ \A t, u : Before(r, t, u) /\ t # x /\ u # x => Before(rest, t, u)
                 /\ \A u : Before(r, x, u) => u \in ToSet(rest) /\ f[u] < p
                 /\ \A t : Before(r, t, x) => t \in ToSet(rest) /\ f[t] >= p
      <3>1. r = PriorityInsert(rest, rks, x, p)
        BY <2>2, <2>9
      <3> QED BY <3>1, <2>3, <2>4, <2>5, <2>7, <2>8, PriorityInsertOrder
    <2>10. ASSUME p < f[x]
           PROVE  /\ \A t, u : Before(r, t, u) /\ t # x /\ u # x => Before(rest, t, u)
                  /\ \A u : Before(r, x, u) => u \in ToSet(rest) /\ f[u] <= p
                  /\ \A t : Before(r, t, x) => t \in ToSet(rest) /\ f[t] > p
      <3>1. r = PutInFront(rest, rks, x, p)
        BY <2>2, <2>10
      <3> QED BY <3>1, <2>3, <2>4, <2>5, <2>7, <2>8, InFrontOrder
    <2>11. ASSUME NEW t \in ToSet(r), NEW u \in ToSet(r), Before(r, t, u)
           PROVE  /\ g[t] >= g[u]
                  /\ g[t] = g[u] => ~Before(s, u, t)
                  /\ g[t] = g[u] /\ u \in ToSet(s) => t \in ToSet(s)
      <3>0. /\ t \in S /\ u \in S /\ f[t] \in Int /\ f[u] \in Int /\ t \in ToSet(s)
            /\ p < f[x] \/ p > f[x]
        BY <1>1, <1>2, <1>3, <1>5
      <3>1. CASE t # x /\ u # x
        <4>1. Before(s, t, u)
          BY <2>6, <2>9, <2>10, <2>11, <3>0, <3>1
        <4>2. f[t] >= f[u] /\ ~Before(s, u, t) /\ g[t] = f[t] /\ g[u] = f[u]
          BY <1>2, <3>0, <3>1, <4>1, BeforeFacts DEF Urgent
        <4> QED BY <3>0, <4>2
      <3>2. CASE t = x
        <4>1. /\ u \in ToSet(rest) /\ u # x /\ g[u] = f[u] /\ f[u] <= p
              /\ p > f[x] => f[u] < p
          BY <1>2, <2>5, <2>9, <2>10, <2>11, <3>0, <3>2
        <4>2. Before(s, u, x) => f[u] >= f[x]
          BY DEF Urgent
        <4> QED BY <1>2, <3>0, <3>2, <4>1, <4>2
      <3>3. CASE u = x
        <4>1. /\ t \in ToSet(rest) /\ t # x /\ g[t] = f[t] /\ f[t] >= p
              /\ p < f[x] => f[t] > p
          BY <1>2, <2>5, <2>9, <2>10, <2>11, <3>0, <3>3
        <4>2. Before(s, x, t) => f[x] >= f[t]
          BY DEF Urgent
        <4> QED BY <1>2, <3>0, <3>3, <4>1, <4>2
      <3> QED BY <3>1, <3>2, <3>3
    <2>12. OrderKept(s, r, g)
      BY <2>11 DEF OrderKept
    <2> QED BY <2>12 DEF r, g
  <1> QED BY <1>4, <1>5

\* What a step does to the run queue: threads keep their priorities while one or
\* two are added or one is left out; or one thread gets a priority.
LEMMA QueueStep ==
  ASSUME TypeOK, Parts, Disciplined, [Next]_vars
  PROVE  \/ /\ priority' = priority
            /\ \/ run_queue' = run_queue
               \/ \E x \in Thread : run_queue' = Without(run_queue, x)
               \/ \E x \in Thread : x \notin ToSet(run_queue) /\ run_queue' = Enqueue(run_queue, x)
               \/ \E x, y \in Thread :
                    /\ x # y /\ x \notin ToSet(run_queue) /\ y \notin ToSet(run_queue)
                    /\ run_queue' = Enqueue(Enqueue(run_queue, x), y)
         \/ \E x \in Thread, p \in Priority :
              /\ priority' = [priority EXCEPT ![x] = p]
              /\ \/ run_queue' = run_queue /\ x \notin ToSet(run_queue)
                 \/ run_queue' = Reposition(run_queue, Ranks(run_queue), x, priority[x], p)
  <1> DEFINE Less == \E x \in Thread : run_queue' = Without(run_queue, x)
             One  == \E x \in Thread : x \notin ToSet(run_queue) /\ run_queue' = Enqueue(run_queue, x)
             Two  == \E x, y \in Thread :
                       /\ x # y /\ x \notin ToSet(run_queue) /\ y \notin ToSet(run_queue)
                       /\ run_queue' = Enqueue(Enqueue(run_queue, x), y)
             Kept == priority' = priority /\ (run_queue' = run_queue \/ Less \/ One \/ Two)
  <1>0. run_queue \in Seq(Thread) /\ \A t \in Thread : state[t] # "Runnable" => t \notin ToSet(run_queue)
    BY DEF TypeOK, Parts, RunQueueSound
  <1>1. ASSUME NEW me \in Thread, NEW k, CallsNow(me, k) PROVE me \notin ToSet(run_queue) /\ state[me] = "Running"
    BY <1>1, Calling
  <1>2. ASSUME NEW q \in Queue, HasReceiver(q)
        PROVE  /\ FirstReceiver(q) \in Thread /\ FirstReceiver(q) \notin ToSet(run_queue)
               /\ state[FirstReceiver(q)] # "Running"
    BY <1>0, <1>2, FirstReceiverFacts
  <1>3. ASSUME NEW q \in Queue, HasSender(q)
        PROVE  /\ FirstSender(q).id \in Thread /\ FirstSender(q).id \notin ToSet(run_queue)
               /\ state[FirstSender(q).id] # "Running"
    BY <1>0, <1>3, FirstSenderFacts
  <1>4. CASE Dispatch
    <2>1. Head(run_queue) \in Thread
      BY <1>0, <1>4, TailFacts DEF Dispatch
    <2> QED BY <1>4, <2>1 DEF Dispatch
  <1>5. ASSUME NEW me \in Thread, GuestCall(me)
        PROVE  \/ Kept
               \/ \E x \in Thread, p \in Priority :
                    /\ priority' = [priority EXCEPT ![x] = p]
                    /\ \/ run_queue' = run_queue /\ x \notin ToSet(run_queue)
                       \/ run_queue' = Reposition(run_queue, Ranks(run_queue), x, priority[x], p)
    <2>1. ASSUME NEW t \in Thread, NEW p \in Priority, CreateThread(me, t, p)
          PROVE  priority' = [priority EXCEPT ![t] = p] /\ run_queue' = run_queue /\ t \notin ToSet(run_queue)
      BY <1>0, <2>1 DEF CreateThread, Created, runVars
    <2>2. ASSUME NEW t \in Thread, StopThread(me, t) \/ DestroyThread(me, t)
          PROVE  priority' = priority /\ run_queue' = Without(run_queue, t)
      BY <2>2 DEF StopThread, DestroyThread
    <2>3. ASSUME NEW t \in Thread, NEW p \in Priority, SetThreadPri(me, t, p)
          PROVE  /\ priority' = [priority EXCEPT ![t] = p]
                 /\ run_queue' = Reposition(run_queue, Ranks(run_queue), t, priority[t], p)
      BY <2>3 DEF SetThreadPri
    <2>4. ASSUME NEW q \in Queue, NEW c \in 0..MaxCapacity, CreateMesgQueue(me, q, c)
          PROVE  priority' = priority /\ run_queue' = run_queue
      BY <2>4 DEF CreateMesgQueue, threadVars, runVars
    <2>5. ASSUME NEW e \in Event, NEW q \in Queue, SetEventMesg(me, e, q)
          PROVE  priority' = priority /\ run_queue' = run_queue
      BY <2>5 DEF SetEventMesg, threadVars, runVars
    <2> QED BY <1>5, <2>1, <2>2, <2>3, <2>4, <2>5 DEF GuestCall
  <1>6. ASSUME NEW me \in Thread, GuestSuspend(me) PROVE Kept
    <2>1. CASE YieldThread(me) \/ PauseSelf(me) \/ Checkpoint(me) \/ AcceptInterrupt(me) \/ Return(me)
      <3>1. me \notin ToSet(run_queue) /\ priority' = priority
        BY <1>1, <2>1 DEF YieldThread, PauseSelf, Checkpoint, AcceptInterrupt, Return
      <3>2. run_queue' = Enqueue(run_queue, me) \/ run_queue' = Without(run_queue, me)
        BY <2>1 DEF YieldThread, PauseSelf, Checkpoint, AcceptInterrupt, Return
      <3> QED BY <3>1, <3>2
    <2>2. ASSUME NEW t \in Thread, StartThread(me, t) PROVE Kept
      <3>1. CASE StartStopped(me, t)
        <4>1. me \notin ToSet(run_queue) /\ t \notin ToSet(run_queue) /\ t # me
          BY <1>0, <1>1, <3>1 DEF StartStopped
        <4>2. priority' = priority /\ run_queue' = Enqueue(Enqueue(run_queue, t), me)
          BY <3>1 DEF StartStopped
        <4> QED BY <4>1, <4>2
      <3>2. CASE StartUnstopped(me, t)
        BY <3>2 DEF StartUnstopped, threadVars, runVars
      <3> QED BY <2>2, <3>1, <3>2 DEF StartThread
    <2>3. ASSUME NEW q \in Queue, NEW b \in BOOLEAN, RecvMesg(me, q, b) PROVE Kept
      <3>1. me \notin ToSet(run_queue) /\ state[me] = "Running" /\ priority' = priority
        BY <1>1, <2>3 DEF RecvMesg
      <3>2. CASE ~IsEmpty(q) /\ HasSender(q)
        <4> DEFINE w == FirstSender(q).id
        <4>1. run_queue' = Enqueue(Enqueue(run_queue, w), me)
          BY <2>3, <3>2 DEF RecvMesg
        <4>2. w \in Thread /\ w \notin ToSet(run_queue) /\ w # me
          BY <1>3, <3>1, <3>2
        <4> HIDE DEF w
        <4> QED BY <3>1, <4>1, <4>2
      <3>3. CASE IsEmpty(q) \/ ~HasSender(q)
        <4>1. run_queue' = run_queue \/ run_queue' = Enqueue(run_queue, me)
          BY <2>3, <3>3 DEF RecvMesg
        <4> QED BY <3>1, <4>1
      <3> QED BY <3>2, <3>3
    <2>4. ASSUME NEW q \in Queue, NEW m \in Fresh, NEW place \in Placement, NEW b \in BOOLEAN,
                 SendMesg(me, q, m, place, b)
          PROVE  Kept
      <3>1. me \notin ToSet(run_queue) /\ state[me] = "Running" /\ priority' = priority
        BY <1>1, <2>4 DEF SendMesg
      <3>2. CASE HasReceiver(q)
        <4> DEFINE w == FirstReceiver(q)
        <4>1. run_queue' = Enqueue(Enqueue(run_queue, w), me)
          BY <2>4, <3>2 DEF SendMesg
        <4>2. w \in Thread /\ w \notin ToSet(run_queue) /\ w # me
          BY <1>2, <3>1, <3>2
        <4> HIDE DEF w
        <4> QED BY <3>1, <4>1, <4>2
      <3>3. CASE ~HasReceiver(q)
        <4>1. run_queue' = run_queue \/ run_queue' = Enqueue(run_queue, me)
          BY <2>4, <3>3 DEF SendMesg
        <4> QED BY <3>1, <4>1
      <3> QED BY <3>2, <3>3
    <2>5. ASSUME NEW e \in Event, Fault(me, e) PROVE Kept
      <3> DEFINE q == event_table[e]
                 w == FirstReceiver(q)
      <3>1. me \notin ToSet(run_queue) /\ state[me] = "Running" /\ priority' = priority
        BY <1>1, <2>5 DEF Fault
      <3>2. CASE q # NoQueue /\ HasReceiver(q)
        <4>1. run_queue' = Without(Enqueue(run_queue, w), me)
          BY <2>5, <3>2 DEF Fault
        <4>2. q \in Queue
          BY <3>2 DEF TypeOK
        <4> HIDE DEF q
        <4>3. w \in Thread /\ w \notin ToSet(run_queue) /\ w # me
          BY <1>2, <3>1, <3>2, <4>2
        <4> HIDE DEF w
        <4>4. me \notin ToSet(Enqueue(run_queue, w))
          BY <1>0, <3>1, <4>3, EnqueueFacts
        <4>5. run_queue' = Enqueue(run_queue, w)
          BY <4>1, <4>4 DEF Without, ToSet
        <4> QED BY <3>1, <4>3, <4>5
      <3>3. CASE q = NoQueue \/ ~HasReceiver(q)
        <4>1. run_queue' = Without(run_queue, me)
          BY <2>5, <3>3 DEF Fault
        <4> QED BY <3>1, <4>1
      <3> QED BY <3>2, <3>3
    <2> QED BY <1>6, <2>1, <2>2, <2>3, <2>4, <2>5 DEF GuestSuspend
  <1>7. ASSUME NEW q \in Queue, NEW m, Deliver(q, m), priority' = priority PROVE Kept
    <2>1. CASE HasReceiver(q)
      <3>1. run_queue' = Enqueue(run_queue, FirstReceiver(q))
        BY <1>7, <2>1 DEF Deliver
      <3> QED BY <1>2, <1>7, <2>1, <3>1
    <2>2. CASE ~HasReceiver(q)
      BY <1>7, <2>2 DEF Deliver
    <2> QED BY <2>1, <2>2
  <1>8. ASSUME NEW q \in Queue, NEW m \in Fresh, Post(q, m) PROVE Kept
    BY <1>7, <1>8 DEF Post
  <1>9. ASSUME NEW e \in Event, InjectEvent(e) PROVE Kept
    <2>1. event_table[e] \in Queue
      BY <1>9 DEF InjectEvent, TypeOK
    <2> QED BY <1>7, <1>9, <2>1 DEF InjectEvent
  <1>10. CASE CommitTimeTarget \/ CommitHostWork \/ UNCHANGED vars
    BY <1>10 DEF CommitTimeTarget, CommitHostWork, vars, threadVars, runVars
  <1> QED BY <1>4, <1>5, <1>6, <1>8, <1>9, <1>10 DEF Next

\* So every step keeps the order,
LEMMA OrderStep ==
  ASSUME TypeOK, Parts, Disciplined, Urgent(run_queue, priority), [Next]_vars
  PROVE  OrderKept(run_queue, run_queue', priority')
  <1>1. /\ run_queue \in Seq(Thread) /\ NoRepeats(run_queue)
        /\ priority \in [Thread -> Int] /\ Priority \subseteq Int
    BY ExecutorAssumption DEF TypeOK, Parts, RunQueueSound
  <1>2. CASE priority' = priority /\ run_queue' = run_queue
    BY <1>1, <1>2, SameQueueOrder
  <1>3. CASE priority' = priority /\ \E x \in Thread : run_queue' = Without(run_queue, x)
    BY <1>1, <1>3, WithoutOrder
  <1>4. CASE priority' = priority
               /\ \E x \in Thread : x \notin ToSet(run_queue) /\ run_queue' = Enqueue(run_queue, x)
    BY <1>1, <1>4, OneMoreOrder
  <1>5. CASE priority' = priority
               /\ \E x, y \in Thread :
                    /\ x # y /\ x \notin ToSet(run_queue) /\ y \notin ToSet(run_queue)
                    /\ run_queue' = Enqueue(Enqueue(run_queue, x), y)
    BY <1>1, <1>5, TwoMoreOrder
  <1>6. ASSUME NEW x \in Thread, NEW p \in Priority, priority' = [priority EXCEPT ![x] = p],
               run_queue' = run_queue, x \notin ToSet(run_queue)
        PROVE  OrderKept(run_queue, run_queue', priority')
    <2>1. \A t \in ToSet(run_queue) : priority'[t] = priority[t]
      BY <1>1, <1>6, ToSetFacts
    <2> QED BY <1>1, <1>6, <2>1, SameQueueOrder
  <1>7. ASSUME NEW x \in Thread, NEW p \in Priority, priority' = [priority EXCEPT ![x] = p],
               run_queue' = Reposition(run_queue, Ranks(run_queue), x, priority[x], p)
        PROVE  OrderKept(run_queue, run_queue', priority')
    <2>1. /\ Ranks(run_queue) \in Seq(Int) /\ Len(Ranks(run_queue)) = Len(run_queue)
          /\ \A i \in 1..Len(run_queue) : Ranks(run_queue)[i] = priority[run_queue[i]]
      BY <1>1, RanksFacts, LenProperties DEF Ranks
    <2>2. p \in Int
      BY <1>1
    <2> QED BY <1>1, <1>7, <2>1, <2>2, RepositionOrder
  <1> QED BY <1>2, <1>3, <1>4, <1>5, <1>6, <1>7, QueueStep

\* and the queue stays urgent.
LEMMA UrgentStep ==
  ASSUME run_queue' \in Seq(Thread), NoRepeats(run_queue'), OrderKept(run_queue, run_queue', priority')
  PROVE  Urgent(run_queue', priority')
  BY BeforeFacts DEF Urgent, OrderKept

\* The thread that takes the token is as urgent as any that could.
LEMMA TokenStep ==
  ASSUME TypeOK, Parts, Urgent(run_queue, priority), Next, running' # running, running' # NoThread,
         NEW t \in Thread, state[t] = "Runnable"
  PROVE  priority[t] <= priority[running']
  <1>1. Dispatch
    <2> DEFINE Stays == running' = running \/ running' = NoThread
    <2>1. ASSUME NEW me \in Thread, GuestCall(me) PROVE Stays
      <3>1. ASSUME NEW v \in Thread, StopThread(me, v) \/ DestroyThread(me, v) PROVE Stays
        BY <3>1 DEF StopThread, DestroyThread, Release
      <3>2. ASSUME NEW v \in Thread, NEW p \in Priority, CreateThread(me, v, p) \/ SetThreadPri(me, v, p)
            PROVE  Stays
        BY <3>2 DEF CreateThread, SetThreadPri, runVars
      <3>3. ASSUME NEW q \in Queue, NEW c \in 0..MaxCapacity, CreateMesgQueue(me, q, c) PROVE Stays
        BY <3>3 DEF CreateMesgQueue, runVars
      <3>4. ASSUME NEW q \in Queue, NEW e \in Event, SetEventMesg(me, e, q) PROVE Stays
        BY <3>4 DEF SetEventMesg, runVars
      <3> QED BY <2>1, <3>1, <3>2, <3>3, <3>4 DEF GuestCall
    <2>2. ASSUME NEW me \in Thread, GuestSuspend(me) PROVE Stays
      <3>1. running' = Release(me) \/ running' = running
        <4>1. CASE YieldThread(me) \/ PauseSelf(me) \/ Checkpoint(me) \/ AcceptInterrupt(me) \/ Return(me)
          BY <4>1 DEF YieldThread, PauseSelf, Checkpoint, AcceptInterrupt, Return, Suspend
        <4>2. ASSUME NEW v \in Thread, StartThread(me, v)
              PROVE  running' = Release(me) \/ running' = running
          BY <4>2 DEF StartThread, StartStopped, StartUnstopped, Suspend, runVars
        <4>3. ASSUME NEW q \in Queue, NEW b \in BOOLEAN, RecvMesg(me, q, b) PROVE running' = Release(me)
          BY <4>3 DEF RecvMesg, Suspend
        <4>4. ASSUME NEW q \in Queue, NEW m \in Fresh, NEW place \in Placement, NEW b \in BOOLEAN,
                     SendMesg(me, q, m, place, b)
              PROVE  running' = Release(me)
          BY <4>4 DEF SendMesg, Suspend
        <4>5. ASSUME NEW e \in Event, Fault(me, e) PROVE running' = Release(me)
          BY <4>5 DEF Fault
        <4> QED BY <2>2, <4>1, <4>2, <4>3, <4>4, <4>5 DEF GuestSuspend
      <3> QED BY <3>1 DEF Release
    <2> QED BY <2>1, <2>2 DEF Next, Post, InjectEvent, CommitTimeTarget, CommitHostWork, runVars
  <1>2. /\ run_queue \in Seq(Thread) /\ NoRepeats(run_queue) /\ t \in ToSet(run_queue)
        /\ \A u \in Thread : priority[u] \in Int
    BY ExecutorAssumption DEF TypeOK, Parts, RunQueueSound
  <1>3. run_queue # <<>> /\ running' = Head(run_queue) /\ Head(run_queue) \in Thread
    BY <1>1, <1>2, TailFacts DEF Dispatch
  <1>4. t = Head(run_queue) \/ Before(run_queue, Head(run_queue), t)
    BY <1>2, <1>3, BeforeFacts
  <1> QED BY <1>2, <1>3, <1>4 DEF Urgent

LEMMA UrgentInit == Init => Urgent(run_queue, priority)
  <1> SUFFICES ASSUME Init PROVE Urgent(run_queue, priority)
    OBVIOUS
  <1>1. /\ run_queue = Boot /\ priority = BootPriority
        /\ \A i, j \in DOMAIN Boot : i < j => BootPriority[Boot[i]] >= BootPriority[Boot[j]]
    BY ExecutorAssumption DEF Init, Descending
  <1> QED BY <1>1 DEF Urgent, Before

\* The queue's order with what its induction rests on.
InOrder == TypeOK /\ NoLostWakeup /\ Control /\ Urgent(run_queue, priority)

\* Every step keeps the queue urgent and moves nobody further than it has to.
LEMMA InOrderStep ==
  ASSUME Disciplined, InOrder, [Next]_vars
  PROVE  InOrder' /\ OrderKept(run_queue, run_queue', priority')
  <1>1. (TypeOK => (Control <=> Parts))'
    BY ControlParts, PTL
  <1>2. TypeOK' /\ NoLostWakeup' /\ Control' /\ Parts'
    BY <1>1, StepTypesOK, StepParts, ControlParts DEF InOrder
  <1>3. OrderKept(run_queue, run_queue', priority')
    BY ControlParts, OrderStep DEF InOrder
  <1>4. run_queue' \in Seq(Thread) /\ NoRepeats(run_queue')
    BY <1>2 DEF TypeOK, Parts, RunQueueSound
  <1>5. Urgent(run_queue', priority')
    BY <1>3, <1>4, UrgentStep
  <1> QED BY <1>2, <1>3, <1>5 DEF InOrder

LEMMA RunQueueUrgent ==
  ASSUME Disciplined
  PROVE  Spec => []InOrder
  <1>1. Init => InOrder
    BY InitTypes, TypeParts, InitParts, ControlParts, UrgentInit DEF InOrder
  <1>2. InOrder /\ [Next]_vars => InOrder'
    BY InOrderStep
  <1> QED BY <1>1, <1>2, PTL DEF Spec

\* Under a disciplined workload the token goes to a most urgent thread, equals
\* take turns, and neither a wake-up nor a new priority lets a thread overtake
\* one it should not: for any number of threads, priorities and queues.
THEOREM ServedByPriority ==
  ASSUME Disciplined
  PROVE  Spec => RunsInOrder
  <1> DEFINE A == /\ running' # running /\ running' # NoThread =>
                       \A t \in Thread : state[t] = "Runnable" => priority[t] <= priority[running']
                  /\ \A t, u \in ToSet(run_queue') :
                       Before(run_queue', t, u) =>
                         /\ priority'[t] >= priority'[u]
                         /\ priority'[t] = priority'[u] => ~Before(run_queue, u, t)
                         /\ priority'[t] = priority'[u] /\ u \in ToSet(run_queue) => t \in ToSet(run_queue)
  <1>1. InOrder /\ [Next]_vars => [A]_vars
    <2> SUFFICES ASSUME InOrder, Next PROVE A
      OBVIOUS
    <2>1. OrderKept(run_queue, run_queue', priority')
      BY InOrderStep
    <2>2. running' # running /\ running' # NoThread =>
            \A t \in Thread : state[t] = "Runnable" => priority[t] <= priority[running']
      BY ControlParts, TokenStep DEF InOrder
    <2> QED BY <2>1, <2>2 DEF OrderKept
  <1> QED BY <1>1, RunQueueUrgent, PTL DEF Spec, RunsInOrder

-----------------------------------------------------------------------------
(* Moving one element is sorting the whole queue.                          *)

\* pos tells where each of the positions K of s ends up in u.
Places(s, K, pos, u) ==
  /\ K \subseteq DOMAIN s
  /\ pos \in [K -> 1..Len(u)]
  /\ \A k \in K : u[pos[k]] = s[k]
  /\ \A j, k \in K : pos[j] = pos[k] => j = k
  /\ \A i \in 1..Len(u) : \E k \in K : pos[k] = i

\* The positions that end up no later than k.
UpTo(K, pos, k) == {j \in K : pos[j] <= pos[k]}

\* As many positions end up at pos[k] or before it as there are.
LEMMA PlacesCounted ==
  ASSUME NEW S, NEW s \in Seq(S), NEW u \in Seq(S), NEW K, NEW pos, Places(s, K, pos, u)
  PROVE  /\ Cardinality(K) = Len(u)
         /\ \A k \in K : Cardinality(UpTo(K, pos, k)) = pos[k]
  <1>1. Len(u) \in Nat
    BY LenProperties
  <1>2. ASSUME NEW m \in 0..Len(u)
        PROVE  Cardinality({j \in K : pos[j] <= m}) = m
    <2> DEFINE T == {j \in K : pos[j] <= m}
               f == [j \in T |-> pos[j]]
    <2>1. f \in [T -> 1..m]
      BY <1>1, <1>2 DEF Places
    <2>2. \A a, b \in T : f[a] = f[b] => a = b
      BY DEF Places
    <2>3. \A i \in 1..m : \E j \in T : f[j] = i
      <3> SUFFICES ASSUME NEW i \in 1..m PROVE \E j \in T : f[j] = i
        OBVIOUS
      <3>1. i \in 1..Len(u) /\ i <= m
        BY <1>1, <1>2
      <3>2. PICK j \in K : pos[j] = i
        BY <3>1 DEF Places
      <3> QED BY <3>1, <3>2
    <2> HIDE DEF T, f
    <2>4. f \in Bijection(T, 1..m)
      BY <2>1, <2>2, <2>3, Fun_IsBij
    <2>5. ExistsBijection(1..m, T)
      BY <2>4, Fun_ExistsBij, Fun_ExistsBijSymmetric
    <2>6. IsFiniteSet(1..m) /\ Cardinality(1..m) = m
      BY <1>1, <1>2, FS_Interval
    <2>7. Cardinality(T) = m
      BY <2>5, <2>6, FS_Bijection
    <2> QED BY <2>7 DEF T
  <1>3. ASSUME NEW k \in K PROVE Cardinality(UpTo(K, pos, k)) = pos[k]
    <2>1. pos[k] \in 0..Len(u)
      BY <1>1 DEF Places
    <2> QED BY <1>2, <2>1 DEF UpTo
  <1>4. K = {j \in K : pos[j] <= Len(u)}
    BY <1>1 DEF Places
  <1>5. Len(u) \in 0..Len(u)
    BY <1>1
  <1> QED BY <1>2, <1>3, <1>4, <1>5

\* Whoever is ranked by the place it takes, takes it.
LEMMA PlacesArranged ==
  ASSUME NEW S, NEW s \in Seq(S), NEW u \in Seq(S), NEW K, NEW pos, Places(s, K, pos, u)
  PROVE  Arranged(s, K, pos) = u
  <1>1. Cardinality(K) = Len(u)
    BY PlacesCounted
  <1>2. ASSUME NEW i \in 1..Len(u) PROVE s[CHOOSE k \in K : pos[k] = i] = u[i]
    <2>1. \E k \in K : pos[k] = i
      BY DEF Places
    <2>2. (CHOOSE k \in K : pos[k] = i) \in K /\ pos[CHOOSE k \in K : pos[k] = i] = i
      BY <2>1
    <2> QED BY <2>2 DEF Places
  <1>3. u = [i \in 1..Len(u) |-> u[i]]
    BY LenProperties
  <1> QED BY <1>1, <1>2, <1>3 DEF Arranged

\* Two lists of the same elements: each position of one has its place in the other.
LEMMA PlacesExist ==
  ASSUME NEW S, NEW s \in Seq(S), NoRepeats(s), NEW u \in Seq(S), NoRepeats(u), ToSet(u) = ToSet(s)
  PROVE  \E pos : Places(s, DOMAIN s, pos, u)
  <1> DEFINE n == Len(s)
             m == Len(u)
             pos == [k \in 1..n |-> CHOOSE i \in 1..m : u[i] = s[k]]
  <1>1. /\ DOMAIN s = 1..n /\ DOMAIN u = 1..m
        /\ \A y : y \in ToSet(s) <=> \E j \in 1..n : s[j] = y
        /\ \A y : y \in ToSet(u) <=> \E j \in 1..m : u[j] = y
    BY ToSetFacts
  <1> HIDE DEF n, m
  <1>2. /\ \A i \in 1..n : \E j \in 1..m : u[j] = s[i]
        /\ \A j \in 1..m : \E i \in 1..n : u[j] = s[i]
    BY <1>1
  <1>3. /\ \A i, j \in 1..n : s[i] = s[j] => i = j
        /\ \A i, j \in 1..m : u[i] = u[j] => i = j
    BY <1>1 DEF NoRepeats
  <1>4. \A k \in 1..n : pos[k] \in 1..m /\ u[pos[k]] = s[k]
    BY <1>2
  <1>5. pos \in [1..n -> 1..m]
    BY <1>4
  <1> HIDE DEF pos
  <1>6. ASSUME NEW j \in 1..n, NEW k \in 1..n, pos[j] = pos[k] PROVE j = k
    <2>1. u[pos[j]] = s[j] /\ u[pos[k]] = s[k]
      BY <1>4
    <2>2. s[j] = s[k]
      BY <1>6, <2>1
    <2> QED BY <1>3, <2>2
  <1>7. ASSUME NEW i \in 1..m PROVE \E k \in 1..n : pos[k] = i
    <2>1. PICK k \in 1..n : u[i] = s[k]
      BY <1>2
    <2> QED BY <1>3, <1>4, <2>1
  <1>8. Places(s, 1..n, pos, u)
    BY <1>1, <1>4, <1>5, <1>6, <1>7 DEF Places, m
  <1> QED BY <1>1, <1>8

\* t goes before v when s is sorted by f.
Precedes(s, f, t, v) == f[t] > f[v] \/ (f[t] = f[v] /\ Before(s, t, v))

\* A list in which nobody precedes one it should follow is the sorted one.
LEMMA SortedIsSort ==
  ASSUME NEW S, NEW s \in Seq(S), NoRepeats(s), NEW u \in Seq(S), NoRepeats(u), ToSet(u) = ToSet(s),
         NEW f \in [S -> Int], \A t, v : Before(u, t, v) => Precedes(s, f, t, v)
  PROVE  u = StableSort(s, f)
  <1> DEFINE K == DOMAIN s
  <1>1. PICK pos : Places(s, K, pos, u)
    BY PlacesExist
  <1>2. K = 1..Len(s) /\ Len(s) \in Nat /\ DOMAIN u = 1..Len(u) /\ Len(u) \in Nat /\ ToSet(s) \subseteq S
        /\ \A k \in 1..Len(s) : s[k] \in S
    BY ToSetFacts, ElementOfSeq
  <1>3. IsFiniteSet(K) /\ \A k \in K : k \in Int /\ f[s[k]] \in Int
    BY <1>2, FS_Interval
  <1>4. \A k \in K : pos[k] \in 1..Len(u) /\ pos[k] \in Int /\ u[pos[k]] = s[k]
    BY <1>1, <1>2 DEF Places
  <1>5. ASSUME NEW j \in K, NEW k \in K, pos[j] < pos[k] PROVE Precedes(s, f, s[j], s[k])
    <2>1. Before(u, s[j], s[k])
      BY <1>2, <1>4, <1>5 DEF Before
    <2> QED BY <2>1
  <1>6. ASSUME NEW j \in K, NEW k \in K, Before(s, s[j], s[k]) PROVE j < k
    <2>1. PICK a, b \in K : a < b /\ s[a] = s[j] /\ s[b] = s[k]
      BY <1>6 DEF Before
    <2>2. a = j /\ b = k
      BY <2>1 DEF NoRepeats
    <2> QED BY <2>1, <2>2
  <1>7. ASSUME NEW j \in K, NEW k \in K
        PROVE  pos[j] <= pos[k] <=> f[s[j]] > f[s[k]] \/ (f[s[j]] = f[s[k]] /\ j <= k)
    <2> HIDE DEF K
    <2>1. /\ j \in Int /\ k \in Int /\ f[s[j]] \in Int /\ f[s[k]] \in Int
          /\ pos[j] \in Int /\ pos[k] \in Int
      BY <1>3, <1>4
    <2>2. CASE pos[j] < pos[k]
      <3>1. f[s[j]] > f[s[k]] \/ (f[s[j]] = f[s[k]] /\ j < k)
        BY <1>5, <1>6, <2>2 DEF Precedes
      <3> QED BY <2>1, <2>2, <3>1
    <2>3. CASE pos[k] < pos[j]
      <3>1. f[s[k]] > f[s[j]] \/ (f[s[k]] = f[s[j]] /\ k < j)
        BY <1>5, <1>6, <2>3 DEF Precedes
      <3> QED BY <2>1, <2>3, <3>1
    <2>4. CASE pos[j] = pos[k]
      <3>1. j = k
        BY <1>1, <2>4 DEF Places
      <3> QED BY <2>1, <3>1
    <2> QED BY <2>1, <2>2, <2>3, <2>4
  <1>8. ASSUME NEW k \in K PROVE Rank(s, f, k) = pos[k]
    <2> DEFINE A == {j \in K : f[s[j]] > f[s[k]]}
               B == {j \in K : f[s[j]] = f[s[k]] /\ j <= k}
    <2>1. UpTo(K, pos, k) = A \union B
      BY <1>7 DEF UpTo
    <2>2. A \in SUBSET K /\ B \in SUBSET K
      OBVIOUS
    <2>3. A \intersect B = {}
      BY <1>3
    <2>4. Rank(s, f, k) = Cardinality(A) + Cardinality(B)
      BY DEF Rank
    <2> HIDE DEF A, B, K
    <2>5. IsFiniteSet(A) /\ IsFiniteSet(B)
      BY <1>3, <2>2, FS_Subset
    <2>6. Cardinality(A) \in Nat /\ Cardinality(B) \in Nat
      BY <2>5, FS_CardinalityType
    <2>7. Cardinality(A \union B) = Cardinality(A) + Cardinality(B) - Cardinality({})
      BY <2>3, <2>5, FS_Union
    <2>8. Cardinality(A \union B) = Cardinality(A) + Cardinality(B)
      BY <2>6, <2>7, FS_EmptySet
    <2>9. Cardinality(UpTo(K, pos, k)) = pos[k]
      BY <1>1, PlacesCounted
    <2> QED BY <2>1, <2>4, <2>8, <2>9
  <1> HIDE DEF K
  <1>9. pos = [k \in K |-> pos[k]]
    BY <1>1 DEF Places
  <1>10. pos = [k \in K |-> Rank(s, f, k)]
    BY <1>8, <1>9
  <1>11. Arranged(s, K, pos) = u
    BY <1>1, PlacesArranged
  <1> QED BY <1>10, <1>11 DEF StableSort, K

\* Pushing: everybody keeps their place and the newcomer is last.
LEMMA AppendedBefore ==
  ASSUME NEW S, NEW s \in Seq(S), NoRepeats(s), NEW x \in S, x \notin ToSet(s)
  PROVE  /\ Append(s, x) \in Seq(S) /\ NoRepeats(Append(s, x)) /\ ToSet(Append(s, x)) = ToSet(s) \union {x}
         /\ \A t, v : Before(s, t, v) => Before(Append(s, x), t, v)
         /\ \A t \in ToSet(s) : Before(Append(s, x), t, x)
  <1> DEFINE a == Append(s, x)
             n == Len(s)
  <1>1. /\ DOMAIN s = 1..n /\ n \in Nat
        /\ \A y : y \in ToSet(s) <=> \E j \in 1..n : s[j] = y
    BY ToSetFacts
  <1>2. /\ a \in Seq(S) /\ Len(a) = n + 1 /\ a[n + 1] = x
        /\ \A i \in 1..n : a[i] = s[i]
    BY AppendProperties
  <1> HIDE DEF a, n
  <1>3. DOMAIN a = 1..(n + 1) /\ \A y : y \in ToSet(a) <=> \E j \in 1..(n + 1) : a[j] = y
    BY <1>2, ToSetFacts
  <1>4. n + 1 \in 1..(n + 1) /\ \A i \in 1..(n + 1) : i = n + 1 \/ (i \in 1..n /\ i < n + 1)
    BY <1>1
  <1>5. \A i \in 1..n : i \in 1..(n + 1) /\ i < n + 1
    BY <1>1
  <1>6. ToSet(a) = ToSet(s) \union {x}
    BY <1>1, <1>2, <1>3, <1>4, <1>5
  <1>7. NoRepeats(a)
    <2> SUFFICES ASSUME NEW i \in 1..(n + 1), NEW j \in 1..(n + 1), a[i] = a[j] PROVE i = j
      BY <1>3 DEF NoRepeats
    <2>1. \A k \in 1..n : a[k] # x
      BY <1>1, <1>2
    <2>2. CASE i \in 1..n /\ j \in 1..n
      BY <1>1, <1>2, <2>2 DEF NoRepeats
    <2> QED BY <1>2, <1>4, <2>1, <2>2
  <1>8. \A t, v : Before(s, t, v) => Before(a, t, v)
    BY <1>1, <1>2, <1>3, <1>5 DEF Before
  <1>9. \A t \in ToSet(s) : Before(a, t, x)
    BY <1>1, <1>2, <1>3, <1>4, <1>5 DEF Before
  <1> QED BY <1>2, <1>6, <1>7, <1>8, <1>9 DEF a

\* Making a thread runnable: a push and a sort.
LEMMA EnqueueIsSort ==
  ASSUME TypeOK, NEW rq \in Seq(Thread), NoRepeats(rq), Urgent(rq, priority),
         NEW x \in Thread, x \notin ToSet(rq)
  PROVE  Enqueue(rq, x) = StableSort(Append(rq, x), priority)
  <1> DEFINE a == Append(rq, x)
             r == Enqueue(rq, x)
  <1>1. /\ a \in Seq(Thread) /\ NoRepeats(a) /\ ToSet(a) = ToSet(rq) \union {x}
        /\ \A t, v : Before(rq, t, v) => Before(a, t, v)
        /\ \A t \in ToSet(rq) : Before(a, t, x)
    BY AppendedBefore
  <1>2. /\ r \in Seq(Thread) /\ NoRepeats(r) /\ ToSet(r) = ToSet(rq) \union {x}
        /\ \A t, v : Before(r, t, v) /\ t # x /\ v # x => Before(rq, t, v)
        /\ \A v : Before(r, x, v) => v \in ToSet(rq) /\ priority[v] < priority[x]
        /\ \A t : Before(r, t, x) => t \in ToSet(rq) /\ priority[t] >= priority[x]
    BY EnqueueOrder
  <1>3. priority \in [Thread -> Int] /\ ToSet(rq) \subseteq Thread
    <2>1. priority \in [Thread -> Int]
      BY ExecutorAssumption DEF TypeOK
    <2>2. ToSet(rq) \subseteq Thread
      BY ToSetFacts
    <2> QED BY <2>1, <2>2
  <1> HIDE DEF a, r
  <1>4. ASSUME NEW t, NEW v, Before(r, t, v) PROVE Precedes(a, priority, t, v)
    <2>1. CASE t # x /\ v # x
      <3>1. Before(rq, t, v) /\ t \in Thread /\ v \in Thread
        BY <1>2, <1>3, <1>4, <2>1, BeforeFacts
      <3>2. priority[t] >= priority[v] /\ Before(a, t, v)
        BY <1>1, <3>1 DEF Urgent
      <3>3. priority[t] \in Int /\ priority[v] \in Int
        BY <1>3, <3>1
      <3> QED BY <3>2, <3>3 DEF Precedes
    <2>2. CASE t = x
      <3>1. v \in Thread /\ priority[v] < priority[x]
        BY <1>2, <1>3, <1>4, <2>2
      <3>2. priority[x] \in Int /\ priority[v] \in Int
        BY <1>3, <3>1
      <3> QED BY <2>2, <3>1, <3>2 DEF Precedes
    <2>3. CASE v = x
      <3>1. t \in Thread /\ priority[t] >= priority[x] /\ Before(a, t, x)
        BY <1>1, <1>2, <1>3, <1>4, <2>3
      <3>2. priority[x] \in Int /\ priority[t] \in Int
        BY <1>3, <3>1
      <3> QED BY <2>3, <3>1, <3>2 DEF Precedes
    <2> QED BY <2>1, <2>2, <2>3
  <1>5. r = StableSort(a, priority)
    BY <1>1, <1>2, <1>3, <1>4, SortedIsSort
  <1> QED BY <1>5 DEF a, r

\* Giving a thread another priority: a sort.
LEMMA RepositionIsSort ==
  ASSUME TypeOK, NEW rq \in Seq(Thread), NoRepeats(rq), Urgent(rq, priority),
         NEW x \in Thread, NEW p \in Priority
  PROVE  Reposition(rq, Ranks(rq), x, priority[x], p) = StableSort(rq, [priority EXCEPT ![x] = p])
  <1> DEFINE r == Reposition(rq, Ranks(rq), x, priority[x], p)
             g == [priority EXCEPT ![x] = p]
  <1>1. priority \in [Thread -> Int] /\ p \in Int /\ g \in [Thread -> Int] /\ priority[x] \in Int
    BY ExecutorAssumption DEF TypeOK
  <1>2. /\ Ranks(rq) \in Seq(Int) /\ Len(Ranks(rq)) = Len(rq)
        /\ \A i \in 1..Len(rq) : Ranks(rq)[i] = priority[rq[i]]
    BY RanksFacts, LenProperties DEF Ranks
  <1>3. r \in Seq(Thread) /\ ToSet(r) = ToSet(rq) /\ NoRepeats(r)
    BY <1>1, <1>2, RepositionFacts
  <1>4. OrderKept(rq, r, g)
    BY <1>1, <1>2, RepositionOrder
  <1>5. ToSet(rq) \subseteq Thread
    BY ToSetFacts
  <1> HIDE DEF r, g
  <1>6. ASSUME NEW t, NEW v, Before(r, t, v) PROVE Precedes(rq, g, t, v)
    <2>1. t \in ToSet(r) /\ v \in ToSet(r) /\ t # v
      BY <1>3, <1>6, BeforeFacts
    <2>2. g[t] >= g[v] /\ (g[t] = g[v] => ~Before(rq, v, t))
      BY <1>4, <1>6, <2>1 DEF OrderKept
    <2>3. Before(rq, t, v) \/ Before(rq, v, t)
      BY <1>3, <2>1, BeforeFacts
    <2>4. g[t] \in Int /\ g[v] \in Int
      BY <1>1, <1>3, <1>5, <2>1
    <2> QED BY <2>2, <2>3, <2>4 DEF Precedes
  <1>7. r = StableSort(rq, g)
    BY <1>1, <1>3, <1>6, SortedIsSort
  <1> QED BY <1>7 DEF r, g

\* Removing a thread: Vec::retain.
LEMMA WithoutIsRetain ==
  ASSUME NEW S, NEW s \in Seq(S), NoRepeats(s), NEW x
  PROVE  Without(s, x) = Retain(s, x)
  <1> DEFINE n == Len(s)
             w == Without(s, x)
             K == {k \in DOMAIN s : s[k] # x}
             rank == [k \in K |-> Cardinality({j \in K : j <= k})]
  <1>1. DOMAIN s = 1..n /\ n \in Nat /\ w \in Seq(S)
    BY ToSetFacts, WithoutFacts
  <1>2. \E pos : Places(s, K, pos, w) /\ \A j, k \in K : pos[j] <= pos[k] <=> j <= k
    <2>1. CASE \E i \in DOMAIN s : s[i] = x
      <3> DEFINE m == CHOOSE i \in DOMAIN s : s[i] = x
                 pos == [k \in K |-> IF k < m THEN k ELSE k - 1]
      <3>1. m \in 1..n /\ s[m] = x /\ w = RemoveAt(s, m)
        BY <1>1, <2>1 DEF Without
      <3> HIDE DEF m, w
      <3>2. Len(w) = n - 1 /\ \A j \in 1..(n - 1) : w[j] = IF j < m THEN s[j] ELSE s[j + 1]
        BY <3>1, RemoveAtFacts
      <3> HIDE DEF n
      <3>3. \A k \in K : k \in 1..n /\ k # m
        BY <1>1, <3>1
      <3>4. ASSUME NEW k \in 1..n, k # m PROVE k \in K
        BY <1>1, <3>1, <3>4 DEF NoRepeats
      <3>5. ASSUME NEW k \in K
            PROVE  pos[k] \in 1..(n - 1) /\ w[pos[k]] = s[k]
        <4>1. k \in 1..n /\ k # m /\ m \in 1..n /\ pos[k] = IF k < m THEN k ELSE k - 1
          BY <3>1, <3>3
        <4>2. CASE k < m
          <5>1. pos[k] = k /\ k \in 1..(n - 1)
            BY <1>1, <4>1, <4>2
          <5> QED BY <3>2, <4>2, <5>1
        <4>3. CASE ~(k < m)
          <5>1. pos[k] = k - 1 /\ k - 1 \in 1..(n - 1) /\ ~(k - 1 < m) /\ (k - 1) + 1 = k
            BY <1>1, <4>1, <4>3
          <5> QED BY <3>2, <5>1
        <4> QED BY <4>2, <4>3
      <3>6. ASSUME NEW i \in 1..(n - 1) PROVE \E k \in K : pos[k] = i
        <4>1. CASE i < m
          <5>1. i \in 1..n /\ i # m
            BY <1>1, <3>1, <4>1
          <5>2. i \in K
            BY <3>4, <5>1
          <5> QED BY <4>1, <5>2
        <4>2. CASE ~(i < m)
          <5>1. i + 1 \in 1..n /\ i + 1 # m /\ ~(i + 1 < m) /\ (i + 1) - 1 = i
            BY <1>1, <3>1, <4>2
          <5>2. i + 1 \in K
            BY <3>4, <5>1
          <5> QED BY <5>1, <5>2
        <4> QED BY <4>1, <4>2
      <3>7. \A j, k \in K : /\ pos[j] <= pos[k] <=> j <= k
                            /\ pos[j] = pos[k] => j = k
        BY <1>1, <3>1, <3>3
      <3>8. pos \in [K -> 1..(n - 1)] /\ K \subseteq DOMAIN s
        BY <3>5
      <3>9. Places(s, K, pos, w)
        BY <3>2, <3>5, <3>6, <3>7, <3>8 DEF Places
      <3> QED BY <3>7, <3>9
    <2>2. CASE ~ \E i \in DOMAIN s : s[i] = x
      <3> DEFINE pos == [k \in K |-> k]
      <3>1. w = s /\ K = 1..n
        BY <1>1, <2>2 DEF Without
      <3>3. Len(w) = n /\ pos \in [K -> 1..n] /\ \A k \in K : pos[k] = k
        BY <3>1
      <3> HIDE DEF pos, w, n, K
      <3>2. Places(s, K, pos, w)
        BY <1>1, <3>1, <3>3 DEF Places
      <3> QED BY <3>2, <3>3
    <2> QED BY <2>1, <2>2
  <1> HIDE DEF w
  <1>3. PICK pos : Places(s, K, pos, w) /\ \A j, k \in K : pos[j] <= pos[k] <=> j <= k
    BY <1>2
  <1>4. ASSUME NEW k \in K PROVE rank[k] = pos[k]
    <2>1. UpTo(K, pos, k) = {j \in K : j <= k}
      BY <1>3 DEF UpTo
    <2>2. Cardinality(UpTo(K, pos, k)) = pos[k]
      <3> HIDE DEF K
      <3> QED BY <1>1, <1>3, PlacesCounted
    <2> QED BY <2>1, <2>2
  <1>5. pos = [k \in K |-> pos[k]]
    <2> HIDE DEF K
    <2> QED BY <1>3 DEF Places
  <1>6. pos = rank
    BY <1>4, <1>5
  <1>7. Arranged(s, K, pos) = w
    <2> HIDE DEF K
    <2> QED BY <1>1, <1>3, PlacesArranged
  <1>8. Retain(s, x) = Arranged(s, K, rank)
    BY DEF Retain
  <1> QED BY <1>6, <1>7, <1>8 DEF w

\* Under a disciplined workload, moving one thread of the run queue is what the
\* code's sort of the whole vector does, for any number of threads.
THEOREM MovesSort ==
  ASSUME Disciplined
  PROVE  Spec => []MoveIsSort
  <1>1. InOrder => MoveIsSort
    <2> SUFFICES ASSUME TypeOK, Parts, Urgent(run_queue, priority) PROVE MoveIsSort
      BY ControlParts DEF InOrder
    <2>1. run_queue \in Seq(Thread) /\ NoRepeats(run_queue)
      BY DEF TypeOK, Parts, RunQueueSound
    <2>2. ASSUME NEW t \in Thread, t \notin ToSet(run_queue)
          PROVE  Enqueue(run_queue, t) = StableSort(Append(run_queue, t), priority)
      BY <2>1, <2>2, EnqueueIsSort
    <2>3. ASSUME NEW t \in Thread, NEW p \in Priority
          PROVE  Reposition(run_queue, Ranks(run_queue), t, priority[t], p)
                   = StableSort(run_queue, [priority EXCEPT ![t] = p])
      BY <2>1, RepositionIsSort
    <2>4. ASSUME NEW t \in Thread PROVE Without(run_queue, t) = Retain(run_queue, t)
      BY <2>1, WithoutIsRetain
    <2> QED BY <2>2, <2>3, <2>4 DEF MoveIsSort
  <1> QED BY <1>1, RunQueueUrgent, PTL

-----------------------------------------------------------------------------
(* No message is lost.                                                     *)

\* The messages a queue holds, its parked senders' included.
Held(r) == ToSet(r.messages) \union {w.msg : w \in ToSet(r.senders)}

\* What is in transit is held by a queue or by the table of answers.
LEMMA TransitFacts ==
  /\ \A m : m \in InTransit <=> \/ \E q \in Queue : m \in Held(queues[q])
                                \/ \E t \in Thread : pending_resume[t].kind = "Delivered" /\ pending_resume[t].msg = m
  /\ \A m : m \in InTransit' <=> \/ \E q \in Queue : m \in Held(queues'[q])
                                 \/ \E t \in Thread : pending_resume'[t].kind = "Delivered" /\ pending_resume'[t].msg = m
  <1>1. ASSUME NEW m
        PROVE  m \in InTransit <=> \/ \E q \in Queue : m \in Held(queues[q])
                                  \/ \E t \in Thread : pending_resume[t].kind = "Delivered" /\ pending_resume[t].msg = m
    <2>1. m \in InTransit <=> \/ m \in UNION {Held(queues[q]) : q \in Queue}
                            \/ m \in {pending_resume[t].msg : t \in {u \in Thread : pending_resume[u].kind = "Delivered"}}
      BY DEF InTransit, Held
    <2>2. m \in UNION {Held(queues[q]) : q \in Queue} <=> \E q \in Queue : m \in Held(queues[q])
      OBVIOUS
    <2>3. m \in {pending_resume[t].msg : t \in {u \in Thread : pending_resume[u].kind = "Delivered"}}
            <=> \E t \in Thread : pending_resume[t].kind = "Delivered" /\ pending_resume[t].msg = m
      OBVIOUS
    <2> QED BY <2>1, <2>2, <2>3, Zenon
  <1>2. ASSUME NEW m
        PROVE  m \in InTransit' <=> \/ \E q \in Queue : m \in Held(queues'[q])
                                   \/ \E t \in Thread : pending_resume'[t].kind = "Delivered" /\ pending_resume'[t].msg = m
    <2>1. m \in InTransit' <=> \/ m \in UNION {Held(queues'[q]) : q \in Queue}
                             \/ m \in {pending_resume'[t].msg : t \in {u \in Thread : pending_resume'[u].kind = "Delivered"}}
      BY DEF InTransit, Held
    <2>2. m \in UNION {Held(queues'[q]) : q \in Queue} <=> \E q \in Queue : m \in Held(queues'[q])
      OBVIOUS
    <2>3. m \in {pending_resume'[t].msg : t \in {u \in Thread : pending_resume'[u].kind = "Delivered"}}
            <=> \E t \in Thread : pending_resume'[t].kind = "Delivered" /\ pending_resume'[t].msg = m
      OBVIOUS
    <2> QED BY <2>1, <2>2, <2>3, Zenon
  <1> QED BY <1>1, <1>2

LEMMA DeliveredFacts ==
  /\ \A r \in Resumes : r.kind = "Delivered" => r = Delivered(r.msg)
  /\ \A m : Delivered(m).kind = "Delivered" /\ Delivered(m).msg = m /\ Delivered(m) # NoResume
  BY DEF Resumes, Delivered, NoResume, Start, WouldBlock, SendUnblocked, Resume

\* What the queue operations do to it.
LEMMA HeldGrows ==
  ASSUME TypeOK, NEW q \in Queue
  PROVE  /\ Held(ReceiverGone(q)) = Held(queues[q])
         /\ \A w : Held(ReceiverParked(q, w)) = Held(queues[q])
         /\ \A m \in Payload : \A place : Held(Queued(q, m, place)) = Held(queues[q]) \union {m}
         /\ \A m \in Payload : Held(queues[q]) \subseteq Held(Posted(q, m))
         /\ \A w \in QSender : Held(queues[q]) \subseteq Held(SenderParked(q, w))
         /\ ~IsEmpty(q) => Held(queues[q]) \subseteq Held(Received(q)) \union {Head(queues[q].messages)}
  <1> DEFINE r == queues[q]
  <1>0. r \in QueueState /\ r.messages \in Seq(Payload) /\ r.senders \in Seq(QSender)
    BY QueueTypes DEF TypeOK
  <1>1. /\ Held(ReceiverGone(q)) = Held(r) /\ \A w : Held(ReceiverParked(q, w)) = Held(r)
    BY <1>0, QueueExcept DEF ReceiverGone, ReceiverParked, Held
  <1>2. ASSUME NEW ms \in Seq(Payload), NEW m \in Payload, NEW place
        PROVE  ToSet(Put(ms, m, place)) = ToSet(ms) \union {m}
    BY OneMoreElems DEF Put
  <1>3. ASSUME NEW m \in Payload, NEW place PROVE Held(Queued(q, m, place)) = Held(r) \union {m}
    <2>1. Queued(q, m, place) = [capacity |-> r.capacity, messages |-> Put(r.messages, m, place),
                                 receivers |-> r.receivers, senders |-> r.senders]
      BY <1>0, QueueExcept DEF Queued
    <2>2. ToSet(Put(r.messages, m, place)) = ToSet(r.messages) \union {m}
      BY <1>0, <1>2
    <2> QED BY <2>1, <2>2 DEF Held
  <1>4. ASSUME NEW m \in Payload PROVE Held(r) \subseteq Held(Posted(q, m))
    BY <1>3 DEF Posted
  <1>5. ASSUME NEW w \in QSender PROVE Held(r) \subseteq Held(SenderParked(q, w))
    <2>1. SenderParked(q, w) = [capacity |-> r.capacity, messages |-> r.messages,
                                receivers |-> r.receivers, senders |-> Park(r.senders, w)]
      BY <1>0, QueueExcept DEF SenderParked
    <2>2. ToSet(Park(r.senders, w)) = ToSet(r.senders) \union {w}
      <3>1. ToSet(r.senders) \subseteq QSender
        BY <1>0, ToSetFacts
      <3>2. \A v \in QSender : v.pri \in Int
        BY ExecutorAssumption DEF QSender
      <3> QED BY <1>0, <3>1, <3>2, ParkFacts
    <2> QED BY <2>1, <2>2 DEF Held
  <1>6. ASSUME ~IsEmpty(q) PROVE Held(r) \subseteq Held(Received(q)) \union {Head(r.messages)}
    <2>1. Tail(r.messages) \in Seq(Payload) /\ ToSet(r.messages) = ToSet(Tail(r.messages)) \union {Head(r.messages)}
      BY <1>0, <1>6, TailFacts DEF IsEmpty
    <2>2. CASE HasSender(q)
      <3> DEFINE w == Head(r.senders)
      <3>1. w \in QSender /\ ToSet(r.senders) = ToSet(Tail(r.senders)) \union {w}
        BY <1>0, <2>2, TailFacts DEF HasSender
      <3>2. /\ Received(q).messages = Put(Tail(r.messages), w.msg, w.place)
            /\ Received(q).senders = Tail(r.senders)
        BY <2>2 DEF Received, FirstSender
      <3> HIDE DEF w
      <3>3. w.msg \in Payload
        BY <3>1 DEF QSender
      <3>4. ToSet(Received(q).messages) = ToSet(Tail(r.messages)) \union {w.msg}
        <4>1. ToSet(Put(Tail(r.messages), w.msg, w.place)) = ToSet(Tail(r.messages)) \union {w.msg}
          BY <1>2, <2>1, <3>3
        <4> QED BY <3>2, <4>1
      <3> QED BY <2>1, <3>1, <3>2, <3>4 DEF Held
    <2>3. CASE ~HasSender(q)
      <3>1. Received(q) = [capacity |-> r.capacity, messages |-> Tail(r.messages),
                           receivers |-> r.receivers, senders |-> r.senders]
        BY <1>0, <2>3, QueueExcept DEF Received
      <3> QED BY <2>1, <3>1 DEF Held
    <2> QED BY <2>2, <2>3
  <1> QED BY <1>1, <1>3, <1>4, <1>5, <1>6

\* A thread taken off every list takes along what it was sending, no more.
LEMMA UnwaitedHeld ==
  ASSUME TypeOK, Parts, NEW t \in Thread, NEW q \in Queue, NEW m \in Held(queues[q]), m \notin Held(Unwaited(t)[q])
  PROVE  HeldBy(t, m)
  <1>1. /\ Unwaited(t)[q].messages = queues[q].messages
        /\ Unwaited(t)[q].senders = Unpark(queues[q].senders, t)
    BY UnwaitedFacts DEF Unwaited
  <1>2. NoRepeats(WaiterIds(queues[q].senders)) /\ queues[q].senders \in Seq(QSender)
    BY QueueTypes DEF Parts, WaitSound, Distinct
  <1>3. ToSet(Unpark(queues[q].senders, t)) = {w \in ToSet(queues[q].senders) : w.id # t}
    BY <1>2, UnparkFacts
  <1>4. PICK w \in ToSet(queues[q].senders) : w.msg = m
    BY <1>1 DEF Held
  <1>5. w.id = t
    BY <1>1, <1>3, <1>4 DEF Held
  <1> QED BY <1>4, <1>5 DEF HeldBy

\* What a step does to the queues.
LEMMA QueuesStep ==
  ASSUME TypeOK, Parts, Next
  PROVE  \/ queues' = queues
         \/ \E t \in Thread : queues' = Unwaited(t) /\ state'[t] \in {"Stopped", "Dead"}
         \/ \E q \in Queue : \E r : queues' = [queues EXCEPT ![q] = r] /\ Held(queues[q]) \subseteq Held(r)
         \/ \E q \in Queue, t \in Thread : \E r :
              /\ queues' = [queues EXCEPT ![q] = r]
              /\ Held(queues[q]) \subseteq Held(r) \union {Head(queues[q].messages)}
              /\ pending_resume'[t] = Delivered(Head(queues[q].messages))
         \/ \E me \in Thread, q \in Queue, c \in 0..MaxCapacity : CreateMesgQueue(me, q, c)
  <1> DEFINE Left == \E t \in Thread : queues' = Unwaited(t) /\ state'[t] \in {"Stopped", "Dead"}
             More == \E q \in Queue : \E r : queues' = [queues EXCEPT ![q] = r] /\ Held(queues[q]) \subseteq Held(r)
             Read == \E q \in Queue, t \in Thread : \E r :
                       /\ queues' = [queues EXCEPT ![q] = r]
                       /\ Held(queues[q]) \subseteq Held(r) \union {Head(queues[q].messages)}
                       /\ pending_resume'[t] = Delivered(Head(queues[q].messages))
             Fine == queues' = queues \/ Left \/ More \/ Read
  <1>0. /\ state \in [Thread -> ThreadState] /\ priority \in [Thread -> Priority]
        /\ pending_resume \in [Thread -> Resumes]
    BY DEF TypeOK
  <1>1. CASE Dispatch
    BY <1>1 DEF Dispatch
  <1>2. ASSUME NEW me \in Thread, GuestCall(me)
        PROVE  Fine \/ \E q \in Queue, c \in 0..MaxCapacity : CreateMesgQueue(me, q, c)
    <2>1. ASSUME NEW t \in Thread, StopThread(me, t) \/ DestroyThread(me, t) PROVE Left
      BY <1>0, <2>1 DEF StopThread, DestroyThread
    <2>2. ASSUME NEW t \in Thread, NEW p \in Priority, CreateThread(me, t, p) \/ SetThreadPri(me, t, p)
          PROVE  queues' = queues
      BY <2>2 DEF CreateThread, SetThreadPri
    <2>3. ASSUME NEW e \in Event, NEW q \in Queue, SetEventMesg(me, e, q) PROVE queues' = queues
      BY <2>3 DEF SetEventMesg
    <2> QED BY <1>2, <2>1, <2>2, <2>3 DEF GuestCall
  <1>3. ASSUME NEW me \in Thread, GuestSuspend(me) PROVE Fine
    <2>1. CASE YieldThread(me) \/ Checkpoint(me) \/ AcceptInterrupt(me)
      BY <2>1 DEF YieldThread, Checkpoint, AcceptInterrupt
    <2>2. ASSUME NEW t \in Thread, StartThread(me, t) PROVE queues' = queues
      BY <2>2 DEF StartThread, StartStopped, StartUnstopped
    <2>3. CASE PauseSelf(me) \/ Return(me)
      BY <1>0, <2>3 DEF PauseSelf, Return, Suspend
    <2>4. ASSUME NEW q \in Queue, NEW b \in BOOLEAN, RecvMesg(me, q, b) PROVE Fine
      <3>1. CASE ~IsEmpty(q)
        <4>1. queues' = [queues EXCEPT ![q] = Received(q)]
          BY <2>4, <3>1 DEF RecvMesg
        <4>2. Held(queues[q]) \subseteq Held(Received(q)) \union {Head(queues[q].messages)}
          BY <3>1, HeldGrows
        <4>3. pending_resume'[me] = Delivered(Head(queues[q].messages))
          <5>1. CASE ~HasSender(q)
            BY <1>0, <2>4, <3>1, <5>1 DEF RecvMesg
          <5>2. CASE HasSender(q)
            BY <1>0, <2>4, <3>1, <5>2 DEF RecvMesg
          <5> QED BY <5>1, <5>2
        <4> QED BY <4>1, <4>2, <4>3
      <3>2. CASE IsEmpty(q)
        <4> DEFINE w == [id |-> me, pri |-> priority[me]]
        <4>1. queues' = queues \/ queues' = [queues EXCEPT ![q] = ReceiverParked(q, w)]
          BY <2>4, <3>2 DEF RecvMesg
        <4> HIDE DEF w
        <4>2. Held(queues[q]) \subseteq Held(ReceiverParked(q, w))
          BY HeldGrows
        <4> QED BY <4>1, <4>2
      <3> QED BY <3>1, <3>2
    <2>5. ASSUME NEW q \in Queue, NEW m \in Fresh, NEW place \in Placement, NEW b \in BOOLEAN,
                 SendMesg(me, q, m, place, b)
          PROVE  Fine
      <3> DEFINE w == [id |-> me, pri |-> priority[me], msg |-> m, place |-> place]
      <3>0. m \in Payload /\ w \in QSender
        BY <1>0, ResumeTypes DEF QSender
      <3> HIDE DEF w
      <3>1. \/ queues' = queues
            \/ queues' = [queues EXCEPT ![q] = ReceiverGone(q)]
            \/ queues' = [queues EXCEPT ![q] = Queued(q, m, place)]
            \/ queues' = [queues EXCEPT ![q] = SenderParked(q, w)]
        BY <2>5 DEF SendMesg, w
      <3>2. /\ Held(queues[q]) \subseteq Held(ReceiverGone(q))
            /\ Held(queues[q]) \subseteq Held(Queued(q, m, place))
            /\ Held(queues[q]) \subseteq Held(SenderParked(q, w))
        BY <3>0, HeldGrows
      <3> QED BY <3>1, <3>2
    <2>6. ASSUME NEW e \in Event, Fault(me, e) PROVE Fine
      <3> DEFINE q == event_table[e]
      <3>1. CASE q # NoQueue
        <4>1. q \in Queue /\ e \in Payload
          BY <3>1, ResumeTypes DEF TypeOK
        <4>2. queues' = [queues EXCEPT ![q] = ReceiverGone(q)] \/ queues' = [queues EXCEPT ![q] = Posted(q, e)]
          BY <2>6, <3>1 DEF Fault
        <4> HIDE DEF q
        <4>3. Held(queues[q]) \subseteq Held(ReceiverGone(q)) /\ Held(queues[q]) \subseteq Held(Posted(q, e))
          BY <4>1, HeldGrows
        <4> QED BY <4>1, <4>2, <4>3
      <3>2. CASE q = NoQueue
        BY <2>6, <3>2 DEF Fault
      <3> QED BY <3>1, <3>2
    <2> QED BY <1>3, <2>1, <2>2, <2>3, <2>4, <2>5, <2>6 DEF GuestSuspend
  <1>4. ASSUME NEW q \in Queue, NEW m \in Payload, Deliver(q, m) PROVE More
    <2>1. queues' = [queues EXCEPT ![q] = ReceiverGone(q)] \/ queues' = [queues EXCEPT ![q] = Posted(q, m)]
      BY <1>4 DEF Deliver
    <2>2. Held(queues[q]) \subseteq Held(ReceiverGone(q)) /\ Held(queues[q]) \subseteq Held(Posted(q, m))
      BY HeldGrows
    <2> QED BY <2>1, <2>2
  <1>5. ASSUME NEW q \in Queue, NEW m \in Fresh, Post(q, m) PROVE More
    BY <1>4, <1>5, ResumeTypes DEF Post
  <1>6. ASSUME NEW e \in Event, InjectEvent(e) PROVE More
    <2>1. event_table[e] \in Queue /\ e \in Payload
      BY <1>6, ResumeTypes DEF InjectEvent, TypeOK
    <2> QED BY <1>4, <1>6, <2>1 DEF InjectEvent
  <1>7. CASE CommitTimeTarget \/ CommitHostWork
    BY <1>7 DEF CommitTimeTarget, CommitHostWork
  <1> QED BY <1>1, <1>2, <1>3, <1>5, <1>6, <1>7 DEF Next

\* An answer kept for a thread stays until it runs, is stopped or is destroyed.
LEMMA AnswerStays ==
  ASSUME TypeOK, Parts, Next, NEW t \in Thread, pending_resume[t] \notin {NoResume},
         pending_resume'[t] # pending_resume[t]
  PROVE  running' = t \/ state'[t] \in {"Stopped", "Dead"}
  <1> DEFINE Gone == state'[t] \in {"Stopped", "Dead"}
  <1>0. /\ state[t] = "Runnable" /\ state \in [Thread -> ThreadState] /\ pending_resume \in [Thread -> Resumes]
    BY DEF TypeOK, Parts, Sound, ThreadSound
  <1>1. ASSUME NEW me \in Thread, NEW k, CallsNow(me, k) PROVE me # t
    BY <1>0, <1>1, Calling
  <1>2. ASSUME NEW q \in Queue, HasReceiver(q) PROVE FirstReceiver(q) # t
    <2>1. state[FirstReceiver(q)] = "BlockedOnRecv"
      BY <1>2, FirstReceiverFacts
    <2> QED BY <1>0, <2>1
  <1>2s. ASSUME NEW q \in Queue, HasSender(q) PROVE FirstSender(q).id # t
    <2>1. state[FirstSender(q).id] = "BlockedOnSend"
      BY <1>2s, FirstSenderFacts
    <2> QED BY <1>0, <2>1
  <1>3. CASE Dispatch
    BY <1>0, <1>3 DEF Dispatch
  <1>4. ASSUME NEW me \in Thread, GuestCall(me) PROVE Gone
    <2>1. ASSUME NEW v \in Thread, StopThread(me, v) \/ DestroyThread(me, v) PROVE Gone
      BY <1>0, <2>1 DEF StopThread, DestroyThread
    <2>2. ASSUME NEW v \in Thread, NEW p \in Priority, CreateThread(me, v, p) \/ SetThreadPri(me, v, p)
          PROVE  Gone
      BY <2>2 DEF CreateThread, SetThreadPri, runVars
    <2>3. ASSUME NEW q \in Queue, NEW c \in 0..MaxCapacity, CreateMesgQueue(me, q, c) PROVE Gone
      BY <2>3 DEF CreateMesgQueue, runVars
    <2>4. ASSUME NEW e \in Event, NEW q \in Queue, SetEventMesg(me, e, q) PROVE Gone
      BY <2>4 DEF SetEventMesg, runVars
    <2> QED BY <1>4, <2>1, <2>2, <2>3, <2>4 DEF GuestCall
  <1>5. ASSUME NEW me \in Thread, GuestSuspend(me) PROVE FALSE
    <2>0. PICK k : CallsNow(me, k)
      BY <1>5 DEF GuestSuspend, YieldThread, StartThread, StartStopped, StartUnstopped, PauseSelf,
                  Checkpoint, AcceptInterrupt, Return, RecvMesg, SendMesg, Fault
    <2>1. me # t
      BY <1>1, <2>0
    <2>2. CASE YieldThread(me) \/ PauseSelf(me) \/ Checkpoint(me) \/ AcceptInterrupt(me) \/ Return(me)
      BY <1>0, <2>1, <2>2 DEF YieldThread, PauseSelf, Checkpoint, AcceptInterrupt, Return
    <2>3. ASSUME NEW v \in Thread, StartThread(me, v) PROVE FALSE
      BY <1>0, <2>3 DEF StartThread, StartStopped, StartUnstopped, runVars
    <2>4. ASSUME NEW q \in Queue, NEW b \in BOOLEAN, RecvMesg(me, q, b) PROVE FALSE
      <3>1. CASE ~IsEmpty(q) /\ HasSender(q)
        <4>1. FirstSender(q).id # t
          BY <1>2s, <3>1
        <4> QED BY <1>0, <2>1, <2>4, <3>1, <4>1 DEF RecvMesg
      <3>2. CASE IsEmpty(q) \/ ~HasSender(q)
        BY <1>0, <2>1, <2>4, <3>2 DEF RecvMesg
      <3> QED BY <3>1, <3>2
    <2>5. ASSUME NEW q \in Queue, NEW m \in Fresh, NEW place \in Placement, NEW b \in BOOLEAN,
                 SendMesg(me, q, m, place, b)
          PROVE  FALSE
      <3>1. CASE HasReceiver(q)
        <4>1. FirstReceiver(q) # t
          BY <1>2, <3>1
        <4> QED BY <1>0, <2>1, <2>5, <3>1, <4>1 DEF SendMesg
      <3>2. CASE ~HasReceiver(q)
        BY <1>0, <2>1, <2>5, <3>2 DEF SendMesg
      <3> QED BY <3>1, <3>2
    <2>6. ASSUME NEW e \in Event, Fault(me, e) PROVE FALSE
      <3> DEFINE q == event_table[e]
      <3>1. CASE q # NoQueue /\ HasReceiver(q)
        <4>1. q \in Queue
          BY <3>1 DEF TypeOK
        <4> HIDE DEF q
        <4>2. FirstReceiver(q) # t
          BY <1>2, <3>1, <4>1
        <4> QED BY <1>0, <2>1, <2>6, <3>1, <4>2 DEF Fault, q
      <3>2. CASE q = NoQueue \/ ~HasReceiver(q)
        BY <1>0, <2>1, <2>6, <3>2 DEF Fault
      <3> QED BY <3>1, <3>2
    <2> QED BY <1>5, <2>2, <2>3, <2>4, <2>5, <2>6 DEF GuestSuspend
  <1>6. ASSUME NEW q \in Queue, NEW m, Deliver(q, m) PROVE FALSE
    <2>1. CASE HasReceiver(q)
      <3>1. FirstReceiver(q) # t
        BY <1>2, <2>1
      <3> QED BY <1>0, <1>6, <2>1, <3>1 DEF Deliver
    <2>2. CASE ~HasReceiver(q)
      BY <1>6, <2>2 DEF Deliver
    <2> QED BY <2>1, <2>2
  <1>7. ASSUME NEW e \in Event, InjectEvent(e) PROVE FALSE
    <2>1. event_table[e] \in Queue
      BY <1>7 DEF InjectEvent, TypeOK
    <2> QED BY <1>6, <1>7, <2>1 DEF InjectEvent
  <1>8. ASSUME NEW q \in Queue, NEW m \in Fresh, Post(q, m) PROVE FALSE
    BY <1>6, <1>8 DEF Post
  <1>9. CASE CommitTimeTarget \/ CommitHostWork
    BY <1>9 DEF CommitTimeTarget, CommitHostWork, runVars
  <1> QED BY <1>3, <1>4, <1>5, <1>7, <1>8, <1>9 DEF Next

\* A token leaves only where the property says.
LEMMA LossStep ==
  ASSUME TypeOK, Parts, Next, NEW m \in InTransit \ InTransit'
  PROVE  \/ \E t \in Thread : pending_resume[t] = Delivered(m) /\ running' = t
         \/ \E t \in Thread : HeldBy(t, m) /\ state'[t] \in {"Stopped", "Dead"}
         \/ \E me \in Thread, q \in Queue, c \in 0..MaxCapacity : CreateMesgQueue(me, q, c)
  <1>0. pending_resume \in [Thread -> Resumes] /\ queues \in [Queue -> QueueState]
    BY DEF TypeOK
  <1>1. /\ \A q \in Queue : m \notin Held(queues'[q])
        /\ \A t \in Thread : pending_resume'[t] # Delivered(m)
    BY TransitFacts, DeliveredFacts
  <1>2. ASSUME NEW t \in Thread, pending_resume[t].kind = "Delivered", pending_resume[t].msg = m
        PROVE  pending_resume[t] = Delivered(m) /\ (running' = t \/ state'[t] \in {"Stopped", "Dead"})
    <2>1. pending_resume[t] = Delivered(m) /\ pending_resume[t] # NoResume
      BY <1>0, <1>2, DeliveredFacts
    <2>2. pending_resume'[t] # pending_resume[t]
      BY <1>1, <2>1
    <2> QED BY <2>1, <2>2, AnswerStays
  <1>3. ASSUME NEW q \in Queue, m \in Held(queues[q])
        PROVE  \/ \E t \in Thread : HeldBy(t, m) /\ state'[t] \in {"Stopped", "Dead"}
               \/ \E me \in Thread, p \in Queue, c \in 0..MaxCapacity : CreateMesgQueue(me, p, c)
    <2>0. m \notin Held(queues'[q])
      BY <1>1
    <2>1. CASE queues' = queues
      BY <1>3, <2>0, <2>1
    <2>2. ASSUME NEW t \in Thread, queues' = Unwaited(t), state'[t] \in {"Stopped", "Dead"} PROVE HeldBy(t, m)
      BY <1>3, <2>0, <2>2, UnwaitedHeld
    <2>3. ASSUME NEW p \in Queue, NEW r, queues' = [queues EXCEPT ![p] = r], Held(queues[p]) \subseteq Held(r)
          PROVE  FALSE
      <3>1. queues'[q] = IF p = q THEN r ELSE queues[q]
        BY <1>0, <2>3
      <3> QED BY <1>3, <2>0, <2>3, <3>1
    <2>4. ASSUME NEW p \in Queue, NEW t \in Thread, NEW r, queues' = [queues EXCEPT ![p] = r],
                 Held(queues[p]) \subseteq Held(r) \union {Head(queues[p].messages)},
                 pending_resume'[t] = Delivered(Head(queues[p].messages))
          PROVE  FALSE
      <3>1. queues'[q] = IF p = q THEN r ELSE queues[q]
        BY <1>0, <2>4
      <3>2. p = q /\ m = Head(queues[p].messages)
        BY <1>3, <2>0, <2>4, <3>1
      <3> QED BY <1>1, <2>4, <3>2
    <2> QED BY <2>1, <2>2, <2>3, <2>4, QueuesStep
  <1> QED BY <1>2, <1>3, TransitFacts DEF HeldBy

\* Under a disciplined workload a message that was sent leaves the system only
\* with the thread that runs with it, with a thread that is stopped or destroyed
\* while it holds it, or with a queue that is re-created.
THEOREM SentIsNotLost ==
  ASSUME Disciplined
  PROVE  Spec => NoSilentLoss
  <1> DEFINE A == \A m \in Msg \cap (InTransit \ InTransit') :
                    \/ \E t \in Thread : pending_resume[t] = Delivered(m) /\ running' = t
                    \/ \E t \in Thread : HeldBy(t, m) /\ state'[t] \in {"Stopped", "Dead"}
                    \/ \E me \in Thread, q \in Queue, c \in 0..MaxCapacity : CreateMesgQueue(me, q, c)
             I == TypeOK /\ NoLostWakeup /\ Control
  <1>1. Init => I
    BY InitTypes, TypeParts, InitParts, ControlParts
  <1>2. (TypeOK => (Control <=> Parts))'
    BY ControlParts, PTL
  <1>3. I /\ [Next]_vars => I'
    BY <1>2, StepTypesOK, StepParts, ControlParts
  <1>4. I /\ [Next]_vars => [A]_vars
    BY LossStep, ControlParts
  <1> QED BY <1>1, <1>3, <1>4, PTL DEF Spec, NoSilentLoss


-----------------------------------------------------------------------------
(***************************************************************************)
(* The executor's queue is the double-ended list.                          *)
(***************************************************************************)
\* The program has one queue.
OneQueue == Queue = {TheQueue}

\* The answers among what is kept for the threads: Start is none.
Answering == {"Delivered", "SendUnblocked", "WouldBlock"}
Kept(pr) == [t \in Thread |-> IF pr[t].kind \in Answering THEN pr[t] ELSE NoResume]

\* The two modules' helpers and answers are the same ones.
LEMMA SameHelpers ==
  /\ \A ws, w : Deque!Park(ws, w) = Park(ws, w)
  /\ \A ws, t : Deque!Unpark(ws, t) = Unpark(ws, t)
  /\ \A ms, m, p : Deque!Put(ms, m, p) = Put(ms, m, p)
  /\ Deque!NoAnswer = NoResume /\ Deque!WouldBlock = WouldBlock
  /\ Deque!SendUnblocked = SendUnblocked /\ \A m : Deque!Delivered(m) = Delivered(m)
  /\ Deque!Placement = Placement
  /\ Deque!Waiting = AllIds(queues[TheQueue])
  /\ Kept(pending_resume) = [t \in Thread |-> IF Answered(t) THEN pending_resume[t] ELSE NoResume]
  <1>1. \A ws, w : Deque!Park(ws, w) = Park(ws, w)
    BY DEF Deque!Park, Deque!PriorityInsert, Deque!InsertIndex, Deque!FirstIn, Deque!Priorities,
           Deque!InsertAt, Park, PriorityInsert, InsertIndex, FirstIn, Priorities, InsertAt
  <1>2. \A ws, t : Deque!Unpark(ws, t) = Unpark(ws, t)
    BY DEF Deque!Unpark, Deque!RemoveAt, Unpark, RemoveAt
  <1>3. \A ms, m, p : Deque!Put(ms, m, p) = Put(ms, m, p)
    BY DEF Deque!Put, Put
  <1>4. /\ Deque!NoAnswer = NoResume /\ Deque!WouldBlock = WouldBlock
        /\ Deque!SendUnblocked = SendUnblocked /\ \A m : Deque!Delivered(m) = Delivered(m)
        /\ Deque!Placement = Placement
    BY DEF Deque!NoAnswer, NoResume, Deque!WouldBlock, WouldBlock, Deque!SendUnblocked, SendUnblocked,
           Deque!Delivered, Delivered, Deque!Answer, Resume, Deque!Placement, Placement
  <1>5. Deque!Waiting = AllIds(queues[TheQueue])
    BY DEF Deque!Waiting, Deque!WaiterIds, Deque!ToSet, AllIds, Ids, ToSet, WaiterIds
  <1>6. Kept(pending_resume) = [t \in Thread |-> IF Answered(t) THEN pending_resume[t] ELSE NoResume]
    BY DEF Kept, Answering, Answered
  <1> QED BY <1>1, <1>2, <1>3, <1>4, <1>5, <1>6

\* Giving an answer, taking one back, and keeping what is no answer.
LEMMA KeptGiven ==
  ASSUME NEW pr \in [Thread -> Resumes], NEW t \in Thread, NEW a, a.kind \in Answering,
         NEW r, r = [pr EXCEPT ![t] = a]
  PROVE  Kept(r) = [Kept(pr) EXCEPT ![t] = a]
  BY DEF Kept

LEMMA KeptTaken ==
  ASSUME NEW pr \in [Thread -> Resumes], NEW t \in Thread, NEW r, r = [pr EXCEPT ![t] = NoResume]
  PROVE  Kept(r) = [Kept(pr) EXCEPT ![t] = NoResume]
  BY DEF Kept

LEMMA KeptOther ==
  ASSUME NEW pr \in [Thread -> Resumes], NEW t \in Thread, NEW a, NEW r, r = [pr EXCEPT ![t] = a],
         pr[t].kind \notin Answering, a.kind \notin Answering
  PROVE  Kept(r) = Kept(pr)
  BY DEF Kept

\* The answers, and what is no answer.
LEMMA AnswerKinds ==
  /\ NoResume.kind \notin Answering /\ Start.kind \notin Answering
  /\ WouldBlock.kind \in Answering /\ SendUnblocked.kind \in Answering
  /\ \A m : Delivered(m).kind \in Answering
  BY ResumeKinds DEF Answering

\* The fields of a queue that is written out.
LEMMA WrittenOut ==
  ASSUME NEW r, NEW c, NEW ms, NEW rs, NEW ss,
         r = [capacity |-> c, messages |-> ms, receivers |-> rs, senders |-> ss]
  PROVE  r.capacity = c /\ r.messages = ms /\ r.receivers = rs /\ r.senders = ss
  OBVIOUS

\* What is on record of the queue and the answers now, and after the step.
LEMMA Given ==
  /\ Kept(pending_resume) = [t \in Thread |-> IF Answered(t) THEN pending_resume[t] ELSE NoResume]
  /\ Kept(pending_resume') = [t \in Thread |-> IF Answered(t) THEN pending_resume[t] ELSE NoResume]'
  BY DEF Kept, Answering, Answered

\* A step that leaves the queue and the answers alone.
LEMMA DequeSame ==
  ASSUME queues' = queues, Kept(pending_resume') = Kept(pending_resume)
  PROVE  UNCHANGED Deque!dvars
  BY DEF Deque!dvars, Kept, Answering, Answered

\* The queue after a step that replaces it.
LEMMA TheQueueReplaced ==
  ASSUME TypeOK, OneQueue, NEW r, queues' = [queues EXCEPT ![TheQueue] = r]
  PROVE  queues'[TheQueue] = r
  BY DEF TypeOK, OneQueue

\* The calling thread neither waits nor has an answer to pick up.
LEMMA CallerIsReady ==
  ASSUME TypeOK, Parts, OneQueue, NEW me \in Thread, NEW k, CallsNow(me, k)
  PROVE  Deque!Ready(me)
  <1>1. state[me] = "Running" /\ pending_resume[me] = NoResume
    BY Calling
  <1>2. me \notin AllIds(queues[TheQueue])
    BY <1>1 DEF Parts, WaitSound, AllIds, OneQueue
  <1>3. Kept(pending_resume)[me] = NoResume
    BY <1>1, AnswerKinds DEF Kept
  <1> QED BY <1>2, <1>3, SameHelpers DEF Deque!Ready

\* What a handed-over, a queued and a parked message leave.
LEMMA QueueLeft ==
  ASSUME TypeOK, NEW q \in Queue, NEW r
  PROVE  /\ HasReceiver(q) /\ r = ReceiverGone(q) =>
              /\ r.capacity = queues[q].capacity /\ r.messages = queues[q].messages
              /\ r.receivers = Tail(queues[q].receivers) /\ r.senders = queues[q].senders
         /\ \A m, place : r = Queued(q, m, place) =>
              /\ r.capacity = queues[q].capacity /\ r.messages = Put(queues[q].messages, m, place)
              /\ r.receivers = queues[q].receivers /\ r.senders = queues[q].senders
         /\ \A w \in QReceiver : r = ReceiverParked(q, w) =>
              /\ r.capacity = queues[q].capacity /\ r.messages = queues[q].messages
              /\ r.receivers = Park(queues[q].receivers, w) /\ r.senders = queues[q].senders
         /\ \A w \in QSender : r = SenderParked(q, w) =>
              /\ r.capacity = queues[q].capacity /\ r.messages = queues[q].messages
              /\ r.receivers = queues[q].receivers /\ r.senders = Park(queues[q].senders, w)
  <1>1. queues[q] \in QueueState
    BY QueueTypes DEF Fits
  <1>2. ASSUME HasReceiver(q), r = ReceiverGone(q)
        PROVE  /\ r.capacity = queues[q].capacity /\ r.messages = queues[q].messages
               /\ r.receivers = Tail(queues[q].receivers) /\ r.senders = queues[q].senders
    <2>1. r = [capacity |-> queues[q].capacity, messages |-> queues[q].messages,
               receivers |-> Tail(queues[q].receivers), senders |-> queues[q].senders]
      BY <1>2, ReceiverGoneFacts
    <2> QED BY <2>1, WrittenOut
  <1>3. ASSUME NEW m, NEW place, r = Queued(q, m, place)
        PROVE  /\ r.capacity = queues[q].capacity /\ r.messages = Put(queues[q].messages, m, place)
               /\ r.receivers = queues[q].receivers /\ r.senders = queues[q].senders
    <2>1. r = [capacity |-> queues[q].capacity, messages |-> Put(queues[q].messages, m, place),
               receivers |-> queues[q].receivers, senders |-> queues[q].senders]
      BY <1>1, <1>3, QueueExcept DEF Queued
    <2> QED BY <2>1, WrittenOut
  <1>4. ASSUME NEW w \in QReceiver, r = ReceiverParked(q, w)
        PROVE  /\ r.capacity = queues[q].capacity /\ r.messages = queues[q].messages
               /\ r.receivers = Park(queues[q].receivers, w) /\ r.senders = queues[q].senders
    <2>1. r = [capacity |-> queues[q].capacity, messages |-> queues[q].messages,
               receivers |-> Park(queues[q].receivers, w), senders |-> queues[q].senders]
      BY <1>4, ReceiverParkedFacts
    <2> QED BY <2>1, WrittenOut
  <1>5. ASSUME NEW w \in QSender, r = SenderParked(q, w)
        PROVE  /\ r.capacity = queues[q].capacity /\ r.messages = queues[q].messages
               /\ r.receivers = queues[q].receivers /\ r.senders = Park(queues[q].senders, w)
    <2>1. r = [capacity |-> queues[q].capacity, messages |-> queues[q].messages,
               receivers |-> queues[q].receivers, senders |-> Park(queues[q].senders, w)]
      BY <1>5, SenderParkedFacts
    <2> QED BY <2>1, WrittenOut
  <1> QED BY <1>2, <1>3, <1>4, <1>5

\* A handed-over message takes the first receiver off the list.
LEMMA HandedOver ==
  ASSUME TypeOK, OneQueue, HasReceiver(TheQueue),
         queues' = [queues EXCEPT ![TheQueue] = ReceiverGone(TheQueue)]
  PROVE  /\ queues[TheQueue].receivers # <<>>
         /\ queues'[TheQueue].capacity = queues[TheQueue].capacity
         /\ queues'[TheQueue].messages = queues[TheQueue].messages
         /\ queues'[TheQueue].receivers = Tail(queues[TheQueue].receivers)
         /\ queues'[TheQueue].senders = queues[TheQueue].senders
  <1>1. TheQueue \in Queue
    BY DEF OneQueue
  <1>2. queues'[TheQueue] = ReceiverGone(TheQueue)
    BY TheQueueReplaced
  <1> QED BY <1>1, <1>2, QueueLeft DEF HasReceiver

\* A message nobody waits for is queued, or dropped by a full queue.
LEMMA QueuedOrDropped ==
  ASSUME TypeOK, OneQueue, NEW m \in Payload, ~HasReceiver(TheQueue),
         queues' = [queues EXCEPT ![TheQueue] = Posted(TheQueue, m)],
         Kept(pending_resume') = Kept(pending_resume)
  PROVE  Deque!Post(m)
  <1>0. TheQueue \in Queue
    BY DEF OneQueue
  <1>1. queues'[TheQueue] = Posted(TheQueue, m)
    BY TheQueueReplaced
  <1>2. /\ queues'[TheQueue].capacity = queues[TheQueue].capacity
        /\ queues'[TheQueue].receivers = queues[TheQueue].receivers
        /\ queues'[TheQueue].senders = queues[TheQueue].senders
    BY <1>0, <1>1, PostedFacts
  <1>3. queues'[TheQueue].messages =
          IF Len(queues[TheQueue].messages) < queues[TheQueue].capacity
          THEN Append(queues[TheQueue].messages, m) ELSE queues[TheQueue].messages
    <2>1. Fits(queues[TheQueue]) /\ Len(queues[TheQueue].messages) \in Nat /\ queues[TheQueue].capacity \in Int
      BY <1>0, QueueTypes
    <2>2. IsFull(TheQueue) <=> ~(Len(queues[TheQueue].messages) < queues[TheQueue].capacity)
      BY <2>1 DEF IsFull, Fits
    <2>3. ~IsFull(TheQueue) => Posted(TheQueue, m).messages = Append(queues[TheQueue].messages, m)
      BY <2>1, QueueExcept DEF Posted, Queued, Put, Fits
    <2>4. IsFull(TheQueue) => Posted(TheQueue, m).messages = queues[TheQueue].messages
      BY DEF Posted
    <2> QED BY <1>1, <2>2, <2>3, <2>4
  <1>4. queues[TheQueue].receivers = <<>>
    BY DEF HasReceiver
  <1> QED BY <1>2, <1>3, <1>4, Given DEF Deque!Post

\* A post is a post.
LEMMA DeliverMaps ==
  ASSUME TypeOK, Parts, OneQueue, NEW m \in Payload, Deliver(TheQueue, m)
  PROVE  Deque!Post(m)
  <1> DEFINE w == FirstReceiver(TheQueue)
  <1>0. TheQueue \in Queue
    BY DEF OneQueue
  <1>a. pending_resume \in [Thread -> Resumes]
    BY DEF TypeOK
  <1>1. CASE /\ HasReceiver(TheQueue)
             /\ queues' = [queues EXCEPT ![TheQueue] = ReceiverGone(TheQueue)]
             /\ pending_resume' = [pending_resume EXCEPT ![w] = Delivered(m)]
    <2>1. w \in Thread
      BY <1>0, <1>1, FirstReceiverFacts
    <2> HIDE DEF w
    <2>2. Kept(pending_resume') = [Kept(pending_resume) EXCEPT ![w] = Delivered(m)]
      BY <1>1, <1>a, <2>1, KeptGiven, AnswerKinds
    <2>3. Deque!HandOver(m, [t \in Thread |-> IF Answered(t) THEN pending_resume[t] ELSE NoResume])
      BY <1>1, <2>2, HandedOver, SameHelpers, Given DEF Deque!HandOver, FirstReceiver, w
    <2> QED BY <2>3 DEF Deque!Post
  <1>2. CASE /\ ~HasReceiver(TheQueue)
             /\ queues' = [queues EXCEPT ![TheQueue] = Posted(TheQueue, m)]
             /\ pending_resume' = pending_resume
    <2>1. Kept(pending_resume') = Kept(pending_resume)
      BY <1>2
    <2> QED BY <1>2, <2>1, QueuedOrDropped
  <1> QED BY <1>1, <1>2 DEF Deliver

\* Sending is sending.
LEMMA SendMaps ==
  ASSUME TypeOK, Parts, OneQueue, NEW me \in Thread, NEW m \in Payload, NEW place \in Placement,
         NEW b \in BOOLEAN, SendMesg(me, TheQueue, m, place, b)
  PROVE  Deque!Send(me, m, priority[me], place, b)
  <1> DEFINE q == queues[TheQueue]
             w == FirstReceiver(TheQueue)
             s == [id |-> me, pri |-> priority[me], msg |-> m, place |-> place]
  <1>0. TheQueue \in Queue
    BY DEF OneQueue
  <1>1. CallsNow(me, SendCall(place, b))
    BY DEF SendMesg
  <1>2. Deque!Ready(me)
    BY <1>1, CallerIsReady
  <1>3. Fits(q) /\ Len(q.messages) \in Nat /\ q.capacity \in Int
    BY <1>0, QueueTypes
  <1>4. pending_resume \in [Thread -> Resumes]
    BY DEF TypeOK
  <1>5. CASE /\ HasReceiver(TheQueue)
             /\ queues' = [queues EXCEPT ![TheQueue] = ReceiverGone(TheQueue)]
             /\ pending_resume' = [pending_resume EXCEPT ![w] = Delivered(m), ![me] = SendUnblocked]
    <2>1. w \in Thread /\ w # me
      BY <1>0, <1>1, <1>5, Calling, FirstReceiverFacts
    <2> HIDE DEF w
    <2> DEFINE pr == [pending_resume EXCEPT ![me] = SendUnblocked]
    <2>2. pr \in [Thread -> Resumes] /\ pending_resume' = [pr EXCEPT ![w] = Delivered(m)]
      BY <1>4, <1>5, <2>1, ResumeTypes
    <2>3. Kept(pr) = [Kept(pending_resume) EXCEPT ![me] = SendUnblocked]
      BY <1>4, KeptGiven, AnswerKinds
    <2> HIDE DEF pr
    <2>4. Kept(pending_resume') = [Kept(pr) EXCEPT ![w] = Delivered(m)]
      BY <2>1, <2>2, KeptGiven, AnswerKinds
    <2>5. Deque!HandOver(m, [[t \in Thread |-> IF Answered(t) THEN pending_resume[t] ELSE NoResume]
                               EXCEPT ![me] = Deque!SendUnblocked])
      BY <1>5, <2>3, <2>4, HandedOver, SameHelpers, Given DEF Deque!HandOver, FirstReceiver, w
    <2> QED BY <1>2, <2>5 DEF Deque!Send
  <1>6. CASE /\ ~HasReceiver(TheQueue) /\ ~IsFull(TheQueue)
             /\ queues' = [queues EXCEPT ![TheQueue] = Queued(TheQueue, m, place)]
             /\ pending_resume' = [pending_resume EXCEPT ![me] = SendUnblocked]
    <2>1. queues'[TheQueue] = Queued(TheQueue, m, place)
      BY <1>6, TheQueueReplaced
    <2>2. /\ queues'[TheQueue].capacity = q.capacity
          /\ queues'[TheQueue].messages = Put(q.messages, m, place)
          /\ queues'[TheQueue].receivers = q.receivers
          /\ queues'[TheQueue].senders = q.senders
      BY <1>0, <2>1, QueueLeft
    <2>3. q.receivers = <<>> /\ Len(q.messages) < q.capacity
      BY <1>3, <1>6 DEF HasReceiver, IsFull, Fits
    <2>4. Kept(pending_resume') = [Kept(pending_resume) EXCEPT ![me] = SendUnblocked]
      BY <1>4, <1>6, KeptGiven, AnswerKinds
    <2> HIDE DEF w, s
    <2> QED BY <1>2, <2>2, <2>3, <2>4, SameHelpers, Given DEF Deque!Send
  <1>7. CASE /\ ~HasReceiver(TheQueue) /\ IsFull(TheQueue) /\ b
             /\ queues' = [queues EXCEPT ![TheQueue] = SenderParked(TheQueue, s)]
             /\ pending_resume' = pending_resume
    <2>1. s \in QSender
      BY DEF QSender, TypeOK
    <2> HIDE DEF s
    <2>a. queues'[TheQueue] = SenderParked(TheQueue, s)
      BY <1>7, TheQueueReplaced
    <2>2. /\ queues'[TheQueue].capacity = q.capacity
          /\ queues'[TheQueue].messages = q.messages
          /\ queues'[TheQueue].receivers = q.receivers
          /\ queues'[TheQueue].senders = Park(q.senders, s)
      BY <1>0, <2>1, <2>a, QueueLeft
    <2>3. q.receivers = <<>> /\ Len(q.messages) = q.capacity
      BY <1>7 DEF HasReceiver, IsFull
    <2>4. Kept(pending_resume') = Kept(pending_resume)
      BY <1>7 DEF Kept
    <2>5. queues'[TheQueue].senders =
            Deque!Park(q.senders, [id |-> me, pri |-> priority[me], msg |-> m, place |-> place])
      BY <2>2, SameHelpers DEF s
    <2> QED BY <1>2, <1>7, <2>2, <2>3, <2>4, <2>5, SameHelpers, Given DEF Deque!Send
  <1>8. CASE /\ ~HasReceiver(TheQueue) /\ IsFull(TheQueue) /\ ~b
             /\ queues' = queues
             /\ pending_resume' = [pending_resume EXCEPT ![me] = WouldBlock]
    <2>1. q.receivers = <<>> /\ Len(q.messages) = q.capacity
      BY <1>8 DEF HasReceiver, IsFull
    <2>2. Kept(pending_resume') = [Kept(pending_resume) EXCEPT ![me] = WouldBlock]
      BY <1>4, <1>8, KeptGiven, AnswerKinds
    <2> HIDE DEF w, s
    <2> QED BY <1>2, <1>8, <2>1, <2>2, SameHelpers, Given DEF Deque!Send
  <1> QED BY <1>5, <1>6, <1>7, <1>8 DEF SendMesg

\* What a received message leaves of the queue.
LEMMA ReceivedLeft ==
  ASSUME TypeOK, NEW q \in Queue, NEW r, r = Received(q)
  PROVE  /\ r.capacity = queues[q].capacity /\ r.receivers = queues[q].receivers
         /\ HasSender(q) =>
              /\ r.messages = Put(Tail(queues[q].messages), FirstSender(q).msg, FirstSender(q).place)
              /\ r.senders = Tail(queues[q].senders)
         /\ ~HasSender(q) =>
              r.messages = Tail(queues[q].messages) /\ r.senders = queues[q].senders
  <1>1. queues[q] \in QueueState
    BY QueueTypes DEF Fits
  <1>2. CASE HasSender(q)
    <2>1. r = [capacity |-> queues[q].capacity,
               messages |-> Put(Tail(queues[q].messages), FirstSender(q).msg, FirstSender(q).place),
               receivers |-> queues[q].receivers, senders |-> Tail(queues[q].senders)]
      BY <1>2 DEF Received
    <2> QED BY <1>2, <2>1, WrittenOut
  <1>3. CASE ~HasSender(q)
    <2>1. r = [capacity |-> queues[q].capacity, messages |-> Tail(queues[q].messages),
               receivers |-> queues[q].receivers, senders |-> queues[q].senders]
      BY <1>1, <1>3, QueueExcept DEF Received
    <2> QED BY <1>3, <2>1, WrittenOut
  <1> QED BY <1>2, <1>3

\* Receiving is receiving.
LEMMA RecvMaps ==
  ASSUME TypeOK, Parts, OneQueue, NEW me \in Thread, NEW b \in BOOLEAN, RecvMesg(me, TheQueue, b)
  PROVE  Deque!Recv(me, priority[me], b)
  <1> DEFINE q == queues[TheQueue]
             w == FirstSender(TheQueue).id
             s == [id |-> me, pri |-> priority[me]]
             d == Delivered(Head(q.messages))
  <1>0. TheQueue \in Queue
    BY DEF OneQueue
  <1>1. CallsNow(me, IF b THEN "Recv" ELSE "TryRecv")
    BY DEF RecvMesg
  <1>2. Deque!Ready(me)
    BY <1>1, CallerIsReady
  <1>3. pending_resume \in [Thread -> Resumes]
    BY DEF TypeOK
  <1>4. CASE /\ ~IsEmpty(TheQueue) /\ ~HasSender(TheQueue)
             /\ queues' = [queues EXCEPT ![TheQueue] = Received(TheQueue)]
             /\ pending_resume' = [pending_resume EXCEPT ![me] = d]
    <2>1. queues'[TheQueue] = Received(TheQueue)
      BY <1>4, TheQueueReplaced
    <2>2. /\ queues'[TheQueue].capacity = q.capacity
          /\ queues'[TheQueue].messages = Tail(q.messages)
          /\ queues'[TheQueue].receivers = q.receivers
          /\ queues'[TheQueue].senders = q.senders
      BY <1>0, <1>4, <2>1, ReceivedLeft
    <2>3. q.messages # <<>> /\ q.senders = <<>>
      BY <1>4 DEF IsEmpty, HasSender
    <2>4. Kept(pending_resume') = [Kept(pending_resume) EXCEPT ![me] = d]
      BY <1>3, <1>4, KeptGiven, AnswerKinds
    <2> HIDE DEF w, s
    <2> QED BY <1>2, <2>2, <2>3, <2>4, SameHelpers, Given DEF Deque!Recv
  <1>5. CASE /\ ~IsEmpty(TheQueue) /\ HasSender(TheQueue)
             /\ queues' = [queues EXCEPT ![TheQueue] = Received(TheQueue)]
             /\ pending_resume' = [pending_resume EXCEPT ![w] = SendUnblocked, ![me] = d]
    <2>1. w \in Thread /\ w # me
      BY <1>0, <1>1, <1>5, Calling, FirstSenderFacts
    <2>2. queues'[TheQueue] = Received(TheQueue)
      BY <1>5, TheQueueReplaced
    <2>3. /\ queues'[TheQueue].capacity = q.capacity
          /\ queues'[TheQueue].messages =
               Put(Tail(q.messages), FirstSender(TheQueue).msg, FirstSender(TheQueue).place)
          /\ queues'[TheQueue].receivers = q.receivers
          /\ queues'[TheQueue].senders = Tail(q.senders)
      BY <1>0, <1>5, <2>2, ReceivedLeft
    <2>4. q.messages # <<>> /\ q.senders # <<>>
      BY <1>5 DEF IsEmpty, HasSender
    <2> DEFINE pr == [pending_resume EXCEPT ![w] = SendUnblocked]
    <2> HIDE DEF w
    <2>5. pr \in [Thread -> Resumes] /\ pending_resume' = [pr EXCEPT ![me] = d]
      BY <1>3, <1>5, <2>1, ResumeTypes
    <2>6. Kept(pr) = [Kept(pending_resume) EXCEPT ![w] = SendUnblocked]
      BY <1>3, <2>1, KeptGiven, AnswerKinds
    <2> HIDE DEF pr
    <2>7. Kept(pending_resume') = [Kept(pr) EXCEPT ![me] = d]
      BY <2>5, KeptGiven, AnswerKinds
    <2>8. Kept(pending_resume') = [Kept(pending_resume) EXCEPT ![me] = d, ![w] = SendUnblocked]
      <3> HIDE DEF d
      <3>1. DOMAIN Kept(pending_resume) = Thread
        BY DEF Kept
      <3> QED BY <2>1, <2>6, <2>7, <3>1
    <2>9. Head(q.senders).id = w /\ FirstSender(TheQueue) = Head(q.senders)
      BY DEF FirstSender, w
    <2> HIDE DEF s
    <2> QED BY <1>2, <2>3, <2>4, <2>8, <2>9, SameHelpers, Given DEF Deque!Recv
  <1>6. CASE /\ IsEmpty(TheQueue) /\ b
             /\ queues' = [queues EXCEPT ![TheQueue] = ReceiverParked(TheQueue, s)]
             /\ pending_resume' = pending_resume
    <2>1. s \in QReceiver
      BY DEF QReceiver, TypeOK
    <2> HIDE DEF s
    <2>2. queues'[TheQueue] = ReceiverParked(TheQueue, s)
      BY <1>6, TheQueueReplaced
    <2>3. /\ queues'[TheQueue].capacity = q.capacity
          /\ queues'[TheQueue].messages = q.messages
          /\ queues'[TheQueue].receivers = Park(q.receivers, s)
          /\ queues'[TheQueue].senders = q.senders
      BY <1>0, <2>1, <2>2, QueueLeft
    <2>4. q.messages = <<>>
      BY <1>6 DEF IsEmpty
    <2>5. Kept(pending_resume') = Kept(pending_resume)
      BY <1>6
    <2>6. queues'[TheQueue].receivers = Deque!Park(q.receivers, [id |-> me, pri |-> priority[me]])
      BY <2>3, SameHelpers DEF s
    <2> HIDE DEF w, d
    <2> QED BY <1>2, <1>6, <2>3, <2>4, <2>5, <2>6, Given DEF Deque!Recv
  <1>7. CASE /\ IsEmpty(TheQueue) /\ ~b
             /\ queues' = queues
             /\ pending_resume' = [pending_resume EXCEPT ![me] = WouldBlock]
    <2>1. q.messages = <<>>
      BY <1>7 DEF IsEmpty
    <2>2. Kept(pending_resume') = [Kept(pending_resume) EXCEPT ![me] = WouldBlock]
      BY <1>3, <1>7, KeptGiven, AnswerKinds
    <2> HIDE DEF w, s, d
    <2> QED BY <1>2, <1>7, <2>1, <2>2, SameHelpers, Given DEF Deque!Recv
  <1> QED BY <1>4, <1>5, <1>6, <1>7 DEF RecvMesg

\* A thread that is stopped, destroyed or done withdraws.
LEMMA WithdrawMaps ==
  ASSUME TypeOK, OneQueue, NEW t \in Thread, queues' = Unwaited(t),
         pending_resume' = [pending_resume EXCEPT ![t] = NoResume]
  PROVE  Deque!Withdraw(t)
  <1>0. TheQueue \in Queue /\ pending_resume \in [Thread -> Resumes]
    BY DEF OneQueue, TypeOK
  <1>1. /\ queues'[TheQueue].capacity = queues[TheQueue].capacity
        /\ queues'[TheQueue].messages = queues[TheQueue].messages
        /\ queues'[TheQueue].receivers = Unpark(queues[TheQueue].receivers, t)
        /\ queues'[TheQueue].senders = Unpark(queues[TheQueue].senders, t)
    BY <1>0, UnwaitedFacts
  <1>2. Kept(pending_resume') = [Kept(pending_resume) EXCEPT ![t] = NoResume]
    BY <1>0, KeptTaken
  <1> QED BY <1>1, <1>2, SameHelpers, Given DEF Deque!Withdraw

\* A thread that is resumed picks its answer up, if it has one.
LEMMA ResumeMaps ==
  ASSUME TypeOK, OneQueue, NEW t \in Thread, queues' = queues,
         pending_resume' = [pending_resume EXCEPT ![t] = NoResume]
  PROVE  Deque!Resume(t) \/ UNCHANGED Deque!dvars
  <1>1. pending_resume \in [Thread -> Resumes]
    BY DEF TypeOK
  <1>2. CASE pending_resume[t].kind \in Answering
    <2>1. Kept(pending_resume)[t] # NoResume
      BY <1>2, AnswerKinds DEF Kept
    <2>2. Kept(pending_resume') = [Kept(pending_resume) EXCEPT ![t] = NoResume]
      BY <1>1, KeptTaken
    <2> QED BY <2>1, <2>2, SameHelpers, Given DEF Deque!Resume
  <1>3. CASE pending_resume[t].kind \notin Answering
    <2>1. Kept(pending_resume') = Kept(pending_resume)
      BY <1>1, <1>3, KeptOther, AnswerKinds
    <2> QED BY <2>1, DequeSame
  <1> QED BY <1>2, <1>3

\* Creating the queue is creating it.
LEMMA CreateMaps ==
  ASSUME TypeOK, Parts, Disciplined, OneQueue, NEW me \in Thread, NEW c \in 0..MaxCapacity,
         CreateMesgQueue(me, TheQueue, c)
  PROVE  \E n \in 1..MaxCapacity : Deque!Create(n)
  <1> DEFINE n == IF c = 0 THEN 1 ELSE c
  <1>0. TheQueue \in Queue
    BY DEF OneQueue
  <1>1. n \in 1..MaxCapacity
    BY ExecutorAssumption
  <1>2. queues' = [queues EXCEPT ![TheQueue] = NewQueue(n)] /\ pending_resume' = pending_resume
    BY DEF CreateMesgQueue, runVars
  <1> HIDE DEF n
  <1>3. queues'[TheQueue] = NewQueue(n)
    BY <1>2, TheQueueReplaced
  <1>4. /\ queues'[TheQueue].capacity = n /\ queues'[TheQueue].messages = <<>>
        /\ queues'[TheQueue].receivers = <<>> /\ queues'[TheQueue].senders = <<>>
    BY <1>3, WrittenOut DEF NewQueue
  <1>5. AllIds(queues[TheQueue]) = {}
    <2>1. ~ \E t \in Thread : WaitsOn(t, TheQueue)
      BY DEF CreateMesgQueue, CallsNow, Disciplined
    <2>2. AllIds(queues[TheQueue]) \subseteq Thread
      BY <1>0, AllIdsThreads
    <2> QED BY <2>1, <2>2 DEF WaitsOn, AllIds, Ids
  <1>6. queues[TheQueue].receivers = <<>> /\ queues[TheQueue].senders = <<>>
    <2>1. queues[TheQueue].receivers \in Seq(QReceiver) /\ queues[TheQueue].senders \in Seq(QSender)
      BY <1>0, QueueTypes
    <2>2. \A S, s : s \in Seq(S) /\ s # <<>> => Ids(s) # {}
      <3> SUFFICES ASSUME NEW S, NEW s \in Seq(S), s # <<>> PROVE Ids(s) # {}
        OBVIOUS
      <3>1. Head(s) \in ToSet(s)
        BY TailFacts
      <3> QED BY <3>1 DEF Ids
    <2>3. queues[TheQueue].receivers # <<>> => Ids(queues[TheQueue].receivers) # {}
      BY <2>1, <2>2
    <2>4. queues[TheQueue].senders # <<>> => Ids(queues[TheQueue].senders) # {}
      BY <2>1, <2>2
    <2> QED BY <1>5, <2>3, <2>4 DEF AllIds
  <1>7. Kept(pending_resume') = Kept(pending_resume)
    BY <1>2
  <1>8. Deque!Create(n)
    BY <1>4, <1>5, <1>6, <1>7, SameHelpers, Given DEF Deque!Create
  <1> QED BY <1>1, <1>8

\* A fault posts its event, if that is registered; the thread had nothing to
\* withdraw.
LEMMA FaultMaps ==
  ASSUME TypeOK, Parts, OneQueue, NEW me \in Thread, NEW e \in Event, Fault(me, e)
  PROVE  (\E m \in Payload : Deque!Post(m)) \/ UNCHANGED Deque!dvars
  <1> DEFINE q == event_table[e]
             w == FirstReceiver(TheQueue)
             pr == [pending_resume EXCEPT ![w] = Delivered(e)]
  <1>0. e \in Payload /\ TheQueue \in Queue /\ (q = TheQueue \/ q = NoQueue)
    BY ResumeTypes DEF TypeOK, OneQueue
  <1>1. CallsNow(me, "Fault")
    BY DEF Fault
  <1>2. state[me] = "Running" /\ pending_resume[me] = NoResume
    BY <1>1, Calling
  <1>3. pending_resume \in [Thread -> Resumes]
    BY DEF TypeOK
  <1>4. pending_resume = [pending_resume EXCEPT ![me] = NoResume]
    BY <1>2, <1>3
  <1>5. CASE /\ q = TheQueue /\ HasReceiver(TheQueue) /\ state[w] \in Blocked
             /\ queues' = [queues EXCEPT ![TheQueue] = ReceiverGone(TheQueue)]
             /\ pending_resume' = [pending_resume EXCEPT ![w] = Delivered(e), ![me] = NoResume]
    <2>1. w \in Thread /\ w # me
      BY <1>0, <1>2, <1>5, FirstReceiverFacts
    <2> HIDE DEF w
    <2>2. pending_resume' = [pending_resume EXCEPT ![w] = Delivered(e)]
      BY <1>2, <1>3, <1>5, <2>1
    <2>3. Kept(pending_resume') = [Kept(pending_resume) EXCEPT ![w] = Delivered(e)]
      BY <1>3, <2>1, <2>2, KeptGiven, AnswerKinds
    <2>4. Deque!HandOver(e, [t \in Thread |-> IF Answered(t) THEN pending_resume[t] ELSE NoResume])
      BY <1>5, <2>3, HandedOver, SameHelpers, Given DEF Deque!HandOver, FirstReceiver, w
    <2> QED BY <1>0, <2>4 DEF Deque!Post
  <1>6. CASE /\ q = TheQueue /\ ~HasReceiver(TheQueue)
             /\ queues' = [queues EXCEPT ![TheQueue] = Posted(TheQueue, e)]
             /\ pending_resume' = [pending_resume EXCEPT ![me] = NoResume]
    <2> HIDE DEF w
    <2>1. Kept(pending_resume') = Kept(pending_resume)
      BY <1>4, <1>6
    <2> QED BY <1>0, <1>6, <2>1, QueuedOrDropped DEF Deque!Post
  <1>7. CASE queues' = queues /\ pending_resume' = [pending_resume EXCEPT ![me] = NoResume]
    <2>1. Kept(pending_resume') = Kept(pending_resume)
      BY <1>4, <1>7
    <2> QED BY <1>7, <2>1, DequeSame
  <1> QED BY <1>0, <1>5, <1>6, <1>7, ExecutorAssumption DEF Fault

\* Every step of a disciplined workload is a step of the list, or shows
\* nothing of it.
LEMMA DequeStep ==
  ASSUME TypeOK, Parts, Disciplined, OneQueue, [Next]_vars
  PROVE  [Deque!Next]_(Deque!dvars)
  <1>0. /\ \A q \in Queue : q = TheQueue
        /\ TheQueue \in Queue /\ \A t \in Thread : priority[t] \in Priority
    BY DEF OneQueue, TypeOK
  <1>a. ASSUME NEW t \in Thread, Deque!Resume(t) \/ Deque!Withdraw(t) PROVE Deque!Next
    BY <1>a DEF Deque!Next
  <1>b. ASSUME NEW m \in Payload, Deque!Post(m) PROVE Deque!Next
    BY <1>b DEF Deque!Next
  <1>1. CASE Dispatch
    <2>1. /\ Head(run_queue) \in Thread /\ queues' = queues
          /\ pending_resume' = [pending_resume EXCEPT ![Head(run_queue)] = NoResume]
      BY <1>1, TailFacts DEF Dispatch, TypeOK
    <2> QED BY <1>a, <2>1, ResumeMaps
  <1>2. ASSUME NEW me \in Thread, GuestCall(me) PROVE [Deque!Next]_(Deque!dvars)
    <2>1. ASSUME NEW t \in Thread, StopThread(me, t) \/ DestroyThread(me, t) PROVE Deque!Next
      <3>1. queues' = Unwaited(t) /\ pending_resume' = [pending_resume EXCEPT ![t] = NoResume]
        BY <2>1 DEF StopThread, DestroyThread
      <3> QED BY <1>a, <3>1, WithdrawMaps
    <2>2. ASSUME NEW q \in Queue, NEW c \in 0..MaxCapacity, CreateMesgQueue(me, q, c) PROVE Deque!Next
      <3>1. CreateMesgQueue(me, TheQueue, c)
        BY <1>0, <2>2
      <3> QED BY <3>1, CreateMaps DEF Deque!Next
    <2>3. CASE \/ \E t \in Thread, p \in Priority : CreateThread(me, t, p) \/ SetThreadPri(me, t, p)
               \/ \E e \in Event, q \in Queue : SetEventMesg(me, e, q)
      <3>1. queues' = queues /\ pending_resume' = pending_resume
        BY <2>3 DEF CreateThread, SetThreadPri, SetEventMesg, runVars
      <3> QED BY <3>1, DequeSame
    <2> QED BY <1>2, <2>1, <2>2, <2>3 DEF GuestCall
  <1>3. ASSUME NEW me \in Thread, GuestSuspend(me) PROVE [Deque!Next]_(Deque!dvars)
    <2>1. CASE PauseSelf(me) \/ Return(me)
      <3>1. queues' = Unwaited(me) /\ pending_resume' = [pending_resume EXCEPT ![me] = NoResume]
        BY <2>1 DEF PauseSelf, Return
      <3> QED BY <1>a, <3>1, WithdrawMaps
    <2>2. CASE YieldThread(me) \/ Checkpoint(me) \/ AcceptInterrupt(me)
      <3>1. queues' = queues /\ pending_resume' = pending_resume
        BY <2>2 DEF YieldThread, Checkpoint, AcceptInterrupt
      <3> QED BY <3>1, DequeSame
    <2>3. ASSUME NEW t \in Thread, StartStopped(me, t) PROVE UNCHANGED Deque!dvars
      <3>1. pending_resume \in [Thread -> Resumes] /\ pending_resume[t] = NoResume
        BY <2>3 DEF StartStopped, TypeOK, Parts, Sound, ThreadSound
      <3>2. Kept(pending_resume') = Kept(pending_resume)
        BY <2>3, <3>1, KeptOther, AnswerKinds DEF StartStopped
      <3>3. queues' = queues
        BY <2>3 DEF StartStopped
      <3> QED BY <3>2, <3>3, DequeSame
    <2>3u. ASSUME NEW t \in Thread, StartUnstopped(me, t) PROVE UNCHANGED Deque!dvars
      <3>1. queues' = queues /\ pending_resume' = pending_resume
        BY <2>3u DEF StartUnstopped, runVars
      <3> QED BY <3>1, DequeSame
    <2>4. ASSUME NEW q \in Queue, NEW b \in BOOLEAN, RecvMesg(me, q, b) PROVE Deque!Next
      <3>1. RecvMesg(me, TheQueue, b)
        BY <1>0, <2>4
      <3> QED BY <1>0, <3>1, RecvMaps DEF Deque!Next
    <2>5. ASSUME NEW q \in Queue, NEW m \in Fresh, NEW place \in Placement, NEW b \in BOOLEAN,
                 SendMesg(me, q, m, place, b)
          PROVE  Deque!Next
      <3>1. SendMesg(me, TheQueue, m, place, b) /\ m \in Payload
        BY <1>0, <2>5, ResumeTypes
      <3>2. Deque!Send(me, m, priority[me], place, b)
        BY <3>1, SendMaps
      <3> QED BY <1>0, <3>1, <3>2, SameHelpers DEF Deque!Next
    <2>6. ASSUME NEW e \in Event, Fault(me, e) PROVE [Deque!Next]_(Deque!dvars)
      BY <1>b, <2>6, FaultMaps
    <2> QED BY <1>3, <2>1, <2>2, <2>3, <2>3u, <2>4, <2>5, <2>6 DEF GuestSuspend, StartThread
  <1>4. ASSUME NEW q \in Queue, NEW m \in Fresh, Post(q, m) PROVE Deque!Next
    <2>1. Deliver(TheQueue, m) /\ m \in Payload
      BY <1>0, <1>4, ResumeTypes DEF Post
    <2> QED BY <1>b, <2>1, DeliverMaps
  <1>5. ASSUME NEW e \in Event, InjectEvent(e) PROVE Deque!Next
    <2>1. event_table[e] = TheQueue /\ e \in Payload
      BY <1>0, <1>5, ResumeTypes DEF InjectEvent, TypeOK
    <2>2. Deliver(TheQueue, e)
      BY <1>5, <2>1 DEF InjectEvent
    <2> QED BY <1>b, <2>1, <2>2, DeliverMaps
  <1>6. CASE CommitTimeTarget \/ CommitHostWork \/ UNCHANGED vars
    <2>1. queues' = queues /\ pending_resume' = pending_resume
      BY <1>6 DEF CommitTimeTarget, CommitHostWork, vars, runVars
    <2> QED BY <2>1, DequeSame
  <1> QED BY <1>1, <1>2, <1>3, <1>4, <1>5, <1>6 DEF Next

\* The booted program's queue is the list with nothing in it.
LEMMA DequeInit == OneQueue /\ Init => Deque!Init
  <1> SUFFICES ASSUME OneQueue, Init PROVE Deque!Init
    OBVIOUS
  <1>1. /\ queues[TheQueue] = NewQueue(BootCapacity[TheQueue])
        /\ BootCapacity[TheQueue] \in 0..MaxCapacity
    BY ExecutorAssumption DEF OneQueue, Init
  <1>2. /\ queues[TheQueue].capacity \in 0..MaxCapacity /\ queues[TheQueue].messages = <<>>
        /\ queues[TheQueue].receivers = <<>> /\ queues[TheQueue].senders = <<>>
    BY <1>1, WrittenOut DEF NewQueue
  <1>3. Kept(pending_resume) = [t \in Thread |-> NoResume]
    <2>1. \A t \in Thread : pending_resume[t] = Start \/ pending_resume[t] = NoResume
      BY DEF Init
    <2> QED BY <2>1, AnswerKinds DEF Kept
  <1> QED BY <1>2, <1>3, SameHelpers, Given DEF Deque!Init

\* Under any disciplined workload the executor's queue implements the
\* double-ended list: run_one_step, the waiter lists, stopped and faulting
\* threads, host posts and events show nothing else of it, for any number of
\* threads, priorities and capacities.
THEOREM QueueImplementsDeque ==
  ASSUME Disciplined, OneQueue
  PROVE  Spec => ImplementsDeque
  <1>1. Init => Deque!Init
    BY DequeInit
  <1>2. TypeOK /\ Control /\ [Next]_vars => [Deque!Next]_(Deque!dvars)
    BY ControlParts, DequeStep
  <1>3. Spec => Deque!Spec
    BY <1>1, <1>2, SafeTypes, SafeControl, PTL DEF Spec, Deque!Spec
  <1> QED BY <1>3 DEF ImplementsDeque
=============================================================================
