----------------------------- MODULE MesgDeque -----------------------------
(***************************************************************************)
(* What an OSMesgQueue promises its callers: a bounded double-ended list   *)
(* of messages with two priority-ordered waiting rooms.  osSendMesg puts a *)
(* message at the tail, osJamMesg at the head, osRecvMesg takes the head;  *)
(* a caller that may block waits when it cannot proceed.  The state is the *)
(* logical view the code calls MesgQueueEvidenceSnapshot, less the ring's  *)
(* first index, plus the answer each thread has not picked up yet.         *)
(***************************************************************************)
EXTENDS WaitList

CONSTANTS Thread,      \* the guest threads
          Msg,         \* message tokens
          Priority,    \* the priorities a thread may wait with
          MaxCapacity, \* the largest msgCount the guest creates the queue with
          NoMsg        \* stands where an answer carries no message

VARIABLES capacity,  \* msgCount; 0 until osCreateMesgQueue runs
          messages,  \* queued messages in receive order
          receivers, \* parked receivers, next to be served first
          senders,   \* parked senders, next to be served first
          result     \* the answer waiting for each thread

dvars == <<capacity, messages, receivers, senders, result>>

Answer(k, m) == [kind |-> k, msg |-> m]
NoAnswer      == Answer("None", NoMsg)
WouldBlock    == Answer("WouldBlock", NoMsg)
SendUnblocked == Answer("SendUnblocked", NoMsg)
Delivered(m)  == Answer("Delivered", m)

Answers == {NoAnswer, WouldBlock, SendUnblocked} \union {Delivered(m) : m \in Msg}

Placement == {"Tail", "Head"}
Receiver  == [id : Thread, pri : Priority]
Sender    == [id : Thread, pri : Priority, msg : Msg, place : Placement]

DTypeOK ==
  /\ capacity \in 0..MaxCapacity
  /\ messages \in Seq(Msg)
  /\ receivers \in Seq(Receiver)
  /\ senders \in Seq(Sender)
  /\ result \in [Thread -> Answers]

Waiting  == ToSet(WaiterIds(receivers)) \union ToSet(WaiterIds(senders))
\* A thread that neither waits nor has an answer to pick up may call.
Ready(t) == t \notin Waiting /\ result[t] = NoAnswer

Put(ms, m, place) == IF place = "Head" THEN <<m>> \o ms ELSE Append(ms, m)

\* The queue may have been created before the first step looked at.
Init ==
  /\ capacity \in 0..MaxCapacity
  /\ messages = <<>>
  /\ receivers = <<>>
  /\ senders = <<>>
  /\ result = [t \in Thread |-> NoAnswer]

\* osCreateMesgQueue: an empty queue of the given size.
Create(c) ==
  /\ Waiting = {}
  /\ capacity' = c
  /\ messages' = <<>>
  /\ UNCHANGED <<receivers, senders, result>>

\* A parked receiver takes the message; it never enters the list.
HandOver(m, res) ==
  /\ receivers # <<>>
  /\ result' = [res EXCEPT ![Head(receivers).id] = Delivered(m)]
  /\ receivers' = Tail(receivers)
  /\ UNCHANGED <<capacity, messages, senders>>

\* osSendMesg ("Tail") and osJamMesg ("Head").
Send(t, m, p, place, may_block) ==
  /\ Ready(t)
  /\ \/ HandOver(m, [result EXCEPT ![t] = SendUnblocked])
     \/ /\ receivers = <<>>
        /\ Len(messages) < capacity
        /\ messages' = Put(messages, m, place)
        /\ result' = [result EXCEPT ![t] = SendUnblocked]
        /\ UNCHANGED <<capacity, receivers, senders>>
     \/ /\ receivers = <<>>
        /\ Len(messages) = capacity
        /\ IF may_block
           THEN /\ senders' = Park(senders, [id |-> t, pri |-> p, msg |-> m, place |-> place])
                /\ UNCHANGED result
           ELSE /\ result' = [result EXCEPT ![t] = WouldBlock]
                /\ UNCHANGED senders
        /\ UNCHANGED <<capacity, messages, receivers>>

\* osRecvMesg.  The slot a message frees goes to the first parked sender.
Recv(t, p, may_block) ==
  /\ Ready(t)
  /\ UNCHANGED capacity
  /\ \/ /\ messages # <<>>
        /\ IF senders = <<>>
           THEN /\ messages' = Tail(messages)
                /\ result' = [result EXCEPT ![t] = Delivered(Head(messages))]
                /\ UNCHANGED senders
           ELSE /\ messages' = Put(Tail(messages), Head(senders).msg, Head(senders).place)
                /\ result' = [result EXCEPT ![t] = Delivered(Head(messages)),
                                            ![Head(senders).id] = SendUnblocked]
                /\ senders' = Tail(senders)
        /\ UNCHANGED receivers
     \/ /\ messages = <<>>
        /\ IF may_block
           THEN /\ receivers' = Park(receivers, [id |-> t, pri |-> p])
                /\ UNCHANGED result
           ELSE /\ result' = [result EXCEPT ![t] = WouldBlock]
                /\ UNCHANGED receivers
        /\ UNCHANGED <<messages, senders>>

\* A post with no thread behind it: timers and device events never wait.
Post(m) ==
  \/ HandOver(m, result)
  \/ /\ receivers = <<>>
     /\ messages' = IF Len(messages) < capacity THEN Append(messages, m) ELSE messages
     /\ UNCHANGED <<capacity, receivers, senders, result>>

\* The thread is resumed and picks its answer up.
Resume(t) ==
  /\ result[t] # NoAnswer
  /\ result' = [result EXCEPT ![t] = NoAnswer]
  /\ UNCHANGED <<capacity, messages, receivers, senders>>

\* The thread is stopped or destroyed: its place and its answer are void.
Withdraw(t) ==
  /\ receivers' = Unpark(receivers, t)
  /\ senders' = Unpark(senders, t)
  /\ result' = [result EXCEPT ![t] = NoAnswer]
  /\ UNCHANGED <<capacity, messages>>

Next ==
  \/ \E c \in 1..MaxCapacity : Create(c)
  \/ \E t \in Thread, m \in Msg, p \in Priority, place \in Placement, b \in BOOLEAN :
       Send(t, m, p, place, b)
  \/ \E t \in Thread, p \in Priority, b \in BOOLEAN : Recv(t, p, b)
  \/ \E m \in Msg : Post(m)
  \/ \E t \in Thread : Resume(t) \/ Withdraw(t)

Spec == Init /\ [][Next]_dvars
=============================================================================
