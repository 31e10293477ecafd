----------------------------- MODULE MesgQueue -----------------------------
(***************************************************************************)
(* One OSMesgQueue as fn64 keeps it (fn64-runtime, mesgqueue.rs): a ring   *)
(* buffer with a head index and a count, and two waiter lists, driven by   *)
(* the executor's send, receive, post and removal paths                    *)
(* (executor/mod.rs).  `result` is the executor's pending_resume table     *)
(* restricted to the answers this queue gives.                             *)
(*                                                                         *)
(* Every message is a token that is sent again only after it has left the  *)
(* system, so that losing one and delivering one twice can be told apart.  *)
(* A definition marked "Mutant" is a plausible error in the code.          *)
(***************************************************************************)
EXTENDS WaitList

CONSTANTS Thread, Msg, Priority, MaxCapacity, NoMsg

VARIABLES ring,            \* [capacity, buffer, valid_count, first]
          blocked_on_recv, \* parked receivers
          blocked_on_send, \* parked senders with what they were sending
          result

vars == <<ring, blocked_on_recv, blocked_on_send, result>>

ASSUME QueueAssumption ==
  /\ NoMsg \notin Msg
  /\ Priority \subseteq Int
  /\ MaxCapacity \in Nat \ {0}

Answer(k, m) == [kind |-> k, msg |-> m]
NoAnswer      == Answer("None", NoMsg)
WouldBlock    == Answer("WouldBlock", NoMsg)
SendUnblocked == Answer("SendUnblocked", NoMsg)
Delivered(m)  == Answer("Delivered", m)

Answers   == {NoAnswer, WouldBlock, SendUnblocked} \union {Delivered(m) : m \in Msg}
Placement == {"Tail", "Head"}
Receiver  == [id : Thread, pri : Priority]
Sender    == [id : Thread, pri : Priority, msg : Msg, place : Placement]

-----------------------------------------------------------------------------
(* The ring.                                                               *)

\* zero_capacity for n = 0, MesgQueue::new otherwise: zeroed slots, no waiters.
NewRing(n) ==
  [capacity |-> n, buffer |-> [i \in 0..(n - 1) |-> NoMsg], valid_count |-> 0, first |-> 0]

IsFull(r)  == r.valid_count = r.capacity
IsEmpty(r) == r.valid_count = 0

\* try_send on a ring with room: write behind the last valid slot.
TrySend(r, m) ==
  [r EXCEPT !.buffer[(r.first + r.valid_count) % r.capacity] = m,
            !.valid_count = r.valid_count + 1]

\* Mutant: the head index stays where it was.
JamKeepsFirst(r, m) ==
  [r EXCEPT !.buffer[(r.first + r.capacity - 1) % r.capacity] = m,
            !.valid_count = r.valid_count + 1]

\* try_jam on a ring with room: step the head back one slot and write there.
TryJam(r, m) ==
  LET f == (r.first + r.capacity - 1) % r.capacity
  IN [r EXCEPT !.buffer[f] = m, !.first = f, !.valid_count = r.valid_count + 1]

Commit(r, m, place) == IF place = "Head" THEN TryJam(r, m) ELSE TrySend(r, m)

\* try_recv on a ring with messages: the slot keeps its stale contents.
FrontMsg(r) == r.buffer[r.first]

TryRecv(r) ==
  [r EXCEPT !.first = (r.first + 1) % r.capacity, !.valid_count = r.valid_count - 1]

\* evidence_snapshot's `messages`: the valid slots in receive order.
Messages(r) ==
  [i \in 1..r.valid_count |-> r.buffer[(r.first + (i - 1)) % r.capacity]]

-----------------------------------------------------------------------------
Waiting  == ToSet(WaiterIds(blocked_on_recv)) \union ToSet(WaiterIds(blocked_on_send))
Ready(t) == t \notin Waiting /\ result[t] = NoAnswer

\* The tokens somewhere between a sender's call and a receiver's return.
InTransit ==
  ToSet(Messages(ring))
    \union {w.msg : w \in ToSet(blocked_on_send)}
    \union {result[t].msg : t \in {u \in Thread : result[u].kind = "Delivered"}}
Fresh == Msg \ InTransit

Init ==
  /\ ring = NewRing(0)
  /\ blocked_on_recv = <<>>
  /\ blocked_on_send = <<>>
  /\ result = [t \in Thread |-> NoAnswer]

(***************************************************************************)
(* create_mesg_queue replaces the queue, a count of 0 becoming 1.  Here    *)
(* the guest re-creates only a queue nobody waits on; Executor also lets   *)
(* it happen under parked threads.                                         *)
(***************************************************************************)
Create(count) ==
  /\ Waiting = {}
  /\ ring' = NewRing(IF count = 0 THEN 1 ELSE count)
  /\ UNCHANGED <<blocked_on_recv, blocked_on_send, result>>

\* Mutant: the message handed over is queued as well.
WakeReceiverAndQueue(m, res) ==
  /\ blocked_on_recv # <<>>
  /\ ring' = IF IsFull(ring) THEN ring ELSE TrySend(ring, m)
  /\ result' = [res EXCEPT ![Head(blocked_on_recv).id] = Delivered(m)]
  /\ blocked_on_recv' = Tail(blocked_on_recv)
  /\ UNCHANGED blocked_on_send

\* wake_one_receiver and wake_thread: direct hand-off, past the ring.
WakeReceiver(m, res) ==
  /\ blocked_on_recv # <<>>
  /\ result' = [res EXCEPT ![Head(blocked_on_recv).id] = Delivered(m)]
  /\ blocked_on_recv' = Tail(blocked_on_recv)
  /\ UNCHANGED <<ring, blocked_on_send>>

\* try_deliver_send and the BlockOnSend arm of handle_yield.
Send(t, m, p, place, may_block) ==
  /\ Ready(t)
  /\ \/ WakeReceiver(m, [result EXCEPT ![t] = SendUnblocked])
     \/ /\ blocked_on_recv = <<>>
        /\ ~IsFull(ring)
        /\ ring' = Commit(ring, m, place)
        /\ result' = [result EXCEPT ![t] = SendUnblocked]
        /\ UNCHANGED <<blocked_on_recv, blocked_on_send>>
     \/ /\ blocked_on_recv = <<>>
        /\ IsFull(ring)
        /\ may_block
        /\ blocked_on_send' = Park(blocked_on_send, [id |-> t, pri |-> p, msg |-> m, place |-> place])
        /\ UNCHANGED <<ring, blocked_on_recv, result>>
     \/ /\ blocked_on_recv = <<>>
        /\ IsFull(ring)
        /\ ~may_block
        /\ result' = [result EXCEPT ![t] = WouldBlock]
        /\ UNCHANGED <<ring, blocked_on_recv, blocked_on_send>>

\* Mutant: the sender is woken but its message is not written.
WakeOnly(r, w) == r

\* wake_one_sender: the freed slot takes the first parked sender's message.
WakeSender(r, w) == Commit(r, w.msg, w.place)

\* try_deliver_recv and the BlockOnRecv arm of handle_yield.
Recv(t, p, may_block) ==
  /\ Ready(t)
  /\ \/ /\ ~IsEmpty(ring)
        /\ blocked_on_send = <<>>
        /\ ring' = TryRecv(ring)
        /\ result' = [result EXCEPT ![t] = Delivered(FrontMsg(ring))]
        /\ UNCHANGED <<blocked_on_recv, blocked_on_send>>
     \/ /\ ~IsEmpty(ring)
        /\ blocked_on_send # <<>>
        /\ ring' = WakeSender(TryRecv(ring), Head(blocked_on_send))
        /\ result' = [result EXCEPT ![t] = Delivered(FrontMsg(ring)),
                                    ![Head(blocked_on_send).id] = SendUnblocked]
        /\ blocked_on_send' = Tail(blocked_on_send)
        /\ UNCHANGED blocked_on_recv
     \/ /\ IsEmpty(ring)
        /\ may_block
        /\ blocked_on_recv' = Park(blocked_on_recv, [id |-> t, pri |-> p])
        /\ UNCHANGED <<ring, blocked_on_send, result>>
     \/ /\ IsEmpty(ring)
        /\ ~may_block
        /\ result' = [result EXCEPT ![t] = WouldBlock]
        /\ UNCHANGED <<ring, blocked_on_recv, blocked_on_send>>

\* deliver_or_enqueue: a full queue drops the message.
Post(m) ==
  \/ WakeReceiver(m, result)
  \/ /\ blocked_on_recv = <<>>
     /\ ring' = IF IsFull(ring) THEN ring ELSE TrySend(ring, m)
     /\ UNCHANGED <<blocked_on_recv, blocked_on_send, result>>

\* run_one_step takes the pending resume and hands it to the coroutine.
Resume(t) ==
  /\ result[t] # NoAnswer
  /\ result' = [result EXCEPT ![t] = NoAnswer]
  /\ UNCHANGED <<ring, blocked_on_recv, blocked_on_send>>

\* remove_waiter, called by stop_thread and destroy_thread.
RemoveWaiter(t) ==
  /\ ~Ready(t)
  /\ blocked_on_recv' = Unpark(blocked_on_recv, t)
  /\ blocked_on_send' = Unpark(blocked_on_send, t)
  /\ result' = [result EXCEPT ![t] = NoAnswer]
  /\ UNCHANGED ring

Next ==
  \/ \E count \in 0..MaxCapacity : Create(count)
  \/ \E t \in Thread, m \in Fresh, p \in Priority, place \in Placement, b \in BOOLEAN :
       Send(t, m, p, place, b)
  \/ \E t \in Thread, p \in Priority, b \in BOOLEAN : Recv(t, p, b)
  \/ \E m \in Fresh : Post(m)
  \/ \E t \in Thread : Resume(t)
  \/ \E t \in Thread : RemoveWaiter(t)

Spec == Init /\ [][Next]_vars

-----------------------------------------------------------------------------
(***************************************************************************)
(* Properties.                                                             *)
(***************************************************************************)

\* The ring's indices address its slots; lists and answers are well formed.
TypeOK ==
  /\ ring.capacity \in 0..MaxCapacity
  /\ ring.valid_count \in 0..ring.capacity
  /\ ring.first \in 0..ring.capacity /\ (ring.capacity > 0 => ring.first < ring.capacity)
  /\ ring.buffer \in [0..(ring.capacity - 1) -> Msg \union {NoMsg}]
  /\ blocked_on_recv \in Seq(Receiver)
  /\ blocked_on_send \in Seq(Sender)
  /\ result \in [Thread -> Answers]

\* A thread waits only while it must: a created queue never holds a message
\* while a receiver is parked, nor a free slot while a sender is (the lost
\* wake-up a try_* / block_* / wake_* sequence could leave behind).
NoLostWakeup ==
  /\ blocked_on_recv # <<>> => IsEmpty(ring)
  /\ blocked_on_send # <<>> => IsFull(ring)

\* A token is in one place: one valid slot, one parked sender or one answer.
\* wake_one_sender replays the send, so a sender that was both queued and
\* parked would deliver its message twice.
NoDuplicateDelivery ==
  \A m \in Msg :
    Cardinality({i \in 1..ring.valid_count : Messages(ring)[i] = m})
      + Cardinality({i \in DOMAIN blocked_on_send : blocked_on_send[i].msg = m})
      + Cardinality({t \in Thread : result[t] = Delivered(m)}) <= 1

\* What the try_*, block_* and wake_* calls keep between them, in any order:
\* indices inside the ring, no wake-up lost, no token in two places.
RingSound == TypeOK /\ NoLostWakeup /\ NoDuplicateDelivery

\* A message leaves the system only when a receiver picks it up, when the
\* thread that sent or was handed it is stopped, or when the guest re-creates
\* the queue.  mesgqueue.rs recounts a release that woke a blocked sender
\* without writing its message.
NoSilentLoss ==
  [][\A m \in InTransit \ InTransit' :
       \/ \E t \in Thread : Resume(t) /\ result[t] = Delivered(m)
       \/ \E t \in Thread : RemoveWaiter(t)
       \/ \E count \in 0..MaxCapacity : Create(count)]_vars

\* Waiters are served by priority, first come first served among equals: both
\* lists stay sorted, waiters keep their relative order, a newcomer is never
\* put before an equal, and only the head of a list is answered.
Follows(ws, t, u) == \E i, j \in DOMAIN ws : i < j /\ ws[i].id = u /\ ws[j].id = t
InOrder(old, new) ==
  /\ Descending(Priorities(new))
  /\ \A t, u \in Thread : Follows(old, t, u) => ~Follows(new, u, t)
  /\ \A i, j \in DOMAIN new :
       new[i].pri = new[j].pri /\ new[j].id \in ToSet(WaiterIds(old)) 
         /\ new[i].id \notin ToSet(WaiterIds(old)) => j < i
  /\ \A i \in DOMAIN old :
       old[i].id \notin ToSet(WaiterIds(new)) /\ result'[old[i].id] # NoAnswer => i = 1
ServedInOrder ==
  [][InOrder(blocked_on_recv, blocked_on_recv') /\ InOrder(blocked_on_send, blocked_on_send')]_vars

\* The ring implements the double-ended list: wrap-around, the head stepping
\* back on a jam and the stale slots it leaves never show.
Deque == INSTANCE MesgDeque
           WITH capacity <- ring.capacity, messages <- Messages(ring),
                receivers <- blocked_on_recv, senders <- blocked_on_send
ImplementsDeque == Deque!Spec
=============================================================================
