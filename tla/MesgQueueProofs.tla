-------------------------- MODULE MesgQueueProofs ---------------------------
(***************************************************************************)
(* Theorems about MesgQueue: the ring implements the double-ended list of  *)
(* MesgDeque, loses no wake-up and no message, keeps every token in one    *)
(* place and serves waiters in order, for every capacity, set of threads,  *)
(* priorities and tokens.                                                  *)
(***************************************************************************)
EXTENDS MesgQueue, WaitListProofs, FiniteSetTheorems

-----------------------------------------------------------------------------
(***************************************************************************)
(* The ring.                                                               *)
(***************************************************************************)
\* Two laps of the ring at most.
LEMMA WrapFacts ==
  ASSUME NEW c \in Int, NEW f \in 0..(c - 1), NEW k \in 0..c
  PROVE  /\ (f + k) % c = IF f + k < c THEN f + k ELSE f + k - c
         /\ (f + k) % c \in 0..(c - 1)
  OBVIOUS

\* A ring whose indices address its slots and whose valid slots hold tokens.
Slots(c) == [0..(c - 1) -> Msg \union {NoMsg}]
Ring(r) ==
  /\ r = [capacity |-> r.capacity, buffer |-> r.buffer,
          valid_count |-> r.valid_count, first |-> r.first]
  /\ r.capacity \in 0..MaxCapacity
  /\ r.valid_count \in 0..r.capacity
  /\ r.first \in 0..r.capacity /\ (r.capacity > 0 => r.first < r.capacity)
  /\ r.buffer \in Slots(r.capacity)
  /\ \A i \in 1..r.valid_count : Messages(r)[i] \in Msg

\* Where the slot k places behind the head f of a ring of c slots lies.
At(c, f, k) == IF f + k < c THEN f + k ELSE f + k - c

\* The valid slots as a sequence.
LEMMA MessagesFacts ==
  ASSUME NEW r, Ring(r)
  PROVE  /\ Messages(r) \in Seq(Msg)
         /\ Len(Messages(r)) = r.valid_count
         /\ \A i \in 1..r.valid_count : Messages(r)[i] = r.buffer[At(r.capacity, r.first, i - 1)]
<1>1. r.valid_count \in Nat /\ Messages(r) = [i \in 1..r.valid_count |-> Messages(r)[i]]
  BY QueueAssumption DEF Ring, Messages
<1>2. Messages(r) \in Seq(Msg) /\ Len(Messages(r)) = r.valid_count
  BY <1>1 DEF Ring
<1>3. ASSUME NEW i \in 1..r.valid_count
      PROVE  (r.first + (i - 1)) % r.capacity = At(r.capacity, r.first, i - 1)
  <2>1. r.capacity \in Int /\ r.first \in 0..(r.capacity - 1) /\ i - 1 \in 0..r.capacity
    BY QueueAssumption DEF Ring
  <2> QED
    BY <2>1, WrapFacts DEF At
<1> QED
  BY <1>1, <1>2, <1>3 DEF Messages

\* Slots that read as the sequence q from the head on make a ring that holds q.
LEMMA RingHolds ==
  ASSUME NEW c \in 1..MaxCapacity, NEW f \in 0..(c - 1), NEW b \in Slots(c),
         NEW q \in Seq(Msg), Len(q) \in 0..c,
         \A i \in 1..Len(q) : b[At(c, f, i - 1)] = q[i],
         NEW r, r = [capacity |-> c, buffer |-> b, valid_count |-> Len(q), first |-> f]
  PROVE  Ring(r) /\ Messages(r) = q
<1>1. r.capacity = c /\ r.buffer = b /\ r.valid_count = Len(q) /\ r.first = f
  OBVIOUS
<1>2. ASSUME NEW i \in 1..Len(q) PROVE (f + (i - 1)) % c = At(c, f, i - 1)
  <2>1. c \in Int /\ i - 1 \in 0..c
    BY QueueAssumption
  <2> QED
    BY <2>1, WrapFacts DEF At
<1>3. \A i \in 1..Len(q) : Messages(r)[i] = q[i] /\ q[i] \in Msg
  BY <1>1, <1>2, ElementOfSeq DEF Messages
<1>4. Ring(r)
  BY <1>1, <1>3, QueueAssumption DEF Ring
<1>5. Messages(r) \in Seq(Msg) /\ Len(Messages(r)) = Len(q)
  BY <1>1, <1>4, MessagesFacts
<1>6. Messages(r) = q
  BY <1>3, <1>5, SeqEqual
<1> QED
  BY <1>4, <1>6

\* A fresh queue is empty.
LEMMA NewRingFacts ==
  ASSUME NEW n \in 0..MaxCapacity
  PROVE  /\ Ring(NewRing(n)) /\ Messages(NewRing(n)) = <<>>
         /\ NewRing(n).capacity = n /\ NewRing(n).valid_count = 0
<1>1. n \in Nat
  BY QueueAssumption
<1>2. \A i \in 1..0 : FALSE
  OBVIOUS
<1>3. Messages(NewRing(n)) = <<>>
  BY DEF Messages, NewRing
<1>4. Ring(NewRing(n))
  BY <1>1, <1>2 DEF Ring, NewRing, Slots
<1> QED
  BY <1>3, <1>4 DEF NewRing

\* try_send puts the message last.
LEMMA SendFacts ==
  ASSUME NEW r, Ring(r), NEW m \in Msg, ~IsFull(r)
  PROVE  /\ Ring(TrySend(r, m)) /\ Messages(TrySend(r, m)) = Append(Messages(r), m)
         /\ TrySend(r, m).capacity = r.capacity
<1> DEFINE n == r.valid_count
           c == r.capacity
           f == r.first
           b == [r.buffer EXCEPT ![At(c, f, n)] = m]
           q == Append(Messages(r), m)
<1>1. c \in 1..MaxCapacity /\ c \in Nat /\ n \in 0..(c - 1) /\ f \in 0..(c - 1)
  BY QueueAssumption DEF Ring, IsFull
<1>2. (f + n) % c = At(c, f, n) /\ At(c, f, n) \in 0..(c - 1)
  <2>1. c \in Int /\ f \in 0..(c - 1) /\ n \in 0..c
    BY <1>1
  <2> HIDE DEF n, c, f
  <2> QED
    BY <2>1, WrapFacts DEF At
<1>3. TrySend(r, m) = [capacity |-> c, buffer |-> b, valid_count |-> n + 1, first |-> f]
  <2> DEFINE u == [r EXCEPT !.buffer = b]
  <2>1. TrySend(r, m) = [u EXCEPT !.valid_count = n + 1]
    BY <1>2, Zenon DEF TrySend
  <2> HIDE DEF b
  <2>2. u = [capacity |-> c, buffer |-> b, valid_count |-> n, first |-> f]
    BY DEF Ring
  <2> HIDE DEF u
  <2> QED
    BY <2>1, <2>2
<1>4. /\ Messages(r) \in Seq(Msg) /\ Len(Messages(r)) = n
      /\ \A i \in 1..n : Messages(r)[i] = r.buffer[At(c, f, i - 1)]
  BY MessagesFacts
<1>5. q \in Seq(Msg) /\ Len(q) = n + 1 /\ \A i \in 1..(n + 1) : q[i] = IF i = n + 1 THEN m ELSE Messages(r)[i]
  <2> DEFINE s == Messages(r)
  <2>1. s \in Seq(Msg) /\ Len(s) = n /\ n \in Nat
    BY <1>1, <1>4
  <2> HIDE DEF s, n
  <2>2. Append(s, m) \in Seq(Msg) /\ Len(Append(s, m)) = n + 1
        /\ \A i \in 1..(n + 1) : Append(s, m)[i] = IF i = n + 1 THEN m ELSE s[i]
    BY <2>1
  <2> QED
    BY <2>2 DEF s
<1>6. r.buffer \in Slots(c) /\ b \in Slots(c)
  BY DEF Ring, Slots
<1>7. \A i \in 1..(n + 1) : b[At(c, f, i - 1)] = q[i]
  <2> SUFFICES ASSUME NEW i \in 1..(n + 1) PROVE b[At(c, f, i - 1)] = q[i]
    OBVIOUS
  <2>1. At(c, f, i - 1) \in 0..(c - 1) /\ (i # n + 1 => i \in 1..n /\ At(c, f, i - 1) # At(c, f, n))
        /\ (i = n + 1 => At(c, f, i - 1) = At(c, f, n))
    BY <1>1 DEF At
  <2>2. b[At(c, f, i - 1)] = IF At(c, f, i - 1) = At(c, f, n) THEN m ELSE r.buffer[At(c, f, i - 1)]
    BY <1>6, <2>1 DEF Slots
  <2> QED
    BY <1>4, <1>5, <2>1, <2>2
<1> HIDE DEF q, b
<1>8. Ring(TrySend(r, m)) /\ Messages(TrySend(r, m)) = q
  <2>1. Len(q) \in 0..c
    BY <1>1, <1>5
  <2> QED
    BY <1>1, <1>3, <1>5, <1>6, <1>7, <2>1, RingHolds
<1> QED
  BY <1>3, <1>8 DEF q

\* try_jam puts it first: the head steps back, round the end if need be.
LEMMA JamFacts ==
  ASSUME NEW r, Ring(r), NEW m \in Msg, ~IsFull(r)
  PROVE  /\ Ring(TryJam(r, m)) /\ Messages(TryJam(r, m)) = <<m>> \o Messages(r)
         /\ TryJam(r, m).capacity = r.capacity
<1> DEFINE n == r.valid_count
           c == r.capacity
           f == r.first
           g == IF f = 0 THEN c - 1 ELSE f - 1
           b == [r.buffer EXCEPT ![g] = m]
           q == <<m>> \o Messages(r)
<1>1. c \in 1..MaxCapacity /\ c \in Nat /\ n \in 0..(c - 1) /\ f \in 0..(c - 1)
  BY QueueAssumption DEF Ring, IsFull
<1>2. (f + c - 1) % c = g /\ g \in 0..(c - 1)
  <2>1. c \in Int /\ f \in 0..(c - 1) /\ c - 1 \in 0..c /\ f + c - 1 = f + (c - 1)
    BY <1>1
  <2> HIDE DEF c, f
  <2>2. (f + (c - 1)) % c = IF f + (c - 1) < c THEN f + (c - 1) ELSE f + (c - 1) - c
    BY <2>1, WrapFacts
  <2> QED
    BY <2>1, <2>2
<1>3. TryJam(r, m) = [capacity |-> c, buffer |-> b, valid_count |-> n + 1, first |-> g]
  <2> DEFINE u == [r EXCEPT !.buffer = b]
             v == [u EXCEPT !.first = g]
  <2>1. TryJam(r, m) = [v EXCEPT !.valid_count = n + 1]
    BY <1>2, Zenon DEF TryJam
  <2> HIDE DEF b, g
  <2>2. u = [capacity |-> c, buffer |-> b, valid_count |-> n, first |-> f]
    BY DEF Ring
  <2> HIDE DEF u
  <2>3. v = [capacity |-> c, buffer |-> b, valid_count |-> n, first |-> g]
    BY <2>2
  <2> HIDE DEF v
  <2> QED
    BY <2>1, <2>3
<1>4. /\ Messages(r) \in Seq(Msg) /\ Len(Messages(r)) = n
      /\ \A i \in 1..n : Messages(r)[i] = r.buffer[At(c, f, i - 1)]
  BY MessagesFacts
<1>5. q \in Seq(Msg) /\ Len(q) = n + 1 /\ \A i \in 1..(n + 1) : q[i] = IF i = 1 THEN m ELSE Messages(r)[i - 1]
  <2> DEFINE s == Messages(r)
  <2>1. s \in Seq(Msg) /\ Len(s) = n /\ n \in Nat
    BY <1>1, <1>4
  <2>2. <<m>> \in Seq(Msg) /\ Len(<<m>>) = 1 /\ <<m>>[1] = m
    OBVIOUS
  <2> HIDE DEF s, n
  <2>3. <<m>> \o s \in Seq(Msg) /\ Len(<<m>> \o s) = n + 1
        /\ \A i \in 1..(n + 1) : (<<m>> \o s)[i] = IF i <= 1 THEN <<m>>[i] ELSE s[i - 1]
    BY <2>1, <2>2, ConcatProperties
  <2> QED
    BY <2>1, <2>2, <2>3 DEF s
<1>6. r.buffer \in Slots(c) /\ b \in Slots(c)
  BY <1>2 DEF Ring, Slots
<1>7. \A i \in 1..(n + 1) : b[At(c, g, i - 1)] = q[i]
  <2> SUFFICES ASSUME NEW i \in 1..(n + 1) PROVE b[At(c, g, i - 1)] = q[i]
    OBVIOUS
  <2>1. At(c, g, i - 1) \in 0..(c - 1) /\ (i = 1 => At(c, g, i - 1) = g)
        /\ (i # 1 => i - 1 \in 1..n /\ At(c, g, i - 1) # g /\ At(c, g, i - 1) = At(c, f, (i - 1) - 1))
    BY <1>1 DEF At
  <2>2. b[At(c, g, i - 1)] = IF At(c, g, i - 1) = g THEN m ELSE r.buffer[At(c, g, i - 1)]
    BY <1>6, <2>1 DEF Slots
  <2> QED
    BY <1>4, <1>5, <2>1, <2>2
<1> HIDE DEF q, b, g
<1>8. Ring(TryJam(r, m)) /\ Messages(TryJam(r, m)) = q
  <2>1. Len(q) \in 0..c /\ q \in Seq(Msg) /\ \A i \in 1..Len(q) : b[At(c, g, i - 1)] = q[i]
    <3>1. Len(q) = n + 1 /\ q \in Seq(Msg)
      BY <1>5
    <3>2. n + 1 \in 0..c
      BY <1>1
    <3> QED
      BY <3>1, <3>2, <1>7, Zenon
  <2>2. TryJam(r, m) = [capacity |-> c, buffer |-> b, valid_count |-> Len(q), first |-> g]
    BY <1>3, <1>5
  <2>3. c \in 1..MaxCapacity /\ g \in 0..(c - 1)
    BY <1>1, <1>2
  <2> HIDE DEF c
  <2> QED
    BY <1>6, <2>1, <2>2, <2>3, RingHolds
<1> QED
  BY <1>3, <1>8 DEF q

\* try_recv takes the first message and leaves its slot stale.
LEMMA RecvFacts ==
  ASSUME NEW r, Ring(r), ~IsEmpty(r)
  PROVE  /\ Ring(TryRecv(r)) /\ Messages(TryRecv(r)) = Tail(Messages(r))
         /\ TryRecv(r).capacity = r.capacity /\ ~IsFull(TryRecv(r))
         /\ Messages(r) # <<>> /\ FrontMsg(r) = Head(Messages(r)) /\ FrontMsg(r) \in Msg
<1> DEFINE n == r.valid_count
           c == r.capacity
           f == r.first
           g == IF f = c - 1 THEN 0 ELSE f + 1
           q == Tail(Messages(r))
<1>1. c \in 1..MaxCapacity /\ c \in Nat /\ n \in 1..c /\ f \in 0..(c - 1)
  BY QueueAssumption DEF Ring, IsEmpty
<1>2. (f + 1) % c = g /\ g \in 0..(c - 1)
  <2>1. c \in Int /\ f \in 0..(c - 1) /\ 1 \in 0..c
    BY <1>1
  <2> HIDE DEF c, f
  <2> QED
    BY <2>1, WrapFacts
<1>3. TryRecv(r) = [capacity |-> c, buffer |-> r.buffer, valid_count |-> n - 1, first |-> g]
  <2> DEFINE u == [r EXCEPT !.first = g]
  <2>1. TryRecv(r) = [u EXCEPT !.valid_count = n - 1]
    BY <1>2, Zenon DEF TryRecv
  <2> HIDE DEF g
  <2>2. u = [capacity |-> c, buffer |-> r.buffer, valid_count |-> n, first |-> g]
    BY DEF Ring
  <2> HIDE DEF u
  <2> QED
    BY <2>1, <2>2
<1>4. /\ Messages(r) \in Seq(Msg) /\ Len(Messages(r)) = n
      /\ \A i \in 1..n : Messages(r)[i] = r.buffer[At(c, f, i - 1)]
  BY MessagesFacts
<1>5. /\ Messages(r) # <<>> /\ Head(Messages(r)) = Messages(r)[1]
      /\ q \in Seq(Msg) /\ Len(q) = n - 1 /\ \A i \in 1..(n - 1) : q[i] = Messages(r)[i + 1]
  <2> DEFINE s == Messages(r)
  <2>1. s \in Seq(Msg) /\ Len(s) = n /\ n \in Nat /\ n > 0
    BY <1>1, <1>4
  <2> HIDE DEF s, n
  <2>2. s # <<>>
    BY <2>1, EmptySeq
  <2>3. Head(s) = s[1] /\ Tail(s) \in Seq(Msg) /\ Len(Tail(s)) = n - 1
        /\ \A i \in 1..Len(Tail(s)) : Tail(s)[i] = s[i + 1]
    BY <2>1, <2>2, HeadTailProperties
  <2> QED
    BY <2>2, <2>3 DEF s
<1>6. r.buffer \in Slots(c)
  BY DEF Ring
<1>7. \A i \in 1..(n - 1) : r.buffer[At(c, g, i - 1)] = q[i]
  <2> SUFFICES ASSUME NEW i \in 1..(n - 1) PROVE r.buffer[At(c, g, i - 1)] = q[i]
    OBVIOUS
  <2>1. i + 1 \in 1..n /\ At(c, g, i - 1) = At(c, f, (i + 1) - 1)
    BY <1>1 DEF At
  <2> HIDE DEF q, g
  <2> QED
    BY <1>4, <1>5, <2>1
<1>8. At(c, f, 1 - 1) = f
  BY <1>1 DEF At
<1>9. FrontMsg(r) = Head(Messages(r)) /\ FrontMsg(r) \in Msg
  <2>1. 1 \in 1..n
    BY <1>1
  <2>2. Messages(r)[1] = r.buffer[f] /\ Messages(r)[1] \in Msg
    BY <1>4, <1>8, <2>1, ElementOfSeq
  <2> QED
    BY <1>5, <2>2 DEF FrontMsg
<1> HIDE DEF q, g
<1>10. Ring(TryRecv(r)) /\ Messages(TryRecv(r)) = q
  <2>1. Len(q) \in 0..c /\ q \in Seq(Msg) /\ \A i \in 1..Len(q) : r.buffer[At(c, g, i - 1)] = q[i]
    BY <1>1, <1>5, <1>7
  <2>2. TryRecv(r) = [capacity |-> c, buffer |-> r.buffer, valid_count |-> Len(q), first |-> g]
    BY <1>3, <1>5
  <2>3. c \in 1..MaxCapacity /\ g \in 0..(c - 1)
    BY <1>1, <1>2
  <2> HIDE DEF c
  <2> QED
    BY <1>6, <2>1, <2>2, <2>3, RingHolds
<1>11. TryRecv(r).capacity = c /\ ~IsFull(TryRecv(r))
  BY <1>1, <1>3 DEF IsFull
<1> QED
  BY <1>5, <1>9, <1>10, <1>11 DEF q

\* try_send and try_jam together.
LEMMA CommitFacts ==
  ASSUME NEW r, Ring(r), NEW m \in Msg, NEW p \in Placement, ~IsFull(r)
  PROVE  /\ Ring(Commit(r, m, p)) /\ Commit(r, m, p).capacity = r.capacity
         /\ Messages(Commit(r, m, p)) = IF p = "Head" THEN <<m>> \o Messages(r) ELSE Append(Messages(r), m)
  BY SendFacts, JamFacts DEF Commit

-----------------------------------------------------------------------------
(***************************************************************************)
(* Types and wake-ups.                                                     *)
(***************************************************************************)
\* What the operations keep between them, apart from the tokens.
Sound ==
  /\ Ring(ring) /\ NoLostWakeup
  /\ blocked_on_recv \in Seq(Receiver) /\ blocked_on_send \in Seq(Sender)
  /\ result \in [Thread -> Answers]

\* A queue that was never created is sound.
LEMMA SoundInit == Init => Sound
<1> SUFFICES ASSUME Init PROVE Sound
  OBVIOUS
<1>1. Ring(ring)
  BY QueueAssumption, NewRingFacts DEF Init
<1>2. result \in [Thread -> Answers]
  BY DEF Init, Answers
<1>3. blocked_on_recv \in Seq(Receiver) /\ blocked_on_send \in Seq(Sender)
  BY EmptySeq DEF Init
<1> QED
  BY <1>1, <1>2, <1>3 DEF Init, Sound, NoLostWakeup

\* The answers a thread may be given.
LEMMA AnswerFacts ==
  /\ NoAnswer \in Answers /\ WouldBlock \in Answers /\ SendUnblocked \in Answers
  /\ \A m \in Msg : Delivered(m) \in Answers
  /\ \A r \in [Thread -> Answers], t \in Thread, a \in Answers : [r EXCEPT ![t] = a] \in [Thread -> Answers]
  BY DEF Answers

\* The first waiter and the others.
LEMMA FirstWaiters ==
  ASSUME Sound
  PROVE  /\ blocked_on_recv # <<>> => /\ Head(blocked_on_recv).id \in Thread
                                      /\ Tail(blocked_on_recv) \in Seq(Receiver)
         /\ blocked_on_send # <<>> => /\ Head(blocked_on_send).id \in Thread
                                      /\ Head(blocked_on_send).msg \in Msg
                                      /\ Head(blocked_on_send).place \in Placement
                                      /\ Tail(blocked_on_send) \in Seq(Sender)
<1>1. blocked_on_recv # <<>> => Head(blocked_on_recv) \in Receiver /\ Tail(blocked_on_recv) \in Seq(Receiver)
  BY TailFacts DEF Sound
<1>2. blocked_on_send # <<>> => Head(blocked_on_send) \in Sender /\ Tail(blocked_on_send) \in Seq(Sender)
  BY TailFacts DEF Sound
<1> QED
  BY <1>1, <1>2 DEF Receiver, Sender

\* Handing a message over keeps it: the ring is empty and stays so.
LEMMA WakeReceiverKeeps ==
  ASSUME Sound, NEW m \in Msg, NEW res \in [Thread -> Answers], WakeReceiver(m, res)
  PROVE  Sound'
<1>1. result' \in [Thread -> Answers] /\ blocked_on_recv' \in Seq(Receiver)
  BY FirstWaiters, AnswerFacts DEF WakeReceiver
<1>2. UNCHANGED <<ring, blocked_on_send>> /\ IsEmpty(ring)
  BY DEF WakeReceiver, Sound, NoLostWakeup
<1>3. NoLostWakeup'
  BY <1>2 DEF Sound, NoLostWakeup, IsEmpty
<1>4. Ring(ring')
  BY <1>2 DEF Sound
<1> QED
  BY <1>1, <1>2, <1>3, <1>4 DEF Sound

\* Sending, one case per branch of the code.
LEMMA SendKeeps ==
  ASSUME Sound, NEW t \in Thread, NEW m \in Msg, NEW p \in Priority, NEW pl \in Placement,
         NEW b \in BOOLEAN, Send(t, m, p, pl, b)
  PROVE  Sound'
<1> DEFINE w == [id |-> t, pri |-> p, msg |-> m, place |-> pl]
<1>1. CASE WakeReceiver(m, [result EXCEPT ![t] = SendUnblocked])
  BY <1>1, WakeReceiverKeeps, AnswerFacts DEF Sound
<1>2. CASE /\ blocked_on_recv = <<>> /\ ~IsFull(ring) /\ ring' = Commit(ring, m, pl)
           /\ result' = [result EXCEPT ![t] = SendUnblocked]
           /\ UNCHANGED <<blocked_on_recv, blocked_on_send>>
  <2>1. Ring(ring') /\ result' \in [Thread -> Answers]
    BY <1>2, CommitFacts, AnswerFacts DEF Sound
  <2>2. blocked_on_send = <<>>
    BY <1>2 DEF Sound, NoLostWakeup
  <2> QED
    BY <1>2, <2>1, <2>2 DEF Sound, NoLostWakeup
<1>3. CASE /\ blocked_on_recv = <<>> /\ IsFull(ring) /\ blocked_on_send' = Park(blocked_on_send, w)
           /\ UNCHANGED <<ring, blocked_on_recv, result>>
  <2>1. blocked_on_send' \in Seq(Sender)
    BY <1>3, ParkFacts DEF Sound, Sender
  <2> QED
    BY <1>3, <2>1 DEF Sound, NoLostWakeup, IsFull
<1>4. CASE /\ result' = [result EXCEPT ![t] = WouldBlock]
           /\ UNCHANGED <<ring, blocked_on_recv, blocked_on_send>>
  <2>1. result' \in [Thread -> Answers]
    BY <1>4, AnswerFacts DEF Sound
  <2> QED
    BY <1>4, <2>1 DEF Sound, NoLostWakeup, IsEmpty, IsFull
<1> QED
  BY <1>1, <1>2, <1>3, <1>4 DEF Send

\* Receiving: the slot that comes free goes to a parked sender at once.
LEMMA RecvKeeps ==
  ASSUME Sound, NEW t \in Thread, NEW p \in Priority, NEW b \in BOOLEAN, Recv(t, p, b)
  PROVE  Sound'
<1> DEFINE w == [id |-> t, pri |-> p]
<1>0. ~IsEmpty(ring) => /\ Ring(TryRecv(ring)) /\ ~IsFull(TryRecv(ring)) /\ blocked_on_recv = <<>>
                        /\ Delivered(FrontMsg(ring)) \in Answers
  BY RecvFacts, AnswerFacts DEF Sound, NoLostWakeup
<1>1. CASE /\ ~IsEmpty(ring) /\ blocked_on_send = <<>> /\ ring' = TryRecv(ring)
           /\ result' = [result EXCEPT ![t] = Delivered(FrontMsg(ring))]
           /\ UNCHANGED <<blocked_on_recv, blocked_on_send>>
  <2>1. result' \in [Thread -> Answers]
    BY <1>0, <1>1, AnswerFacts DEF Sound
  <2> QED
    BY <1>0, <1>1, <2>1 DEF Sound, NoLostWakeup
<1>2. CASE /\ ~IsEmpty(ring) /\ blocked_on_send # <<>>
           /\ ring' = WakeSender(TryRecv(ring), Head(blocked_on_send))
           /\ result' = [result EXCEPT ![t] = Delivered(FrontMsg(ring)),
                                       ![Head(blocked_on_send).id] = SendUnblocked]
           /\ blocked_on_send' = Tail(blocked_on_send)
           /\ UNCHANGED blocked_on_recv
  <2>1. Ring(ring')
    BY <1>0, <1>2, CommitFacts, FirstWaiters DEF WakeSender
  <2>2. result' \in [Thread -> Answers]
    <3> DEFINE r == [result EXCEPT ![t] = Delivered(FrontMsg(ring))]
    <3>1. r \in [Thread -> Answers]
      BY <1>0, <1>2, AnswerFacts DEF Sound
    <3>2. result' = [r EXCEPT ![Head(blocked_on_send).id] = SendUnblocked]
      BY <1>2, Zenon
    <3> HIDE DEF r
    <3> QED
      BY <1>2, <3>1, <3>2, AnswerFacts, FirstWaiters
  <2>3. IsFull(ring) /\ IsFull(ring')
    <3>1. IsFull(ring)
      BY <1>2 DEF Sound, NoLostWakeup
    <3>2. /\ Len(Messages(ring)) = ring.valid_count /\ Messages(ring) \in Seq(Msg)
          /\ Len(Messages(ring')) = ring'.valid_count
      BY <2>1, MessagesFacts DEF Sound
    <3>3. Messages(TryRecv(ring)) = Tail(Messages(ring)) /\ Messages(ring) # <<>>
          /\ TryRecv(ring).capacity = ring.capacity
      BY <1>2, RecvFacts DEF Sound
    <3>4. /\ ring'.capacity = ring.capacity
          /\ \/ Messages(ring') = <<Head(blocked_on_send).msg>> \o Tail(Messages(ring))
             \/ Messages(ring') = Append(Tail(Messages(ring)), Head(blocked_on_send).msg)
      <4> DEFINE r == TryRecv(ring)
                 z == Head(blocked_on_send)
      <4>1. Ring(r) /\ ~IsFull(r) /\ z.msg \in Msg /\ z.place \in Placement
        BY <1>0, <1>2, FirstWaiters
      <4>2. ring' = Commit(r, z.msg, z.place)
        BY <1>2 DEF WakeSender
      <4>3. r.capacity = ring.capacity /\ Messages(r) = Tail(Messages(ring))
        BY <3>3
      <4> HIDE DEF r, z
      <4>4. /\ Commit(r, z.msg, z.place).capacity = r.capacity
            /\ \/ Messages(Commit(r, z.msg, z.place)) = <<z.msg>> \o Messages(r)
               \/ Messages(Commit(r, z.msg, z.place)) = Append(Messages(r), z.msg)
        BY <4>1, CommitFacts
      <4> QED
        BY <4>2, <4>3, <4>4 DEF z
    <3>5. Len(Messages(ring')) = Len(Messages(ring))
      <4> DEFINE q == Messages(ring)
                 z == Head(blocked_on_send).msg
      <4> HIDE DEF q, z
      <4>1. q \in Seq(Msg) /\ q # <<>> /\ z \in Msg
        BY <1>2, <3>2, <3>3, FirstWaiters DEF q, z
      <4>2. Tail(q) \in Seq(Msg) /\ Len(Tail(q)) = Len(q) - 1 /\ Len(q) \in Nat
        BY <4>1, TailFacts, LenProperties
      <4>3. Len(<<z>> \o Tail(q)) = Len(q) /\ Len(Append(Tail(q), z)) = Len(q)
        BY <4>1, <4>2
      <4> QED
        BY <3>4, <4>3 DEF q, z
    <3> QED
      BY <3>1, <3>2, <3>4, <3>5 DEF IsFull
  <2>4. blocked_on_send' \in Seq(Sender) /\ blocked_on_recv' = <<>>
    BY <1>0, <1>2, FirstWaiters
  <2> QED
    BY <2>1, <2>2, <2>3, <2>4 DEF Sound, NoLostWakeup
<1>3. CASE /\ IsEmpty(ring) /\ blocked_on_recv' = Park(blocked_on_recv, w)
           /\ UNCHANGED <<ring, blocked_on_send, result>>
  <2>1. blocked_on_recv' \in Seq(Receiver)
    BY <1>3, ParkFacts DEF Sound, Receiver
  <2> QED
    BY <1>3, <2>1 DEF Sound, NoLostWakeup, IsEmpty
<1>4. CASE /\ result' = [result EXCEPT ![t] = WouldBlock]
           /\ UNCHANGED <<ring, blocked_on_recv, blocked_on_send>>
  <2>1. result' \in [Thread -> Answers]
    BY <1>4, AnswerFacts DEF Sound
  <2> QED
    BY <1>4, <2>1 DEF Sound, NoLostWakeup, IsEmpty, IsFull
<1> QED
  BY <1>1, <1>2, <1>3, <1>4 DEF Recv

\* Every step keeps it.
LEMMA SoundStep == Sound /\ [Next]_vars => Sound'
<1> SUFFICES ASSUME Sound, [Next]_vars PROVE Sound'
  OBVIOUS
<1>1. ASSUME NEW count \in 0..MaxCapacity, Create(count) PROVE Sound'
  <2>1. (IF count = 0 THEN 1 ELSE count) \in 0..MaxCapacity
    BY QueueAssumption
  <2>2. Ring(ring') /\ UNCHANGED <<blocked_on_recv, blocked_on_send, result>>
    BY <1>1, <2>1, NewRingFacts DEF Create
  <2>3. blocked_on_recv = <<>> /\ blocked_on_send = <<>>
    <3>1. Waiting = {}
      BY <1>1 DEF Create
    <3>2. blocked_on_recv # <<>> => 1 \in DOMAIN blocked_on_recv /\ 1 \in DOMAIN WaiterIds(blocked_on_recv)
      BY LenProperties, EmptySeq DEF Sound, WaiterIds
    <3>3. blocked_on_send # <<>> => 1 \in DOMAIN blocked_on_send /\ 1 \in DOMAIN WaiterIds(blocked_on_send)
      BY LenProperties, EmptySeq DEF Sound, WaiterIds
    <3> QED
      BY <3>1, <3>2, <3>3 DEF Waiting, ToSet
  <2> QED
    BY <2>2, <2>3 DEF Sound, NoLostWakeup
<1>2. ASSUME NEW t \in Thread, NEW m \in Fresh, NEW p \in Priority, NEW pl \in Placement,
             NEW b \in BOOLEAN, Send(t, m, p, pl, b)
      PROVE  Sound'
  BY <1>2, SendKeeps DEF Fresh
<1>3. ASSUME NEW t \in Thread, NEW p \in Priority, NEW b \in BOOLEAN, Recv(t, p, b) PROVE Sound'
  BY <1>3, RecvKeeps
<1>4. ASSUME NEW m \in Fresh, Post(m) PROVE Sound'
  <2>0. m \in Msg
    BY DEF Fresh
  <2>1. CASE WakeReceiver(m, result)
    BY <2>0, <2>1, WakeReceiverKeeps DEF Sound
  <2>2. CASE /\ blocked_on_recv = <<>> /\ ring' = IF IsFull(ring) THEN ring ELSE TrySend(ring, m)
             /\ UNCHANGED <<blocked_on_recv, blocked_on_send, result>>
    <3>1. Ring(ring')
      BY <2>0, <2>2, SendFacts DEF Sound
    <3>2. blocked_on_send = <<>> \/ ring' = ring
      BY <2>2 DEF Sound, NoLostWakeup
    <3> QED
      BY <2>2, <3>1, <3>2 DEF Sound, NoLostWakeup
  <2> QED
    BY <1>4, <2>1, <2>2 DEF Post
<1>5. ASSUME NEW t \in Thread, Resume(t) PROVE Sound'
  <2>1. result' \in [Thread -> Answers]
    BY <1>5, AnswerFacts DEF Resume, Sound
  <2> QED
    BY <1>5, <2>1 DEF Resume, Sound, NoLostWakeup, IsEmpty, IsFull
<1>6. ASSUME NEW t \in Thread, RemoveWaiter(t) PROVE Sound'
  <2>1. result' \in [Thread -> Answers]
    BY <1>6, AnswerFacts DEF RemoveWaiter, Sound
  <2>2. /\ blocked_on_recv' \in Seq(Receiver) /\ (blocked_on_recv = <<>> => blocked_on_recv' = <<>>)
        /\ blocked_on_send' \in Seq(Sender) /\ (blocked_on_send = <<>> => blocked_on_send' = <<>>)
    BY <1>6, UnparkFacts DEF RemoveWaiter, Sound
  <2> QED
    BY <1>6, <2>1, <2>2 DEF RemoveWaiter, Sound, NoLostWakeup, IsEmpty, IsFull
<1>7. CASE UNCHANGED vars
  BY <1>7 DEF vars, Sound, NoLostWakeup, IsEmpty, IsFull
<1> QED
  BY <1>1, <1>2, <1>3, <1>4, <1>5, <1>6, <1>7 DEF Next

\* Sound holds throughout.
LEMMA SoundAlways == Spec => []Sound
  BY SoundInit, SoundStep, PTL DEF Spec

-----------------------------------------------------------------------------
(***************************************************************************)
(* The refinement.                                                         *)
(***************************************************************************)
\* Both modules park and unpark with the operators of WaitList.
LEMMA SameLists ==
  /\ \A ws, w : Deque!Park(ws, w) = Park(ws, w)
  /\ \A ws, t : Deque!Unpark(ws, t) = Unpark(ws, t)
  /\ Deque!Waiting = Waiting /\ \A t : Deque!Ready(t) <=> Ready(t)
<1>1. \A ws, w : Deque!Park(ws, w) = Park(ws, w)
  BY DEF Deque!Park, Deque!PriorityInsert, Deque!InsertIndex, Deque!FirstIn, Deque!Priorities,
         Deque!InsertAt, Park, PriorityInsert, InsertIndex, FirstIn, Priorities, InsertAt
<1>2. \A ws, t : Deque!Unpark(ws, t) = Unpark(ws, t)
  BY DEF Deque!Unpark, Deque!RemoveAt, Unpark, RemoveAt
<1>3. Deque!Waiting = Waiting
  BY DEF Deque!Waiting, Deque!WaiterIds, Deque!ToSet, Waiting, WaiterIds, ToSet
<1>4. \A t : Deque!Ready(t) <=> Ready(t)
  BY <1>3 DEF Deque!Ready, Ready, Deque!NoAnswer, NoAnswer, Deque!Answer, Answer
<1> QED
  BY <1>1, <1>2, <1>3, <1>4

\* How full the ring is is how long the list is.
LEMMA FillFacts ==
  ASSUME Sound
  PROVE  /\ IsFull(ring) <=> Len(Messages(ring)) = ring.capacity
         /\ ~IsFull(ring) <=> Len(Messages(ring)) < ring.capacity
         /\ IsEmpty(ring) <=> Messages(ring) = <<>>
<1>1. /\ Messages(ring) \in Seq(Msg) /\ Len(Messages(ring)) = ring.valid_count
      /\ ring.valid_count \in 0..ring.capacity /\ ring.capacity \in Nat
  BY MessagesFacts, QueueAssumption DEF Sound, Ring
<1>2. Messages(ring) = <<>> <=> Len(Messages(ring)) = 0
  BY <1>1, EmptySeq
<1> QED
  BY <1>1, <1>2 DEF IsFull, IsEmpty

\* Handing over is handing over.
LEMMA WakeMaps ==
  ASSUME NEW m, NEW res, WakeReceiver(m, res)
  PROVE  Deque!HandOver(m, res)
  BY DEF WakeReceiver, Deque!HandOver, Deque!Delivered, Deque!Answer, Delivered, Answer

\* Sending to the ring is sending to the list.
LEMMA SendMaps ==
  ASSUME Sound, NEW t \in Thread, NEW m \in Msg, NEW p \in Priority, NEW pl \in Placement,
         NEW b \in BOOLEAN, Send(t, m, p, pl, b)
  PROVE  Deque!Send(t, m, p, pl, b)
<1>0. Deque!Ready(t)
  BY SameLists DEF Send
<1> USE DEF Deque!SendUnblocked, Deque!WouldBlock, Deque!Answer, SendUnblocked, WouldBlock, Answer
<1>1. CASE WakeReceiver(m, [result EXCEPT ![t] = SendUnblocked])
  <2>1. Deque!HandOver(m, [result EXCEPT ![t] = SendUnblocked])
    BY <1>1, WakeMaps
  <2> QED
    BY <1>0, <2>1 DEF Deque!Send
<1>2. CASE /\ blocked_on_recv = <<>> /\ ~IsFull(ring) /\ ring' = Commit(ring, m, pl)
           /\ result' = [result EXCEPT ![t] = SendUnblocked]
           /\ UNCHANGED <<blocked_on_recv, blocked_on_send>>
  <2>1. Messages(ring)' = Deque!Put(Messages(ring), m, pl) /\ ring.capacity' = ring.capacity
    BY <1>2, CommitFacts DEF Sound, Deque!Put
  <2>2. Len(Messages(ring)) < ring.capacity
    BY <1>2, FillFacts
  <2> QED
    BY <1>0, <1>2, <2>1, <2>2 DEF Deque!Send
<1>3. CASE /\ blocked_on_recv = <<>> /\ IsFull(ring) /\ b
           /\ blocked_on_send' = Park(blocked_on_send, [id |-> t, pri |-> p, msg |-> m, place |-> pl])
           /\ UNCHANGED <<ring, blocked_on_recv, result>>
  <2>1. Len(Messages(ring)) = ring.capacity /\ Messages(ring)' = Messages(ring) /\ ring.capacity' = ring.capacity
    BY <1>3, FillFacts
  <2>2. blocked_on_send' = Deque!Park(blocked_on_send, [id |-> t, pri |-> p, msg |-> m, place |-> pl])
    BY <1>3, SameLists
  <2> QED
    BY <1>0, <1>3, <2>1, <2>2 DEF Deque!Send
<1>4. CASE /\ blocked_on_recv = <<>> /\ IsFull(ring) /\ ~b
           /\ result' = [result EXCEPT ![t] = WouldBlock]
           /\ UNCHANGED <<ring, blocked_on_recv, blocked_on_send>>
  <2>1. Len(Messages(ring)) = ring.capacity /\ Messages(ring)' = Messages(ring) /\ ring.capacity' = ring.capacity
    BY <1>4, FillFacts
  <2> QED
    BY <1>0, <1>4, <2>1 DEF Deque!Send
<1> QED
  BY <1>1, <1>2, <1>3, <1>4 DEF Send

\* Receiving from the ring is receiving from the list.
LEMMA RecvMaps ==
  ASSUME Sound, NEW t \in Thread, NEW p \in Priority, NEW b \in BOOLEAN, Recv(t, p, b)
  PROVE  Deque!Recv(t, p, b)
<1> USE DEF Deque!SendUnblocked, Deque!WouldBlock, Deque!Delivered, Deque!Answer,
            SendUnblocked, WouldBlock, Delivered, Answer
<1>0. Deque!Ready(t)
  BY SameLists DEF Recv
<1>1. ~IsEmpty(ring) =>
        /\ Messages(ring) # <<>> /\ FrontMsg(ring) = Head(Messages(ring))
        /\ Messages(TryRecv(ring)) = Tail(Messages(ring)) /\ TryRecv(ring).capacity = ring.capacity
        /\ Ring(TryRecv(ring)) /\ ~IsFull(TryRecv(ring))
  BY RecvFacts DEF Sound
<1>2. CASE /\ ~IsEmpty(ring) /\ blocked_on_send = <<>> /\ ring' = TryRecv(ring)
           /\ result' = [result EXCEPT ![t] = Delivered(FrontMsg(ring))]
           /\ UNCHANGED <<blocked_on_recv, blocked_on_send>>
  <2>1. Messages(ring)' = Tail(Messages(ring)) /\ ring.capacity' = ring.capacity
    BY <1>1, <1>2
  <2> QED
    BY <1>0, <1>1, <1>2, <2>1 DEF Deque!Recv
<1>3. CASE /\ ~IsEmpty(ring) /\ blocked_on_send # <<>>
           /\ ring' = WakeSender(TryRecv(ring), Head(blocked_on_send))
           /\ result' = [result EXCEPT ![t] = Delivered(FrontMsg(ring)),
                                       ![Head(blocked_on_send).id] = SendUnblocked]
           /\ blocked_on_send' = Tail(blocked_on_send)
           /\ UNCHANGED blocked_on_recv
  <2> DEFINE r == TryRecv(ring)
             z == Head(blocked_on_send)
  <2>1. Ring(r) /\ ~IsFull(r) /\ z.msg \in Msg /\ z.place \in Placement
    BY <1>1, <1>3, FirstWaiters
  <2>2. ring' = Commit(r, z.msg, z.place)
    BY <1>3 DEF WakeSender
  <2>3. r.capacity = ring.capacity /\ Messages(r) = Tail(Messages(ring))
    BY <1>1, <1>3
  <2> HIDE DEF r, z
  <2>4. /\ Commit(r, z.msg, z.place).capacity = r.capacity
        /\ Messages(Commit(r, z.msg, z.place)) = Deque!Put(Messages(r), z.msg, z.place)
    BY <2>1, CommitFacts DEF Deque!Put
  <2>5. ring.capacity' = ring.capacity
        /\ Messages(ring)' = Deque!Put(Tail(Messages(ring)), Head(blocked_on_send).msg, Head(blocked_on_send).place)
    BY <2>2, <2>3, <2>4 DEF z
  <2> QED
    BY <1>0, <1>1, <1>3, <2>5 DEF Deque!Recv
<1>4. CASE /\ IsEmpty(ring) /\ b /\ blocked_on_recv' = Park(blocked_on_recv, [id |-> t, pri |-> p])
           /\ UNCHANGED <<ring, blocked_on_send, result>>
  <2>1. Messages(ring) = <<>> /\ Messages(ring)' = Messages(ring) /\ ring.capacity' = ring.capacity
    BY <1>4, FillFacts
  <2>2. blocked_on_recv' = Deque!Park(blocked_on_recv, [id |-> t, pri |-> p])
    BY <1>4, SameLists
  <2> QED
    BY <1>0, <1>4, <2>1, <2>2 DEF Deque!Recv
<1>5. CASE /\ IsEmpty(ring) /\ ~b /\ result' = [result EXCEPT ![t] = WouldBlock]
           /\ UNCHANGED <<ring, blocked_on_recv, blocked_on_send>>
  <2>1. Messages(ring) = <<>> /\ Messages(ring)' = Messages(ring) /\ ring.capacity' = ring.capacity
    BY <1>5, FillFacts
  <2> QED
    BY <1>0, <1>5, <2>1 DEF Deque!Recv
<1> QED
  BY <1>2, <1>3, <1>4, <1>5 DEF Recv

\* Every step of the ring is a step of the list.
LEMMA DequeStep == Sound /\ [Next]_vars => [Deque!Next]_(Deque!dvars)
<1> SUFFICES ASSUME Sound, [Next]_vars PROVE [Deque!Next]_(Deque!dvars)
  OBVIOUS
<1>1. ASSUME NEW count \in 0..MaxCapacity, Create(count) PROVE Deque!Next
  <2> DEFINE n == IF count = 0 THEN 1 ELSE count
  <2>1. n \in 1..MaxCapacity /\ n \in 0..MaxCapacity
    BY QueueAssumption
  <2>2. ring' = NewRing(n) /\ Waiting = {} /\ UNCHANGED <<blocked_on_recv, blocked_on_send, result>>
    BY <1>1 DEF Create
  <2> HIDE DEF n
  <2>3. ring.capacity' = n /\ Messages(ring)' = <<>>
    BY <2>1, <2>2, NewRingFacts
  <2>4. Deque!Create(n)
    BY <2>2, <2>3, SameLists DEF Deque!Create
  <2> QED
    BY <2>1, <2>4 DEF Deque!Next
<1>2. ASSUME NEW t \in Thread, NEW m \in Fresh, NEW p \in Priority, NEW pl \in Placement,
             NEW b \in BOOLEAN, Send(t, m, p, pl, b)
      PROVE  Deque!Next
  <2>1. m \in Msg /\ Deque!Send(t, m, p, pl, b)
    BY <1>2, SendMaps DEF Fresh
  <2>2. pl \in Deque!Placement
    BY DEF Placement, Deque!Placement
  <2> QED
    BY <2>1, <2>2 DEF Deque!Next
<1>3. ASSUME NEW t \in Thread, NEW p \in Priority, NEW b \in BOOLEAN, Recv(t, p, b) PROVE Deque!Next
  BY <1>3, RecvMaps DEF Deque!Next
<1>4. ASSUME NEW m \in Fresh, Post(m) PROVE Deque!Next
  <2>0. m \in Msg
    BY DEF Fresh
  <2>1. CASE WakeReceiver(m, result)
    BY <2>0, <2>1, WakeMaps DEF Deque!Post, Deque!Next
  <2>2. CASE /\ blocked_on_recv = <<>> /\ ring' = IF IsFull(ring) THEN ring ELSE TrySend(ring, m)
             /\ UNCHANGED <<blocked_on_recv, blocked_on_send, result>>
    <3>1. ring.capacity' = ring.capacity
          /\ Messages(ring)' = IF Len(Messages(ring)) < ring.capacity
                               THEN Append(Messages(ring), m) ELSE Messages(ring)
      BY <2>0, <2>2, SendFacts, FillFacts DEF Sound
    <3>2. Deque!Post(m)
      BY <2>2, <3>1 DEF Deque!Post
    <3> QED
      BY <2>0, <3>2 DEF Deque!Next
  <2> QED
    BY <1>4, <2>1, <2>2 DEF Post
<1>5. ASSUME NEW t \in Thread, Resume(t) PROVE Deque!Next
  <2>1. Deque!Resume(t)
    BY <1>5 DEF Resume, Deque!Resume, Deque!NoAnswer, NoAnswer, Deque!Answer, Answer
  <2> QED
    BY <2>1 DEF Deque!Next
<1>6. ASSUME NEW t \in Thread, RemoveWaiter(t) PROVE Deque!Next
  <2>1. Deque!Withdraw(t)
    BY <1>6, SameLists
       DEF RemoveWaiter, Deque!Withdraw, Deque!NoAnswer, NoAnswer, Deque!Answer, Answer
  <2> QED
    BY <2>1 DEF Deque!Next
<1>7. CASE UNCHANGED vars
  BY <1>7 DEF vars, Deque!dvars
<1> QED
  BY <1>1, <1>2, <1>3, <1>4, <1>5, <1>6, <1>7 DEF Next

\* A queue that was never created is the empty list of capacity 0.
LEMMA DequeInit == Init => Deque!Init
<1> SUFFICES ASSUME Init PROVE Deque!Init
  OBVIOUS
<1>1. ring.capacity = 0 /\ Messages(ring) = <<>>
  BY QueueAssumption, NewRingFacts DEF Init
<1>2. 0 \in 0..MaxCapacity
  BY QueueAssumption
<1> QED
  BY <1>1, <1>2 DEF Init, Deque!Init, Deque!NoAnswer, NoAnswer, Deque!Answer, Answer

\* The ring implements the double-ended list: neither the wrap-around, nor the
\* head that steps back on a jam, nor the stale slots show, at any capacity.
THEOREM RingImplementsDeque == Spec => ImplementsDeque
<1>1. Spec => Deque!Spec
  BY DequeInit, DequeStep, SoundAlways, PTL DEF Spec, Deque!Spec
<1> QED
  BY <1>1 DEF ImplementsDeque

-----------------------------------------------------------------------------
(***************************************************************************)
(* Every token is in one place.                                            *)
(***************************************************************************)
\* The tokens of parked senders and of answers, none twice.
SendingIn(ws) == {w.msg : w \in ToSet(ws)}
GivenIn(res)  == {res[t].msg : t \in {u \in Thread : res[u].kind = "Delivered"}}
OneSenderIn(ws) == NoRepeats(ws) /\ \A v, w \in ToSet(ws) : v.msg = w.msg => v = w
OneAnswerIn(res) ==
  \A t, u \in Thread :
    res[t].kind = "Delivered" /\ res[u].kind = "Delivered" /\ res[t].msg = res[u].msg => t = u

OnceIn(q, ws, res) ==
  /\ NoRepeats(q) /\ OneSenderIn(ws) /\ OneAnswerIn(res)
  /\ ToSet(q) \cap SendingIn(ws) = {}
  /\ ToSet(q) \cap GivenIn(res) = {}
  /\ SendingIn(ws) \cap GivenIn(res) = {}
Once == OnceIn(Messages(ring), blocked_on_send, result)

\* A message more at either end of the list.
LEMMA OneMoreMessage ==
  ASSUME NEW q \in Seq(Msg), NEW m \in Msg
  PROVE  /\ ToSet(Append(q, m)) = ToSet(q) \union {m} /\ ToSet(<<m>> \o q) = ToSet(q) \union {m}
         /\ NoRepeats(q) /\ m \notin ToSet(q) => NoRepeats(Append(q, m)) /\ NoRepeats(<<m>> \o q)
<1>1. ToSet(Append(q, m)) = ToSet(q) \union {m} /\ ToSet(<<m>> \o q) = ToSet(q) \union {m}
  BY OneMoreElems
<1>2. ASSUME NoRepeats(q), m \notin ToSet(q) PROVE NoRepeats(Append(q, m))
  BY <1>2, OneMoreElems
<1>3. ASSUME NoRepeats(q), m \notin ToSet(q) PROVE NoRepeats(<<m>> \o q)
  BY <1>3, OneMoreElems
<1> QED
  BY <1>1, <1>2, <1>3

\* Parking, unparking and serving a sender.
LEMMA SenderFacts ==
  ASSUME NEW ws \in Seq(Sender), OneSenderIn(ws)
  PROVE  /\ \A w \in Sender : w.msg \notin SendingIn(ws) =>
              OneSenderIn(Park(ws, w)) /\ SendingIn(Park(ws, w)) = SendingIn(ws) \union {w.msg}
         /\ ws # <<>> => /\ OneSenderIn(Tail(ws))
                         /\ SendingIn(ws) = SendingIn(Tail(ws)) \union {Head(ws).msg}
                         /\ Head(ws).msg \notin SendingIn(Tail(ws))
         /\ \A t : OneSenderIn(Unpark(ws, t)) /\ SendingIn(Unpark(ws, t)) \subseteq SendingIn(ws)
<1>0. DOMAIN ws = 1..Len(ws) /\ \A i \in 1..Len(ws) : ws[i] \in Sender
  BY LenProperties, ElementOfSeq
<1>1. ASSUME NEW w \in Sender, w.msg \notin SendingIn(ws)
      PROVE  OneSenderIn(Park(ws, w)) /\ SendingIn(Park(ws, w)) = SendingIn(ws) \union {w.msg}
  <2>1. w \notin ToSet(ws)
    BY <1>1 DEF SendingIn
  <2>2. Priorities(ws) \in Seq(Priority) /\ Len(Priorities(ws)) = Len(ws)
    <3>1. \A i \in 1..Len(ws) : ws[i].pri \in Priority
      BY <1>0 DEF Sender
    <3> QED
      BY <1>0, <3>1, LenProperties DEF Priorities
  <2>3. ToSet(Park(ws, w)) = ToSet(ws) \union {w} /\ NoRepeats(Park(ws, w))
    BY <2>1, <2>2, PriorityInsertFacts DEF Park, OneSenderIn
  <2> QED
    BY <1>1, <2>3 DEF OneSenderIn, SendingIn
<1>2. ASSUME ws # <<>>
      PROVE  /\ OneSenderIn(Tail(ws))
             /\ SendingIn(ws) = SendingIn(Tail(ws)) \union {Head(ws).msg}
             /\ Head(ws).msg \notin SendingIn(Tail(ws))
  <2>1. /\ ToSet(ws) = ToSet(Tail(ws)) \union {Head(ws)} /\ NoRepeats(Tail(ws))
        /\ Head(ws) \notin ToSet(Tail(ws))
    BY <1>2, TailFacts DEF OneSenderIn
  <2> QED
    BY <2>1 DEF OneSenderIn, SendingIn
<1>3. ASSUME NEW t PROVE OneSenderIn(Unpark(ws, t)) /\ SendingIn(Unpark(ws, t)) \subseteq SendingIn(ws)
  <2>1. CASE \E i \in DOMAIN ws : ws[i].id = t
    <3> DEFINE k == CHOOSE i \in DOMAIN ws : ws[i].id = t
    <3>1. k \in 1..Len(ws)
      BY <1>0, <2>1
    <3>2. Unpark(ws, t) = RemoveAt(ws, k)
      BY <2>1 DEF Unpark
    <3> HIDE DEF k
    <3>3. ToSet(RemoveAt(ws, k)) = ToSet(ws) \ {ws[k]} /\ NoRepeats(RemoveAt(ws, k))
      BY <3>1, RemoveAtElems DEF OneSenderIn
    <3> QED
      BY <3>2, <3>3 DEF OneSenderIn, SendingIn
  <2>2. CASE ~ \E i \in DOMAIN ws : ws[i].id = t
    <3>1. Unpark(ws, t) = ws
      BY <2>2 DEF Unpark
    <3> QED
      BY <3>1
  <2> QED
    BY <2>1, <2>2
<1> QED
  BY <1>1, <1>2, <1>3

\* An answer given, and an answer that carries no message.
LEMMA GivenFacts ==
  ASSUME NEW res \in [Thread -> Answers], OneAnswerIn(res), NEW t \in Thread
  PROVE  /\ \A m \in Msg : m \notin GivenIn(res) =>
              /\ OneAnswerIn([res EXCEPT ![t] = Delivered(m)])
              /\ GivenIn([res EXCEPT ![t] = Delivered(m)]) \subseteq GivenIn(res) \union {m}
         /\ \A a \in {NoAnswer, WouldBlock, SendUnblocked} :
              /\ OneAnswerIn([res EXCEPT ![t] = a])
              /\ GivenIn([res EXCEPT ![t] = a]) \subseteq GivenIn(res)
<1>1. ASSUME NEW m \in Msg, m \notin GivenIn(res)
      PROVE  /\ OneAnswerIn([res EXCEPT ![t] = Delivered(m)])
             /\ GivenIn([res EXCEPT ![t] = Delivered(m)]) \subseteq GivenIn(res) \union {m}
  <2> DEFINE r == [res EXCEPT ![t] = Delivered(m)]
  <2>1. \A u \in Thread : r[u] = IF u = t THEN Delivered(m) ELSE res[u]
    OBVIOUS
  <2>2. Delivered(m).msg = m
    BY DEF Delivered, Answer
  <2> HIDE DEF r
  <2>3. \A u \in Thread : r[u].kind = "Delivered" =>
          IF u = t THEN r[u].msg = m ELSE r[u].msg = res[u].msg /\ res[u].kind = "Delivered"
    BY <2>1, <2>2
  <2>4. \A u \in Thread : res[u].kind = "Delivered" => res[u].msg # m
    BY <1>1 DEF GivenIn
  <2>5. OneAnswerIn(r)
    BY <2>3, <2>4 DEF OneAnswerIn
  <2>6. GivenIn(r) \subseteq GivenIn(res) \union {m}
    BY <2>3 DEF GivenIn
  <2> QED
    BY <2>5, <2>6 DEF r
<1>2. ASSUME NEW a \in {NoAnswer, WouldBlock, SendUnblocked}
      PROVE  OneAnswerIn([res EXCEPT ![t] = a]) /\ GivenIn([res EXCEPT ![t] = a]) \subseteq GivenIn(res)
  <2> DEFINE r == [res EXCEPT ![t] = a]
  <2>1. \A u \in Thread : r[u] = IF u = t THEN a ELSE res[u]
    OBVIOUS
  <2>2. a.kind # "Delivered"
    BY DEF NoAnswer, WouldBlock, SendUnblocked, Answer
  <2> HIDE DEF r
  <2>3. \A u \in Thread : r[u].kind = "Delivered" => r[u].msg = res[u].msg /\ res[u].kind = "Delivered"
    BY <2>1, <2>2
  <2>4. OneAnswerIn(r)
    BY <2>3 DEF OneAnswerIn
  <2>5. GivenIn(r) \subseteq GivenIn(res)
    BY <2>3 DEF GivenIn
  <2> QED
    BY <2>4, <2>5 DEF r
<1> QED
  BY <1>1, <1>2

\* A token in transit is in one of the three places.
LEMMA FreshFacts ==
  ASSUME NEW m \in Fresh
  PROVE  /\ m \in Msg /\ m \notin ToSet(Messages(ring))
         /\ m \notin SendingIn(blocked_on_send) /\ m \notin GivenIn(result)
  BY DEF Fresh, InTransit, SendingIn, GivenIn

\* A token handed over is in its receiver's answer only.
LEMMA WakeReceiverOnce ==
  ASSUME Sound, Once, NEW m \in Fresh, NEW res \in [Thread -> Answers],
         OneAnswerIn(res), GivenIn(res) \subseteq GivenIn(result), WakeReceiver(m, res)
  PROVE  Once'
<1> DEFINE t == Head(blocked_on_recv).id
<1>1. t \in Thread /\ result' = [res EXCEPT ![t] = Delivered(m)] /\ UNCHANGED <<ring, blocked_on_send>>
  BY FirstWaiters DEF WakeReceiver
<1> HIDE DEF t
<1>2. m \in Msg /\ m \notin GivenIn(res) /\ m \notin ToSet(Messages(ring)) /\ m \notin SendingIn(blocked_on_send)
  BY FreshFacts
<1>3. OneAnswerIn(result') /\ GivenIn(result') \subseteq GivenIn(res) \union {m}
  BY <1>1, <1>2, GivenFacts
<1> QED
  BY <1>1, <1>2, <1>3 DEF Once, OnceIn

\* A token sent is in its slot, or with its sender who is parked.
LEMMA SendOnce ==
  ASSUME Sound, Once, NEW t \in Thread, NEW m \in Fresh, NEW p \in Priority, NEW pl \in Placement,
         NEW b \in BOOLEAN, Send(t, m, p, pl, b)
  PROVE  Once'
<1> DEFINE w == [id |-> t, pri |-> p, msg |-> m, place |-> pl]
           q == Messages(ring)
<1>0. /\ m \in Msg /\ m \notin ToSet(q) /\ m \notin SendingIn(blocked_on_send) /\ m \notin GivenIn(result)
      /\ result \in [Thread -> Answers] /\ OneAnswerIn(result) /\ blocked_on_send \in Seq(Sender)
      /\ OneSenderIn(blocked_on_send)
  BY FreshFacts DEF Sound, Once, OnceIn
<1>a. ASSUME NEW a \in {WouldBlock, SendUnblocked}
      PROVE  /\ [result EXCEPT ![t] = a] \in [Thread -> Answers]
             /\ OneAnswerIn([result EXCEPT ![t] = a])
             /\ GivenIn([result EXCEPT ![t] = a]) \subseteq GivenIn(result)
  BY <1>0, GivenFacts, AnswerFacts
<1>1. CASE WakeReceiver(m, [result EXCEPT ![t] = SendUnblocked])
  BY <1>a, <1>1, WakeReceiverOnce
<1>2. CASE /\ ~IsFull(ring) /\ ring' = Commit(ring, m, pl)
           /\ result' = [result EXCEPT ![t] = SendUnblocked]
           /\ UNCHANGED <<blocked_on_recv, blocked_on_send>>
  <2>1. OneAnswerIn(result') /\ GivenIn(result') \subseteq GivenIn(result)
    BY <1>a, <1>2
  <2>2. q \in Seq(Msg)
    BY MessagesFacts DEF Sound
  <2>3. Messages(ring') = <<m>> \o q \/ Messages(ring') = Append(q, m)
    BY <1>0, <1>2, CommitFacts DEF Sound
  <2>4. NoRepeats(q)
    BY DEF Once, OnceIn
  <2> HIDE DEF q
  <2>5. NoRepeats(Messages(ring')) /\ ToSet(Messages(ring')) = ToSet(q) \union {m}
    BY <1>0, <2>2, <2>3, <2>4, OneMoreMessage
  <2> QED
    BY <1>0, <1>2, <2>1, <2>5 DEF Once, OnceIn, q
<1>3. CASE blocked_on_send' = Park(blocked_on_send, w) /\ UNCHANGED <<ring, blocked_on_recv, result>>
  <2>1. w \in Sender /\ w.msg = m
    BY <1>0 DEF Sender
  <2> HIDE DEF w
  <2>2. OneSenderIn(blocked_on_send') /\ SendingIn(blocked_on_send') = SendingIn(blocked_on_send) \union {m}
    BY <1>0, <1>3, <2>1, SenderFacts
  <2> QED
    BY <1>0, <1>3, <2>2 DEF Once, OnceIn
<1>4. CASE result' = [result EXCEPT ![t] = WouldBlock] /\ UNCHANGED <<ring, blocked_on_recv, blocked_on_send>>
  <2>1. OneAnswerIn(result') /\ GivenIn(result') \subseteq GivenIn(result)
    BY <1>a, <1>4
  <2> QED
    BY <1>4, <2>1 DEF Once, OnceIn
<1> QED
  BY <1>1, <1>2, <1>3, <1>4 DEF Send

\* A token received leaves its slot for the answer; the first parked sender's
\* leaves the sender for a slot.
LEMMA RecvOnce ==
  ASSUME Sound, Once, NEW t \in Thread, NEW p \in Priority, NEW b \in BOOLEAN, Recv(t, p, b)
  PROVE  Once'
<1> DEFINE q == Messages(ring)
           m == FrontMsg(ring)
           given == [result EXCEPT ![t] = Delivered(m)]
<1>0. /\ result \in [Thread -> Answers] /\ OneAnswerIn(result) /\ blocked_on_send \in Seq(Sender)
      /\ OneSenderIn(blocked_on_send)
  BY DEF Sound, Once, OnceIn
<1>1. ASSUME ~IsEmpty(ring)
      PROVE  /\ m \in Msg /\ m \in ToSet(q) /\ m \notin ToSet(Tail(q)) /\ Tail(q) \in Seq(Msg)
             /\ ToSet(q) = ToSet(Tail(q)) \union {m} /\ NoRepeats(Tail(q))
             /\ Messages(TryRecv(ring)) = Tail(q) /\ Ring(TryRecv(ring)) /\ ~IsFull(TryRecv(ring))
             /\ given \in [Thread -> Answers] /\ OneAnswerIn(given)
             /\ GivenIn(given) \subseteq GivenIn(result) \union {m}
  <2>1. /\ q # <<>> /\ m = Head(q) /\ m \in Msg /\ Messages(TryRecv(ring)) = Tail(q)
        /\ Ring(TryRecv(ring)) /\ ~IsFull(TryRecv(ring))
    BY <1>1, RecvFacts DEF Sound
  <2>2. q \in Seq(Msg) /\ NoRepeats(q) /\ ToSet(q) \cap GivenIn(result) = {}
    BY MessagesFacts DEF Sound, Once, OnceIn
  <2> HIDE DEF q, m
  <2>3. /\ m \in ToSet(q) /\ m \notin ToSet(Tail(q)) /\ Tail(q) \in Seq(Msg)
        /\ ToSet(q) = ToSet(Tail(q)) \union {m} /\ NoRepeats(Tail(q))
    BY <2>1, <2>2, TailFacts
  <2>4. /\ given \in [Thread -> Answers] /\ OneAnswerIn(given)
        /\ GivenIn(given) \subseteq GivenIn(result) \union {m}
    BY <1>0, <2>1, <2>2, <2>3, GivenFacts, AnswerFacts
  <2> QED
    BY <2>1, <2>3, <2>4
<1>2. CASE /\ ~IsEmpty(ring) /\ ring' = TryRecv(ring) /\ result' = given
           /\ UNCHANGED <<blocked_on_recv, blocked_on_send>>
  <2> HIDE DEF q, m, given
  <2> QED
    BY <1>1, <1>2 DEF Once, OnceIn, q
<1>3. CASE /\ ~IsEmpty(ring) /\ blocked_on_send # <<>>
           /\ ring' = WakeSender(TryRecv(ring), Head(blocked_on_send))
           /\ result' = [result EXCEPT ![t] = Delivered(FrontMsg(ring)),
                                       ![Head(blocked_on_send).id] = SendUnblocked]
           /\ blocked_on_send' = Tail(blocked_on_send)
           /\ UNCHANGED blocked_on_recv
  <2> DEFINE z == Head(blocked_on_send)
             u == TryRecv(ring)
  <2>1. z.id \in Thread /\ z.msg \in Msg /\ z.place \in Placement /\ ring' = Commit(u, z.msg, z.place)
    BY <1>3, FirstWaiters DEF WakeSender
  <2>2. result' = [given EXCEPT ![z.id] = SendUnblocked]
    BY <1>3, Zenon
  <2>3. /\ OneSenderIn(Tail(blocked_on_send)) /\ z.msg \notin SendingIn(Tail(blocked_on_send))
        /\ SendingIn(blocked_on_send) = SendingIn(Tail(blocked_on_send)) \union {z.msg}
    BY <1>0, <1>3, SenderFacts
  <2>4. z.msg \notin ToSet(q) /\ z.msg \notin GivenIn(result)
    BY <2>3 DEF Once, OnceIn
  <2> HIDE DEF q, m, given, z
  <2>5. OneAnswerIn(result') /\ GivenIn(result') \subseteq GivenIn(result) \union {m}
    <3>1. given \in [Thread -> Answers] /\ OneAnswerIn(given) /\ GivenIn(given) \subseteq GivenIn(result) \union {m}
      BY <1>1, <1>3
    <3>2. OneAnswerIn(result') /\ GivenIn(result') \subseteq GivenIn(given)
      BY <2>1, <2>2, <3>1, GivenFacts
    <3> QED
      BY <3>1, <3>2
  <2>6. Ring(u) /\ ~IsFull(u) /\ Messages(u) = Tail(q)
    BY <1>1, <1>3
  <2> HIDE DEF u
  <2>7. Messages(ring') = <<z.msg>> \o Tail(q) \/ Messages(ring') = Append(Tail(q), z.msg)
    BY <2>1, <2>6, CommitFacts
  <2>8. NoRepeats(Messages(ring')) /\ ToSet(Messages(ring')) = ToSet(Tail(q)) \union {z.msg}
    <3>1. z.msg \notin ToSet(Tail(q)) /\ Tail(q) \in Seq(Msg) /\ NoRepeats(Tail(q))
      BY <1>1, <1>3, <2>4
    <3> QED
      BY <2>1, <2>7, <3>1, OneMoreMessage
  <2>9. m # z.msg /\ m \notin SendingIn(blocked_on_send)
    BY <1>1, <1>3, <2>4 DEF Once, OnceIn, q
  <2> QED
    BY <1>1, <1>3, <2>3, <2>4, <2>5, <2>8, <2>9 DEF Once, OnceIn, q
<1>4. CASE UNCHANGED <<ring, blocked_on_send, result>>
  BY <1>4 DEF Once
<1>5. CASE result' = [result EXCEPT ![t] = WouldBlock] /\ UNCHANGED <<ring, blocked_on_recv, blocked_on_send>>
  <2>1. OneAnswerIn(result') /\ GivenIn(result') \subseteq GivenIn(result)
    BY <1>0, <1>5, GivenFacts
  <2> QED
    BY <1>5, <2>1 DEF Once, OnceIn
<1> QED
  BY <1>2, <1>3, <1>4, <1>5 DEF Recv

\* Every step keeps each token in one place.
LEMMA OnceStep == Sound /\ Once /\ [Next]_vars => Once'
<1> SUFFICES ASSUME Sound, Once, [Next]_vars PROVE Once'
  OBVIOUS
<1>0. /\ result \in [Thread -> Answers] /\ OneAnswerIn(result) /\ blocked_on_send \in Seq(Sender)
      /\ OneSenderIn(blocked_on_send)
  BY DEF Sound, Once, OnceIn
<1>1. ASSUME NEW count \in 0..MaxCapacity, Create(count) PROVE Once'
  <2>1. (IF count = 0 THEN 1 ELSE count) \in 0..MaxCapacity
    BY QueueAssumption
  <2>2. Messages(ring') = <<>> /\ UNCHANGED <<blocked_on_recv, blocked_on_send, result>>
    BY <1>1, <2>1, NewRingFacts DEF Create
  <2>3. ToSet(<<>>) = {} /\ NoRepeats(<<>>)
    BY DEF ToSet, NoRepeats
  <2> QED
    BY <2>2, <2>3 DEF Once, OnceIn
<1>2. ASSUME NEW t \in Thread, NEW m \in Fresh, NEW p \in Priority, NEW pl \in Placement,
             NEW b \in BOOLEAN, Send(t, m, p, pl, b)
      PROVE  Once'
  BY <1>2, SendOnce
<1>3. ASSUME NEW t \in Thread, NEW p \in Priority, NEW b \in BOOLEAN, Recv(t, p, b) PROVE Once'
  BY <1>3, RecvOnce
<1>4. ASSUME NEW m \in Fresh, Post(m) PROVE Once'
  <2>1. CASE WakeReceiver(m, result)
    BY <1>0, <2>1, WakeReceiverOnce
  <2>2. CASE /\ ring' = IF IsFull(ring) THEN ring ELSE TrySend(ring, m)
             /\ UNCHANGED <<blocked_on_recv, blocked_on_send, result>>
    <3> DEFINE q == Messages(ring)
    <3>1. Messages(ring') = q \/ Messages(ring') = Append(q, m)
      BY <2>2, FreshFacts, SendFacts DEF Sound
    <3>2. q \in Seq(Msg) /\ NoRepeats(q)
      BY MessagesFacts DEF Sound, Once, OnceIn
    <3>3. m \in Msg /\ m \notin ToSet(q) /\ m \notin SendingIn(blocked_on_send) /\ m \notin GivenIn(result)
      BY FreshFacts
    <3> HIDE DEF q
    <3>4. NoRepeats(Messages(ring')) /\ ToSet(Messages(ring')) \subseteq ToSet(q) \union {m}
      BY <3>1, <3>2, <3>3, OneMoreMessage
    <3> QED
      BY <2>2, <3>3, <3>4 DEF Once, OnceIn, q
  <2> QED
    BY <1>4, <2>1, <2>2 DEF Post
<1>5. ASSUME NEW t \in Thread, Resume(t) PROVE Once'
  <2>1. OneAnswerIn(result') /\ GivenIn(result') \subseteq GivenIn(result)
    BY <1>0, <1>5, GivenFacts DEF Resume
  <2> QED
    BY <1>5, <2>1 DEF Resume, Once, OnceIn
<1>6. ASSUME NEW t \in Thread, RemoveWaiter(t) PROVE Once'
  <2>1. OneAnswerIn(result') /\ GivenIn(result') \subseteq GivenIn(result)
    BY <1>0, <1>6, GivenFacts DEF RemoveWaiter
  <2>2. OneSenderIn(blocked_on_send') /\ SendingIn(blocked_on_send') \subseteq SendingIn(blocked_on_send)
    BY <1>0, <1>6, SenderFacts DEF RemoveWaiter
  <2> QED
    BY <1>6, <2>1, <2>2 DEF RemoveWaiter, Once, OnceIn
<1>7. CASE UNCHANGED vars
  BY <1>7 DEF vars, Once
<1> QED
  BY <1>1, <1>2, <1>3, <1>4, <1>5, <1>6, <1>7 DEF Next

\* At first there is no token anywhere.
LEMMA OnceInit == Init => Once
<1> SUFFICES ASSUME Init PROVE Once
  OBVIOUS
<1>1. Messages(ring) = <<>>
  BY QueueAssumption, NewRingFacts DEF Init
<1>2. ToSet(<<>>) = {} /\ NoRepeats(<<>>)
  BY DEF ToSet, NoRepeats
<1>3. \A t \in Thread : result[t].kind # "Delivered"
  BY DEF Init, NoAnswer, Answer
<1>4. OneAnswerIn(result) /\ GivenIn(result) = {}
  BY <1>3 DEF OneAnswerIn, GivenIn
<1>5. OneSenderIn(blocked_on_send) /\ SendingIn(blocked_on_send) = {}
  BY <1>2 DEF Init, OneSenderIn, SendingIn
<1> QED
  BY <1>1, <1>2, <1>4, <1>5 DEF Once, OnceIn

\* A set whose elements are all equal has at most one.
LEMMA AtMostOne ==
  ASSUME NEW S, \A x, y \in S : x = y
  PROVE  Cardinality(S) = IF S = {} THEN 0 ELSE 1
<1>1. CASE S = {}
  BY <1>1, FS_EmptySet
<1>2. CASE S # {}
  <2>1. PICK x \in S : TRUE
    BY <1>2
  <2>2. S = {x}
    BY <2>1
  <2> QED
    BY <1>2, <2>2, FS_Singleton
<1> QED
  BY <1>1, <1>2

\* The invariants are what the run checks.
LEMMA SoundRing == Sound /\ Once => RingSound
<1> SUFFICES ASSUME Sound, Once PROVE RingSound
  OBVIOUS
<1>1. TypeOK
  BY DEF Sound, Ring, Slots, TypeOK
<1>2. NoDuplicateDelivery
  <2> SUFFICES ASSUME NEW m \in Msg
               PROVE  Cardinality({i \in 1..ring.valid_count : Messages(ring)[i] = m})
                        + Cardinality({i \in DOMAIN blocked_on_send : blocked_on_send[i].msg = m})
                        + Cardinality({t \in Thread : result[t] = Delivered(m)}) <= 1
    BY DEF NoDuplicateDelivery
  <2> DEFINE A == {i \in 1..ring.valid_count : Messages(ring)[i] = m}
             B == {i \in DOMAIN blocked_on_send : blocked_on_send[i].msg = m}
             C == {t \in Thread : result[t] = Delivered(m)}
  <2>1. DOMAIN Messages(ring) = 1..ring.valid_count
    BY MessagesFacts, LenProperties DEF Sound
  <2>2. (\A x, y \in A : x = y) /\ (A # {} => m \in ToSet(Messages(ring)))
    BY <2>1 DEF Once, OnceIn, NoRepeats, ToSet
  <2>3. (\A x, y \in B : x = y) /\ (B # {} => m \in SendingIn(blocked_on_send))
    BY DEF Once, OnceIn, OneSenderIn, NoRepeats, ToSet, SendingIn
  <2>4. (\A x, y \in C : x = y) /\ (C # {} => m \in GivenIn(result))
    BY DEF Once, OnceIn, OneAnswerIn, GivenIn, Delivered, Answer
  <2>5. \/ A = {} /\ B = {}
        \/ A = {} /\ C = {}
        \/ B = {} /\ C = {}
    BY <2>2, <2>3, <2>4 DEF Once, OnceIn
  <2> HIDE DEF A, B, C
  <2>6. /\ Cardinality(A) = IF A = {} THEN 0 ELSE 1
        /\ Cardinality(B) = IF B = {} THEN 0 ELSE 1
        /\ Cardinality(C) = IF C = {} THEN 0 ELSE 1
    BY <2>2, <2>3, <2>4, AtMostOne
  <2>7. Cardinality(A) + Cardinality(B) + Cardinality(C) <= 1
    BY <2>5, <2>6
  <2> QED
    BY <2>7 DEF A, B, C
<1> QED
  BY <1>1, <1>2 DEF RingSound, Sound

\* Whatever the order of the try_*, block_* and wake_* calls: the indices stay
\* inside the ring, nobody waits for what is there, and no token is in two
\* places.
THEOREM RingStaysSound == Spec => []RingSound
<1>1. Spec => []Once
  BY OnceInit, OnceStep, SoundAlways, PTL DEF Spec
<1> QED
  BY <1>1, SoundAlways, SoundRing, PTL

-----------------------------------------------------------------------------
(***************************************************************************)
(* No token gets lost.                                                     *)
(***************************************************************************)
\* A thread waits in one place, and is owed nothing as long as it waits: an
\* answer given to a thread that wakes up overwrites none.
Waits ==
  /\ NoRepeats(WaiterIds(blocked_on_recv)) /\ NoRepeats(WaiterIds(blocked_on_send))
  /\ Ids(blocked_on_recv) \cap Ids(blocked_on_send) = {}
  /\ \A t \in Ids(blocked_on_recv) \union Ids(blocked_on_send) : result[t] = NoAnswer

\* Who waits, and what is in transit, in terms of the lists.
LEMMA PlaceFacts ==
  /\ Waiting = Ids(blocked_on_recv) \union Ids(blocked_on_send)
  /\ InTransit = ToSet(Messages(ring)) \union SendingIn(blocked_on_send) \union GivenIn(result)
  /\ InTransit' = ToSet(Messages(ring)') \union SendingIn(blocked_on_send') \union GivenIn(result')
<1>1. \A ws : ToSet(WaiterIds(ws)) = Ids(ws)
  BY DEF ToSet, WaiterIds, Ids
<1> QED
  BY <1>1 DEF Waiting, InTransit, SendingIn, GivenIn

\* Waiters are threads.
LEMMA WaiterTypes ==
  ASSUME Sound
  PROVE  Ids(blocked_on_recv) \subseteq Thread /\ Ids(blocked_on_send) \subseteq Thread
<1>1. ToSet(blocked_on_recv) \subseteq Receiver /\ ToSet(blocked_on_send) \subseteq Sender
  BY ToSetFacts DEF Sound
<1> QED
  BY <1>1 DEF Ids, Receiver, Sender

\* At first nobody waits.
LEMMA WaitsInit == Init => Waits
  BY DEF Init, Waits, Ids, WaiterIds, NoRepeats, ToSet

\* The receiver that is woken waited, and waits no more.
LEMMA WakeReceiverWaits ==
  ASSUME Sound, Waits, NEW m, NEW res \in [Thread -> Answers], WakeReceiver(m, res),
         \A u \in Waiting : res[u] = result[u]
  PROVE  /\ Waits' /\ Head(blocked_on_recv).id \in Waiting
         /\ result[Head(blocked_on_recv).id] = NoAnswer
<1> DEFINE h == Head(blocked_on_recv).id
<1>1. /\ h \in Thread /\ h \in Ids(blocked_on_recv)
      /\ Ids(blocked_on_recv') = Ids(blocked_on_recv) \ {h} /\ NoRepeats(WaiterIds(blocked_on_recv'))
      /\ UNCHANGED blocked_on_send /\ result' = [res EXCEPT ![h] = Delivered(m)]
  BY FirstWaiters, TailIds DEF WakeReceiver, Sound, Waits
<1>2. h \in Waiting /\ result[h] = NoAnswer
  BY <1>1, PlaceFacts DEF Waits
<1>3. Ids(blocked_on_recv) \subseteq Thread /\ Ids(blocked_on_send) \subseteq Thread
  BY WaiterTypes DEF Sound
<1> HIDE DEF h
<1>4. \A u \in Thread : u # h => result'[u] = res[u]
  BY <1>1
<1>5. \A u \in Ids(blocked_on_recv') \union Ids(blocked_on_send') : result'[u] = NoAnswer
  <2> SUFFICES ASSUME NEW u \in Ids(blocked_on_recv') \union Ids(blocked_on_send')
               PROVE  result'[u] = NoAnswer
    OBVIOUS
  <2>1. u # h /\ u \in Ids(blocked_on_recv) \union Ids(blocked_on_send)
    BY <1>1 DEF Waits
  <2>2. u \in Thread /\ u \in Waiting /\ result[u] = NoAnswer
    BY <1>3, <2>1, PlaceFacts DEF Waits
  <2> QED
    BY <1>4, <2>1, <2>2
<1>6. Waits'
  BY <1>1, <1>5 DEF Waits
<1> QED
  BY <1>2, <1>6 DEF h

\* An answer to a thread that does not wait.
LEMMA AnswerWaits ==
  ASSUME Sound, Waits, NEW t \in Thread, t \notin Waiting, NEW a,
         result' = [result EXCEPT ![t] = a], UNCHANGED <<blocked_on_recv, blocked_on_send>>
  PROVE  Waits'
<1>1. Ids(blocked_on_recv) \subseteq Thread /\ Ids(blocked_on_send) \subseteq Thread
  BY WaiterTypes DEF Sound
<1>2. \A u \in Thread : u # t => result'[u] = result[u]
  BY DEF Sound
<1>3. t \notin Ids(blocked_on_recv) \union Ids(blocked_on_send)
  BY PlaceFacts
<1>4. \A u \in Ids(blocked_on_recv') \union Ids(blocked_on_send') : result'[u] = NoAnswer
  BY <1>1, <1>2, <1>3 DEF Waits
<1> QED
  BY <1>4 DEF Waits

\* Every step keeps it.
LEMMA WaitsStep == Sound /\ Waits /\ [Next]_vars => Waits'
<1> SUFFICES ASSUME Sound, Waits, [Next]_vars PROVE Waits'
  OBVIOUS
<1>0. /\ Ids(blocked_on_recv) \subseteq Thread /\ Ids(blocked_on_send) \subseteq Thread
      /\ result \in [Thread -> Answers]
      /\ blocked_on_recv \in Seq(Receiver) /\ blocked_on_send \in Seq(Sender)
  BY WaiterTypes DEF Sound
<1>1. ASSUME UNCHANGED <<blocked_on_recv, blocked_on_send, result>> PROVE Waits'
  BY <1>1 DEF Waits
<1>2. ASSUME NEW t \in Thread, NEW m \in Fresh, NEW p \in Priority, NEW pl \in Placement,
             NEW b \in BOOLEAN, Send(t, m, p, pl, b)
      PROVE  Waits'
  <2> DEFINE w == [id |-> t, pri |-> p, msg |-> m, place |-> pl]
  <2>0. t \notin Waiting /\ result[t] = NoAnswer
    BY <1>2 DEF Send, Ready
  <2>1. CASE WakeReceiver(m, [result EXCEPT ![t] = SendUnblocked])
    <3> DEFINE r == [result EXCEPT ![t] = SendUnblocked]
    <3>1. r \in [Thread -> Answers]
      BY <1>0, AnswerFacts
    <3>2. \A u \in Waiting : r[u] = result[u]
      BY <1>0, <2>0, PlaceFacts
    <3> HIDE DEF r
    <3>3. WakeReceiver(m, r)
      BY <2>1 DEF r
    <3> QED
      BY <3>1, <3>2, <3>3, WakeReceiverWaits
  <2>2. CASE \E a : result' = [result EXCEPT ![t] = a] /\ UNCHANGED <<blocked_on_recv, blocked_on_send>>
    BY <2>0, <2>2, AnswerWaits
  <2>3. CASE blocked_on_send' = Park(blocked_on_send, w) /\ UNCHANGED <<blocked_on_recv, result>>
    <3>1. w \in Sender /\ w.id = t /\ t \notin Ids(blocked_on_recv) \union Ids(blocked_on_send)
      BY <2>0, PlaceFacts, FreshFacts DEF Sender
    <3> HIDE DEF w
    <3>2. /\ Ids(blocked_on_send') = Ids(blocked_on_send) \union {t}
          /\ NoRepeats(WaiterIds(blocked_on_send'))
      BY <1>0, <2>3, <3>1, ParkIds DEF Waits
    <3> QED
      BY <2>0, <2>3, <3>1, <3>2 DEF Waits
  <2> QED
    BY <1>2, <2>1, <2>2, <2>3 DEF Send
<1>3. ASSUME NEW t \in Thread, NEW p \in Priority, NEW b \in BOOLEAN, Recv(t, p, b) PROVE Waits'
  <2> DEFINE w == [id |-> t, pri |-> p]
  <2>0. t \notin Waiting /\ result[t] = NoAnswer
    BY <1>3 DEF Recv, Ready
  <2>1. CASE \E a : result' = [result EXCEPT ![t] = a] /\ UNCHANGED <<blocked_on_recv, blocked_on_send>>
    BY <2>0, <2>1, AnswerWaits
  <2>2. CASE /\ blocked_on_send # <<>>
             /\ result' = [result EXCEPT ![t] = Delivered(FrontMsg(ring)),
                                         ![Head(blocked_on_send).id] = SendUnblocked]
             /\ blocked_on_send' = Tail(blocked_on_send) /\ UNCHANGED blocked_on_recv
    <3> DEFINE h == Head(blocked_on_send).id
               r == [result EXCEPT ![t] = Delivered(FrontMsg(ring))]
    <3>1. /\ h \in Thread /\ h \in Ids(blocked_on_send)
          /\ Ids(blocked_on_send') = Ids(blocked_on_send) \ {h} /\ NoRepeats(WaiterIds(blocked_on_send'))
      BY <1>0, <2>2, FirstWaiters, TailIds DEF Waits
    <3>2. result' = [r EXCEPT ![h] = SendUnblocked]
      BY <2>2, Zenon
    <3>3. \A u \in Thread : u # t => r[u] = result[u]
      BY <1>0
    <3>4. DOMAIN r = Thread
      BY <1>0
    <3> HIDE DEF h, r
    <3>5. \A u \in Thread : u # h /\ u # t => result'[u] = result[u]
      BY <3>2, <3>3, <3>4
    <3>6. t \notin Ids(blocked_on_recv) \union Ids(blocked_on_send)
      BY <2>0, PlaceFacts
    <3> QED
      BY <1>0, <2>2, <3>1, <3>5, <3>6 DEF Waits
  <2>3. CASE blocked_on_recv' = Park(blocked_on_recv, w) /\ UNCHANGED <<blocked_on_send, result>>
    <3>1. w \in Receiver /\ w.id = t /\ t \notin Ids(blocked_on_recv) \union Ids(blocked_on_send)
      BY <2>0, PlaceFacts DEF Receiver
    <3> HIDE DEF w
    <3>2. /\ Ids(blocked_on_recv') = Ids(blocked_on_recv) \union {t}
          /\ NoRepeats(WaiterIds(blocked_on_recv'))
      BY <1>0, <2>3, <3>1, ParkIds DEF Waits
    <3> QED
      BY <2>0, <2>3, <3>1, <3>2 DEF Waits
  <2> QED
    BY <1>3, <2>1, <2>2, <2>3 DEF Recv
<1>4. ASSUME NEW m \in Fresh, Post(m) PROVE Waits'
  <2>1. CASE WakeReceiver(m, result)
    BY <1>0, <2>1, WakeReceiverWaits
  <2> QED
    BY <1>1, <1>4, <2>1 DEF Post
<1>5. ASSUME NEW t \in Thread, Resume(t) PROVE Waits'
  <2>1. t \notin Waiting
    BY <1>5, PlaceFacts DEF Resume, Waits
  <2> QED
    BY <1>5, <2>1, AnswerWaits DEF Resume
<1>6. ASSUME NEW t \in Thread, RemoveWaiter(t) PROVE Waits'
  <2>1. /\ Ids(blocked_on_recv') = Ids(blocked_on_recv) \ {t} /\ NoRepeats(WaiterIds(blocked_on_recv'))
        /\ Ids(blocked_on_send') = Ids(blocked_on_send) \ {t} /\ NoRepeats(WaiterIds(blocked_on_send'))
    BY <1>0, <1>6, UnparkIds DEF RemoveWaiter, Waits
  <2>2. \A u \in Thread : u # t => result'[u] = result[u]
    BY <1>0, <1>6 DEF RemoveWaiter
  <2> QED
    BY <1>0, <2>1, <2>2 DEF Waits
<1> QED
  BY <1>1, <1>2, <1>3, <1>4, <1>5, <1>6 DEF Next, vars, Create

\* The messages of the answers, once one answer is replaced.
LEMMA AnsweredFacts ==
  ASSUME NEW res \in [Thread -> Answers], NEW t \in Thread, NEW a \in Answers
  PROVE  /\ res[t] = NoAnswer => GivenIn(res) \subseteq GivenIn([res EXCEPT ![t] = a])
         /\ a.kind = "Delivered" => a.msg \in GivenIn([res EXCEPT ![t] = a])
         /\ \A m : m \in GivenIn(res) \ GivenIn([res EXCEPT ![t] = a]) => res[t] = Delivered(m)
<1> DEFINE r == [res EXCEPT ![t] = a]
<1>1. \A u \in Thread : r[u] = IF u = t THEN a ELSE res[u]
  OBVIOUS
<1> HIDE DEF r
<1>2. NoAnswer.kind # "Delivered"
  BY DEF NoAnswer, Answer
<1>3. res[t] = NoAnswer => GivenIn(res) \subseteq GivenIn(r)
  BY <1>1, <1>2 DEF GivenIn
<1>4. a.kind = "Delivered" => a.msg \in GivenIn(r)
  BY <1>1 DEF GivenIn
<1>5. ASSUME NEW m, m \in GivenIn(res), m \notin GivenIn(r) PROVE res[t] = Delivered(m)
  <2>1. PICK u \in Thread : res[u].kind = "Delivered" /\ res[u].msg = m
    BY <1>5 DEF GivenIn
  <2>2. u = t
    BY <1>1, <1>5, <2>1 DEF GivenIn
  <2>3. \A x \in Answers : x.kind = "Delivered" => x = Delivered(x.msg)
    BY DEF Answers, NoAnswer, WouldBlock, SendUnblocked, Delivered, Answer
  <2> QED
    BY <2>1, <2>2, <2>3
<1> QED
  BY <1>3, <1>4, <1>5 DEF r

\* Sending, receiving and posting lose nothing.
LEMMA SendKeepsTokens ==
  ASSUME Sound, Once, Waits, NEW t \in Thread, NEW m \in Fresh, NEW p \in Priority,
         NEW pl \in Placement, NEW b \in BOOLEAN, Send(t, m, p, pl, b)
  PROVE  InTransit \subseteq InTransit'
<1> DEFINE q == Messages(ring)
<1>0. /\ result \in [Thread -> Answers] /\ blocked_on_send \in Seq(Sender) /\ OneSenderIn(blocked_on_send)
      /\ t \notin Waiting /\ result[t] = NoAnswer /\ m \in Msg /\ m \notin SendingIn(blocked_on_send)
  BY FreshFacts DEF Sound, Once, OnceIn, Send, Ready
<1>1. CASE WakeReceiver(m, [result EXCEPT ![t] = SendUnblocked])
  <2> DEFINE r == [result EXCEPT ![t] = SendUnblocked]
             h == Head(blocked_on_recv).id
  <2>1. r \in [Thread -> Answers] /\ GivenIn(result) \subseteq GivenIn(r)
    BY <1>0, AnswerFacts, AnsweredFacts
  <2>2. \A u \in Waiting : r[u] = result[u]
    BY <1>0, WaiterTypes, PlaceFacts
  <2> HIDE DEF r
  <2>3. /\ WakeReceiver(m, r) /\ result' = [r EXCEPT ![h] = Delivered(m)] /\ h \in Thread
        /\ UNCHANGED <<ring, blocked_on_send>>
    BY <1>1, FirstWaiters DEF r, WakeReceiver
  <2>4. h \in Waiting /\ result[h] = NoAnswer
    BY <2>1, <2>2, <2>3, WakeReceiverWaits
  <2>5. r[h] = NoAnswer
    BY <2>2, <2>4
  <2> HIDE DEF h
  <2>6. GivenIn(r) \subseteq GivenIn(result')
    BY <1>0, <2>1, <2>3, <2>5, AnsweredFacts, AnswerFacts
  <2> QED
    BY <2>1, <2>3, <2>6, PlaceFacts
<1>2. CASE /\ ~IsFull(ring) /\ ring' = Commit(ring, m, pl)
           /\ result' = [result EXCEPT ![t] = SendUnblocked]
           /\ UNCHANGED <<blocked_on_recv, blocked_on_send>>
  <2>1. GivenIn(result) \subseteq GivenIn(result')
    BY <1>0, <1>2, AnswerFacts, AnsweredFacts
  <2>2. q \in Seq(Msg)
    BY MessagesFacts DEF Sound
  <2>3. Messages(ring') = <<m>> \o q \/ Messages(ring') = Append(q, m)
    BY <1>0, <1>2, CommitFacts DEF Sound
  <2> HIDE DEF q
  <2>4. ToSet(Messages(ring)') = ToSet(q) \union {m}
    BY <1>0, <2>2, <2>3, OneMoreMessage
  <2> QED
    BY <1>2, <2>1, <2>4, PlaceFacts DEF q
<1>3. CASE /\ blocked_on_send' = Park(blocked_on_send, [id |-> t, pri |-> p, msg |-> m, place |-> pl])
           /\ UNCHANGED <<ring, blocked_on_recv, result>>
  <2> DEFINE w == [id |-> t, pri |-> p, msg |-> m, place |-> pl]
  <2>1. w \in Sender /\ w.msg = m /\ blocked_on_send' = Park(blocked_on_send, w)
    BY <1>0, <1>3 DEF Sender
  <2> HIDE DEF w
  <2>2. SendingIn(blocked_on_send) \subseteq SendingIn(blocked_on_send')
    BY <1>0, <2>1, SenderFacts
  <2> QED
    BY <1>3, <2>2, PlaceFacts
<1>4. CASE result' = [result EXCEPT ![t] = WouldBlock] /\ UNCHANGED <<ring, blocked_on_recv, blocked_on_send>>
  <2>1. GivenIn(result) \subseteq GivenIn(result')
    BY <1>0, <1>4, AnswerFacts, AnsweredFacts
  <2> QED
    BY <1>4, <2>1, PlaceFacts
<1> QED
  BY <1>1, <1>2, <1>3, <1>4 DEF Send

\* The message read goes into the receiver's answer, the woken sender's into
\* the slot.
LEMMA RecvKeepsTokens ==
  ASSUME Sound, Once, Waits, NEW t \in Thread, NEW p \in Priority, NEW b \in BOOLEAN, Recv(t, p, b)
  PROVE  InTransit \subseteq InTransit'
<1> DEFINE q == Messages(ring)
           m == FrontMsg(ring)
           given == [result EXCEPT ![t] = Delivered(m)]
<1>0. /\ result \in [Thread -> Answers] /\ blocked_on_send \in Seq(Sender) /\ OneSenderIn(blocked_on_send)
      /\ t \notin Waiting /\ result[t] = NoAnswer
  BY DEF Sound, Once, OnceIn, Recv, Ready
<1>1. ASSUME ~IsEmpty(ring)
      PROVE  /\ m \in Msg /\ Tail(q) \in Seq(Msg) /\ ToSet(q) = ToSet(Tail(q)) \union {m}
             /\ Messages(TryRecv(ring)) = Tail(q) /\ Ring(TryRecv(ring)) /\ ~IsFull(TryRecv(ring))
             /\ given \in [Thread -> Answers] /\ GivenIn(result) \union {m} \subseteq GivenIn(given)
  <2>1. /\ q # <<>> /\ m = Head(q) /\ m \in Msg /\ Messages(TryRecv(ring)) = Tail(q)
        /\ Ring(TryRecv(ring)) /\ ~IsFull(TryRecv(ring))
    BY <1>1, RecvFacts DEF Sound
  <2>2. q \in Seq(Msg)
    BY MessagesFacts DEF Sound
  <2>3. Delivered(m).kind = "Delivered" /\ Delivered(m).msg = m /\ Delivered(m) \in Answers
    BY <2>1, AnswerFacts DEF Delivered, Answer
  <2> HIDE DEF q, m
  <2>4. Tail(q) \in Seq(Msg) /\ ToSet(q) = ToSet(Tail(q)) \union {m}
    BY <2>1, <2>2, TailFacts
  <2>5. given \in [Thread -> Answers] /\ GivenIn(result) \union {m} \subseteq GivenIn(given)
    <3> DEFINE a == Delivered(m)
    <3>1. a \in Answers /\ a.kind = "Delivered" /\ a.msg = m
      BY <2>3
    <3> HIDE DEF a
    <3>2. /\ [result EXCEPT ![t] = a] \in [Thread -> Answers]
          /\ GivenIn(result) \subseteq GivenIn([result EXCEPT ![t] = a])
          /\ m \in GivenIn([result EXCEPT ![t] = a])
      BY <1>0, <3>1, AnsweredFacts, AnswerFacts
    <3> QED
      BY <3>2 DEF a
  <2> QED
    BY <2>1, <2>4, <2>5
<1>2. CASE ~IsEmpty(ring) /\ ring' = TryRecv(ring) /\ result' = given /\ UNCHANGED blocked_on_send
  <2> HIDE DEF q, m, given
  <2> QED
    BY <1>1, <1>2, PlaceFacts DEF q
<1>3. CASE /\ ~IsEmpty(ring) /\ blocked_on_send # <<>>
           /\ ring' = WakeSender(TryRecv(ring), Head(blocked_on_send))
           /\ result' = [result EXCEPT ![t] = Delivered(FrontMsg(ring)),
                                       ![Head(blocked_on_send).id] = SendUnblocked]
           /\ blocked_on_send' = Tail(blocked_on_send)
  <2> DEFINE z == Head(blocked_on_send)
             u == TryRecv(ring)
  <2>1. z.id \in Thread /\ z.msg \in Msg /\ z.place \in Placement /\ ring' = Commit(u, z.msg, z.place)
    BY <1>3, FirstWaiters DEF WakeSender
  <2>2. result' = [given EXCEPT ![z.id] = SendUnblocked]
    BY <1>3, Zenon
  <2>3. SendingIn(blocked_on_send) = SendingIn(blocked_on_send') \union {z.msg}
    BY <1>0, <1>3, SenderFacts
  <2>4. z.id # t /\ result[z.id] = NoAnswer
    <3>1. z.id \in Ids(blocked_on_send)
      BY <1>0, <1>3, TailIds DEF Waits
    <3> QED
      BY <1>0, <3>1, PlaceFacts DEF Waits
  <2>5. given[z.id] = NoAnswer
    BY <1>0, <2>1, <2>4
  <2> HIDE DEF q, m, given, z
  <2>6. GivenIn(result) \union {m} \subseteq GivenIn(result')
    <3>1. given \in [Thread -> Answers] /\ GivenIn(result) \union {m} \subseteq GivenIn(given)
      BY <1>1, <1>3
    <3>2. GivenIn(given) \subseteq GivenIn(result')
      BY <2>1, <2>2, <2>5, <3>1, AnsweredFacts, AnswerFacts
    <3> QED
      BY <3>1, <3>2
  <2>7. Ring(u) /\ ~IsFull(u) /\ Messages(u) = Tail(q) /\ Tail(q) \in Seq(Msg)
    BY <1>1, <1>3
  <2> HIDE DEF u
  <2>8. Messages(ring') = <<z.msg>> \o Tail(q) \/ Messages(ring') = Append(Tail(q), z.msg)
    BY <2>1, <2>7, CommitFacts
  <2>9. ToSet(Messages(ring)') = ToSet(Tail(q)) \union {z.msg}
    BY <2>1, <2>7, <2>8, OneMoreMessage
  <2> QED
    BY <1>1, <1>3, <2>3, <2>6, <2>9, PlaceFacts DEF q
<1>4. CASE UNCHANGED <<ring, blocked_on_send, result>>
  BY <1>4, PlaceFacts
<1>5. CASE result' = [result EXCEPT ![t] = WouldBlock] /\ UNCHANGED <<ring, blocked_on_recv, blocked_on_send>>
  <2>1. GivenIn(result) \subseteq GivenIn(result')
    BY <1>0, <1>5, AnswerFacts, AnsweredFacts
  <2> QED
    BY <1>5, <2>1, PlaceFacts
<1> QED
  BY <1>2, <1>3, <1>4, <1>5 DEF Recv

\* A token leaves only where the property says.
LEMMA LossStep ==
  ASSUME Sound, Once, Waits, [Next]_vars, NEW m \in InTransit \ InTransit'
  PROVE  \/ \E t \in Thread : Resume(t) /\ result[t] = Delivered(m)
         \/ \E t \in Thread : RemoveWaiter(t)
         \/ \E count \in 0..MaxCapacity : Create(count)
<1>0. ~(InTransit \subseteq InTransit') /\ result \in [Thread -> Answers]
  BY DEF Sound
<1>1. ASSUME NEW n \in Fresh, Post(n) PROVE FALSE
  <2>0. n \in Msg
    BY FreshFacts
  <2>1. CASE WakeReceiver(n, result)
    <3> DEFINE h == Head(blocked_on_recv).id
    <3>1. h \in Thread /\ result' = [result EXCEPT ![h] = Delivered(n)] /\ UNCHANGED <<ring, blocked_on_send>>
      BY <2>1, FirstWaiters DEF WakeReceiver
    <3>2. result[h] = NoAnswer
      BY <1>0, <2>1, WakeReceiverWaits
    <3> HIDE DEF h
    <3>3. GivenIn(result) \subseteq GivenIn(result')
      BY <1>0, <2>0, <3>1, <3>2, AnsweredFacts, AnswerFacts
    <3> QED
      BY <1>0, <3>1, <3>3, PlaceFacts
  <2>2. CASE /\ ring' = IF IsFull(ring) THEN ring ELSE TrySend(ring, n)
             /\ UNCHANGED <<blocked_on_recv, blocked_on_send, result>>
    <3> DEFINE q == Messages(ring)
    <3>1. Messages(ring)' = q \/ Messages(ring)' = Append(q, n)
      BY <2>0, <2>2, SendFacts DEF Sound
    <3>2. q \in Seq(Msg)
      BY MessagesFacts DEF Sound
    <3> HIDE DEF q
    <3>3. ToSet(q) \subseteq ToSet(Messages(ring)')
      BY <2>0, <3>1, <3>2, OneMoreMessage
    <3> QED
      BY <1>0, <2>2, <3>3, PlaceFacts DEF q
  <2> QED
    BY <1>1, <2>1, <2>2 DEF Post
<1>2. ASSUME NEW t \in Thread, Resume(t) PROVE result[t] = Delivered(m)
  <2>1. m \in GivenIn(result) \ GivenIn(result')
    BY <1>2, PlaceFacts DEF Resume
  <2> QED
    BY <1>0, <1>2, <2>1, AnswerFacts, AnsweredFacts DEF Resume
<1>3. CASE UNCHANGED vars
  BY <1>0, <1>3, PlaceFacts DEF vars
<1> QED
  BY <1>0, <1>1, <1>2, <1>3, SendKeepsTokens, RecvKeepsTokens DEF Next

\* A message leaves the system only with the receiver that picks it up, with a
\* thread that is stopped or with a queue that is re-created: no release of a
\* slot or of a waiter drops one, at any capacity.
THEOREM NothingLostSilently == Spec => NoSilentLoss
<1>1. Spec => []Once
  BY OnceInit, OnceStep, SoundAlways, PTL DEF Spec
<1>2. Spec => []Waits
  BY WaitsInit, WaitsStep, SoundAlways, PTL DEF Spec
<1>3. Sound /\ Once /\ Waits /\ [Next]_vars =>
        [\A m \in InTransit \ InTransit' :
           \/ \E t \in Thread : Resume(t) /\ result[t] = Delivered(m)
           \/ \E t \in Thread : RemoveWaiter(t)
           \/ \E count \in 0..MaxCapacity : Create(count)]_vars
  BY LossStep
<1> QED
  BY <1>1, <1>2, <1>3, SoundAlways, PTL DEF Spec, NoSilentLoss

-----------------------------------------------------------------------------
(***************************************************************************)
(* Waiters are served in order.                                            *)
(***************************************************************************)
\* Both kinds of waiter have an identity and a priority.
Waiter(S) == \A w \in S : w.pri \in Int
Sorted(ws) == Descending(Priorities(ws))

\* The lists in terms of their elements.
LEMMA ListFacts ==
  ASSUME NEW S, Waiter(S), NEW ws \in Seq(S)
  PROVE  /\ DOMAIN ws = 1..Len(ws) /\ Len(ws) \in Nat /\ \A i \in 1..Len(ws) : ws[i] \in S /\ ws[i].pri \in Int
         /\ Sorted(ws) <=> \A i, j \in 1..Len(ws) : i < j => ws[i].pri >= ws[j].pri
         /\ NoRepeats(WaiterIds(ws)) <=> \A i, j \in 1..Len(ws) : ws[i].id = ws[j].id => i = j
         /\ ToSet(WaiterIds(ws)) = Ids(ws)
         /\ \A x : x \in Ids(ws) <=> \E i \in 1..Len(ws) : ws[i].id = x
<1>1. DOMAIN ws = 1..Len(ws) /\ Len(ws) \in Nat /\ \A i \in 1..Len(ws) : ws[i] \in S /\ ws[i].pri \in Int
  BY LenProperties, ElementOfSeq DEF Waiter
<1>2. Sorted(ws) <=> \A i, j \in 1..Len(ws) : i < j => ws[i].pri >= ws[j].pri
  BY <1>1 DEF Sorted, Descending, Priorities
<1>3. NoRepeats(WaiterIds(ws)) <=> \A i, j \in 1..Len(ws) : ws[i].id = ws[j].id => i = j
  BY <1>1 DEF NoRepeats, WaiterIds
<1>4. ToSet(WaiterIds(ws)) = Ids(ws) /\ \A x : x \in Ids(ws) <=> \E i \in 1..Len(ws) : ws[i].id = x
  BY <1>1 DEF ToSet, WaiterIds, Ids
<1> QED
  BY <1>1, <1>2, <1>3, <1>4

\* Receivers and senders are waiters.
LEMMA WaiterKinds == Waiter(Receiver) /\ Waiter(Sender)
  BY QueueAssumption DEF Waiter, Receiver, Sender

\* Waiters that stay keep their order if their places are mapped monotonically.
LEMMA KeptOrder ==
  ASSUME NEW S, Waiter(S), NEW old \in Seq(S), NEW new \in Seq(S), NoRepeats(WaiterIds(old)),
         NEW e \in [1..Len(new) -> Int],
         \A i \in 1..Len(new) : new[i].id \in Ids(old) => e[i] \in 1..Len(old) /\ old[e[i]].id = new[i].id,
         \A i, j \in 1..Len(new) : new[i].id \in Ids(old) /\ new[j].id \in Ids(old) /\ i < j => e[i] < e[j]
  PROVE  \A t, u \in Thread : Follows(old, t, u) => ~Follows(new, u, t)
<1> SUFFICES ASSUME NEW t \in Thread, NEW u \in Thread, Follows(old, t, u), Follows(new, u, t) PROVE FALSE
  OBVIOUS
<1>1. PICK i, j \in 1..Len(old) : i < j /\ old[i].id = u /\ old[j].id = t
  BY ListFacts DEF Follows
<1>2. PICK k, l \in 1..Len(new) : k < l /\ new[k].id = t /\ new[l].id = u
  BY ListFacts DEF Follows
<1>3. t \in Ids(old) /\ u \in Ids(old)
  BY <1>1, ListFacts
<1>4. e[k] = j /\ e[l] = i
  <2>1. \A a, b \in 1..Len(old) : old[a].id = old[b].id => a = b
    BY ListFacts
  <2>2. e[k] \in 1..Len(old) /\ old[e[k]].id = t /\ e[l] \in 1..Len(old) /\ old[e[l]].id = u
    BY <1>2, <1>3
  <2> QED
    BY <1>1, <2>1, <2>2
<1>5. e[k] < e[l]
  BY <1>2, <1>3
<1> QED
  BY <1>1, <1>4, <1>5

\* Where a newcomer is put: behind its equals.
LEMMA ParkPlace ==
  ASSUME NEW S, Waiter(S), NEW ws \in Seq(S), NEW w \in S, Sorted(ws)
  PROVE  \E k \in 1..(Len(ws) + 1) :
           /\ Park(ws, w) \in Seq(S) /\ Len(Park(ws, w)) = Len(ws) + 1
           /\ \A j \in 1..(Len(ws) + 1) :
                Park(ws, w)[j] = IF j < k THEN ws[j] ELSE IF j = k THEN w ELSE ws[j - 1]
           /\ \A j \in 1..Len(ws) : IF j < k THEN ws[j].pri >= w.pri ELSE ws[j].pri < w.pri
<1> DEFINE ks == Priorities(ws)
           Hit == {i \in DOMAIN ks : ks[i] < w.pri}
           k == FirstIn(ks, Hit)
<1>1. /\ DOMAIN ws = 1..Len(ws) /\ Len(ws) \in Nat /\ w.pri \in Int
      /\ \A i \in 1..Len(ws) : ws[i] \in S /\ ws[i].pri \in Int
      /\ \A i, j \in 1..Len(ws) : i < j => ws[i].pri >= ws[j].pri
  BY ListFacts DEF Waiter
<1>2. ks \in Seq(Int) /\ Len(ks) = Len(ws) /\ DOMAIN ks = 1..Len(ws) /\ \A i \in 1..Len(ws) : ks[i] = ws[i].pri
  BY <1>1 DEF Priorities
<1>3. Park(ws, w) = InsertAt(ws, k, w)
  BY DEF Park, PriorityInsert, InsertIndex
<1> HIDE DEF ks
<1>4. /\ k \in 1..(Len(ws) + 1) /\ (k \in Hit \/ k = Len(ws) + 1)
      /\ \A j \in 1..Len(ws) : j < k => j \notin Hit
  <2>1. Hit \in SUBSET (1..Len(ks))
    BY <1>2
  <2> HIDE DEF Hit
  <2> QED
    BY <1>2, <2>1, FirstInFacts
<1>5. \A j \in 1..Len(ws) : IF j < k THEN ws[j].pri >= w.pri ELSE ws[j].pri < w.pri
  <2> SUFFICES ASSUME NEW j \in 1..Len(ws)
               PROVE  IF j < k THEN ws[j].pri >= w.pri ELSE ws[j].pri < w.pri
    OBVIOUS
  <2> HIDE DEF k
  <2>1. CASE j < k
    BY <1>1, <1>2, <1>4, <2>1
  <2>2. CASE ~(j < k)
    <3>1. k \in 1..Len(ws) /\ ws[k].pri < w.pri
      BY <1>1, <1>2, <1>4, <2>2
    <3>2. ws[k].pri >= ws[j].pri
      BY <1>1, <2>2, <3>1
    <3> QED
      BY <1>1, <2>2, <3>1, <3>2
  <2> QED
    BY <2>1, <2>2
<1> HIDE DEF k
<1>6. k \in 1..(Len(ws) + 1)
  BY <1>4
<1>7. ASSUME NEW i \in 1..(Len(ws) + 1)
      PROVE  /\ InsertAt(ws, i, w) \in Seq(S) /\ Len(InsertAt(ws, i, w)) = Len(ws) + 1
             /\ \A j \in 1..(Len(ws) + 1) :
                  InsertAt(ws, i, w)[j] = IF j < i THEN ws[j] ELSE IF j = i THEN w ELSE ws[j - 1]
  BY InsertAtFacts
<1>8. \E i \in 1..(Len(ws) + 1) :
        /\ InsertAt(ws, k, w) \in Seq(S) /\ Len(InsertAt(ws, k, w)) = Len(ws) + 1
        /\ \A j \in 1..(Len(ws) + 1) :
             InsertAt(ws, k, w)[j] = IF j < i THEN ws[j] ELSE IF j = i THEN w ELSE ws[j - 1]
        /\ \A j \in 1..Len(ws) : IF j < i THEN ws[j].pri >= w.pri ELSE ws[j].pri < w.pri
  <2> k \in 1..(Len(ws) + 1)
    BY <1>6
  <2> WITNESS k \in 1..(Len(ws) + 1)
  <2> QED
    BY <1>5, <1>7
<1> QED
  BY <1>3, <1>8, Zenon

\* Parking keeps the order.
LEMMA ParkOrder ==
  ASSUME NEW S, Waiter(S), NEW ws \in Seq(S), NEW w \in S, Sorted(ws), NoRepeats(WaiterIds(ws)),
         w.id \notin Ids(ws)
  PROVE  InOrder(ws, Park(ws, w))
<1> DEFINE new == Park(ws, w)
<1>1. PICK k \in 1..(Len(ws) + 1) :
        /\ new \in Seq(S) /\ Len(new) = Len(ws) + 1
        /\ \A j \in 1..(Len(ws) + 1) : new[j] = IF j < k THEN ws[j] ELSE IF j = k THEN w ELSE ws[j - 1]
        /\ \A j \in 1..Len(ws) : IF j < k THEN ws[j].pri >= w.pri ELSE ws[j].pri < w.pri
  BY ParkPlace
<1>2. Ids(new) = Ids(ws) \union {w.id}
  BY ParkIds
<1> HIDE DEF new
<1>3. /\ Len(ws) \in Nat /\ w.pri \in Int /\ DOMAIN new = 1..Len(new) /\ DOMAIN ws = 1..Len(ws)
      /\ \A i \in 1..Len(ws) : ws[i].pri \in Int /\ ws[i].id \in Ids(ws)
      /\ \A i, j \in 1..Len(ws) : i < j => ws[i].pri >= ws[j].pri
  BY <1>1, ListFacts DEF Waiter
<1>4. Sorted(new)
  <2> SUFFICES ASSUME NEW i \in 1..Len(new), NEW j \in 1..Len(new), i < j PROVE new[i].pri >= new[j].pri
    BY <1>1, ListFacts
  <2>1. /\ new[i] = IF i < k THEN ws[i] ELSE IF i = k THEN w ELSE ws[i - 1]
        /\ new[j] = IF j < k THEN ws[j] ELSE IF j = k THEN w ELSE ws[j - 1]
    BY <1>1
  <2>2. CASE j < k
    BY <1>1, <1>3, <2>1, <2>2
  <2>3. CASE j = k
    BY <1>1, <1>3, <2>1, <2>3
  <2>4. CASE j > k /\ i < k
    <3>1. i \in 1..Len(ws) /\ j - 1 \in 1..Len(ws) /\ (i < j - 1 \/ i = j - 1)
      BY <1>1, <1>3, <2>4
    <3> QED
      BY <1>1, <1>3, <2>1, <2>4, <3>1
  <2>5. CASE i = k
    <3>1. j - 1 \in 1..Len(ws) /\ ~(j - 1 < k)
      BY <1>1, <1>3, <2>5
    <3> QED
      BY <1>1, <1>3, <2>1, <2>5, <3>1
  <2>6. CASE i > k
    <3>1. i - 1 \in 1..Len(ws) /\ j - 1 \in 1..Len(ws) /\ i - 1 < j - 1
      BY <1>1, <1>3, <2>6
    <3> QED
      BY <1>1, <1>3, <2>1, <2>6, <3>1
  <2> QED
    BY <2>2, <2>3, <2>4, <2>5, <2>6, <1>1
<1>5. \A t, u \in Thread : Follows(ws, t, u) => ~Follows(new, u, t)
  <2> DEFINE e == [i \in 1..Len(new) |-> IF i < k THEN i ELSE i - 1]
  <2>1. e \in [1..Len(new) -> Int] /\ \A i \in 1..Len(new) : e[i] = IF i < k THEN i ELSE i - 1
    BY <1>1, <1>3
  <2> HIDE DEF e
  <2>2. \A i \in 1..Len(new) : new[i].id \in Ids(ws) =>
          i # k /\ e[i] \in 1..Len(ws) /\ ws[e[i]].id = new[i].id
    BY <1>1, <1>3, <2>1
  <2>3. \A i, j \in 1..Len(new) : new[i].id \in Ids(ws) /\ new[j].id \in Ids(ws) /\ i < j => e[i] < e[j]
    BY <1>1, <1>3, <2>1, <2>2
  <2> QED
    BY <1>1, <2>1, <2>2, <2>3, KeptOrder
<1>6. \A i, j \in 1..Len(new) :
        new[i].pri = new[j].pri /\ new[j].id \in Ids(ws) /\ new[i].id \notin Ids(ws) => j < i
  <2> SUFFICES ASSUME NEW i \in 1..Len(new), NEW j \in 1..Len(new), new[i].pri = new[j].pri,
                      new[j].id \in Ids(ws), new[i].id \notin Ids(ws)
               PROVE  j < i
    OBVIOUS
  <2>1. i = k
    BY <1>1, <1>3
  <2>2. j # k
    BY <1>1
  <2>3. CASE j > k
    <3>1. j - 1 \in 1..Len(ws) /\ ~(j - 1 < k) /\ new[j] = ws[j - 1] /\ new[i] = w
      BY <1>1, <1>3, <2>1, <2>3
    <3> QED
      BY <1>1, <1>3, <3>1
  <2> QED
    BY <2>1, <2>2, <2>3, <1>1
<1>7. ToSet(WaiterIds(ws)) = Ids(ws) /\ ToSet(WaiterIds(new)) = Ids(new)
  BY <1>1, ListFacts
<1>8. \A i \in 1..Len(ws) : ws[i].id \in Ids(new)
  BY <1>2, <1>3 DEF new
<1>9. InOrder(ws, new)
  BY <1>3, <1>4, <1>5, <1>6, <1>7, <1>8, Zenon DEF InOrder, Sorted
<1> QED
  BY <1>9 DEF new

\* Waiters that leave take nobody's place: a list read in increasing positions
\* of the old one keeps its order.
LEMMA SubOrder ==
  ASSUME NEW S, Waiter(S), NEW old \in Seq(S), NEW new \in Seq(S), Sorted(old), NoRepeats(WaiterIds(old)),
         NEW e \in [1..Len(new) -> Int],
         \A i \in 1..Len(new) : e[i] \in 1..Len(old) /\ new[i] = old[e[i]],
         \A i, j \in 1..Len(new) : i < j => e[i] < e[j],
         \A i \in 1..Len(old) : old[i].id \notin Ids(new) /\ result'[old[i].id] # NoAnswer => i = 1
  PROVE  InOrder(old, new)
<1>1. DOMAIN old = 1..Len(old) /\ DOMAIN new = 1..Len(new)
  BY ListFacts
<1>2. Sorted(new)
  <2>1. \A i, j \in 1..Len(old) : i < j => old[i].pri >= old[j].pri
    BY ListFacts
  <2>2. \A i, j \in 1..Len(new) : i < j => new[i].pri >= new[j].pri
    BY <2>1
  <2> QED
    BY <2>2, ListFacts
<1>3. \A t, u \in Thread : Follows(old, t, u) => ~Follows(new, u, t)
  BY KeptOrder
<1>4. ToSet(WaiterIds(old)) = Ids(old) /\ ToSet(WaiterIds(new)) = Ids(new)
  BY ListFacts
<1>5. \A i \in 1..Len(new) : new[i].id \in Ids(old)
  <2>1. \A i \in 1..Len(old) : old[i].id \in Ids(old)
    BY ListFacts
  <2> QED
    BY <2>1
<1> QED
  BY <1>1, <1>2, <1>3, <1>4, <1>5, Zenon DEF InOrder, Sorted

\* A list that stays as it is.
LEMMA SameOrder ==
  ASSUME NEW S, Waiter(S), NEW ws \in Seq(S), Sorted(ws), NoRepeats(WaiterIds(ws))
  PROVE  InOrder(ws, ws)
<1> DEFINE e == [i \in 1..Len(ws) |-> i]
<1>1. e \in [1..Len(ws) -> Int] /\ \A i \in 1..Len(ws) : e[i] = i
  BY ListFacts
<1>2. \A i \in 1..Len(ws) : ws[i].id \in Ids(ws)
  BY ListFacts
<1> HIDE DEF e
<1> QED
  BY <1>1, <1>2, SubOrder

\* The first waiter is served.
LEMMA TailOrder ==
  ASSUME NEW S, Waiter(S), NEW ws \in Seq(S), Sorted(ws), NoRepeats(WaiterIds(ws)), ws # <<>>
  PROVE  InOrder(ws, Tail(ws))
<1> DEFINE new == Tail(ws)
           e == [i \in 1..Len(new) |-> i + 1]
<1>0. Len(ws) \in Nat \ {0}
  BY LenProperties, EmptySeq
<1>1. new \in Seq(S) /\ Len(new) = Len(ws) - 1 /\ \A i \in 1..Len(new) : new[i] = ws[i + 1]
  BY <1>0, HeadTailProperties
<1> HIDE DEF new
<1>2. e \in [1..Len(new) -> Int] /\ \A i \in 1..Len(new) : e[i] = i + 1
  BY <1>0, <1>1
<1>3. \A i \in 1..Len(ws) : ws[i].id \notin Ids(new) => i = 1
  <2> SUFFICES ASSUME NEW i \in 1..Len(ws), i # 1 PROVE ws[i].id \in Ids(new)
    OBVIOUS
  <2>1. i - 1 \in 1..Len(new) /\ new[i - 1] = ws[i]
    BY <1>0, <1>1
  <2> QED
    BY <1>1, <2>1, ListFacts
<1> HIDE DEF e
<1>4. \A i \in 1..Len(new) : e[i] \in 1..Len(ws) /\ new[i] = ws[e[i]]
  BY <1>0, <1>1, <1>2
<1>5. \A i, j \in 1..Len(new) : i < j => e[i] < e[j]
  BY <1>0, <1>1, <1>2
<1>6. InOrder(ws, new)
  BY <1>1, <1>2, <1>3, <1>4, <1>5, SubOrder
<1> QED
  BY <1>6 DEF new

\* A thread that is stopped is not served.
LEMMA UnparkOrder ==
  ASSUME NEW S, Waiter(S), NEW ws \in Seq(S), Sorted(ws), NoRepeats(WaiterIds(ws)),
         NEW t, result'[t] = NoAnswer
  PROVE  InOrder(ws, Unpark(ws, t))
<1>1. CASE ~ \E i \in DOMAIN ws : ws[i].id = t
  BY <1>1, SameOrder DEF Unpark
<1>2. CASE \E i \in DOMAIN ws : ws[i].id = t
  <2> DEFINE k == CHOOSE i \in DOMAIN ws : ws[i].id = t
             new == Unpark(ws, t)
             e == [i \in 1..Len(new) |-> IF i < k THEN i ELSE i + 1]
  <2>0. DOMAIN ws = 1..Len(ws) /\ Len(ws) \in Nat
    BY ListFacts
  <2>1. k \in 1..Len(ws) /\ new = RemoveAt(ws, k)
    BY <1>2, <2>0 DEF Unpark
  <2> HIDE DEF k, new
  <2>2. /\ new \in Seq(S) /\ Len(new) = Len(ws) - 1
        /\ \A i \in 1..(Len(ws) - 1) : new[i] = IF i < k THEN ws[i] ELSE ws[i + 1]
    BY <2>1, RemoveAtFacts
  <2>3. e \in [1..Len(new) -> Int] /\ \A i \in 1..Len(new) : e[i] = IF i < k THEN i ELSE i + 1
    BY <2>0, <2>2
  <2> HIDE DEF e
  <2>4. \A i \in 1..Len(new) : e[i] \in 1..Len(ws) /\ new[i] = ws[e[i]]
    BY <2>0, <2>1, <2>2, <2>3
  <2>5. \A i, j \in 1..Len(new) : i < j => e[i] < e[j]
    BY <2>0, <2>1, <2>2, <2>3
  <2>6. Ids(new) = Ids(ws) \ {t}
    BY UnparkIds DEF new
  <2>7. \A i \in 1..Len(ws) : ws[i].id \in Ids(ws)
    BY ListFacts
  <2>8. InOrder(ws, new)
    BY <2>2, <2>3, <2>4, <2>5, <2>6, <2>7, SubOrder
  <2> QED
    BY <2>8 DEF new
<1> QED
  BY <1>1, <1>2

\* What a step does to the receivers and to the senders: nothing, park one
\* more, serve the first or take out one that is owed no answer.
LEMMA ReceiversStep ==
  ASSUME Sound, Waits, [Next]_vars
  PROVE  \/ UNCHANGED blocked_on_recv
         \/ \E w \in Receiver : w.id \notin Ids(blocked_on_recv) /\ blocked_on_recv' = Park(blocked_on_recv, w)
         \/ blocked_on_recv # <<>> /\ blocked_on_recv' = Tail(blocked_on_recv)
         \/ \E t \in Thread : result'[t] = NoAnswer /\ blocked_on_recv' = Unpark(blocked_on_recv, t)
<1>1. ASSUME NEW t \in Thread, NEW p \in Priority, NEW b \in BOOLEAN, Recv(t, p, b)
      PROVE  UNCHANGED blocked_on_recv
               \/ \E w \in Receiver : w.id \notin Ids(blocked_on_recv) /\ blocked_on_recv' = Park(blocked_on_recv, w)
  <2> DEFINE w == [id |-> t, pri |-> p]
  <2>1. w \in Receiver /\ w.id = t /\ t \notin Ids(blocked_on_recv)
    BY <1>1, PlaceFacts DEF Recv, Ready, Receiver
  <2>2. UNCHANGED blocked_on_recv \/ blocked_on_recv' = Park(blocked_on_recv, w)
    BY <1>1 DEF Recv
  <2> HIDE DEF w
  <2> QED
    BY <2>1, <2>2
<1>2. ASSUME NEW t \in Thread, RemoveWaiter(t)
      PROVE  result'[t] = NoAnswer /\ blocked_on_recv' = Unpark(blocked_on_recv, t)
  BY <1>2 DEF RemoveWaiter, Sound
<1> QED
  BY <1>1, <1>2 DEF Next, vars, Create, Send, Post, Resume, WakeReceiver

LEMMA SendersStep ==
  ASSUME Sound, Waits, [Next]_vars
  PROVE  \/ UNCHANGED blocked_on_send
         \/ \E w \in Sender : w.id \notin Ids(blocked_on_send) /\ blocked_on_send' = Park(blocked_on_send, w)
         \/ blocked_on_send # <<>> /\ blocked_on_send' = Tail(blocked_on_send)
         \/ \E t \in Thread : result'[t] = NoAnswer /\ blocked_on_send' = Unpark(blocked_on_send, t)
<1>1. ASSUME NEW t \in Thread, NEW m \in Fresh, NEW p \in Priority, NEW pl \in Placement, NEW b \in BOOLEAN,
             Send(t, m, p, pl, b)
      PROVE  UNCHANGED blocked_on_send
               \/ \E w \in Sender : w.id \notin Ids(blocked_on_send) /\ blocked_on_send' = Park(blocked_on_send, w)
  <2> DEFINE w == [id |-> t, pri |-> p, msg |-> m, place |-> pl]
  <2>1. w \in Sender /\ w.id = t /\ t \notin Ids(blocked_on_send)
    BY <1>1, PlaceFacts, FreshFacts DEF Send, Ready, Sender
  <2>2. UNCHANGED blocked_on_send \/ blocked_on_send' = Park(blocked_on_send, w)
    BY <1>1 DEF Send, WakeReceiver
  <2> HIDE DEF w
  <2> QED
    BY <2>1, <2>2
<1>2. ASSUME NEW t \in Thread, RemoveWaiter(t)
      PROVE  result'[t] = NoAnswer /\ blocked_on_send' = Unpark(blocked_on_send, t)
  BY <1>2 DEF RemoveWaiter, Sound
<1>3. ASSUME NEW t \in Thread, NEW p \in Priority, NEW b \in BOOLEAN, Recv(t, p, b)
      PROVE  UNCHANGED blocked_on_send \/ (blocked_on_send # <<>> /\ blocked_on_send' = Tail(blocked_on_send))
  BY <1>3 DEF Recv
<1> QED
  BY <1>1, <1>2, <1>3 DEF Next, vars, Create, Post, Resume, WakeReceiver

\* Both lists stay sorted, which is what makes the head the next to be served.
Ordered == Sorted(blocked_on_recv) /\ Sorted(blocked_on_send)

LEMMA OrderedInit == Init => Ordered
  BY DEF Init, Ordered, Sorted, Descending, Priorities

LEMMA OrderStep ==
  ASSUME Sound, Waits, Ordered, [Next]_vars
  PROVE  InOrder(blocked_on_recv, blocked_on_recv') /\ InOrder(blocked_on_send, blocked_on_send')
<1>0. /\ blocked_on_recv \in Seq(Receiver) /\ Sorted(blocked_on_recv) /\ NoRepeats(WaiterIds(blocked_on_recv))
      /\ blocked_on_send \in Seq(Sender) /\ Sorted(blocked_on_send) /\ NoRepeats(WaiterIds(blocked_on_send))
  BY DEF Sound, Waits, Ordered
<1>1. ASSUME NEW S, Waiter(S), NEW ws \in Seq(S), NEW new, Sorted(ws), NoRepeats(WaiterIds(ws)),
             \/ new = ws
             \/ \E w \in S : w.id \notin Ids(ws) /\ new = Park(ws, w)
             \/ ws # <<>> /\ new = Tail(ws)
             \/ \E t \in Thread : result'[t] = NoAnswer /\ new = Unpark(ws, t)
      PROVE  InOrder(ws, new)
  <2>1. CASE new = ws
    BY <1>1, <2>1, SameOrder
  <2>2. CASE \E w \in S : w.id \notin Ids(ws) /\ new = Park(ws, w)
    BY <1>1, <2>2, ParkOrder
  <2>3. CASE ws # <<>> /\ new = Tail(ws)
    BY <1>1, <2>3, TailOrder
  <2>4. CASE \E t \in Thread : result'[t] = NoAnswer /\ new = Unpark(ws, t)
    BY <1>1, <2>4, UnparkOrder
  <2> QED
    BY <1>1, <2>1, <2>2, <2>3, <2>4
<1>2. InOrder(blocked_on_recv, blocked_on_recv')
  BY <1>0, <1>1, ReceiversStep, WaiterKinds
<1>3. InOrder(blocked_on_send, blocked_on_send')
  BY <1>0, <1>1, SendersStep, WaiterKinds
<1> QED
  BY <1>2, <1>3

LEMMA OrderedStep ==
  ASSUME InOrder(blocked_on_recv, blocked_on_recv'), InOrder(blocked_on_send, blocked_on_send')
  PROVE  Ordered'
  BY DEF InOrder, Ordered, Sorted

\* Both waiter lists are served by priority, first come first served among
\* equals, whatever the priorities and the number of threads: parking, waking
\* and stopping a thread never let one overtake another.
THEOREM WaitersServedInOrder == Spec => ServedInOrder
<1>1. Spec => []Waits
  BY WaitsInit, WaitsStep, SoundAlways, PTL DEF Spec
<1>2. Sound /\ Waits /\ Ordered /\ [Next]_vars =>
        Ordered' /\ [InOrder(blocked_on_recv, blocked_on_recv') /\ InOrder(blocked_on_send, blocked_on_send')]_vars
  BY OrderStep, OrderedStep
<1> QED
  BY <1>1, <1>2, OrderedInit, SoundAlways, PTL DEF Spec, ServedInOrder
=============================================================================
