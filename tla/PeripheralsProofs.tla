-------------------------- MODULE PeripheralsProofs --------------------------
(***************************************************************************)
(* What the peripheral and serial interfaces keep for any number of        *)
(* transfers, operations, threads and ROM loads, whatever the guest does.  *)
(* What a conduct of the guest can disturb is stated with the condition    *)
(* that the guest has not shown it.                                        *)
(***************************************************************************)
EXTENDS Peripherals, SequenceTheorems, FiniteSetTheorems, TLAPS

-----------------------------------------------------------------------------
(***************************************************************************)
(* Facts about sequences and about the notices of a device step.           *)
(***************************************************************************)
Request == [id : 1..MaxTransfers, managed : BOOLEAN, ret_queue : BOOLEAN, fits : BOOLEAN]
Ids(q) == [i \in 1..Len(q) |-> q[i].id]
PiDeadlines == {e.id : e \in {e \in events : e.device = "Pi"}}

\* What a push does to a log.
LEMMA PushFacts ==
  ASSUME NEW S, NEW s \in Seq(S), NEW x \in S
  PROVE  /\ Append(s, x) \in Seq(S) /\ Append(s, x) # <<>>
         /\ Len(Append(s, x)) = Len(s) + 1
         /\ \A i \in 1..Len(s) : Append(s, x)[i] = s[i]
         /\ Append(s, x)[Len(s) + 1] = x
         /\ ToSet(Append(s, x)) = ToSet(s) \cup {x}
<1>1. /\ Append(s, x) \in Seq(S) /\ Len(Append(s, x)) = Len(s) + 1
      /\ \A i \in 1..Len(s) : Append(s, x)[i] = s[i]
      /\ Append(s, x)[Len(s) + 1] = x
  <2>1. Append(s, x) \in Seq(S) /\ Len(Append(s, x)) = Len(s) + 1
    BY AppendProperties
  <2>2. \A i \in 1..Len(s) : Append(s, x)[i] = s[i]
    BY AppendProperties
  <2>3. Append(s, x)[Len(s) + 1] = x
    BY AppendProperties
  <2> QED
    BY <2>1, <2>2, <2>3
<1>2. Len(s) \in Nat /\ DOMAIN s = 1..Len(s) /\ DOMAIN Append(s, x) = 1..(Len(s) + 1)
  BY <1>1, LenProperties
<1>3. Append(s, x) # <<>>
  BY AppendProperties
<1>4. ToSet(Append(s, x)) = ToSet(s) \cup {x}
  <2>1. 1..(Len(s) + 1) = 1..Len(s) \cup {Len(s) + 1}
    BY <1>2
  <2> QED
    BY <1>1, <1>2, <2>1 DEF ToSet
<1> QED
  BY <1>1, <1>3, <1>4

\* What a queue holds once its head is gone.
LEMMA PopFacts ==
  ASSUME NEW S, NEW s \in Seq(S), s # <<>>
  PROVE  /\ Head(s) \in S /\ Head(s) = s[1] /\ 1 \in 1..Len(s)
         /\ Tail(s) \in Seq(S)
         /\ Len(s) \in Nat \ {0}
         /\ Len(Tail(s)) = Len(s) - 1
         /\ \A i \in 1..Len(Tail(s)) : Tail(s)[i] = s[i + 1] /\ i + 1 \in 1..Len(s)
<1>1. Len(s) \in Nat \ {0}
  OBVIOUS
<1>2. Tail(s) \in Seq(S) /\ Len(Tail(s)) = Len(s) - 1
  OBVIOUS
<1>3. \A i \in 1..Len(Tail(s)) : Tail(s)[i] = s[i + 1]
  OBVIOUS
<1>4. \A i \in 1..Len(Tail(s)) : i + 1 \in 1..Len(s)
  BY <1>1, <1>2
<1>5. Head(s) = s[1] /\ s[1] \in S /\ 1 \in 1..Len(s)
  BY <1>1
<1> QED
  BY <1>1, <1>2, <1>3, <1>4, <1>5

\* The numbers of a queue of requests, as the abstract PI sees them.
LEMMA IdsFacts ==
  ASSUME NEW q \in Seq(Request)
  PROVE  /\ Ids(q) \in Seq(Nat) /\ Len(Ids(q)) = Len(q)
         /\ \A i \in 1..Len(q) : Ids(q)[i] = q[i].id
         /\ q = <<>> <=> Ids(q) = <<>>
<1>1. Len(q) \in Nat /\ \A i \in 1..Len(q) : q[i] \in Request
  BY ElementOfSeq, LenProperties
<1>2. \A i \in 1..Len(q) : q[i].id \in Nat
  BY <1>1 DEF Request
<1>3. Ids(q) \in Seq(Nat) /\ Len(Ids(q)) = Len(q) /\ \A i \in 1..Len(q) : Ids(q)[i] = q[i].id
  BY <1>1, <1>2 DEF Ids
<1>4. q = <<>> <=> Ids(q) = <<>>
  BY <1>3, EmptySeq
<1> QED
  BY <1>3, <1>4

\* A request pushed to the queue is numbered last.
LEMMA IdsPush ==
  ASSUME NEW q \in Seq(Request), NEW r \in Request
  PROVE  Ids(Append(q, r)) = Append(Ids(q), r.id)
<1>1. r.id \in Nat
  BY DEF Request
<1>2. Append(q, r) \in Seq(Request)
  OBVIOUS
<1>3. /\ Ids(Append(q, r)) \in Seq(Nat) /\ Append(Ids(q), r.id) \in Seq(Nat)
      /\ Len(Ids(Append(q, r))) = Len(Append(Ids(q), r.id))
  <2>1. /\ Ids(Append(q, r)) \in Seq(Nat) /\ Len(Ids(Append(q, r))) = Len(Append(q, r))
        /\ Ids(q) \in Seq(Nat) /\ Len(Ids(q)) = Len(q)
    BY <1>2, IdsFacts
  <2> QED
    BY <1>1, <2>1, PushFacts
<1>4. \A i \in 1..Len(Ids(Append(q, r))) : Ids(Append(q, r))[i] = Append(Ids(q), r.id)[i]
  <2> SUFFICES ASSUME NEW i \in 1..(Len(q) + 1)
               PROVE  Ids(Append(q, r))[i] = Append(Ids(q), r.id)[i]
    <3>1. Len(Ids(Append(q, r))) = Len(q) + 1
      <4>1. Len(Ids(Append(q, r))) = Len(Append(q, r))
        BY <1>2, IdsFacts
      <4>2. Len(Append(q, r)) = Len(q) + 1
        BY AppendProperties
      <4> QED
        BY <4>1, <4>2
    <3> QED
      BY <3>1, Zenon
  <2>1. /\ Ids(Append(q, r))[i] = Append(q, r)[i].id
        /\ Ids(q) \in Seq(Nat) /\ Len(Ids(q)) = Len(q) /\ Len(q) \in Nat
    <3>1. Len(q) \in Nat /\ i \in 1..Len(Append(q, r))
      BY PushFacts, LenProperties
    <3> QED
      BY <1>2, <3>1, IdsFacts
  <2>2. CASE i \in 1..Len(q)
    BY <1>1, <2>1, <2>2, IdsFacts, PushFacts
  <2>3. CASE i = Len(q) + 1
    BY <1>1, <2>1, <2>3, PushFacts
  <2> QED
    BY <2>1, <2>2, <2>3
<1> QED
  BY <1>3, <1>4, SeqEqual

\* The queue and its numbers lose their heads together.
LEMMA IdsPop ==
  ASSUME NEW q \in Seq(Request), q # <<>>
  PROVE  Ids(Tail(q)) = Tail(Ids(q)) /\ Head(Ids(q)) = q[1].id
<1>1. Tail(q) \in Seq(Request) /\ Ids(q) \in Seq(Nat) /\ Ids(q) # <<>>
  BY PopFacts, IdsFacts
<1>2. /\ Ids(Tail(q)) \in Seq(Nat) /\ Tail(Ids(q)) \in Seq(Nat)
      /\ Len(Ids(Tail(q))) = Len(Tail(Ids(q)))
  BY <1>1, IdsFacts, PopFacts
<1>3. \A i \in 1..Len(Ids(Tail(q))) : Ids(Tail(q))[i] = Tail(Ids(q))[i]
  <2> SUFFICES ASSUME NEW i \in 1..Len(Tail(q)) PROVE Ids(Tail(q))[i] = Tail(Ids(q))[i]
    BY <1>1, IdsFacts
  <2>1. Ids(Tail(q))[i] = Tail(q)[i].id /\ Tail(q)[i] = q[i + 1] /\ i + 1 \in 1..Len(q)
    BY <1>1, IdsFacts, PopFacts
  <2>2. Len(Tail(Ids(q))) = Len(Tail(q))
    BY <1>1, <1>2, IdsFacts
  <2>3. Tail(Ids(q))[i] = Ids(q)[i + 1]
    BY <1>1, <2>2, PopFacts
  <2> QED
    BY <2>1, <2>3, IdsFacts
<1>4. Head(Ids(q)) = q[1].id
  BY <1>1, IdsFacts, PopFacts
<1> QED
  BY <1>2, <1>3, <1>4, SeqEqual

\* A notice of one device is none of another.
LEMMA NoticeFacts ==
  ASSUME NEW w, NEW n, notified' = notified \cup {[what |-> w, id |-> n]}
  PROVE  /\ Notified(w)' = Notified(w) \cup {n}
         /\ \A v : v # w => Notified(v)' = Notified(v)
<1>1. \A v : Notified(v)' = {m.id : m \in {m \in notified \cup {[what |-> w, id |-> n]} : m.what = v}}
  BY DEF Notified
<1>2. {m \in notified \cup {[what |-> w, id |-> n]} : m.what = w}
        = {m \in notified : m.what = w} \cup {[what |-> w, id |-> n]}
  OBVIOUS
<1>3. \A v : v # w => {m \in notified \cup {[what |-> w, id |-> n]} : m.what = v}
                       = {m \in notified : m.what = v}
  OBVIOUS
<1>4. Notified(w)' = Notified(w) \cup {n}
  <2>1. Notified(w)' = {m.id : m \in {m \in notified : m.what = w} \cup {[what |-> w, id |-> n]}}
    BY <1>1, <1>2
  <2>2. {m.id : m \in {m \in notified : m.what = w} \cup {[what |-> w, id |-> n]}}
          = {m.id : m \in {m \in notified : m.what = w}} \cup {[what |-> w, id |-> n].id}
    BY Zenon
  <2> QED
    BY <2>1, <2>2 DEF Notified
<1>5. \A v : v # w => Notified(v)' = Notified(v)
  BY <1>1, <1>3 DEF Notified
<1> QED
  BY <1>4, <1>5

\* Between device steps nothing is notified.
LEMMA QuietFacts ==
  /\ \A v : notified = {} => Notified(v) = {}
  /\ \A v : notified' = {} => Notified(v)' = {}
  /\ \A v : notified' = notified => Notified(v)' = Notified(v)
  BY DEF Notified

-----------------------------------------------------------------------------
(***************************************************************************)
(* The invariants.                                                         *)
(***************************************************************************)
Types ==
  /\ pending_pi \in [id : 0..MaxTransfers, committed : BOOLEAN]
  /\ pending_si \in [kind : {"none", "Dma", "PifControl"}, id : 0..MaxSerial]
  /\ events \subseteq [device : Device, id : Nat]
  /\ pending_pi_completions \in Seq(Request)
  /\ transfers \in 0..MaxTransfers /\ serials \in 0..MaxSerial
  /\ landed \in Seq(Nat) /\ over \in Seq(Nat)
  /\ notified \subseteq [what : Device, id : Nat]
  /\ ~stepping => notified = {}

\* The hardware slot is the head of the host's queue until its completion is
\* notified.
Slot ==
  IF pending_pi.id # 0
  THEN /\ pending_pi_completions # <<>>
       /\ pending_pi.id = pending_pi_completions[1].id
       /\ pending_pi.committed = pending_pi_completions[1].managed
       /\ Notified("Pi") = {}
  ELSE IF pending_pi_completions = <<>> THEN Notified("Pi") = {}
       ELSE Notified("Pi") = {pending_pi_completions[1].id}

\* Numbers are given out once, and the ends of the three logs do not meet.
Numbered ==
  /\ \A i \in 1..Len(pending_pi_completions) :
       /\ pending_pi_completions[i].id \in 1..transfers
       /\ pending_pi_completions[i].id \notin ToSet(over)
  /\ \A i, j \in 1..Len(pending_pi_completions) :
       pending_pi_completions[i].id = pending_pi_completions[j].id => i = j
  /\ ToSet(landed) \subseteq 1..transfers /\ ToSet(over) \subseteq 1..transfers

\* A deadline is that of the transfer in flight or of a forgotten one.
Deadlines ==
  \A d \in PiDeadlines :
    /\ d \in 1..transfers /\ d \notin ToSet(over)
    /\ \A i \in 1..Len(pending_pi_completions) :
         pending_pi_completions[i].id = d => pending_pi.id = d

\* A managed transfer's bytes have moved, a raw one's once it is notified.
Landed ==
  \A i \in 1..Len(pending_pi_completions) :
    \/ pending_pi_completions[i].managed
    \/ pending_pi_completions[i].id \in Notified("Pi")
    <=> pending_pi_completions[i].id \in ToSet(landed)

PiSound == Slot /\ Numbered /\ Deadlines /\ Landed

-----------------------------------------------------------------------------
(***************************************************************************)
(* Types.                                                                  *)
(***************************************************************************)
\* A request is one of the transfers explored.
LEMMA RequestFacts ==
  ASSUME NEW n \in 1..MaxTransfers, NEW m \in BOOLEAN, NEW w \in BOOLEAN, NEW f \in BOOLEAN
  PROVE  [id |-> n, managed |-> m, ret_queue |-> w, fits |-> f] \in Request
  BY DEF Request

\* A deadline is a record of its device and number.
LEMMA EventFacts ==
  ASSUME Types, NEW d \in Device, NEW n \in Nat
  PROVE  events \cup {[device |-> d, id |-> n]} \subseteq [device : Device, id : Nat]
  BY DEF Types

\* What a deadline does when it falls due.
Occurs(e) ==
  \/ e.device = "Pi" /\ PiDue(e)
  \/ e.device = "Si" /\ SiDue
  \/ e.device = "PifControl" /\ PifControlDue(e)

\* The deadline that falls due in a step.
LEMMA DueFacts ==
  ASSUME NEW d \in Device, Due(d)
  PROVE  \E e \in events : e.device = d /\ events' = events \ {e} /\ Occurs(e)
  BY DEF Due, Occurs

\* The assertions of a device step, one by one.
LEMMA BrokenFacts ==
  Broken = "none" <=>
    /\ \A n \in Notified("Pi") :
         pending_pi_completions # <<>> /\ Head(pending_pi_completions).id = n
    /\ \A n \in Notified("Si") : pending_si_completion.id = n
    /\ ~(Notified("Pi") # {} /\ \E p \in ToSet(Tail(pending_pi_completions)) :
            p = pending_pi_completions[2] /\ ~p.fits)
    /\ ~(Notified("Si") # {} /\ pending_si_completion.owner \in completed_pfs_is_plug)
  BY DEF Broken

\* A step in which a PI transfer completes, and nothing is amiss.
LEMMA SettleFacts ==
  ASSUME Types, Settle, Broken = "none", Notified("Pi") # {}
  PROVE  /\ pending_pi_completions # <<>> /\ pending_pi_completions' = Tail(pending_pi_completions)
         /\ over' = Append(over, pending_pi_completions[1].id)
         /\ StartNext(Tail(pending_pi_completions))
<1>1. pending_pi_completions # <<>>
  BY BrokenFacts
<1>2. Head(pending_pi_completions) = pending_pi_completions[1]
  BY <1>1, PopFacts DEF Types
<1> QED
  BY <1>1, <1>2 DEF Settle, PiDmaComplete

\* The host's interfaces start typed.
LEMMA TypesInit == Init => Types
<1> SUFFICES ASSUME Init PROVE Types
  OBVIOUS
<1>1. pending_pi_completions \in Seq(Request) /\ landed \in Seq(Nat) /\ over \in Seq(Nat)
  BY EmptySeq DEF Init
<1> QED
  BY <1>1, PeripheralsAssumption DEF Init, Types, NoPi, NoSi

\* Every step keeps the types, one case per action.
LEMMA TypesStep == Types /\ [Next]_vars => Types'
<1> SUFFICES ASSUME Types, [Next]_vars PROVE Types'
  OBVIOUS
<1> USE DEF fabric, mi, piHost, siHost, kernel, stepper
<1>0. MaxTransfers \in Nat /\ MaxSerial \in Nat
  BY PeripheralsAssumption
<1>1. ASSUME NEW w \in BOOLEAN, NEW f \in BOOLEAN, StartManaged(w, f) PROVE Types'
  <2>1. transfers + 1 \in 1..MaxTransfers /\ transfers + 1 \in Nat
    BY <1>0, <1>1 DEF StartManaged, MoreTransfers, Types
  <2>2. landed' \in Seq(Nat)
    BY <1>1, <2>1, PushFacts DEF StartManaged, Types
  <2>3. pending_pi_completions' \in Seq(Request)
    BY <1>1, <2>1, RequestFacts, PushFacts DEF StartManaged, Types
  <2>4. events' \subseteq [device : Device, id : Nat]
    BY <1>1, <2>1, EventFacts DEF StartManaged, AdmitPi, Types, Device
  <2>5. pending_pi' \in [id : 0..MaxTransfers, committed : BOOLEAN]
    <3>1. CASE pending_pi_completions = <<>>
      <4>1. pending_pi' = [id |-> transfers + 1, committed |-> TRUE]
        BY <1>1, <3>1, Zenon DEF StartManaged, AdmitPi
      <4> QED
        BY <1>0, <2>1, <4>1
    <3>2. CASE pending_pi_completions # <<>>
      BY <1>1, <3>2 DEF StartManaged, Types
    <3> QED
      BY <3>1, <3>2
  <2> QED
    BY <1>0, <1>1, <2>1, <2>2, <2>3, <2>4, <2>5 DEF StartManaged, Types
<1>2. CASE StartRawPi
  <2>1. transfers + 1 \in 1..MaxTransfers /\ transfers + 1 \in Nat
    BY <1>0, <1>2 DEF StartRawPi, MoreTransfers, Types
  <2>2. pending_pi_completions' \in Seq(Request)
    <3>1. [id |-> transfers + 1, managed |-> FALSE, ret_queue |-> FALSE, fits |-> TRUE] \in Request
      BY <2>1, RequestFacts
    <3> QED
      BY <1>2, <3>1 DEF StartRawPi
  <2>3. events' \subseteq [device : Device, id : Nat]
    BY <1>2, <2>1, EventFacts DEF StartRawPi, AdmitPi, Device
  <2>4. pending_pi' \in [id : 0..MaxTransfers, committed : BOOLEAN]
    BY <1>0, <1>2, <2>1 DEF StartRawPi, AdmitPi
  <2> QED
    BY <1>0, <1>2, <2>1, <2>2, <2>3, <2>4 DEF StartRawPi, Types
<1>3. CASE ResetPi
  BY <1>0, <1>3, EmptySeq DEF ResetPi, Types, NoPi
<1>4. ASSUME NEW d \in {"Si", "PifControl"}, NEW k \in {"Dma", "PifControl"}, AdmitSi(k, d),
             UNCHANGED <<pending_pi, piHost, stepper>>
      PROVE  Types'
  <2>1. serials + 1 \in 1..MaxSerial /\ serials + 1 \in Nat
    BY <1>0, <1>4 DEF AdmitSi, Types
  <2>2. events' \subseteq [device : Device, id : Nat]
    BY <1>4, <2>1, EventFacts DEF AdmitSi, Device
  <2>3. pending_si' \in [kind : {"none", "Dma", "PifControl"}, id : 0..MaxSerial]
    BY <1>0, <1>4, <2>1 DEF AdmitSi
  <2> QED
    BY <1>0, <1>4, <2>1, <2>2, <2>3 DEF AdmitSi, Types
<1>5. CASE \E o \in Owner : StartSi(o)
  BY <1>4, <1>5 DEF StartSi
<1>6. CASE StartRawSi
  BY <1>4, <1>6 DEF StartRawSi
<1>7. CASE WriteControl
  BY <1>4, <1>7 DEF WriteControl
<1>8. CASE AckSi \/ SetMask \/ AcceptInterrupt \/ CommitWork \/ \E t \in Thread : PlugReturns(t)
  BY <1>8 DEF AckSi, SetMask, AcceptInterrupt, CommitWork, PlugReturns, Types
<1>9. CASE Reload
  BY <1>0, <1>9, EmptySeq DEF Reload, Types, NoPi, NoSi
<1>10. ASSUME NEW d \in Device, Due(d) PROVE Types'
  <2>1. PICK e \in events : e.device = d /\ events' = events \ {e} /\ Occurs(e)
    BY <1>10, DueFacts
  <2>2. UNCHANGED <<pending_pi_completions, transfers, over, serials>> /\ stepping' = TRUE
    BY <1>10 DEF Due
  <2>3. events' \subseteq [device : Device, id : Nat]
    BY <2>1 DEF Types
  <2>4. CASE PiDue(e)
    <3>1. pending_pi.id \in Nat /\ landed' \in Seq(Nat)
      <4>1. pending_pi.id \in Nat /\ landed \in Seq(Nat)
        BY <1>0 DEF Types
      <4>2. Append(landed, pending_pi.id) \in Seq(Nat)
        BY <4>1, PushFacts
      <4> QED
        BY <2>4, <4>1, <4>2 DEF PiDue, LandIfLeft
    <3>2. [what |-> "Pi", id |-> pending_pi.id] \in [what : Device, id : Nat]
      BY <3>1 DEF Device
    <3> QED
      <4>1. notified' \subseteq [what : Device, id : Nat]
        BY <2>4, <3>2 DEF PiDue, Types
      <4>2. pending_pi' \in [id : 0..MaxTransfers, committed : BOOLEAN] /\ UNCHANGED pending_si
        <5>1. pending_pi' \in {pending_pi, NoPi} /\ UNCHANGED pending_si
          BY <2>4, Zenon DEF PiDue
        <5>2. NoPi \in [id : 0..MaxTransfers, committed : BOOLEAN]
          BY <1>0 DEF NoPi
        <5> QED
          BY <5>1, <5>2 DEF Types
      <4> QED
        BY <2>2, <2>3, <3>1, <4>1, <4>2 DEF Types
  <2>5. CASE SiDue
    <3>1. [what |-> "Si", id |-> pending_si.id] \in [what : Device, id : Nat]
      BY <1>0 DEF Types, Device
    <3> QED
      BY <1>0, <2>2, <2>3, <2>5, <3>1 DEF SiDue, Types, NoSi
  <2>6. CASE PifControlDue(e)
    <3>1. [what |-> "PifControl", id |-> e.id] \in [what : Device, id : Nat]
      BY <2>1 DEF Types, Device
    <3> QED
      <4>1. notified' \subseteq [what : Device, id : Nat]
        BY <2>6, <3>1 DEF PifControlDue, Types
      <4>2. /\ pending_si' \in [kind : {"none", "Dma", "PifControl"}, id : 0..MaxSerial]
            /\ UNCHANGED <<pending_pi, landed>>
        <5>1. pending_si' = NoSi /\ UNCHANGED <<pending_pi, landed>>
          BY <2>6, Zenon DEF PifControlDue
        <5>2. NoSi \in [kind : {"none", "Dma", "PifControl"}, id : 0..MaxSerial]
          BY <1>0 DEF NoSi
        <5> QED
          BY <5>1, <5>2
      <4> QED
        BY <2>2, <2>3, <4>1, <4>2 DEF Types
  <2> QED
    BY <2>1, <2>4, <2>5, <2>6 DEF Occurs
<1>11. CASE Settle
  <2>1. UNCHANGED <<pending_si, transfers, serials, landed>> /\ (stepping' = FALSE => notified' = {})
    BY <1>11 DEF Settle
  <2>2. CASE Broken # "none"
    <3>1. UNCHANGED <<pending_pi, events, pending_pi_completions, over, stepper>>
      BY <1>11, <2>2 DEF Settle
    <3> QED
      BY <2>1, <3>1 DEF Types
  <2>4. ASSUME Broken = "none" PROVE notified' = {} /\ stepping' = FALSE
    BY <1>11, <2>4 DEF Settle
  <2>5. CASE Broken = "none" /\ Notified("Pi") = {}
    <3>1. UNCHANGED <<pending_pi, events, pending_pi_completions, over>>
      BY <1>11, <2>5 DEF Settle, PiDmaComplete
    <3> QED
      BY <2>1, <2>4, <2>5, <3>1 DEF Types
  <2>3. CASE Broken = "none" /\ Notified("Pi") # {}
    <3>1. /\ pending_pi_completions # <<>> /\ pending_pi_completions' = Tail(pending_pi_completions)
          /\ over' = Append(over, pending_pi_completions[1].id)
          /\ StartNext(Tail(pending_pi_completions))
      BY <1>11, <2>3, SettleFacts
    <3>2. /\ pending_pi_completions[1] \in Request
          /\ Tail(pending_pi_completions) \in Seq(Request)
      BY <3>1, PopFacts DEF Types
    <3>3. over' \in Seq(Nat)
      BY <1>0, <3>1, <3>2, PushFacts DEF Types, Request
    <3>4. CASE Tail(pending_pi_completions) = <<>>
      BY <2>1, <2>3, <2>4, <3>1, <3>2, <3>3, <3>4 DEF StartNext, Types
    <3>5. CASE Tail(pending_pi_completions) # <<>>
      <4>1. Head(Tail(pending_pi_completions)) \in Request
        BY <3>2, <3>5, PopFacts
      <4>2. /\ Head(Tail(pending_pi_completions)).id \in 1..MaxTransfers
            /\ Head(Tail(pending_pi_completions)).managed \in BOOLEAN
        BY <4>1 DEF Request
      <4>3. events' \subseteq [device : Device, id : Nat]
        BY <1>0, <3>1, <3>5, <4>2, EventFacts DEF StartNext, AdmitPi, Device
      <4>4. pending_pi' \in [id : 0..MaxTransfers, committed : BOOLEAN]
        BY <1>0, <3>1, <3>5, <4>2 DEF StartNext, AdmitPi
      <4> QED
        BY <2>1, <2>3, <2>4, <3>1, <3>2, <3>3, <4>3, <4>4 DEF Types
    <3> QED
      BY <3>4, <3>5
  <2> QED
    BY <2>2, <2>3, <2>5
<1>12. CASE UNCHANGED vars
  BY <1>12 DEF vars, Types
<1> QED
  BY <1>1, <1>2, <1>3, <1>5, <1>6, <1>7, <1>8, <1>9, <1>10, <1>11, <1>12 DEF Next

-----------------------------------------------------------------------------
(***************************************************************************)
(* The PI half, whatever the guest does.                                   *)
(***************************************************************************)
\* The deadlines of the PI after an admission and after one falls due.
LEMMA DeadlineFacts ==
  /\ \A d, n : events' = events \cup {[device |-> d, id |-> n]} =>
       PiDeadlines' = IF d = "Pi" THEN PiDeadlines \cup {n} ELSE PiDeadlines
  /\ events' \subseteq events => PiDeadlines' \subseteq PiDeadlines
  /\ \A e \in events : e.device = "Pi" => e.id \in PiDeadlines
<1>1. ASSUME NEW d, NEW n, events' = events \cup {[device |-> d, id |-> n]}
      PROVE  PiDeadlines' = IF d = "Pi" THEN PiDeadlines \cup {n} ELSE PiDeadlines
  <2>1. PiDeadlines' = {e.id : e \in {e \in events \cup {[device |-> d, id |-> n]} : e.device = "Pi"}}
    BY <1>1 DEF PiDeadlines
  <2>2. CASE d = "Pi"
    <3>1. {e \in events \cup {[device |-> d, id |-> n]} : e.device = "Pi"}
            = {e \in events : e.device = "Pi"} \cup {[device |-> d, id |-> n]}
      BY <2>2
    <3>2. {e.id : e \in {e \in events : e.device = "Pi"} \cup {[device |-> d, id |-> n]}}
            = {e.id : e \in {e \in events : e.device = "Pi"}} \cup {[device |-> d, id |-> n].id}
      BY Zenon
    <3> QED
      BY <2>1, <2>2, <3>1, <3>2 DEF PiDeadlines
  <2>3. CASE d # "Pi"
    <3>1. {e \in events \cup {[device |-> d, id |-> n]} : e.device = "Pi"}
            = {e \in events : e.device = "Pi"}
      BY <2>3
    <3> QED
      BY <2>1, <2>3, <3>1 DEF PiDeadlines
  <2> QED
    BY <2>2, <2>3
<1>2. events' \subseteq events => PiDeadlines' \subseteq PiDeadlines
  BY DEF PiDeadlines
<1>3. \A e \in events : e.device = "Pi" => e.id \in PiDeadlines
  BY DEF PiDeadlines
<1> QED
  BY <1>1, <1>2, <1>3

\* A deadline that fell due is gone, with no other of its number left.
LEMMA DueIsGone ==
  ASSUME Types, NEW e \in events, e.device = "Pi", events' = events \ {e}
  PROVE  PiDeadlines' = PiDeadlines \ {e.id}
<1>1. \A f \in events : f.device = "Pi" /\ f.id = e.id => f = e
  <2> SUFFICES ASSUME NEW f \in events, f.device = "Pi", f.id = e.id PROVE f = e
    OBVIOUS
  <2>1. f \in [device : Device, id : Nat] /\ e \in [device : Device, id : Nat]
    BY DEF Types
  <2>2. f = [device |-> f.device, id |-> f.id] /\ e = [device |-> e.device, id |-> e.id]
    BY <2>1
  <2> QED
    BY <2>2
<1>2. \A x : x \in PiDeadlines' <=> \E f \in events : f # e /\ f.device = "Pi" /\ x = f.id
  BY DEF PiDeadlines
<1>3. \A x : x \in PiDeadlines <=> \E f \in events : f.device = "Pi" /\ x = f.id
  BY DEF PiDeadlines
<1> QED
  BY <1>1, <1>2, <1>3

\* What does not touch the PI keeps it sound.
LEMMA PiUntouched ==
  ASSUME PiSound, UNCHANGED <<pending_pi, pending_pi_completions, transfers, landed, over>>,
         PiDeadlines' \subseteq PiDeadlines, Notified("Pi")' = Notified("Pi")
  PROVE  PiSound'
<1>1. Slot' /\ Numbered' /\ Landed'
  BY DEF PiSound, Slot, Numbered, Landed
<1>2. Deadlines'
  BY DEF PiSound, Deadlines
<1> QED
  BY <1>1, <1>2 DEF PiSound

\* An accepted transfer, into the hardware or behind it.
LEMMA AcceptKeeps ==
  ASSUME Types, PiSound, Notified("Pi") = {}, Notified("Pi")' = {},
         NEW r \in Request, r.id = transfers + 1,
         transfers' = transfers + 1, UNCHANGED over,
         landed' = IF r.managed THEN Append(landed, r.id) ELSE landed,
         pending_pi_completions' = Append(pending_pi_completions, r),
         \/ /\ pending_pi_completions = <<>>
            /\ pending_pi'.id = r.id /\ pending_pi'.committed = r.managed
            /\ PiDeadlines' = PiDeadlines \cup {r.id}
         \/ /\ pending_pi_completions # <<>>
            /\ UNCHANGED pending_pi /\ PiDeadlines' = PiDeadlines
  PROVE  PiSound'
<1> DEFINE q == pending_pi_completions
<1>1. /\ transfers \in Nat /\ r.id \in Nat /\ r.managed \in BOOLEAN /\ q \in Seq(Request)
      /\ Len(q) \in Nat
  BY PeripheralsAssumption, LenProperties DEF Types, Request
<1>2. /\ q' # <<>> /\ Len(q') = Len(q) + 1
      /\ \A i \in 1..Len(q) : q'[i] = q[i]
      /\ q'[Len(q) + 1] = r
  BY <1>1, PushFacts
<1>3. \A i \in 1..Len(q') : (i \in 1..Len(q) /\ q'[i] = q[i]) \/ (i = Len(q) + 1 /\ q'[i] = r)
  <2> SUFFICES ASSUME NEW i \in 1..(Len(q) + 1)
               PROVE  (i \in 1..Len(q) /\ q'[i] = q[i]) \/ (i = Len(q) + 1 /\ q'[i] = r)
    BY <1>2
  <2>1. i \in 1..Len(q) \/ i = Len(q) + 1
    BY <1>1
  <2> QED
    BY <1>2, <2>1
<1>4. ToSet(landed') = IF r.managed THEN ToSet(landed) \cup {r.id} ELSE ToSet(landed)
  <2>1. landed \in Seq(Nat)
    BY DEF Types
  <2>2. ToSet(Append(landed, r.id)) = ToSet(landed) \cup {r.id}
    BY <1>1, <2>1, PushFacts
  <2> QED
    BY <2>2
<1>5. \A i \in 1..Len(q) : q[i].id \in 1..transfers /\ q[i].id # r.id
  BY <1>1 DEF PiSound, Numbered
<1>6. r.id \notin ToSet(over) /\ r.id \notin ToSet(landed)
  BY <1>1 DEF PiSound, Numbered
<1>7. Numbered'
  <2>1. \A i \in 1..Len(q') : q'[i].id \in 1..(transfers + 1) /\ q'[i].id \notin ToSet(over)
    BY <1>1, <1>3, <1>5, <1>6 DEF PiSound, Numbered
  <2>2. \A i, j \in 1..Len(q') : q'[i].id = q'[j].id => i = j
    BY <1>3, <1>5 DEF PiSound, Numbered
  <2>3. ToSet(landed') \subseteq 1..(transfers + 1) /\ ToSet(over) \subseteq 1..(transfers + 1)
    BY <1>1, <1>4 DEF PiSound, Numbered
  <2> QED
    BY <2>1, <2>2, <2>3 DEF Numbered
<1>8. Landed'
  <2> SUFFICES ASSUME NEW i \in 1..Len(q')
               PROVE  q'[i].managed <=> q'[i].id \in ToSet(landed')
    BY DEF Landed
  <2>1. CASE i \in 1..Len(q) /\ q'[i] = q[i]
    BY <1>4, <1>5, <2>1 DEF PiSound, Landed
  <2>2. CASE q'[i] = r
    BY <1>4, <1>6, <2>2
  <2> QED
    BY <1>3, <2>1, <2>2
<1>9. CASE q = <<>>
  <2>1. Len(q) = 0 /\ q'[1] = r /\ r.id # 0
    BY <1>1, <1>2, <1>9
  <2>2. Slot'
    BY <1>2, <1>9, <2>1 DEF Slot
  <2>3. Deadlines'
    <3> SUFFICES ASSUME NEW d \in PiDeadlines \cup {r.id}
                 PROVE  /\ d \in 1..(transfers + 1) /\ d \notin ToSet(over)
                        /\ \A i \in 1..Len(q') : q'[i].id = d => pending_pi'.id = d
      BY <1>9 DEF Deadlines
    <3>1. d \in 1..(transfers + 1) /\ d \notin ToSet(over)
      BY <1>1, <1>6 DEF PiSound, Deadlines
    <3>2. \A i \in 1..Len(q') : q'[i].id = d => pending_pi'.id = d
      BY <1>3, <1>9, <2>1
    <3> QED
      BY <3>1, <3>2
  <2> QED
    BY <1>7, <2>2, <2>3, <1>8 DEF PiSound
<1>10. CASE q # <<>>
  <2>1. 1 \in 1..Len(q) /\ q'[1] = q[1]
    BY <1>1, <1>2, <1>10, PopFacts
  <2>2. Slot'
    BY <1>2, <1>10, <2>1 DEF PiSound, Slot
  <2>3. Deadlines'
    <3> SUFFICES ASSUME NEW d \in PiDeadlines
                 PROVE  /\ d \in 1..(transfers + 1) /\ d \notin ToSet(over)
                        /\ \A i \in 1..Len(q') : q'[i].id = d => pending_pi.id = d
      BY <1>10 DEF Deadlines
    <3>1. d \in 1..(transfers + 1) /\ d \notin ToSet(over) /\ d # r.id
      BY <1>1 DEF PiSound, Deadlines
    <3>2. \A i \in 1..Len(q') : q'[i].id = d => pending_pi.id = d
      BY <1>3, <3>1 DEF PiSound, Deadlines
    <3> QED
      BY <3>1, <3>2
  <2> QED
    BY <1>7, <2>2, <2>3, <1>8 DEF PiSound
<1> QED
  BY <1>9, <1>10

\* The deadline of the transfer in flight, whose bytes have moved by then.
LEMMA LandKeeps ==
  ASSUME Types, PiSound, NEW e \in events, e.device = "Pi", events' = events \ {e}, PiDue(e), Owns(e),
         UNCHANGED <<pending_pi_completions, transfers, over>>
  PROVE  /\ pending_pi_completions # <<>> /\ pending_pi.id = pending_pi_completions[1].id
         /\ 1 \in 1..Len(pending_pi_completions)
         /\ pending_pi.committed <=> pending_pi.id \in ToSet(landed)
         /\ PiSound'
<1> DEFINE q == pending_pi_completions
<1>1. e.id \in PiDeadlines /\ pending_pi.id \in 1..transfers
  BY DeadlineFacts DEF Owns, PiSound, Deadlines
<1>2. pending_pi.id # 0 /\ transfers \in Nat /\ q \in Seq(Request) /\ landed \in Seq(Nat)
  BY <1>1, PeripheralsAssumption DEF Types
<1>3. /\ q # <<>> /\ pending_pi.id = q[1].id /\ pending_pi.committed = q[1].managed
      /\ Notified("Pi") = {}
  BY <1>2 DEF PiSound, Slot
<1>4. 1 \in 1..Len(q) /\ Len(q) \in Nat
  BY <1>2, <1>3, PopFacts
<1>5. pending_pi.committed <=> pending_pi.id \in ToSet(landed)
  BY <1>3, <1>4 DEF PiSound, Landed
<1>6. Notified("Pi")' = {q[1].id} /\ pending_pi' = NoPi
  BY <1>3, NoticeFacts DEF PiDue
<1>7. ToSet(landed') = ToSet(landed) \cup {q[1].id}
  <2>1. ToSet(Append(landed, pending_pi.id)) = ToSet(landed) \cup {pending_pi.id}
    BY <1>1, <1>2, PushFacts
  <2>2. CASE pending_pi.committed
    BY <1>3, <1>5, <2>2 DEF PiDue, LandIfLeft
  <2>3. CASE ~pending_pi.committed
    BY <1>3, <2>1, <2>3 DEF PiDue, LandIfLeft
  <2> QED
    BY <2>2, <2>3
<1>8. Slot'
  BY <1>3, <1>6 DEF Slot, NoPi
<1>9. Numbered'
  BY <1>1, <1>3, <1>7 DEF PiSound, Numbered
<1>10. Deadlines'
  <2>1. PiDeadlines' = PiDeadlines \ {pending_pi.id}
    BY DueIsGone DEF Owns
  <2> SUFFICES ASSUME NEW d \in PiDeadlines'
               PROVE  /\ d \in 1..transfers /\ d \notin ToSet(over)
                      /\ \A i \in 1..Len(q) : q[i].id = d => pending_pi'.id = d
    BY DEF Deadlines
  <2> QED
    BY <2>1 DEF PiSound, Deadlines
<1>11. Landed'
  <2> SUFFICES ASSUME NEW i \in 1..Len(q)
               PROVE  q[i].managed \/ q[i].id = q[1].id <=> q[i].id \in ToSet(landed')
    BY <1>6 DEF Landed
  <2> QED
    BY <1>3, <1>7 DEF PiSound, Landed
<1> QED
  BY <1>3, <1>4, <1>5, <1>8, <1>9, <1>10, <1>11 DEF PiSound

\* A completion that the host takes, and the transfer behind it.
LEMMA FinishKeeps ==
  ASSUME Types, PiSound, Settle, Broken = "none", Notified("Pi") # {}
  PROVE  PiSound'
<1> DEFINE q == pending_pi_completions
           rest == Tail(pending_pi_completions)
<1>1. q # <<>> /\ q' = rest /\ over' = Append(over, q[1].id) /\ StartNext(rest)
  BY SettleFacts
<1>2. UNCHANGED <<landed, transfers>> /\ Notified("Pi")' = {}
  BY QuietFacts DEF Settle
<1>3. /\ q \in Seq(Request) /\ rest \in Seq(Request) /\ 1 \in 1..Len(q)
      /\ \A i \in 1..Len(rest) : rest[i] = q[i + 1] /\ i + 1 \in 1..Len(q)
  BY <1>1, PopFacts DEF Types
<1>4. pending_pi.id = 0 /\ Notified("Pi") = {q[1].id}
  BY <1>1 DEF PiSound, Slot
<1>5. q[1].id \in 1..transfers /\ transfers \in Nat
  BY <1>3, PeripheralsAssumption DEF PiSound, Numbered, Types
<1>6. ToSet(over') = ToSet(over) \cup {q[1].id}
  <2>1. over \in Seq(Nat) /\ q[1].id \in Nat
    BY <1>5 DEF Types
  <2> QED
    BY <1>1, <2>1, PushFacts
<1>7. \A i \in 1..Len(rest) : rest[i].id # q[1].id
  <2> SUFFICES ASSUME NEW i \in 1..Len(rest) PROVE rest[i].id # q[1].id
    OBVIOUS
  <2>1. rest[i] = q[i + 1] /\ i + 1 \in 1..Len(q) /\ i + 1 # 1
    BY <1>3
  <2> QED
    BY <1>3, <2>1 DEF PiSound, Numbered
<1>8. Numbered'
  <2>1. \A i \in 1..Len(rest) : rest[i].id \in 1..transfers /\ rest[i].id \notin ToSet(over')
    BY <1>3, <1>6, <1>7 DEF PiSound, Numbered
  <2>2. \A i, j \in 1..Len(rest) : rest[i].id = rest[j].id => i = j
    <3> SUFFICES ASSUME NEW i \in 1..Len(rest), NEW j \in 1..Len(rest), rest[i].id = rest[j].id
                 PROVE  i = j
      OBVIOUS
    <3>1. i + 1 = j + 1
      BY <1>3 DEF PiSound, Numbered
    <3> QED
      BY <3>1
  <2>3. ToSet(landed) \subseteq 1..transfers /\ ToSet(over') \subseteq 1..transfers
    BY <1>5, <1>6 DEF PiSound, Numbered
  <2> QED
    BY <1>1, <1>2, <2>1, <2>2, <2>3 DEF Numbered
<1>9. Landed'
  <2> SUFFICES ASSUME NEW i \in 1..Len(rest)
               PROVE  rest[i].managed <=> rest[i].id \in ToSet(landed)
    BY <1>1, <1>2 DEF Landed
  <2> QED
    BY <1>3, <1>4, <1>7 DEF PiSound, Landed
<1>10. CASE rest = <<>>
  <2>1. UNCHANGED <<pending_pi, events>> /\ Len(rest) = 0
    BY <1>1, <1>10 DEF StartNext
  <2>2. Slot'
    BY <1>1, <1>2, <1>4, <1>10, <2>1 DEF Slot
  <2>3. Deadlines'
    <3>1. PiDeadlines' = PiDeadlines
      BY <2>1 DEF PiDeadlines
    <3>2. \A d \in PiDeadlines : d \in 1..transfers /\ d \notin ToSet(over')
      BY <1>3, <1>4, <1>5, <1>6 DEF PiSound, Deadlines
    <3>3. \A i \in 1..Len(rest) : FALSE
      <4>1. 1..0 = {}
        OBVIOUS
      <4> QED
        BY <2>1, <4>1, Zenon
    <3> QED
      BY <1>1, <1>2, <3>1, <3>2, <3>3 DEF Deadlines
  <2> QED
    BY <1>8, <1>9, <2>2, <2>3 DEF PiSound
<1>11. CASE rest # <<>>
  <2>1. Head(rest) = rest[1] /\ 1 \in 1..Len(rest) /\ rest[1] \in Request
    BY <1>3, <1>11, PopFacts
  <2>2. /\ pending_pi' = [id |-> rest[1].id, committed |-> rest[1].managed]
        /\ events' = events \cup {[device |-> "Pi", id |-> rest[1].id]}
    BY <1>1, <1>11, <2>1 DEF StartNext, AdmitPi
  <2>3. PiDeadlines' = PiDeadlines \cup {rest[1].id} /\ rest[1].id # 0
    <3>1. PiDeadlines' = PiDeadlines \cup {rest[1].id}
      BY <2>2, DeadlineFacts
    <3>2. rest[1].id # 0
      BY <2>1 DEF Request
    <3> QED
      BY <3>1, <3>2
  <2>4. Slot'
    BY <1>1, <1>2, <1>11, <2>2, <2>3 DEF Slot
  <2>5. Deadlines'
    <3> SUFFICES ASSUME NEW d \in PiDeadlines \cup {rest[1].id}
                 PROVE  /\ d \in 1..transfers /\ d \notin ToSet(over')
                        /\ \A i \in 1..Len(rest) : rest[i].id = d => rest[1].id = d
      BY <1>1, <1>2, <2>2, <2>3 DEF Deadlines
    <3>1. CASE d = rest[1].id
      BY <1>1, <1>2, <1>8, <2>1, <3>1 DEF Numbered
    <3>2. CASE d \in PiDeadlines
      <4>1. d \in 1..transfers /\ d \notin ToSet(over')
        BY <1>3, <1>4, <1>5, <1>6, <3>2 DEF PiSound, Deadlines
      <4>2. \A i \in 1..Len(rest) : rest[i].id # d
        BY <1>3, <1>4, <3>2, <4>1 DEF PiSound, Deadlines
      <4> QED
        BY <4>1, <4>2
    <3> QED
      BY <3>1, <3>2
  <2> QED
    BY <1>8, <1>9, <2>4, <2>5 DEF PiSound
<1> QED
  BY <1>10, <1>11

\* At first the PI is idle.
LEMMA PiInit == Init => PiSound
<1> SUFFICES ASSUME Init PROVE PiSound
  OBVIOUS
<1>1. pending_pi_completions = <<>> /\ pending_pi.id = 0 /\ 1..Len(pending_pi_completions) = {}
  BY DEF Init, NoPi
<1>2. PiDeadlines = {} /\ Notified("Pi") = {} /\ ToSet(landed) = {} /\ ToSet(over) = {}
  BY DEF Init, PiDeadlines, Notified, ToSet
<1> QED
  BY <1>1, <1>2 DEF PiSound, Slot, Numbered, Deadlines, Landed

\* Every step keeps it, one case per action.
LEMMA PiStep == Types /\ PiSound /\ [Next]_vars => PiSound'
<1> SUFFICES ASSUME Types, PiSound, [Next]_vars PROVE PiSound'
  OBVIOUS
<1> USE DEF fabric, mi, piHost, siHost, kernel, stepper
<1>1. ASSUME NEW w \in BOOLEAN, NEW f \in BOOLEAN, StartManaged(w, f) PROVE PiSound'
  <2> DEFINE r == [id |-> transfers + 1, managed |-> TRUE, ret_queue |-> w, fits |-> f]
  <2>1. transfers + 1 \in 1..MaxTransfers
    BY <1>1, PeripheralsAssumption DEF StartManaged, MoreTransfers, Types
  <2>2. r \in Request /\ r.id = transfers + 1 /\ r.managed = TRUE
    BY <2>1, RequestFacts
  <2>3. Notified("Pi") = {} /\ Notified("Pi")' = {}
    BY <1>1, QuietFacts DEF StartManaged, Guest, Types
  <2>4. /\ transfers' = transfers + 1 /\ UNCHANGED over
        /\ landed' = IF r.managed THEN Append(landed, r.id) ELSE landed
        /\ pending_pi_completions' = Append(pending_pi_completions, r)
    BY <1>1, <2>2 DEF StartManaged
  <2>5. CASE pending_pi_completions = <<>>
    <3>1. /\ pending_pi' = [id |-> r.id, committed |-> TRUE]
          /\ events' = events \cup {[device |-> "Pi", id |-> r.id]}
      BY <1>1, <2>5 DEF StartManaged, AdmitPi
    <3>2. pending_pi'.id = r.id /\ pending_pi'.committed = r.managed
      BY <3>1
    <3>3. PiDeadlines' = PiDeadlines \cup {r.id}
      BY <3>1, DeadlineFacts
    <3> HIDE DEF r
    <3> QED
      BY <2>2, <2>3, <2>4, <2>5, <3>2, <3>3, AcceptKeeps
  <2>6. CASE pending_pi_completions # <<>>
    <3>1. UNCHANGED pending_pi /\ PiDeadlines' = PiDeadlines
      BY <1>1, <2>6 DEF StartManaged, PiDeadlines
    <3> HIDE DEF r
    <3> QED
      BY <2>2, <2>3, <2>4, <2>6, <3>1, AcceptKeeps
  <2> QED
    BY <2>5, <2>6
<1>2. CASE StartRawPi
  <2> DEFINE r == [id |-> transfers + 1, managed |-> FALSE, ret_queue |-> FALSE, fits |-> TRUE]
  <2>1. transfers + 1 \in 1..MaxTransfers
    BY <1>2, PeripheralsAssumption DEF StartRawPi, MoreTransfers, Types
  <2>2. r \in Request /\ r.id = transfers + 1 /\ r.managed = FALSE
    BY <2>1, RequestFacts
  <2>3. Notified("Pi") = {} /\ Notified("Pi")' = {}
    BY <1>2, QuietFacts DEF StartRawPi, Guest, Types
  <2>4. /\ transfers' = transfers + 1 /\ UNCHANGED over
        /\ landed' = IF r.managed THEN Append(landed, r.id) ELSE landed
        /\ pending_pi_completions = <<>>
    BY <1>2, <2>2 DEF StartRawPi
  <2>5. pending_pi_completions' = Append(pending_pi_completions, r)
    BY <1>2, <2>4 DEF StartRawPi
  <2>6. /\ pending_pi' = [id |-> r.id, committed |-> FALSE]
        /\ events' = events \cup {[device |-> "Pi", id |-> r.id]}
    BY <1>2 DEF StartRawPi, AdmitPi
  <2>7. pending_pi'.id = r.id /\ pending_pi'.committed = r.managed
    BY <2>6
  <2>8. PiDeadlines' = PiDeadlines \cup {r.id}
    BY <2>6, DeadlineFacts
  <2> HIDE DEF r
  <2> QED
    BY <2>2, <2>3, <2>4, <2>5, <2>7, <2>8, AcceptKeeps
<1>3. CASE ResetPi \/ Reload
  <2>1. /\ pending_pi_completions' = <<>> /\ pending_pi' = NoPi
        /\ UNCHANGED <<transfers, landed, over>> /\ events' \subseteq events
    BY <1>3 DEF ResetPi, Reload
  <2>2. Notified("Pi")' = {}
    BY <1>3, QuietFacts DEF ResetPi, Reload, Guest, Types
  <2>3. PiDeadlines' \subseteq PiDeadlines
    BY <2>1, DeadlineFacts
  <2>4. 1..Len(pending_pi_completions') = {} /\ pending_pi'.id = 0
    BY <2>1 DEF NoPi
  <2>5. Slot' /\ Landed'
    BY <2>1, <2>2, <2>4 DEF Slot, Landed
  <2>6. Numbered'
    BY <2>1, <2>4 DEF PiSound, Numbered
  <2>7. Deadlines'
    BY <2>1, <2>3, <2>4 DEF PiSound, Deadlines
  <2> QED
    BY <2>5, <2>6, <2>7 DEF PiSound
<1>4. ASSUME NEW d \in {"Si", "PifControl"}, NEW k, AdmitSi(k, d),
             UNCHANGED <<pending_pi, piHost, stepper>>
      PROVE  PiSound'
  <2>1. PiDeadlines' = PiDeadlines
    BY <1>4, DeadlineFacts DEF AdmitSi
  <2> QED
    BY <1>4, <2>1, QuietFacts, PiUntouched
<1>5. CASE \E o \in Owner : StartSi(o)
  BY <1>4, <1>5 DEF StartSi
<1>6. CASE StartRawSi
  BY <1>4, <1>6 DEF StartRawSi
<1>7. CASE WriteControl
  BY <1>4, <1>7 DEF WriteControl
<1>8. ASSUME UNCHANGED <<fabric, piHost, stepper>> PROVE PiSound'
  <2>1. PiDeadlines' = PiDeadlines
    BY <1>8 DEF PiDeadlines
  <2> QED
    BY <1>8, <2>1, QuietFacts, PiUntouched
<1>9. CASE AckSi \/ SetMask \/ AcceptInterrupt \/ CommitWork \/ \E t \in Thread : PlugReturns(t)
  BY <1>8, <1>9 DEF AckSi, SetMask, AcceptInterrupt, CommitWork, PlugReturns
<1>10. ASSUME NEW d \in Device, Due(d) PROVE PiSound'
  <2>1. PICK e \in events : e.device = d /\ events' = events \ {e} /\ Occurs(e)
    BY <1>10, DueFacts
  <2>2. UNCHANGED <<pending_pi_completions, transfers, over>>
    BY <1>10 DEF Due
  <2>3. CASE e.device = "Pi" /\ PiDue(e) /\ Owns(e)
    BY <2>1, <2>2, <2>3, LandKeeps
  <2>4. CASE ~(e.device = "Pi" /\ Owns(e))
    <3>1. UNCHANGED <<pending_pi, landed>>
      BY <2>1, <2>4 DEF Occurs, PiDue, SiDue, PifControlDue
    <3>2. Notified("Pi")' = Notified("Pi")
      BY <2>1, <2>4, NoticeFacts, QuietFacts DEF Occurs, PiDue, SiDue, PifControlDue
    <3>3. PiDeadlines' \subseteq PiDeadlines
      BY <2>1, DeadlineFacts
    <3> QED
      BY <2>2, <3>1, <3>2, <3>3, PiUntouched
  <2> QED
    BY <2>1, <2>3, <2>4 DEF Occurs
<1>11. CASE Settle
  <2>1. UNCHANGED <<transfers, landed>>
    BY <1>11 DEF Settle
  <2>4. CASE Broken # "none"
    <3>1. UNCHANGED <<pending_pi, events, pending_pi_completions, over, notified>>
      BY <1>11, <2>4 DEF Settle
    <3>2. PiDeadlines' \subseteq PiDeadlines
      BY <3>1, DeadlineFacts
    <3> QED
      BY <2>1, <3>1, <3>2, QuietFacts, PiUntouched
  <2>5. ASSUME Broken = "none" PROVE Notified("Pi")' = {}
    BY <1>11, <2>5, QuietFacts DEF Settle
  <2>2. CASE Broken = "none" /\ Notified("Pi") = {}
    <3>1. UNCHANGED <<pending_pi, events, pending_pi_completions, over>>
      BY <1>11, <2>1, <2>2 DEF Settle, PiDmaComplete
    <3>2. PiDeadlines' \subseteq PiDeadlines
      BY <3>1, DeadlineFacts
    <3> QED
      BY <2>1, <2>2, <2>5, <3>1, <3>2, PiUntouched
  <2>3. CASE Broken = "none" /\ Notified("Pi") # {}
    BY <1>11, <2>3, FinishKeeps
  <2> QED
    BY <2>2, <2>3, <2>4
<1>12. CASE UNCHANGED vars
  BY <1>8, <1>12 DEF vars
<1> QED
  BY <1>1, <1>2, <1>3, <1>5, <1>6, <1>7, <1>9, <1>10, <1>11, <1>12 DEF Next

\* Types and the PI half hold throughout, whatever the guest does.
LEMMA PiInvariant == Spec => [](Types /\ PiSound)
<1>1. Init => Types /\ PiSound
  BY TypesInit, PiInit
<1>2. (Types /\ PiSound) /\ [Next]_vars => (Types /\ PiSound)'
  BY TypesStep, PiStep
<1> QED
  BY <1>1, <1>2, PTL DEF Spec

-----------------------------------------------------------------------------
(***************************************************************************)
(* The PI is a queue.                                                      *)
(***************************************************************************)
\* At first the abstract PI is idle.
LEMMA QueueInit == Init => D!Init
  BY DEF Init, D!Init

\* Whatever leaves the PI's tables alone is a stutter.
LEMMA QueueUntouched ==
  ASSUME UNCHANGED <<pending_pi_completions, landed, over>>
  PROVE  UNCHANGED D!vars
  BY DEF D!vars

\* A number not given out yet is unknown to the abstract PI.
LEMMA FreshTransfer ==
  ASSUME Types, PiSound, transfers < MaxTransfers
  PROVE  transfers + 1 \in 1..MaxTransfers /\ transfers + 1 \notin D!Known
<1>1. transfers \in Nat /\ MaxTransfers \in Nat /\ transfers + 1 \in 1..MaxTransfers
  BY PeripheralsAssumption DEF Types
<1>2. transfers + 1 \notin ToSet(landed) /\ transfers + 1 \notin ToSet(over)
  BY <1>1 DEF PiSound, Numbered
<1>3. ToSet(Ids(pending_pi_completions)) = {pending_pi_completions[i].id : i \in 1..Len(pending_pi_completions)}
  BY DEF Ids, ToSet
<1>4. transfers + 1 \notin ToSet(Ids(pending_pi_completions))
  BY <1>1, <1>3 DEF PiSound, Numbered
<1> QED
  BY <1>1, <1>2, <1>4 DEF D!Known, Ids, D!ToSet, ToSet

\* Every step of the interfaces is a step of the abstract PI or none.
LEMMA QueueStep == Types /\ PiSound /\ [Next]_vars => [D!Next]_(D!vars)
<1> SUFFICES ASSUME Types, PiSound, [Next]_vars PROVE [D!Next]_(D!vars)
  OBVIOUS
<1> USE DEF piHost
<1>0. pending_pi_completions \in Seq(Request)
  BY DEF Types
<1>1. ASSUME NEW w \in BOOLEAN, NEW f \in BOOLEAN, StartManaged(w, f) PROVE D!Next
  <2> DEFINE r == [id |-> transfers + 1, managed |-> TRUE, ret_queue |-> w, fits |-> f]
  <2>1. PiSound /\ transfers < MaxTransfers
    BY <1>1 DEF StartManaged, MoreTransfers
  <2>2. transfers + 1 \in 1..MaxTransfers /\ transfers + 1 \notin D!Known
    BY <2>1, FreshTransfer
  <2>3. r \in Request /\ r.id = transfers + 1
    BY <2>2, RequestFacts
  <2>4. pending_pi_completions' = Append(pending_pi_completions, r)
    BY <1>1 DEF StartManaged
  <2>5. Ids(pending_pi_completions') = Append(Ids(pending_pi_completions), transfers + 1)
    <3> HIDE DEF r
    <3> QED
      BY <1>0, <2>3, <2>4, IdsPush
  <2>6. landed' = Append(landed, transfers + 1) /\ UNCHANGED over
    BY <1>1 DEF StartManaged
  <2>7. \E t \in 1..MaxTransfers : D!Accept(t)
    BY <2>2, <2>5, <2>6 DEF D!Accept, Ids
  <2> QED
    BY <2>7, Zenon DEF D!Next
<1>2. CASE StartRawPi
  <2> DEFINE r == [id |-> transfers + 1, managed |-> FALSE, ret_queue |-> FALSE, fits |-> TRUE]
  <2>1. PiSound /\ transfers < MaxTransfers
    BY <1>2 DEF StartRawPi, MoreTransfers
  <2>2. transfers + 1 \in 1..MaxTransfers /\ transfers + 1 \notin D!Known
    BY <2>1, FreshTransfer
  <2>3. r \in Request /\ r.id = transfers + 1
    BY <2>2, RequestFacts
  <2>4. pending_pi_completions' = Append(pending_pi_completions, r)
    BY <1>2 DEF StartRawPi
  <2>5. Ids(pending_pi_completions') = Append(Ids(pending_pi_completions), transfers + 1)
    <3> HIDE DEF r
    <3> QED
      BY <1>0, <2>3, <2>4, IdsPush
  <2>6. UNCHANGED <<landed, over>>
    BY <1>2 DEF StartRawPi
  <2>7. \E t \in 1..MaxTransfers : D!Accept(t)
    BY <2>2, <2>5, <2>6 DEF D!Accept, Ids
  <2> QED
    BY <2>7, Zenon DEF D!Next
<1>3. CASE ResetPi \/ Reload
  <2>1. pending_pi_completions' = <<>> /\ UNCHANGED <<landed, over>>
    BY <1>3 DEF ResetPi, Reload
  <2>2. Ids(pending_pi_completions') = <<>>
    BY <2>1 DEF Ids
  <2> QED
    BY <2>1, <2>2 DEF D!Next, D!Reset, Ids
<1>4. CASE UNCHANGED piHost
  BY <1>4, QueueUntouched
<1>5. CASE \/ StartRawSi \/ WriteControl \/ AckSi \/ SetMask \/ AcceptInterrupt \/ CommitWork
           \/ \E o \in Owner : StartSi(o)
           \/ \E t \in Thread : PlugReturns(t)
  BY <1>4, <1>5 DEF StartRawSi, WriteControl, AckSi, SetMask, AcceptInterrupt, CommitWork, StartSi, PlugReturns
<1>6. ASSUME NEW d \in Device, Due(d) PROVE [D!Next]_(D!vars)
  <2>1. PICK e \in events : e.device = d /\ events' = events \ {e} /\ Occurs(e)
    BY <1>6, DueFacts
  <2>2. UNCHANGED <<pending_pi_completions, transfers, over>> /\ PiSound
    BY <1>6 DEF Due
  <2>3. CASE e.device = "Pi" /\ PiDue(e) /\ Owns(e) /\ ~pending_pi.committed
    <3>1. /\ pending_pi_completions # <<>> /\ pending_pi.id = pending_pi_completions[1].id
          /\ pending_pi.id \notin ToSet(landed)
      BY <2>1, <2>2, <2>3, LandKeeps
    <3>2. Ids(pending_pi_completions) # <<>> /\ Head(Ids(pending_pi_completions)) = pending_pi.id
      BY <1>0, <3>1, IdsFacts, IdsPop
    <3>3. landed' = Append(landed, pending_pi.id) /\ Ids(pending_pi_completions') = Ids(pending_pi_completions)
      BY <2>2, <2>3 DEF PiDue, LandIfLeft
    <3>4. D!Land
      BY <2>2, <3>1, <3>2, <3>3 DEF D!Land, Ids, D!ToSet, ToSet
    <3> QED
      BY <3>4 DEF D!Next
  <2>4. CASE ~(e.device = "Pi" /\ Owns(e) /\ ~pending_pi.committed)
    <3>1. UNCHANGED landed
      BY <2>1, <2>4 DEF Occurs, PiDue, SiDue, PifControlDue, LandIfLeft
    <3> QED
      BY <2>2, <3>1, QueueUntouched
  <2> QED
    BY <2>1, <2>3, <2>4 DEF Occurs
<1>7. CASE Settle
  <2>1. UNCHANGED landed /\ PiSound
    BY <1>7 DEF Settle
  <2>2. CASE Broken # "none" \/ Notified("Pi") = {}
    <3>1. UNCHANGED <<pending_pi_completions, over>>
      BY <1>7, <2>2 DEF Settle, PiDmaComplete
    <3> QED
      BY <2>1, <3>1, QueueUntouched
  <2>3. CASE Broken = "none" /\ Notified("Pi") # {}
    <3>1. /\ pending_pi_completions # <<>> /\ pending_pi_completions' = Tail(pending_pi_completions)
          /\ over' = Append(over, pending_pi_completions[1].id)
      BY <1>7, <2>3, SettleFacts
    <3>2. Notified("Pi") = {pending_pi_completions[1].id} /\ 1 \in 1..Len(pending_pi_completions)
      BY <1>0, <2>1, <2>3, <3>1, PopFacts DEF PiSound, Slot
    <3>3. pending_pi_completions[1].id \in ToSet(landed)
      BY <2>1, <3>2 DEF PiSound, Landed
    <3>4. /\ Ids(pending_pi_completions) # <<>>
          /\ Head(Ids(pending_pi_completions)) = pending_pi_completions[1].id
          /\ Ids(pending_pi_completions') = Tail(Ids(pending_pi_completions))
      BY <1>0, <3>1, IdsFacts, IdsPop
    <3>5. D!Finish
      BY <2>1, <3>1, <3>3, <3>4 DEF D!Finish, Ids, D!ToSet, ToSet
    <3> QED
      BY <3>5 DEF D!Next
  <2> QED
    BY <2>2, <2>3
<1>8. CASE UNCHANGED vars
  BY <1>4, <1>8 DEF vars
<1> QED
  BY <1>1, <1>2, <1>3, <1>5, <1>6, <1>7, <1>8 DEF Next

\* Whatever the guest does, the PI moves each transfer's bytes once, and its
\* transfers are over in order: managed, queued and raw ones, and the deadlines
\* a reset or a ROM load leaves behind.
THEOREM PiImplementsQueue == Spec => ImplementsDmaQueue
<1>1. Spec => D!Spec
  BY QueueInit, QueueStep, PiInvariant, PTL DEF Spec, D!Spec
<1> QED
  BY <1>1 DEF ImplementsDmaQueue

-----------------------------------------------------------------------------
(***************************************************************************)
(* The SI half, MI and the assertions.                                     *)
(***************************************************************************)
\* The one operation under way and its deadline.
Serial ==
  /\ pending_si.id = 0 <=> pending_si.kind = "none"
  /\ \A e \in events :
       /\ e.device = "Si" => pending_si.kind = "Dma" /\ pending_si.id = e.id
       /\ e.device = "PifControl" => pending_si.kind = "PifControl" /\ pending_si.id = e.id
  /\ Notified("Si") # {} \/ Notified("PifControl") # {} => pending_si.kind = "none"

\* The host knows of the transfer whose deadline is to come or was notified.
Claimed ==
  abort = "none" =>
    /\ pending_si.kind = "Dma" => pending_si_completion.id = pending_si.id
    /\ Notified("Si") # {} => Notified("Si") = {pending_si_completion.id}

\* Whose transfer it is, until its completion is taken, and of no other; a
\* thread inside osPfsIsPlug was answered, or its transfer is under way.
Owned ==
  "ReloadInFlight" \notin conducts =>
    /\ {pending_si_completion.id} =
         IF pending_si.kind = "Dma" THEN {pending_si.id}
         ELSE IF Notified("Si") # {} THEN Notified("Si") ELSE {0}
    /\ pending_si_completion.id = 0 => pending_si_completion = NoOwner
    /\ completed_pfs_is_plug \subseteq asking /\ asking \subseteq Thread
    /\ pending_si_completion.owner \in Thread =>
         pending_si_completion.owner \in asking \ completed_pfs_is_plug

\* An exact occurrence is the SI level's, and a control finds the level low.
Level ==
  /\ mi_occurrence # 0 => mi_pending = TRUE
  /\ "ControlWhilePending" \notin conducts =>
       (pending_si.kind = "PifControl" => mi_pending = FALSE)

\* The occurrence is on its way to the host or routed once.
Routed ==
  "AckOccurrence" \notin conducts =>
    /\ Notified("PifControl") \subseteq {mi_occurrence} \ {0}
    /\ \/ routes = <<>>
       \/ routes = <<mi_occurrence>> /\ mi_occurrence # 0 /\ Notified("PifControl") = {}

\* The host services the live occurrence, which the guest lets through.
Working ==
  /\ routes \in Seq(Nat)
  /\ host_kernel_work # 0 =>
       /\ routes # <<>> /\ routes[1] = host_kernel_work
       /\ mi_occurrence = host_kernel_work /\ mi_mask = TRUE

\* One control completes at a time.
Single == \E n \in Nat : Notified("PifControl") \subseteq {n}

\* A transfer waits that the fabric will refuse only if the guest queued it.
Fitting ==
  "QueuedOutsideWindow" \notin conducts =>
    \A i \in 1..Len(pending_pi_completions) : pending_pi_completions[i].fits = TRUE

Tables == Serial /\ Claimed /\ Owned /\ Level /\ Routed /\ Working /\ Single
Sound == Types /\ PiSound /\ Fitting /\ Tables /\ AbortsForCause

\* At first nothing is under way.
LEMMA TablesInit == Init => Fitting /\ Tables /\ AbortsForCause
<1> SUFFICES ASSUME Init PROVE Fitting /\ Tables /\ AbortsForCause
  OBVIOUS
<1>1. Notified("Si") = {} /\ Notified("PifControl") = {}
  BY QuietFacts DEF Init
<1>2. Serial /\ Claimed /\ Level /\ Routed /\ Single
  BY <1>1 DEF Init, Serial, Claimed, Level, Routed, Single, NoSi, NoOwner
<1>3. Owned
  BY <1>1, PeripheralsAssumption DEF Init, Owned, NoSi, NoOwner
<1>4. Working
  BY EmptySeq DEF Init, Working
<1>5. 1..Len(pending_pi_completions) = {}
  BY DEF Init
<1> QED
  BY <1>2, <1>3, <1>4, <1>5 DEF Init, Fitting, Tables, AbortsForCause

\* What a conduct adds to those shown.
LEMMA ShowsFacts ==
  ASSUME NEW c, NEW done, Shows(c, done)
  PROVE  conducts \subseteq conducts' /\ (done => c \in conducts')
  BY DEF Shows

\* The assertions and the conducts that lead to them.
LEMMA CauseFacts ==
  /\ abort' = "none" => AbortsForCause'
  /\ abort' = "queued request refused" /\ "QueuedOutsideWindow" \in conducts' => AbortsForCause'
  /\ abort' = "second SI occurrence" /\ "ControlWhilePending" \in conducts' => AbortsForCause'
  /\ abort' \in {"prior SI ownership", "plug collision"} /\ "ReloadInFlight" \in conducts'
       => AbortsForCause'
<1>1. abort' = "none" => AbortsForCause'
  BY DEF AbortsForCause
<1>2. abort' = "queued request refused" => Culprit' = {"QueuedOutsideWindow"}
  BY DEF Culprit
<1>3. abort' = "second SI occurrence" => Culprit' = {"ControlWhilePending"}
  BY DEF Culprit
<1>4. abort' \in {"prior SI ownership", "plug collision"} => Culprit' = {"ReloadInFlight"}
  BY DEF Culprit
<1> QED
  BY <1>1, <1>2, <1>3, <1>4 DEF AbortsForCause

\* An assertion that has failed keeps its cause.
LEMMA CauseKept ==
  ASSUME AbortsForCause, UNCHANGED abort, conducts \subseteq conducts'
  PROVE  AbortsForCause'
<1>1. Culprit' = Culprit
  BY DEF Culprit
<1> QED
  BY <1>1 DEF AbortsForCause

\* What the guest has done stays done.
LEMMA ConductsStay == [Next]_vars => conducts \subseteq conducts'
<1> SUFFICES ASSUME [Next]_vars PROVE conducts \subseteq conducts'
  OBVIOUS
<1>1. CASE \E w, f \in BOOLEAN : StartManaged(w, f)
  BY <1>1 DEF StartManaged, Shows
<1>2. CASE WriteControl \/ AckSi \/ Reload
  BY <1>2 DEF WriteControl, AckSi, Reload, Shows
<1>3. CASE \/ StartRawPi \/ ResetPi \/ StartRawSi \/ SetMask \/ Settle \/ AcceptInterrupt \/ CommitWork
           \/ \E o \in Owner : StartSi(o)
           \/ \E t \in Thread : PlugReturns(t)
           \/ \E d \in Device : Due(d)
  BY <1>3 DEF StartRawPi, ResetPi, StartRawSi, SetMask, Settle, AcceptInterrupt, CommitWork, StartSi,
              PlugReturns, Due
<1>4. CASE UNCHANGED vars
  BY <1>4 DEF vars
<1> QED
  BY <1>1, <1>2, <1>3, <1>4 DEF Next

\* What leaves the SI's tables, MI and the routes alone keeps them.
LEMMA TablesUntouched ==
  ASSUME Tables, UNCHANGED <<pending_si, mi, siHost, kernel>>, conducts \subseteq conducts',
         abort' = "none" => abort = "none",
         \A e \in events' : e.device # "Pi" => e \in events,
         Notified("Si")' = Notified("Si"), Notified("PifControl")' = Notified("PifControl")
  PROVE  Tables'
<1> USE DEF Tables, mi, siHost, kernel
<1>1. Serial'
  BY DEF Serial
<1>2. Claimed' /\ Level'
  BY DEF Claimed, Level
<1>3. Owned'
  BY DEF Owned
<1>4. Routed' /\ Working' /\ Single'
  BY DEF Routed, Working, Single
<1> QED
  BY <1>1, <1>2, <1>3, <1>4

\* The routes of one device step: at most one occurrence.
LEMMA RouteFacts ==
  /\ SetToSeq({}) = <<>>
  /\ \A n \in Nat : SetToSeq({n}) = <<n>>
<1>1. SetToSeq({}) = <<>>
  <2>1. Cardinality({}) = 0
    BY FS_EmptySet
  <2>2. \E f \in [1..0 -> {}] : IsInjective(f)
    <3>1. <<>> \in [1..0 -> {}] /\ IsInjective(<<>>)
      BY DEF IsInjective
    <3> QED
      BY <3>1
  <2>3. SetToSeq({}) \in [1..0 -> {}]
    BY <2>1, <2>2 DEF SetToSeq
  <2> QED
    BY <2>3
<1>2. ASSUME NEW n \in Nat PROVE SetToSeq({n}) = <<n>>
  <2>1. Cardinality({n}) = 1
    BY FS_Singleton
  <2>2. \E f \in [1..1 -> {n}] : IsInjective(f)
    <3>1. [i \in 1..1 |-> n] \in [1..1 -> {n}] /\ IsInjective([i \in 1..1 |-> n])
      BY DEF IsInjective
    <3> QED
      BY <3>1
  <2>3. SetToSeq({n}) \in [1..1 -> {n}]
    BY <2>1, <2>2 DEF SetToSeq
  <2> QED
    BY <2>3
<1> QED
  BY <1>1, <1>2

\* Between device steps the owner is that of the transfer under way.
LEMMA QuietOwner ==
  ASSUME Types, Tables, ~stepping
  PROVE  /\ Notified("Si") = {} /\ Notified("PifControl") = {}
         /\ pending_si = NoSi /\ "ReloadInFlight" \notin conducts => pending_si_completion = NoOwner
<1>1. Notified("Si") = {} /\ Notified("PifControl") = {}
  BY QuietFacts DEF Types
<1>2. pending_si = NoSi /\ "ReloadInFlight" \notin conducts => pending_si_completion = NoOwner
  BY <1>1 DEF Tables, Owned, NoSi
<1> QED
  BY <1>1, <1>2

\* An operation admitted to the hardware.
LEMMA AdmitKeeps ==
  ASSUME Types, Tables, NEW k \in {"Dma", "PifControl"},
         NEW d, d = IF k = "Dma" THEN "Si" ELSE "PifControl",
         AdmitSi(k, d), ~stepping, notified' = notified
  PROVE  /\ Serial'
         /\ pending_si' = [kind |-> k, id |-> serials + 1] /\ serials + 1 \in Nat \ {0}
         /\ Notified("Si")' = {} /\ Notified("PifControl")' = {}
<1>1. serials + 1 \in Nat \ {0} /\ pending_si' = [kind |-> k, id |-> serials + 1]
  BY PeripheralsAssumption DEF Types, AdmitSi
<1>2. Notified("Si")' = {} /\ Notified("PifControl")' = {}
  BY QuietOwner, QuietFacts
<1>3. \A e \in events : e.device = "Pi"
  <2>1. pending_si.kind = "none"
    BY DEF AdmitSi, NoSi
  <2>2. \A e \in events : e.device \in Device
    BY DEF Types
  <2> QED
    BY <2>1, <2>2 DEF Tables, Serial, Device
<1>4. ASSUME NEW e \in events'
      PROVE  /\ e.device = "Si" => k = "Dma" /\ serials + 1 = e.id
             /\ e.device = "PifControl" => k = "PifControl" /\ serials + 1 = e.id
  <2>1. e \in events \/ e = [device |-> d, id |-> serials + 1]
    BY <1>4 DEF AdmitSi
  <2>2. CASE e \in events
    BY <1>3, <2>2
  <2>3. CASE e = [device |-> d, id |-> serials + 1]
    <3>1. e.device = d /\ e.id = serials + 1
      BY <2>3
    <3> QED
      BY <3>1
  <2> QED
    BY <2>1, <2>2, <2>3
<1>5. Serial'
  BY <1>1, <1>2, <1>4 DEF Serial
<1> QED
  BY <1>1, <1>2, <1>5

\* The deadline of a transfer, which may find the SI level already raised.
LEMMA SiDueKeeps ==
  ASSUME Types, Tables, abort = "none",
         NEW e \in events, e.device = "Si", events' = events \ {e}, SiDue,
         UNCHANGED <<siHost, kernel, mi_mask, conducts>>
  PROVE  Tables'
<1> USE DEF siHost, kernel
<1>1. pending_si.kind = "Dma" /\ pending_si.id = e.id /\ pending_si.id # 0
  BY DEF Tables, Serial
<1>2. Notified("Si") = {} /\ Notified("PifControl") = {}
  BY <1>1 DEF Tables, Serial
<1>3. Notified("Si")' = {pending_si.id} /\ Notified("PifControl")' = {}
  BY <1>2, NoticeFacts DEF SiDue
<1>4. pending_si' = NoSi /\ mi_pending' = TRUE /\ UNCHANGED abort
  BY DEF SiDue
<1>5. mi_occurrence' = mi_occurrence
  BY DEF SiDue, Tables, Level
<1>6. \A f \in events' : f.device = "Pi"
  <2> SUFFICES ASSUME NEW f \in events, f # e, f.device # "Pi" PROVE FALSE
    OBVIOUS
  <2>1. /\ f \in [device : Device, id : Nat] /\ e \in [device : Device, id : Nat]
        /\ f.device = "Si" /\ f.id = e.id
    BY <1>1 DEF Types, Device, Tables, Serial
  <2>2. f = [device |-> f.device, id |-> f.id] /\ e = [device |-> e.device, id |-> e.id]
    BY <2>1
  <2> QED
    BY <2>1, <2>2
<1>7. Serial'
  BY <1>3, <1>4, <1>6 DEF Serial, NoSi
<1>8. Claimed'
  BY <1>1, <1>3, <1>4 DEF Tables, Claimed, NoSi
<1>9. Owned'
  BY <1>1, <1>3, <1>4 DEF Tables, Owned, NoSi
<1>10. Level'
  BY <1>4 DEF Level, NoSi
<1>11. Routed' /\ Working' /\ Single'
  BY <1>2, <1>3, <1>5 DEF Tables, Routed, Working, Single
<1> QED
  BY <1>7, <1>8, <1>9, <1>10, <1>11 DEF Tables

\* The deadline of a PIF control, which finds the level low or fails.
LEMMA ControlDueKeeps ==
  ASSUME Types, Tables, AbortsForCause, abort = "none",
         NEW e \in events, e.device = "PifControl", events' = events \ {e}, PifControlDue(e),
         UNCHANGED <<siHost, kernel, mi_mask, conducts>>
  PROVE  Tables' /\ AbortsForCause'
<1> USE DEF siHost, kernel
<1>1. pending_si.kind = "PifControl" /\ pending_si.id = e.id /\ e.id # 0 /\ e.id \in Nat
  BY DEF Types, Tables, Serial
<1>2. Notified("Si") = {} /\ Notified("PifControl") = {}
  BY <1>1 DEF Tables, Serial
<1>3. pending_si' = NoSi
  BY DEF PifControlDue
<1>4. \A f \in events' : f.device = "Pi"
  <2> SUFFICES ASSUME NEW f \in events, f # e, f.device # "Pi" PROVE FALSE
    OBVIOUS
  <2>1. /\ f \in [device : Device, id : Nat] /\ e \in [device : Device, id : Nat]
        /\ f.device = "PifControl" /\ f.id = e.id
    BY <1>1 DEF Types, Device, Tables, Serial
  <2>2. f = [device |-> f.device, id |-> f.id] /\ e = [device |-> e.device, id |-> e.id]
    BY <2>1
  <2> QED
    BY <2>1, <2>2
<1>5. Serial'
  BY <1>3, <1>4 DEF Serial, NoSi
<1>6. CASE mi_pending = TRUE
  <2>1. abort' = "second SI occurrence" /\ UNCHANGED <<mi_pending, mi_occurrence, notified>>
    BY <1>6 DEF PifControlDue
  <2>2. Notified("Si")' = {} /\ Notified("PifControl")' = {}
    BY <1>2, <2>1, QuietFacts
  <2>3. "ControlWhilePending" \in conducts
    BY <1>1, <1>6 DEF Tables, Level
  <2>4. Claimed' /\ Level'
    BY <1>3, <2>1 DEF Tables, Claimed, Level, NoSi
  <2>5. Owned'
    BY <1>1, <1>2, <1>3, <2>2 DEF Tables, Owned, NoSi
  <2>6. Routed' /\ Working' /\ Single'
    BY <1>2, <2>1, <2>2 DEF Tables, Routed, Working, Single
  <2>7. AbortsForCause'
    BY <2>1, <2>3, CauseFacts
  <2> QED
    BY <1>5, <2>4, <2>5, <2>6, <2>7 DEF Tables
<1>7. CASE mi_pending # TRUE
  <2>1. /\ mi_pending' = TRUE /\ mi_occurrence' = e.id /\ UNCHANGED abort
        /\ notified' = notified \cup {[what |-> "PifControl", id |-> e.id]}
    BY <1>7 DEF PifControlDue
  <2>2. Notified("Si")' = {} /\ Notified("PifControl")' = {e.id}
    BY <1>2, <2>1, NoticeFacts
  <2>3. mi_occurrence = 0
    BY <1>7 DEF Tables, Level
  <2>4. Claimed' /\ Level'
    BY <1>3, <2>1, <2>2 DEF Claimed, Level, NoSi
  <2>5. Owned'
    BY <1>1, <1>2, <1>3, <2>2 DEF Tables, Owned, NoSi
  <2>6. Routed' /\ Working' /\ Single'
    BY <1>1, <2>1, <2>2, <2>3 DEF Tables, Routed, Working, Single
  <2>7. AbortsForCause'
    BY <2>1, CauseKept
  <2> QED
    BY <1>5, <2>4, <2>5, <2>6, <2>7 DEF Tables
<1> QED
  BY <1>6, <1>7

\* What can be amiss in the host's half of a device step: a queued transfer the
\* fabric refuses, or a thread that was not there to take its answer.
LEMMA WhatBreaks ==
  ASSUME Sound, abort = "none"
  PROVE  \/ Broken = "none"
         \/ Broken = "queued request refused" /\ "QueuedOutsideWindow" \in conducts
         \/ Broken = "plug collision" /\ "ReloadInFlight" \in conducts
<1> USE DEF Sound
<1>1. \A n \in Notified("Pi") :
        pending_pi_completions # <<>> /\ Head(pending_pi_completions).id = n
  <2>1. pending_pi_completions # <<>> => Head(pending_pi_completions) = pending_pi_completions[1]
    BY PopFacts DEF Types
  <2> QED
    BY <2>1 DEF PiSound, Slot
<1>2. \A n \in Notified("Si") : pending_si_completion.id = n
  BY DEF Tables, Claimed
<1>3. ASSUME Notified("Pi") # {}, NEW p \in ToSet(Tail(pending_pi_completions)), ~p.fits
      PROVE  "QueuedOutsideWindow" \in conducts
  <2>1. pending_pi_completions # <<>>
    BY <1>1, <1>3
  <2>2. PICK i \in 1..Len(Tail(pending_pi_completions)) : p = Tail(pending_pi_completions)[i]
    BY <1>3, <2>1, PopFacts DEF ToSet, Types
  <2>3. p = pending_pi_completions[i + 1] /\ i + 1 \in 1..Len(pending_pi_completions)
    BY <2>1, <2>2, PopFacts DEF Types
  <2> QED
    BY <1>3, <2>3 DEF Fitting
<1>4. Notified("Si") # {} /\ pending_si_completion.owner \in completed_pfs_is_plug
        => "ReloadInFlight" \in conducts
  BY DEF Tables, Owned
<1> QED
  BY <1>1, <1>2, <1>3, <1>4 DEF Broken

\* The whole of the host's half: the owner is answered and the occurrence routed.
LEMMA SettleKeeps ==
  ASSUME Types, Tables, Settle, Broken = "none"
  PROVE  Tables'
<1> USE DEF mi
<1>1. /\ PiDmaComplete /\ SiDmaComplete
      /\ routes' = routes \o SetToSeq(Notified("PifControl"))
      /\ notified' = {} /\ UNCHANGED <<pending_si, mi, asking, host_kernel_work, conducts>>
  BY DEF Settle
<1>2. Notified("Si")' = {} /\ Notified("PifControl")' = {}
  BY <1>1, QuietFacts
<1>3. \A e \in events' : e.device # "Pi" => e \in events
  BY <1>1 DEF PiDmaComplete, StartNext, AdmitPi
<1>4. Serial'
  BY <1>1, <1>2, <1>3 DEF Tables, Serial
<1>5. Level'
  BY <1>1 DEF Tables, Level
<1>9. Single'
  BY <1>2 DEF Single
<1>6. Routed' /\ Working'
  <2>1. CASE Notified("PifControl") = {}
    <3>1. routes' = routes
      BY <1>1, <2>1, RouteFacts, ConcatEmptySeq DEF Tables, Working
    <3> QED
      BY <1>1, <1>2, <2>1, <3>1 DEF Tables, Routed, Working
  <2>2. CASE Notified("PifControl") # {}
    <3>1. PICK n \in Nat : Notified("PifControl") = {n}
      BY <2>2 DEF Tables, Single
    <3>2. routes' = routes \o <<n>>
      BY <1>1, <3>1, RouteFacts
    <3>3. routes' \in Seq(Nat) /\ (routes # <<>> => routes' # <<>> /\ routes'[1] = routes[1])
      BY <3>1, <3>2 DEF Tables, Working
    <3>4. Working'
      BY <1>1, <3>3 DEF Tables, Working
    <3>5. Routed'
      <4>1. routes = <<>> => routes' = <<n>>
        BY <3>2
      <4> QED
        BY <1>1, <1>2, <2>2, <3>1, <4>1 DEF Tables, Routed
    <3> QED
      BY <3>4, <3>5
  <2> QED
    BY <2>1, <2>2
<1>7. CASE Notified("Si") = {}
  <2>1. UNCHANGED <<pending_si_completion, completed_pfs_is_plug>>
    BY <1>1, <1>7 DEF SiDmaComplete
  <2>2. Claimed' /\ Owned'
    BY <1>1, <1>2, <1>7, <2>1 DEF Tables, Claimed, Owned, Settle
  <2> QED
    BY <1>4, <1>5, <1>6, <1>9, <2>2 DEF Tables
<1>8. CASE Notified("Si") # {}
  <2>1. /\ pending_si_completion' = NoOwner
        /\ completed_pfs_is_plug' = completed_pfs_is_plug \cup (Thread \cap {pending_si_completion.owner})
    BY <1>1, <1>8 DEF SiDmaComplete, TakeOwner
  <2>2. pending_si.kind = "none"
    BY <1>8 DEF Tables, Serial
  <2>3. Claimed'
    BY <1>1, <1>2, <2>2 DEF Claimed
  <2>4. Owned'
    BY <1>1, <1>2, <2>1, <2>2, PeripheralsAssumption DEF Tables, Owned, NoOwner
  <2> QED
    BY <1>4, <1>5, <1>6, <1>9, <2>3, <2>4 DEF Tables
<1> QED
  BY <1>7, <1>8

\* A request that waits beyond its device's window was queued by the guest.
LEMMA FittingStep == Types /\ Fitting /\ [Next]_vars => Fitting'
<1> SUFFICES ASSUME Types, Fitting, [Next]_vars PROVE Fitting'
  OBVIOUS
<1> USE DEF piHost
<1>0. conducts \subseteq conducts'
  BY ConductsStay
<1>1. ASSUME NEW r \in Request, pending_pi_completions' = Append(pending_pi_completions, r),
             r.fits = TRUE \/ "QueuedOutsideWindow" \in conducts'
      PROVE  Fitting'
  <2>1. /\ Len(pending_pi_completions) \in Nat
        /\ Len(pending_pi_completions') = Len(pending_pi_completions) + 1
        /\ \A i \in 1..Len(pending_pi_completions) :
             pending_pi_completions'[i] = pending_pi_completions[i]
        /\ pending_pi_completions'[Len(pending_pi_completions) + 1] = r
    BY <1>1, PushFacts, LenProperties DEF Types
  <2> SUFFICES ASSUME "QueuedOutsideWindow" \notin conducts',
                      NEW i \in 1..(Len(pending_pi_completions) + 1)
               PROVE  pending_pi_completions'[i].fits = TRUE
    BY <2>1 DEF Fitting
  <2>2. CASE i \in 1..Len(pending_pi_completions)
    BY <1>0, <2>1, <2>2 DEF Fitting
  <2>3. CASE i = Len(pending_pi_completions) + 1
    BY <1>1, <2>1, <2>3
  <2>4. i \in 1..Len(pending_pi_completions) \/ i = Len(pending_pi_completions) + 1
    <3>1. Len(pending_pi_completions) \in Nat
      BY <2>1
    <3> QED
      BY <3>1
  <2> QED
    BY <2>2, <2>3, <2>4
<1>2. CASE \E w, f \in BOOLEAN : StartManaged(w, f)
  <2>1. PICK w \in BOOLEAN, f \in BOOLEAN : StartManaged(w, f)
    BY <1>2
  <2> DEFINE r == [id |-> transfers + 1, managed |-> TRUE, ret_queue |-> w, fits |-> f]
  <2>2. transfers + 1 \in 1..MaxTransfers
    BY <2>1, PeripheralsAssumption DEF StartManaged, MoreTransfers, Types
  <2>3. r \in Request /\ r.fits = f
    BY <2>2, RequestFacts
  <2>4. pending_pi_completions' = Append(pending_pi_completions, r)
    BY <2>1 DEF StartManaged
  <2>5. f = TRUE \/ "QueuedOutsideWindow" \in conducts'
    BY <2>1 DEF StartManaged, Shows
  <2> HIDE DEF r
  <2> QED
    BY <1>1, <2>3, <2>4, <2>5
<1>3. CASE StartRawPi
  <2> DEFINE r == [id |-> transfers + 1, managed |-> FALSE, ret_queue |-> FALSE, fits |-> TRUE]
  <2>1. transfers + 1 \in 1..MaxTransfers
    BY <1>3, PeripheralsAssumption DEF StartRawPi, MoreTransfers, Types
  <2>2. r \in Request /\ r.fits = TRUE
    BY <2>1, RequestFacts
  <2>3. pending_pi_completions' = Append(pending_pi_completions, r)
    BY <1>3 DEF StartRawPi
  <2> HIDE DEF r
  <2> QED
    BY <1>1, <2>2, <2>3
<1>4. CASE ResetPi \/ Reload
  <2>1. 1..Len(pending_pi_completions') = {}
    BY <1>4 DEF ResetPi, Reload
  <2> QED
    BY <2>1 DEF Fitting
<1>5. CASE UNCHANGED pending_pi_completions
  BY <1>0, <1>5 DEF Fitting
<1>6. CASE \/ StartRawSi \/ WriteControl \/ AckSi \/ SetMask \/ AcceptInterrupt \/ CommitWork
           \/ \E o \in Owner : StartSi(o)
           \/ \E t \in Thread : PlugReturns(t)
           \/ \E d \in Device : Due(d)
  BY <1>5, <1>6 DEF StartRawSi, WriteControl, AckSi, SetMask, AcceptInterrupt, CommitWork, StartSi, PlugReturns, Due
<1>7. CASE Settle
  <2>1. CASE Broken # "none" \/ Notified("Pi") = {}
    BY <1>5, <1>7, <2>1 DEF Settle, PiDmaComplete
  <2>2. CASE Broken = "none" /\ Notified("Pi") # {}
    <3>1. /\ pending_pi_completions # <<>> /\ pending_pi_completions' = Tail(pending_pi_completions)
      BY <1>7, <2>2, SettleFacts
    <3>2. \A i \in 1..Len(pending_pi_completions') :
            /\ pending_pi_completions'[i] = pending_pi_completions[i + 1]
            /\ i + 1 \in 1..Len(pending_pi_completions)
      BY <3>1, PopFacts DEF Types
    <3> QED
      BY <1>0, <3>2 DEF Fitting
  <2> QED
    BY <2>1, <2>2
<1>8. CASE UNCHANGED vars
  BY <1>5, <1>8 DEF vars
<1> QED
  BY <1>2, <1>3, <1>4, <1>6, <1>7, <1>8 DEF Next

\* Every step keeps the tables in agreement, and an assertion that fails in it has
\* its cause; one case per action.
LEMMA TablesStep == Sound /\ [Next]_vars => Tables' /\ AbortsForCause'
<1> SUFFICES ASSUME Sound, [Next]_vars PROVE Tables' /\ AbortsForCause'
  OBVIOUS
<1> USE DEF fabric, mi, piHost, siHost, kernel, stepper
<1>0. Types /\ PiSound /\ Tables /\ AbortsForCause /\ conducts \subseteq conducts'
  BY ConductsStay DEF Sound
<1>1. ASSUME UNCHANGED <<pending_si, mi, siHost, kernel, abort, notified>>,
             \A e \in events' : e.device # "Pi" => e \in events
      PROVE  Tables' /\ AbortsForCause'
  BY <1>0, <1>1, QuietFacts, TablesUntouched, CauseKept
<1>2. CASE \E w, f \in BOOLEAN : StartManaged(w, f)
  BY <1>1, <1>2 DEF StartManaged, AdmitPi
<1>3. CASE StartRawPi \/ ResetPi
  BY <1>1, <1>3 DEF StartRawPi, ResetPi, AdmitPi
<1>4. ASSUME NEW o \in Owner, StartSi(o) PROVE Tables' /\ AbortsForCause'
  <2>1. /\ ~stepping /\ abort = "none" /\ AdmitSi("Dma", "Si") /\ notified' = notified
        /\ o \notin asking /\ pending_si = NoSi
    BY <1>4 DEF StartSi, Guest, AdmitSi
  <2>2. UNCHANGED <<mi, completed_pfs_is_plug, kernel, conducts>>
    BY <1>4 DEF StartSi
  <2>3. /\ Serial' /\ pending_si' = [kind |-> "Dma", id |-> serials + 1] /\ serials + 1 \in Nat \ {0}
        /\ Notified("Si")' = {} /\ Notified("PifControl")' = {}
    BY <1>0, <2>1, AdmitKeeps
  <2>4. Level' /\ Routed' /\ Working' /\ Single'
    BY <1>0, <2>1, <2>2, <2>3, QuietOwner DEF Tables, Level, Routed, Working, Single
  <2>5. CASE pending_si_completion = NoOwner
    <3>1. /\ pending_si_completion' = [id |-> serials + 1, owner |-> o]
          /\ asking' = asking \cup ({o} \cap Thread) /\ UNCHANGED abort
      BY <1>4, <2>5 DEF StartSi
    <3>2. Claimed' /\ Owned'
      BY <1>0, <2>1, <2>2, <2>3, <3>1 DEF Tables, Claimed, Owned
    <3>3. AbortsForCause'
      BY <1>0, <3>1, CauseKept
    <3> QED
      BY <2>3, <2>4, <3>2, <3>3 DEF Tables
  <2>6. CASE pending_si_completion # NoOwner
    <3>1. abort' = "prior SI ownership"
      BY <1>4, <2>6 DEF StartSi
    <3>2. "ReloadInFlight" \in conducts
      BY <1>0, <2>1, <2>6, QuietOwner
    <3>3. Claimed' /\ Owned'
      BY <2>2, <3>1, <3>2 DEF Claimed, Owned
    <3>4. AbortsForCause'
      BY <2>2, <3>1, <3>2, CauseFacts
    <3> QED
      BY <2>3, <2>4, <3>3, <3>4 DEF Tables
  <2> QED
    BY <2>5, <2>6
<1>5. CASE StartRawSi
  <2>1. ~stepping /\ AdmitSi("Dma", "Si") /\ notified' = notified
    BY <1>5 DEF StartRawSi, Guest
  <2>2. /\ pending_si_completion' = [id |-> serials + 1, owner |-> "OsEvent"]
        /\ UNCHANGED <<mi, asking, completed_pfs_is_plug, kernel, conducts, abort>>
    BY <1>5 DEF StartRawSi
  <2>3. /\ Serial' /\ pending_si' = [kind |-> "Dma", id |-> serials + 1] /\ serials + 1 \in Nat \ {0}
        /\ Notified("Si")' = {} /\ Notified("PifControl")' = {}
    BY <1>0, <2>1, AdmitKeeps
  <2>4. Level' /\ Routed' /\ Working' /\ Single'
    BY <1>0, <2>1, <2>2, <2>3, QuietOwner DEF Tables, Level, Routed, Working, Single
  <2>5. Claimed' /\ Owned'
    BY <1>0, <2>2, <2>3, PeripheralsAssumption DEF Tables, Claimed, Owned
  <2> QED
    BY <1>0, <2>2, <2>3, <2>4, <2>5, CauseKept DEF Tables
<1>6. CASE WriteControl
  <2>1. /\ ~stepping /\ AdmitSi("PifControl", "PifControl") /\ notified' = notified
        /\ pending_si = NoSi /\ (mi_pending => "ControlWhilePending" \in conducts')
    BY <1>6 DEF WriteControl, Guest, AdmitSi, Shows
  <2>2. UNCHANGED <<mi, pending_si_completion, asking, completed_pfs_is_plug, kernel, abort>>
    BY <1>6 DEF WriteControl
  <2>3. /\ Serial' /\ pending_si' = [kind |-> "PifControl", id |-> serials + 1]
        /\ Notified("Si")' = {} /\ Notified("PifControl")' = {}
    BY <1>0, <2>1, AdmitKeeps
  <2>4. Level'
    BY <1>0, <1>6, <2>1, <2>2, <2>3 DEF Tables, Level
  <2>5. Routed' /\ Working' /\ Single'
    BY <1>0, <2>1, <2>2, <2>3, QuietOwner DEF Tables, Routed, Working, Single
  <2>6. Claimed' /\ Owned'
    BY <1>0, <2>1, <2>2, <2>3, QuietOwner DEF Tables, Claimed, Owned, NoOwner
  <2> QED
    BY <1>0, <2>2, <2>3, <2>4, <2>5, <2>6, CauseKept DEF Tables
<1>7. ASSUME ~stepping, UNCHANGED <<pending_si, events, pending_si_completion, stepper, abort>>
      PROVE  /\ Serial' /\ Claimed' /\ AbortsForCause' /\ Single'
             /\ Notified("PifControl") = {} /\ Notified("PifControl")' = {}
             /\ Notified("Si") = {} /\ Notified("Si")' = {}
  <2>1. /\ Notified("PifControl") = {} /\ Notified("PifControl")' = {}
        /\ Notified("Si") = {} /\ Notified("Si")' = {}
    BY <1>0, <1>7, QuietFacts, QuietOwner
  <2>2. Serial' /\ Claimed' /\ Single'
    BY <1>0, <1>7, <2>1 DEF Tables, Serial, Claimed, Single
  <2> QED
    BY <1>0, <1>7, <2>1, <2>2, CauseKept
<1>8. CASE AckSi
  <2>1. /\ ~stepping /\ UNCHANGED <<pending_si, events, siHost, stepper, abort, routes, host_kernel_work>>
        /\ host_kernel_work = 0 /\ mi_pending' = FALSE /\ mi_occurrence' = 0
        /\ mi_occurrence # 0 => "AckOccurrence" \in conducts'
    BY <1>8 DEF AckSi, Guest, Shows
  <2>2. /\ Serial' /\ Claimed' /\ AbortsForCause' /\ Single'
        /\ Notified("PifControl") = {} /\ Notified("PifControl")' = {}
        /\ Notified("Si") = {} /\ Notified("Si")' = {}
    BY <1>7, <2>1
  <2>3. Owned' /\ Level'
    BY <1>0, <2>1, <2>2 DEF Tables, Owned, Level
  <2>4. Routed' /\ Working'
    BY <1>0, <2>1, <2>2 DEF Tables, Routed, Working
  <2> QED
    BY <2>2, <2>3, <2>4 DEF Tables
<1>9. CASE SetMask
  <2>1. /\ ~stepping /\ host_kernel_work = 0
        /\ UNCHANGED <<pending_si, events, siHost, stepper, abort, kernel, mi_pending, mi_occurrence, conducts>>
    BY <1>9 DEF SetMask, Guest
  <2>2. /\ Serial' /\ Claimed' /\ AbortsForCause' /\ Single'
        /\ Notified("PifControl") = {} /\ Notified("PifControl")' = {}
        /\ Notified("Si") = {} /\ Notified("Si")' = {}
    BY <1>7, <2>1
  <2>3. Owned' /\ Level'
    BY <1>0, <2>1, <2>2 DEF Tables, Owned, Level
  <2>4. Routed' /\ Working'
    BY <1>0, <2>1, <2>2 DEF Tables, Routed, Working
  <2> QED
    BY <2>2, <2>3, <2>4 DEF Tables
<1>10. ASSUME NEW t \in Thread, PlugReturns(t) PROVE Tables' /\ AbortsForCause'
  <2>1. /\ ~stepping /\ asking' = asking \ {t} /\ completed_pfs_is_plug' = completed_pfs_is_plug \ {t}
        /\ UNCHANGED <<pending_si, events, pending_si_completion, stepper, abort, kernel, mi, conducts>>
        /\ t \in completed_pfs_is_plug
    BY <1>10 DEF PlugReturns, Guest
  <2>2. /\ Serial' /\ Claimed' /\ AbortsForCause' /\ Single'
        /\ Notified("PifControl") = {} /\ Notified("PifControl")' = {}
        /\ Notified("Si") = {} /\ Notified("Si")' = {}
    BY <1>7, <2>1
  <2>3. Owned' /\ Level'
    BY <1>0, <2>1, <2>2 DEF Tables, Owned, Level
  <2>4. Routed' /\ Working'
    BY <1>0, <2>1, <2>2 DEF Tables, Routed, Working
  <2> QED
    BY <2>2, <2>3, <2>4 DEF Tables
<1>11. CASE AcceptInterrupt
  <2>1. /\ ~stepping /\ routes # <<>> /\ host_kernel_work' = Head(routes)
        /\ mi_mask /\ mi_pending /\ mi_occurrence = Head(routes)
        /\ UNCHANGED <<pending_si, events, siHost, stepper, abort, routes, mi, conducts>>
    BY <1>11 DEF AcceptInterrupt, Guest, Ready
  <2>2. /\ Serial' /\ Claimed' /\ AbortsForCause' /\ Single'
        /\ Notified("PifControl") = {} /\ Notified("PifControl")' = {}
        /\ Notified("Si") = {} /\ Notified("Si")' = {}
    BY <1>7, <2>1
  <2>3. Owned' /\ Level'
    BY <1>0, <2>1, <2>2 DEF Tables, Owned, Level
  <2>4. Head(routes) = routes[1]
    BY <1>0, <2>1, PopFacts DEF Tables, Working
  <2>5. Routed' /\ Working'
    BY <1>0, <2>1, <2>2, <2>4 DEF Tables, Routed, Working
  <2> QED
    BY <2>2, <2>3, <2>5 DEF Tables
<1>12. CASE CommitWork
  <2>1. /\ host_kernel_work # 0 /\ routes \in Seq(Nat) /\ routes # <<>> /\ routes[1] = host_kernel_work
        /\ mi_occurrence = host_kernel_work /\ mi_mask = TRUE /\ mi_pending = TRUE
    BY <1>0, <1>12 DEF CommitWork, Tables, Working, Level
  <2>2. Head(routes) = host_kernel_work /\ Tail(routes) \in Seq(Nat)
    BY <2>1, PopFacts
  <2>3. Ready(host_kernel_work)
    BY <2>1 DEF Ready
  <2>4. /\ routes' = Tail(routes) /\ mi_pending' = FALSE /\ mi_occurrence' = 0 /\ host_kernel_work' = 0
        /\ ~stepping /\ UNCHANGED <<pending_si, events, siHost, stepper, abort, conducts>>
    BY <1>12, <2>1, <2>2, <2>3 DEF CommitWork, PopRoute
  <2>5. /\ Serial' /\ Claimed' /\ AbortsForCause' /\ Single'
        /\ Notified("PifControl") = {} /\ Notified("PifControl")' = {}
        /\ Notified("Si") = {} /\ Notified("Si")' = {}
    BY <1>7, <2>4
  <2>6. Owned' /\ Level'
    BY <1>0, <2>4, <2>5 DEF Tables, Owned, Level
  <2>7. Routed' /\ Working'
    <3>1. routes = <<mi_occurrence>> => routes' = <<>>
      BY <2>4
    <3> QED
      BY <1>0, <2>1, <2>2, <2>4, <2>5, <3>1 DEF Tables, Routed, Working
  <2> QED
    BY <2>5, <2>6, <2>7 DEF Tables
<1>13. CASE Reload
  <2>1. /\ ~stepping /\ pending_si' = NoSi /\ events' = {} /\ routes' = <<>> /\ host_kernel_work' = 0
        /\ mi_occurrence' = 0 /\ mi_pending' = FALSE /\ UNCHANGED <<siHost, stepper, abort>>
        /\ "ReloadInFlight" \in conducts' \/ (pending_si_completion = NoOwner /\ asking = {})
    BY <1>13 DEF Reload, Shows
  <2>2. Notified("Si")' = {} /\ Notified("PifControl")' = {}
    BY <1>0, <2>1, QuietFacts, QuietOwner
  <2>3. Serial' /\ Claimed' /\ Level' /\ Single'
    BY <2>1, <2>2 DEF Serial, Claimed, Level, Single, NoSi
  <2>4. Owned'
    BY <1>0, <2>1, <2>2 DEF Tables, Owned, NoSi, NoOwner
  <2>5. Routed' /\ Working'
    BY <2>1, <2>2, EmptySeq DEF Routed, Working
  <2> QED
    BY <1>0, <2>1, <2>3, <2>4, <2>5, CauseKept DEF Tables
<1>14. ASSUME NEW d \in Device, Due(d) PROVE Tables' /\ AbortsForCause'
  <2>1. PICK e \in events : e.device = d /\ events' = events \ {e} /\ Occurs(e)
    BY <1>14, DueFacts
  <2>2. UNCHANGED <<siHost, kernel, mi_mask, conducts>> /\ abort = "none"
    BY <1>14 DEF Due
  <2>3. CASE e.device = "Pi" /\ PiDue(e)
    <3>1. UNCHANGED <<pending_si, mi_pending, mi_occurrence, abort>>
      BY <2>3 DEF PiDue
    <3>2. Notified("Si")' = Notified("Si") /\ Notified("PifControl")' = Notified("PifControl")
      BY <2>3, NoticeFacts, QuietFacts DEF PiDue
    <3> QED
      BY <1>0, <2>1, <2>2, <3>1, <3>2, TablesUntouched, CauseKept
  <2>4. CASE e.device = "Si" /\ SiDue
    <3>1. UNCHANGED abort
      BY <2>4 DEF SiDue
    <3> QED
      BY <1>0, <2>1, <2>2, <2>4, <3>1, SiDueKeeps, CauseKept
  <2>5. CASE e.device = "PifControl" /\ PifControlDue(e)
    BY <1>0, <2>1, <2>2, <2>5, ControlDueKeeps
  <2> QED
    BY <2>1, <2>3, <2>4, <2>5 DEF Occurs
<1>15. CASE Settle
  <2>1. abort = "none" /\ abort' = Broken /\ UNCHANGED conducts
    BY <1>15 DEF Settle
  <2>2. CASE Broken = "none"
    BY <1>0, <1>15, <2>1, <2>2, SettleKeeps, CauseFacts
  <2>3. CASE Broken # "none"
    <3>1. UNCHANGED <<pending_si, mi, siHost, kernel, notified, events>>
      BY <1>15, <2>3 DEF Settle
    <3>2. Tables'
      BY <1>0, <2>1, <3>1, QuietFacts, TablesUntouched
    <3>3. AbortsForCause'
      BY <2>1, <2>3, WhatBreaks, CauseFacts
    <3> QED
      BY <3>2, <3>3
  <2> QED
    BY <2>2, <2>3
<1>16. CASE UNCHANGED vars
  <2>1. notified' = notified /\ events' = events
    BY <1>16 DEF vars
  <2> QED
    BY <1>1, <1>16, <2>1 DEF vars
<1> QED
  BY <1>2, <1>3, <1>4, <1>5, <1>6, <1>8, <1>9, <1>10, <1>11, <1>12, <1>13, <1>14, <1>15, <1>16 DEF Next

\* The whole invariant holds throughout.
LEMMA SoundInvariant == Spec => []Sound
<1>1. Init => Sound
  BY TypesInit, PiInit, TablesInit DEF Sound
<1>2. Sound /\ [Next]_vars => Sound'
  BY TypesStep, PiStep, FittingStep, TablesStep DEF Sound
<1> QED
  BY <1>1, <1>2, PTL DEF Spec

\* What the invariants say of the two sides.
LEMMA InvariantsAgree == Sound => HostAgrees
<1> SUFFICES ASSUME Types, PiSound, Tables PROVE HostAgrees
  BY DEF Sound
<1>1. pending_pi_completions # <<>> => Head(pending_pi_completions) = pending_pi_completions[1]
  BY PopFacts DEF Types
<1>2. pending_pi.id = 0 /\ Notified("Pi") = {} <=> pending_pi_completions = <<>>
  BY DEF PiSound, Slot
<1>3. pending_pi_completions # <<>> =>
        {pending_pi.id} \cup Notified("Pi") \in {{Head(pending_pi_completions).id},
                                              {0, Head(pending_pi_completions).id}}
  BY <1>1 DEF PiSound, Slot
<1>4. \A e \in events : e.device = "Pi" => e.id \notin ToSet(over)
  BY DEF PiSound, Deadlines, PiDeadlines
<1>5. "AckOccurrence" \notin conducts =>
        ToSet(routes) \cup Notified("PifControl") \subseteq {mi_occurrence} \ {0}
  <2>1. ToSet(<<>>) = {} /\ ToSet(<<mi_occurrence>>) = {mi_occurrence}
    BY DEF ToSet
  <2> QED
    BY <2>1 DEF Tables, Routed
<1>6. "ReloadInFlight" \notin conducts =>
        {pending_si_completion.id} =
          IF pending_si.kind = "Dma" THEN {pending_si.id}
          ELSE IF Notified("Si") # {} THEN Notified("Si") ELSE {0}
  BY DEF Tables, Owned
<1> QED
  BY <1>2, <1>3, <1>4, <1>5, <1>6 DEF HostAgrees

\* The PI queue, the SI owner and the retained interrupts of the host name what
\* the fabric has in flight or has just notified, whatever falls due together;
\* the owner until a ROM is loaded under it, the interrupts until the guest
\* acknowledges one itself.
THEOREM HostAndFabricAgree == Spec => []HostAgrees
  BY SoundInvariant, InvariantsAgree, PTL

\* Whatever the guest does, an assertion of the two interfaces fails only after
\* it has done what leads to that one: a guest without the four conducts meets
\* none, and that the host is told of a transfer it does not know, or commits
\* work that is not live, never happens.
THEOREM AbortsAreCaused == Spec => []AbortsForCause
<1>1. Sound => AbortsForCause
  BY DEF Sound
<1> QED
  BY SoundInvariant, <1>1, PTL
=============================================================================
