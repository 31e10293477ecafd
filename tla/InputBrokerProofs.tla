-------------------------- MODULE InputBrokerProofs --------------------------
(***************************************************************************)
(* What InputBroker keeps for every capacity, range of ordinals, set of    *)
(* inputs and number of submissions, whatever the producer does.           *)
(***************************************************************************)
EXTENDS InputBroker, TLAPS

-----------------------------------------------------------------------------
(***************************************************************************)
(* Facts about single operators.                                           *)
(***************************************************************************)
\* Ordinals are naturals, the first among them.
LEMMA OrdinalFacts == Ordinal \subseteq Nat /\ First \in Ordinal /\ MaxOrdinal \in Ordinal
  BY BrokerAssumption DEF Ordinal

\* What a mailbox holds after a push.
LEMMA PushFacts ==
  ASSUME NEW S, NEW s \in Seq(S), NEW x \in S
  PROVE  /\ Append(s, x) \in Seq(S)
         /\ Len(Append(s, x)) = Len(s) + 1
         /\ \A i \in 1..Len(s) : Append(s, x)[i] = s[i]
         /\ Append(s, x)[Len(s) + 1] = x
  OBVIOUS

\* What a mailbox holds after a receive.
LEMMA PopFacts ==
  ASSUME NEW S, NEW s \in Seq(S), s # <<>>
  PROVE  /\ Head(s) \in S /\ Head(s) = s[1]
         /\ Tail(s) \in Seq(S)
         /\ Len(s) \in Nat \ {0}
         /\ Len(Tail(s)) = Len(s) - 1
         /\ \A i \in 1..Len(Tail(s)) : Tail(s)[i] = s[i + 1] /\ i + 1 \in 1..Len(s)
<1>1. Len(s) \in Nat \ {0}
  OBVIOUS
<1>2. Tail(s) \in Seq(S) /\ Len(Tail(s)) = Len(s) - 1
  OBVIOUS
<1>3. \A i \in 1..Len(Tail(s)) : Tail(s)[i] = s[i + 1]
  OBVIOUS
<1>4. \A i \in 1..Len(Tail(s)) : i + 1 \in 1..Len(s)
  BY <1>1, <1>2
<1>5. Head(s) = s[1] /\ s[1] \in S
  BY <1>1
<1> QED
  BY <1>1, <1>2, <1>3, <1>4, <1>5

\* An accepted bundle is ours, lies in the window and is not there yet.
LEMMA AcceptFacts ==
  ASSUME NEW b \in Bundle, next \in Nat
  PROVE  /\ Rejection(b) \in Failure
         /\ Rejection(b) = "none" <=>
              /\ b.ours /\ b.ordinal >= next /\ b.ordinal - next < Capacity
              /\ b.ordinal \notin DOMAIN pending
<1>1. b.ours \in BOOLEAN /\ b.ordinal \in Nat
  BY OrdinalFacts DEF Bundle
<1> QED
  BY <1>1, BrokerAssumption DEF Rejection, Failure

-----------------------------------------------------------------------------
(***************************************************************************)
(* Type correctness.                                                       *)
(***************************************************************************)
\* A session starts typed.
LEMMA TypeInit == Init => TypeOK
<1> SUFFICES ASSUME Init PROVE TypeOK
  OBVIOUS
<1>1. mailbox \in Seq(Bundle) /\ Len(mailbox) <= Capacity /\ played \in Seq(Input)
  BY BrokerAssumption DEF Init
<1>2. next \in Ordinal /\ sent \in 0..MaxSent
  BY OrdinalFacts, BrokerAssumption DEF Init
<1>3. /\ DOMAIN pending \subseteq Ordinal /\ \A o \in DOMAIN pending : pending[o] \in Input
      /\ DOMAIN script \subseteq Ordinal /\ \A o \in DOMAIN script : script[o] \in Input
  BY DEF Init
<1> QED
  BY <1>1, <1>2, <1>3 DEF Init, TypeOK, Failure, Answer

\* Every step keeps the types, one case per action.
LEMMA TypeStep == TypeOK /\ [Next]_vars => TypeOK'
<1> SUFFICES ASSUME TypeOK, [Next]_vars PROVE TypeOK'
  OBVIOUS
<1> USE OrdinalFacts
<1>1. ASSUME NEW b \in Bundle, TrySubmit(b) PROVE TypeOK'
  <2>1. mailbox' \in Seq(Bundle) /\ Len(mailbox') <= Capacity
    BY <1>1, PushFacts, BrokerAssumption DEF TrySubmit, TypeOK
  <2>2. DOMAIN script' \subseteq Ordinal /\ \A o \in DOMAIN script' : script'[o] \in Input
    BY <1>1 DEF TrySubmit, TypeOK, With, Bundle
  <2>3. strayed' \in BOOLEAN
    BY <1>1 DEF TrySubmit, TypeOK, Obeys
  <2>4. sent' \in 0..MaxSent
    BY <1>1, BrokerAssumption DEF TrySubmit, TypeOK
  <2> QED
    BY <1>1, <2>1, <2>2, <2>3, <2>4 DEF TrySubmit, TypeOK
<1>2. CASE DropIngress
  BY <1>2 DEF DropIngress, TypeOK
<1>3. CASE BeginPoll
  BY <1>3 DEF BeginPoll, TypeOK, Answer, producer
<1>4. CASE Drain
  <2>1. Head(mailbox) \in Bundle /\ mailbox' \in Seq(Bundle) /\ Len(mailbox') <= Capacity
    BY <1>4, PopFacts, BrokerAssumption DEF Drain, TypeOK
  <2>2. Head(mailbox).ordinal \in Ordinal /\ Head(mailbox).input \in Input
    BY <2>1 DEF Bundle
  <2>3. CASE Rejection(Head(mailbox)) = "none"
    BY <1>4, <2>1, <2>2, <2>3 DEF Drain, TypeOK, With, producer
  <2>4. CASE Rejection(Head(mailbox)) # "none"
    BY <1>4, <2>1, <2>4, AcceptFacts DEF Drain, TypeOK, producer, Answer
  <2> QED
    BY <2>3, <2>4
<1>5. ASSUME NEW o \in Ordinal, FinishPoll(o) PROVE TypeOK'
  <2>1. next' \in Ordinal
    BY <1>5, BrokerAssumption DEF FinishPoll, Take, TypeOK, Ordinal
  <2>2. played' \in Seq(Input)
    BY <1>5, PushFacts DEF FinishPoll, Take, TypeOK
  <2>3. DOMAIN pending' \subseteq Ordinal /\ \A p \in DOMAIN pending' : pending'[p] \in Input
    BY <1>5 DEF FinishPoll, Take, TypeOK, Less
  <2>4. answer' \in Answer
    BY <1>5 DEF FinishPoll, Take, TypeOK, Answer
  <2> QED
    BY <1>5, <2>1, <2>2, <2>3, <2>4 DEF FinishPoll, TypeOK, producer
<1>6. CASE UNCHANGED vars
  BY <1>6 DEF vars, TypeOK
<1> QED
  BY <1>1, <1>2, <1>3, <1>4, <1>5, <1>6 DEF Next

\* Every variable keeps its type: in particular the ordinal is never stepped
\* past the last one, and the mailbox never holds more than its capacity.
THEOREM BrokerTypes == Spec => []TypeOK
<1>1. Init => TypeOK
  BY TypeInit
<1>2. TypeOK /\ [Next]_vars => TypeOK'
  BY TypeStep
<1> QED
  BY <1>1, <1>2, PTL DEF Spec

-----------------------------------------------------------------------------
(***************************************************************************)
(* The inductive invariant.                                                *)
(***************************************************************************)
\* The flags that say how far the session got.
FlagsAgree ==
  /\ protocol_failure # "none" => ~polling
  /\ ingress_disconnected => ~connected

\* What was played or accepted was submitted, and first.
WindowScripted ==
  /\ First..(next - 1) \subseteq DOMAIN script
  /\ \A o \in DOMAIN pending : o \in DOMAIN script /\ pending[o] = script[o]
  /\ \A i \in 1..Len(mailbox) : mailbox[i].ours => mailbox[i].ordinal \in DOMAIN script

\* The i-th bundle of the mailbox is the next of its ordinal to be accepted.
Fresh(i) ==
  /\ mailbox[i].ours /\ mailbox[i].ordinal >= next /\ mailbox[i].ordinal \notin DOMAIN pending
  /\ \A j \in 1..(i - 1) : mailbox[j].ours => mailbox[j].ordinal # mailbox[i].ordinal

\* Unless the ingress failed, every submitted ordinal is played, in the window
\* or in the mailbox, and the bundle that will be accepted is the first one.
MailScripted ==
  protocol_failure = "none" =>
    /\ \A i \in 1..Len(mailbox) : Fresh(i) => mailbox[i].input = script[mailbox[i].ordinal]
    /\ \A o \in DOMAIN script :
         \/ o < next
         \/ o \in DOMAIN pending
         \/ \E i \in 1..Len(mailbox) : mailbox[i].ours /\ mailbox[i].ordinal = o

\* What a producer that keeps the lockstep has in the mailbox will be accepted.
MailAcceptable ==
  ~strayed =>
    /\ \A i \in 1..Len(mailbox) :
         /\ mailbox[i].ours
         /\ mailbox[i].ordinal >= next /\ mailbox[i].ordinal < next + Capacity
         /\ mailbox[i].ordinal \notin DOMAIN pending
    /\ \A i, j \in 1..Len(mailbox) : mailbox[i].ordinal = mailbox[j].ordinal => i = j

Inv ==
  /\ FlagsAgree /\ WindowBounded /\ WindowScripted /\ MailScripted /\ MailAcceptable
  /\ OnlyStraysFail /\ DisconnectedIsFinal

-----------------------------------------------------------------------------
\* A session starts with nothing submitted.
LEMMA InvInit == Init => Inv
  BY BrokerAssumption
  DEF Init, Inv, FlagsAgree, WindowBounded, WindowScripted, MailScripted, MailAcceptable,
      OnlyStraysFail, DisconnectedIsFinal

\* A submission keeps the invariant: the first for its ordinal writes the
\* script, and any other is behind the first in the mailbox or too late.
LEMMA SubmitKeeps ==
  ASSUME TypeOK, Inv, NEW b \in Bundle, TrySubmit(b)
  PROVE  Inv'
<1> USE OrdinalFacts
<1>1. /\ mailbox \in Seq(Bundle) /\ Len(mailbox) \in Nat /\ next \in Nat
      /\ b.ours \in BOOLEAN /\ b.ordinal \in Nat
  <2>1. b.ours \in BOOLEAN /\ b.ordinal \in Ordinal
    BY DEF Bundle
  <2>2. mailbox \in Seq(Bundle) /\ Len(mailbox) \in Nat /\ next \in Ordinal
    BY DEF TypeOK
  <2> QED
    BY <2>1, <2>2, Zenon
<1>2. /\ Len(mailbox') = Len(mailbox) + 1
      /\ \A i \in 1..Len(mailbox) : mailbox'[i] = mailbox[i]
      /\ mailbox'[Len(mailbox) + 1] = b
  BY <1>1, PushFacts DEF TrySubmit
<1>3. \A i \in 1..Len(mailbox') : i \in 1..Len(mailbox) \/ i = Len(mailbox) + 1
  BY <1>1, <1>2
<1>4. /\ DOMAIN script \subseteq DOMAIN script'
      /\ \A o \in DOMAIN script : script'[o] = script[o]
      /\ \A o \in DOMAIN script' : o \in DOMAIN script \/ (b.ours /\ o = b.ordinal)
      /\ b.ours => b.ordinal \in DOMAIN script'
      /\ b.ours /\ b.ordinal \notin DOMAIN script => script'[b.ordinal] = b.input
  BY DEF TrySubmit, With
<1>5. /\ UNCHANGED <<pending, next, protocol_failure, polling, played, answer, connected,
                     ingress_disconnected>>
      /\ connected
  BY DEF TrySubmit
<1>6. FlagsAgree' /\ WindowBounded'
  BY <1>5 DEF Inv, FlagsAgree, WindowBounded
<1>7. WindowScripted'
  BY <1>2, <1>3, <1>4, <1>5 DEF Inv, WindowScripted
<1>8. MailScripted'
  <2> SUFFICES ASSUME protocol_failure = "none" PROVE MailScripted'
    BY <1>5 DEF MailScripted
  <2>1. ASSUME NEW i \in 1..Len(mailbox'), Fresh(i)'
        PROVE  mailbox'[i].input = script'[mailbox'[i].ordinal]
    <3>1. CASE i \in 1..Len(mailbox)
      <4>1. Fresh(i)
        BY <1>1, <1>2, <1>5, <2>1, <3>1 DEF Fresh
      <4> QED
        BY <1>2, <1>4, <3>1, <4>1 DEF Inv, MailScripted, WindowScripted, Fresh
    <3>2. CASE i = Len(mailbox) + 1
      <4>1. /\ b.ours /\ b.ordinal >= next /\ b.ordinal \notin DOMAIN pending
            /\ \A j \in 1..Len(mailbox) : mailbox[j].ours => mailbox[j].ordinal # b.ordinal
        BY <1>1, <1>2, <1>5, <2>1, <3>2 DEF Fresh
      <4>2. b.ordinal \notin DOMAIN script
        BY <1>1, <4>1 DEF Inv, MailScripted
      <4> QED
        BY <1>2, <1>4, <3>2, <4>1, <4>2
    <3> QED
      BY <1>3, <3>1, <3>2
  <2>2. ASSUME NEW o \in DOMAIN script'
        PROVE  \/ o < next'
               \/ o \in DOMAIN pending'
               \/ \E i \in 1..Len(mailbox') : mailbox'[i].ours /\ mailbox'[i].ordinal = o
    <3>1. CASE b.ours /\ o = b.ordinal
      BY <1>1, <1>2, <3>1
    <3>2. CASE o \in DOMAIN script
      BY <1>1, <1>2, <1>5, <3>2 DEF Inv, MailScripted
    <3> QED
      BY <1>4, <3>1, <3>2
  <2> QED
    BY <2>1, <2>2 DEF MailScripted
<1>9. MailAcceptable'
  <2> SUFFICES ASSUME ~strayed' PROVE MailAcceptable'
    BY DEF MailAcceptable
  <2>1. ~strayed /\ Obeys(b)
    BY DEF TrySubmit
  <2>2. /\ b.ours /\ b.ordinal < next + Capacity /\ b.ordinal >= next
        /\ b.ordinal \notin DOMAIN pending
    <3>1. b.ours /\ b.ordinal < next + Capacity /\ b.ordinal \notin DOMAIN script
      BY <2>1 DEF Obeys
    <3>2. b.ordinal \in Ordinal
      BY DEF Bundle
    <3> QED
      BY <1>1, <3>1, <3>2, BrokerAssumption DEF Inv, WindowScripted, Ordinal
  <2>3. \A i \in 1..Len(mailbox) : mailbox[i].ours /\ mailbox[i].ordinal # b.ordinal
    BY <2>1 DEF Inv, MailAcceptable, WindowScripted, Obeys
  <2> QED
    BY <1>1, <1>2, <1>3, <1>5, <2>1, <2>2, <2>3 DEF Inv, MailAcceptable
<1>10. OnlyStraysFail' /\ DisconnectedIsFinal'
  BY <1>5 DEF TrySubmit, Inv, OnlyStraysFail, DisconnectedIsFinal
<1> QED
  BY <1>6, <1>7, <1>8, <1>9, <1>10 DEF Inv

\* A receive keeps the invariant: what is accepted is the first of its ordinal.
LEMMA DrainKeeps ==
  ASSUME TypeOK, Inv, Drain
  PROVE  Inv'
<1> USE OrdinalFacts
<1> DEFINE b == Head(mailbox)
<1>1. /\ mailbox \in Seq(Bundle) /\ next \in Nat /\ mailbox # <<>>
      /\ b \in Bundle /\ b = mailbox[1] /\ b.ordinal \in Nat /\ 1 \in 1..Len(mailbox)
  <2>1. mailbox \in Seq(Bundle) /\ next \in Nat /\ mailbox # <<>>
    BY DEF TypeOK, Drain
  <2>2. b \in Bundle /\ b = mailbox[1] /\ 1 \in 1..Len(mailbox)
    BY <2>1, PopFacts
  <2>3. b.ordinal \in Ordinal
    BY <2>2 DEF Bundle
  <2> QED
    BY <2>1, <2>2, <2>3
<1>2. /\ mailbox' = Tail(mailbox) /\ Len(mailbox) \in Nat \ {0} /\ Len(mailbox') = Len(mailbox) - 1
      /\ \A i \in 1..Len(mailbox') : mailbox'[i] = mailbox[i + 1] /\ i + 1 \in 1..Len(mailbox)
  BY <1>1, PopFacts DEF Drain
<1>3. /\ UNCHANGED <<next, ingress_disconnected, played, connected, script, strayed>>
      /\ polling /\ protocol_failure = "none"
  BY DEF Drain, producer, Inv, FlagsAgree
<1>4. CASE Rejection(b) = "none"
  <2>1. /\ b.ours /\ b.ordinal >= next /\ b.ordinal - next < Capacity
        /\ b.ordinal \notin DOMAIN pending
    BY <1>1, <1>4, AcceptFacts
  <2>2. /\ pending' = With(pending, b.ordinal, b.input)
        /\ UNCHANGED <<protocol_failure, polling, answer>>
    BY <1>4 DEF Drain
  <2>3. /\ DOMAIN pending' = DOMAIN pending \cup {b.ordinal}
        /\ pending'[b.ordinal] = b.input
        /\ \A o \in DOMAIN pending : pending'[o] = pending[o]
    BY <2>1, <2>2 DEF With
  <2>4. Fresh(1)
    BY <1>1, <2>1 DEF Fresh
  <2>5. b.ordinal \in DOMAIN script /\ b.input = script[b.ordinal]
    BY <1>1, <1>3, <2>1, <2>4 DEF Inv, WindowScripted, MailScripted
  <2>6. FlagsAgree' /\ OnlyStraysFail' /\ DisconnectedIsFinal'
    BY <1>3, <2>2 DEF Inv, FlagsAgree, OnlyStraysFail, DisconnectedIsFinal
  <2>7. WindowBounded'
    BY <1>1, <1>3, <2>1, <2>3, BrokerAssumption DEF Inv, WindowBounded
  <2>8. WindowScripted'
    BY <1>2, <1>3, <2>3, <2>5 DEF Inv, WindowScripted
  <2>9. MailScripted'
    <3>1. ASSUME NEW i \in 1..Len(mailbox'), Fresh(i)'
          PROVE  mailbox'[i].input = script'[mailbox'[i].ordinal]
      <4>1. /\ mailbox[i + 1].ours /\ mailbox[i + 1].ordinal >= next
            /\ mailbox[i + 1].ordinal \notin DOMAIN pending
            /\ mailbox[i + 1].ordinal # mailbox[1].ordinal
        BY <1>1, <1>2, <1>3, <2>3, <3>1 DEF Fresh
      <4>2. ASSUME NEW j \in 1..i, mailbox[j].ours
            PROVE  mailbox[j].ordinal # mailbox[i + 1].ordinal
        <5>1. CASE j = 1
          BY <4>1, <5>1
        <5>2. CASE j # 1
          <6>1. j - 1 \in 1..(i - 1) /\ j - 1 \in 1..Len(mailbox') /\ (j - 1) + 1 = j
            BY <1>2, <5>2
          <6>2. mailbox'[j - 1] = mailbox[j]
            BY <1>2, <6>1
          <6> QED
            BY <1>2, <3>1, <4>2, <6>1, <6>2 DEF Fresh
        <5> QED
          BY <5>1, <5>2
      <4>3. i + 1 \in 1..Len(mailbox) /\ (i + 1) - 1 = i
        BY <1>2
      <4>4. Fresh(i + 1)
        BY <4>1, <4>2, <4>3 DEF Fresh
      <4> QED
        BY <1>2, <1>3, <4>3, <4>4 DEF Inv, MailScripted
    <3>2. ASSUME NEW o \in DOMAIN script'
          PROVE  \/ o < next'
                 \/ o \in DOMAIN pending'
                 \/ \E i \in 1..Len(mailbox') : mailbox'[i].ours /\ mailbox'[i].ordinal = o
      <4>1. CASE o < next \/ o \in DOMAIN pending
        BY <1>3, <2>3, <4>1
      <4>2. ASSUME NEW i \in 1..Len(mailbox), mailbox[i].ours, mailbox[i].ordinal = o
            PROVE  \/ o \in DOMAIN pending'
                   \/ \E k \in 1..Len(mailbox') : mailbox'[k].ours /\ mailbox'[k].ordinal = o
        <5>1. CASE i = 1
          BY <1>1, <2>3, <4>2, <5>1
        <5>2. CASE i # 1
          <6>1. i - 1 \in 1..Len(mailbox') /\ (i - 1) + 1 = i
            BY <1>2, <5>2
          <6> QED
            BY <1>2, <4>2, <6>1
        <5> QED
          BY <5>1, <5>2
      <4> QED
        BY <1>3, <4>1, <4>2 DEF Inv, MailScripted
    <3> QED
      BY <3>1, <3>2 DEF MailScripted
  <2>10. MailAcceptable'
    <3> SUFFICES ASSUME ~strayed PROVE MailAcceptable'
      BY <1>3 DEF MailAcceptable
    <3>1. ASSUME NEW i \in 1..Len(mailbox')
          PROVE  /\ mailbox'[i].ours
                 /\ mailbox'[i].ordinal >= next' /\ mailbox'[i].ordinal < next' + Capacity
                 /\ mailbox'[i].ordinal \notin DOMAIN pending'
      <4>1. i + 1 \in 1..Len(mailbox) /\ i + 1 # 1 /\ mailbox'[i] = mailbox[i + 1]
        BY <1>2
      <4> QED
        BY <1>1, <1>3, <2>3, <4>1 DEF Inv, MailAcceptable
    <3>2. ASSUME NEW i \in 1..Len(mailbox'), NEW j \in 1..Len(mailbox'),
                 mailbox'[i].ordinal = mailbox'[j].ordinal
          PROVE  i = j
      <4>1. i + 1 = j + 1
        BY <1>2, <3>2 DEF Inv, MailAcceptable
      <4> QED
        BY <4>1
    <3> QED
      BY <3>1, <3>2 DEF MailAcceptable
  <2> QED
    BY <2>6, <2>7, <2>8, <2>9, <2>10 DEF Inv
<1>5. CASE Rejection(b) # "none"
  <2>1. /\ protocol_failure' = Rejection(b) /\ ~polling' /\ answer' = "IngressRejected"
        /\ UNCHANGED pending
    BY <1>5 DEF Drain
  <2>2. strayed
    <3> SUFFICES ASSUME ~strayed PROVE FALSE
      OBVIOUS
    <3>1. /\ b.ours /\ b.ordinal >= next /\ b.ordinal < next + Capacity
          /\ b.ordinal \notin DOMAIN pending
      BY <1>1 DEF Inv, MailAcceptable
    <3> QED
      BY <1>1, <1>5, <3>1, AcceptFacts, BrokerAssumption
  <2>3. FlagsAgree' /\ WindowBounded' /\ OnlyStraysFail' /\ DisconnectedIsFinal'
    BY <1>3, <2>1, <2>2 DEF Inv, FlagsAgree, WindowBounded, OnlyStraysFail, DisconnectedIsFinal
  <2>4. WindowScripted'
    BY <1>2, <1>3, <2>1 DEF Inv, WindowScripted
  <2>5. MailScripted' /\ MailAcceptable'
    BY <1>3, <1>5, <2>1, <2>2 DEF MailScripted, MailAcceptable
  <2> QED
    BY <2>3, <2>4, <2>5 DEF Inv
<1> QED
  BY <1>4, <1>5

\* An answered poll keeps the invariant: a bundle leaves the window for the
\* recording, and a lost producer is reported only over an empty mailbox.
LEMMA PollKeeps ==
  ASSUME TypeOK, Inv, NEW o \in Ordinal, FinishPoll(o)
  PROVE  Inv'
<1> USE OrdinalFacts
<1>1. /\ mailbox = <<>> /\ mailbox' = <<>> /\ Len(mailbox) = 0 /\ next \in Nat
      /\ UNCHANGED <<protocol_failure, connected, script, strayed>>
      /\ ~polling' /\ protocol_failure = "none"
      /\ ingress_disconnected' = (ingress_disconnected \/ ~connected)
  BY DEF FinishPoll, Drained, producer, Inv, FlagsAgree, TypeOK
<1>2. FlagsAgree' /\ OnlyStraysFail' /\ MailAcceptable'
  <2>1. FlagsAgree' /\ OnlyStraysFail'
    BY <1>1 DEF Inv, FlagsAgree, OnlyStraysFail
  <2>2. 1..Len(mailbox') = {}
    BY <1>1
  <2> QED
    BY <2>1, <2>2 DEF MailAcceptable
<1>3. CASE answer' = "bundle"
  <2>1. /\ next \in DOMAIN pending /\ pending' = Less(pending, next) /\ next' = next + 1
        /\ played' = Append(played, pending[next])
    BY <1>3 DEF FinishPoll, Take
  <2>2. /\ DOMAIN pending' = DOMAIN pending \ {next}
        /\ \A p \in DOMAIN pending' : pending'[p] = pending[p]
    BY <2>1 DEF Less
  <2>3. Len(played') = Len(played) + 1 /\ Len(played) \in Nat
    BY <2>1, PushFacts DEF TypeOK
  <2>4. WindowBounded'
    BY <1>1, <2>1, <2>2, <2>3, BrokerAssumption DEF Inv, WindowBounded
  <2>5. WindowScripted'
    BY <1>1, <2>1, <2>2, BrokerAssumption DEF Inv, WindowScripted
  <2>6. MailScripted'
    <3>1. 1..Len(mailbox') = {} /\ 1..Len(mailbox) = {}
      BY <1>1
    <3>2. \A p \in DOMAIN script : p < next \/ p \in DOMAIN pending
      BY <1>1, <3>1 DEF Inv, MailScripted
    <3>3. \A p \in DOMAIN script : p < next' \/ p \in DOMAIN pending'
      <4>1. DOMAIN script \subseteq Nat
        BY DEF TypeOK
      <4> QED
        BY <1>1, <2>1, <2>2, <3>2, <4>1
    <3> QED
      BY <1>1, <3>1, <3>3 DEF MailScripted
  <2>7. DisconnectedIsFinal'
    BY <1>3 DEF DisconnectedIsFinal
  <2> QED
    BY <1>2, <2>4, <2>5, <2>6, <2>7 DEF Inv
<1>4. CASE answer' # "bundle"
  <2>1. UNCHANGED <<pending, next, played>>
    BY <1>4 DEF FinishPoll, Take
  <2>2. WindowBounded' /\ WindowScripted' /\ MailScripted'
    BY <1>1, <2>1 DEF Inv, WindowBounded, WindowScripted, MailScripted
  <2>3. DisconnectedIsFinal'
    <3> SUFFICES ASSUME answer' = "Disconnected" PROVE ~connected /\ next \notin DOMAIN script
      BY <1>1, <2>1 DEF DisconnectedIsFinal
    <3>1. next \notin DOMAIN pending /\ ingress_disconnected'
      BY DEF FinishPoll, Take
    <3>2. next \notin DOMAIN script
      <4>1. 1..Len(mailbox) = {}
        BY <1>1
      <4> QED
        BY <1>1, <3>1, <4>1 DEF Inv, MailScripted
    <3> QED
      BY <1>1, <3>1, <3>2 DEF Inv, FlagsAgree
  <2> QED
    BY <1>2, <2>2, <2>3 DEF Inv
<1> QED
  BY <1>3, <1>4

\* Every step keeps the invariant.
LEMMA InvStep == TypeOK /\ Inv /\ [Next]_vars => Inv'
<1> SUFFICES ASSUME TypeOK, Inv, [Next]_vars PROVE Inv'
  OBVIOUS
<1>1. CASE DropIngress \/ BeginPoll \/ UNCHANGED vars
  <2>1. UNCHANGED <<mailbox, pending, next, ingress_disconnected, protocol_failure, played, script, strayed>>
    BY <1>1 DEF DropIngress, BeginPoll, vars, producer
  <2>2. WindowBounded' /\ WindowScripted' /\ MailScripted' /\ MailAcceptable' /\ OnlyStraysFail'
    BY <2>1 DEF Inv, WindowBounded, WindowScripted, MailScripted, MailAcceptable, OnlyStraysFail, Fresh
  <2>3. FlagsAgree' /\ DisconnectedIsFinal'
    BY <1>1, <2>1 DEF Inv, FlagsAgree, DisconnectedIsFinal, DropIngress, BeginPoll, vars, producer
  <2> QED
    BY <2>2, <2>3 DEF Inv
<1> QED
  BY <1>1, SubmitKeeps, DrainKeeps, PollKeeps DEF Next

\* The invariant holds throughout.
LEMMA BrokerInvariant == Spec => [](TypeOK /\ Inv)
<1>1. Init => TypeOK /\ Inv
  BY TypeInit, InvInit
<1>2. TypeOK /\ Inv /\ [Next]_vars => (TypeOK /\ Inv)'
  BY TypeStep, InvStep
<1> QED
  BY <1>1, <1>2, PTL DEF Spec

-----------------------------------------------------------------------------
(***************************************************************************)
(* The theorems.                                                           *)
(***************************************************************************)
\* However the producer floods a drain, the reorder window stays within its
\* capacity and as many bundles are recorded as polls were answered.
THEOREM WindowStaysBounded == Spec => []WindowBounded
<1>1. TypeOK /\ Inv => WindowBounded
  BY DEF Inv
<1> QED
  BY <1>1, BrokerInvariant, PTL

\* No producer that keeps the lockstep is ever rejected.
THEOREM LockstepNeverRejected == Spec => []OnlyStraysFail
<1>1. TypeOK /\ Inv => OnlyStraysFail
  BY DEF Inv
<1> QED
  BY <1>1, BrokerInvariant, PTL

\* A poll never gives up on a bundle that was submitted before the producer went.
THEOREM NothingLeftBehind == Spec => []DisconnectedIsFinal
<1>1. TypeOK /\ Inv => DisconnectedIsFinal
  BY DEF Inv
<1> QED
  BY <1>1, BrokerInvariant, PTL

\* A session starts as an unplayed script.
LEMMA LockstepInit == Init => L!Init
  BY DEF Init, L!Init

\* Every step plays, writes or ends the script, or is hidden from it.
LEMMA LockstepStep == TypeOK /\ Inv /\ [Next]_vars => [L!Next]_(L!vars)
<1> SUFFICES ASSUME TypeOK, Inv, [Next]_vars PROVE [L!Next]_(L!vars)
  OBVIOUS
<1>1. ASSUME NEW b \in Bundle, TrySubmit(b) PROVE [L!Next]_(L!vars)
  <2>1. b.ordinal \in Ordinal /\ b.input \in Input
    BY DEF Bundle
  <2>2. CASE b.ours /\ b.ordinal \notin DOMAIN script
    <3>1. L!Submit(b.ordinal, b.input)
      BY <1>1, <2>2 DEF TrySubmit, With, L!Submit
    <3> QED
      BY <2>1, <3>1 DEF L!Next
  <2>3. CASE ~(b.ours /\ b.ordinal \notin DOMAIN script)
    BY <1>1, <2>3 DEF TrySubmit, L!vars
  <2> QED
    BY <2>2, <2>3
<1>2. CASE DropIngress \/ BeginPoll \/ UNCHANGED vars
  BY <1>2 DEF DropIngress, BeginPoll, vars, producer, L!vars
<1>3. CASE Drain
  <2>1. protocol_failure = "none" /\ UNCHANGED <<script, played>>
    BY <1>3 DEF Drain, producer, Inv, FlagsAgree
  <2>2. CASE protocol_failure' = "none"
    BY <2>1, <2>2 DEF L!vars
  <2>3. CASE protocol_failure' # "none"
    BY <2>1, <2>3 DEF L!Next, L!End
  <2> QED
    BY <2>2, <2>3
<1>4. ASSUME NEW o \in Ordinal, FinishPoll(o) PROVE [L!Next]_(L!vars)
  <2>1. protocol_failure = "none" /\ UNCHANGED <<script, protocol_failure>>
    BY <1>4 DEF FinishPoll, producer, Inv, FlagsAgree
  <2>2. CASE answer' # "bundle"
    BY <1>4, <2>1, <2>2 DEF FinishPoll, Take, L!vars
  <2>3. CASE answer' = "bundle"
    <3>1. next \in DOMAIN pending /\ played' = Append(played, pending[next])
      BY <1>4, <2>3 DEF FinishPoll, Take
    <3>2. next \in DOMAIN script /\ pending[next] = script[next]
      BY <3>1 DEF Inv, WindowScripted
    <3>3. First + Len(played) = next
      BY OrdinalFacts, BrokerAssumption DEF Inv, WindowBounded, TypeOK
    <3> QED
      BY <2>1, <3>1, <3>2, <3>3 DEF L!Next, L!Play
  <2> QED
    BY <2>2, <2>3
<1> QED
  BY <1>1, <1>2, <1>3, <1>4 DEF Next

\* The simulation sees the script of first submissions, ordinal by ordinal,
\* whatever the mailbox, the window and the threads do.
THEOREM BrokerImplementsLockstep == Spec => ImplementsLockstep
<1>1. Init => L!Init
  BY LockstepInit
<1>2. (TypeOK /\ Inv) /\ [Next]_vars => [L!Next]_(L!vars)
  BY LockstepStep
<1>3. Spec => L!Spec
  BY <1>1, <1>2, BrokerInvariant, PTL DEF Spec, L!Spec
<1> QED
  BY <1>3 DEF ImplementsLockstep
=============================================================================
