----------------------------- MODULE InputBroker -----------------------------
(***************************************************************************)
(* Controller input for delayed lockstep (fn64-runtime, multiplayer.rs): a *)
(* network thread pushes input bundles into a bounded mailbox, and at each *)
(* SI poll the simulation drains the mailbox into a bounded reorder window *)
(* and takes the one bundle of that poll.  The producer may push between   *)
(* any two receives of a drain, or go away.                                *)
(*                                                                         *)
(* script, strayed and answer are history: the first bundle submitted for  *)
(* each ordinal, whether the producer ever broke the lockstep protocol, and *)
(* what the last poll returned.                                            *)
(***************************************************************************)
EXTENDS Integers, Sequences, FiniteSets

CONSTANTS Capacity,    \* of the mailbox and of the window
          First,       \* the session's first ordinal
          MaxOrdinal,  \* the last value of an ordinal; 2^64 - 1 in the code
          Input,       \* what the players may have pressed
          MaxSent      \* so many submissions are explored

ASSUME BrokerAssumption ==
  /\ Capacity \in Nat \ {0}
  /\ First \in Nat /\ MaxOrdinal \in Nat /\ First <= MaxOrdinal
  /\ MaxSent \in Nat

VARIABLES mailbox,               \* the channel, oldest first
          connected,             \* the producer still holds its InputIngress
          pending,               \* the reorder window: ordinal -> input
          next,                  \* the ordinal the simulation needs next
          ingress_disconnected,
          protocol_failure,      \* why the ingress was rejected, for good
          polling,               \* the simulation is inside drain_ingress
          played,                \* RecordingInputSource: the bundles committed
          script, strayed, answer, sent

vars == <<mailbox, connected, pending, next, ingress_disconnected, protocol_failure,
          polling, played, script, strayed, answer, sent>>
producer  == <<connected, script, strayed, sent>>

Ordinal == First..MaxOrdinal
\* ours: session and port set are those of the broker.
Bundle  == [ours : BOOLEAN, ordinal : Ordinal, input : Input]
Failure == {"none", "WrongSession", "Stale", "OutsideWindow", "Duplicate"}
Answer  == {"none", "bundle", "Missing", "Disconnected", "IngressRejected",
            "UnexpectedOrdinal", "OrdinalExhausted"}

With(f, o, i) == [p \in DOMAIN f \cup {o} |-> IF p = o THEN i ELSE f[p]]
\* Mutant: taking a bundle empties the window.
LessAll(f, o) == [p \in {} |-> f[o]]
Less(f, o)    == [p \in DOMAIN f \ {o} |-> f[p]]

\* Mutants: the window one ordinal too long; a resubmission replaces the input.
RejectionLate(b) ==
  CASE ~b.ours                        -> "WrongSession"
    [] b.ordinal < next               -> "Stale"
    [] b.ordinal - next > Capacity    -> "OutsideWindow"
    [] b.ordinal \in DOMAIN pending   -> "Duplicate"
    [] OTHER                          -> "none"
RejectionEarly(b) ==
  CASE ~b.ours                           -> "WrongSession"
    [] b.ordinal < next                  -> "Stale"
    [] b.ordinal - next >= Capacity - 1  -> "OutsideWindow"
    [] b.ordinal \in DOMAIN pending      -> "Duplicate"
    [] OTHER                             -> "none"
RejectionLax(b) ==
  CASE ~b.ours                        -> "WrongSession"
    [] b.ordinal < next               -> "Stale"
    [] b.ordinal - next >= Capacity   -> "OutsideWindow"
    [] OTHER                          -> "none"

\* DeterministicInputBroker::submit, its checks in their order.
Rejection(b) ==
  CASE ~b.ours                        -> "WrongSession"
    [] b.ordinal < next               -> "Stale"
    [] b.ordinal - next >= Capacity   -> "OutsideWindow"
    [] b.ordinal \in DOMAIN pending   -> "Duplicate"
    [] OTHER                          -> "none"

-----------------------------------------------------------------------------
Init ==
  /\ mailbox = <<>> /\ connected = TRUE
  /\ pending = [o \in {} |-> First] /\ next = First
  /\ ingress_disconnected = FALSE /\ protocol_failure = "none"
  /\ polling = FALSE /\ played = <<>>
  /\ script = [o \in {} |-> First] /\ strayed = FALSE /\ answer = "none" /\ sent = 0

\* A lockstep producer submits each ordinal of its own session once, and stays
\* less than Capacity ahead of the polls already answered.
Obeys(b) == b.ours /\ b.ordinal < next + Capacity /\ b.ordinal \notin DOMAIN script

\* InputIngress::try_submit with room in the mailbox; Full changes nothing.
TrySubmit(b) ==
  /\ connected /\ sent < MaxSent /\ Len(mailbox) < Capacity
  /\ mailbox' = Append(mailbox, b)
  /\ sent' = sent + 1
  /\ strayed' = (strayed \/ ~Obeys(b))
  /\ script' = IF b.ours /\ b.ordinal \notin DOMAIN script
               THEN With(script, b.ordinal, b.input) ELSE script
  /\ UNCHANGED <<connected, pending, next, ingress_disconnected, protocol_failure, polling,
                 played, answer>>

DropIngress ==
  /\ connected /\ connected' = FALSE
  /\ UNCHANGED <<mailbox, pending, next, ingress_disconnected, protocol_failure, polling,
                 played, script, strayed, answer, sent>>

\* take_for_poll enters drain_ingress; a failed ingress answers at once.
BeginPoll ==
  /\ ~polling
  /\ IF protocol_failure # "none"
     THEN answer' = "IngressRejected" /\ UNCHANGED polling
     ELSE polling' = TRUE /\ answer' = "none"
  /\ UNCHANGED <<mailbox, pending, next, ingress_disconnected, protocol_failure, played, producer>>

\* One try_recv of drain_ingress that finds a bundle.
Drain ==
  /\ polling /\ mailbox # <<>>
  /\ mailbox' = Tail(mailbox)
  /\ LET b == Head(mailbox)
         r == Rejection(b)
     IN IF r = "none"
        THEN /\ pending' = With(pending, b.ordinal, b.input)
             /\ UNCHANGED <<protocol_failure, polling, answer>>
        ELSE /\ protocol_failure' = r
             /\ polling' = FALSE
             /\ answer' = "IngressRejected"
             /\ UNCHANGED pending
  /\ UNCHANGED <<next, ingress_disconnected, played, producer>>

\* Mutant: a dropped sender ends the drain with bundles still in the mailbox.
DrainedOrDropped == mailbox = <<>> \/ ~connected
Drained == mailbox = <<>>

\* DeterministicInputBroker::take behind validate_request: the ordinal is
\* stepped only once its bundle is in hand.
Take(o) ==
  IF o # next THEN answer' = "UnexpectedOrdinal" /\ UNCHANGED <<pending, next, played>>
  ELSE IF next = MaxOrdinal THEN answer' = "OrdinalExhausted" /\ UNCHANGED <<pending, next, played>>
  ELSE IF next \notin DOMAIN pending
  THEN /\ answer' = IF ingress_disconnected' THEN "Disconnected" ELSE "Missing"
       /\ UNCHANGED <<pending, next, played>>
  ELSE /\ answer' = "bundle"
       /\ pending' = Less(pending, next)
       /\ next' = next + 1
       /\ played' = Append(played, pending[next])

\* The drain found the channel empty, or empty and closed; the poll for o is
\* answered, and RecordingInputSource appends what it was given.
FinishPoll(o) ==
  /\ polling /\ Drained
  /\ ingress_disconnected' = (ingress_disconnected \/ ~connected)
  /\ Take(o)
  /\ polling' = FALSE
  /\ UNCHANGED <<mailbox, protocol_failure, producer>>

Next ==
  \/ \E b \in Bundle : TrySubmit(b)
  \/ DropIngress
  \/ BeginPoll
  \/ Drain
  \/ \E o \in Ordinal : FinishPoll(o)

\* The simulation thread keeps polling, and keeps asking for the ordinal it
\* needs; nothing is assumed of the producer.
Fairness == WF_vars(BeginPoll) /\ WF_vars(Drain) /\ SF_vars(FinishPoll(next))

Spec == Init /\ [][Next]_vars /\ Fairness

-----------------------------------------------------------------------------
TypeOK ==
  /\ mailbox \in Seq(Bundle) /\ Len(mailbox) <= Capacity
  /\ connected \in BOOLEAN /\ ingress_disconnected \in BOOLEAN /\ polling \in BOOLEAN
  /\ DOMAIN pending \subseteq Ordinal /\ \A o \in DOMAIN pending : pending[o] \in Input
  /\ next \in Ordinal
  /\ protocol_failure \in Failure /\ answer \in Answer
  /\ played \in Seq(Input)
  /\ DOMAIN script \subseteq Ordinal /\ \A o \in DOMAIN script : script[o] \in Input
  /\ strayed \in BOOLEAN /\ sent \in 0..MaxSent

\* The window holds only ordinals the next Capacity polls will ask for, so it
\* never outgrows its capacity however long the producer floods one drain.
WindowBounded ==
  /\ DOMAIN pending \subseteq next..(next + Capacity - 1)
  /\ Len(played) = next - First

\* The bounded mailbox and window reject nobody who keeps the lockstep: the
\* ingress fails only after the producer broke the protocol.
OnlyStraysFail == protocol_failure # "none" => strayed

\* A poll reports the ingress gone only when the bundle it wants was never
\* submitted: what was still in the mailbox at the time has been seen.
DisconnectedIsFinal ==
  answer = "Disconnected" => ~connected /\ next \notin DOMAIN script

\* The polls consume the script of first submissions in order, whatever the
\* interleaving of the threads, and nothing after the ingress has failed.
L == INSTANCE LockstepInput WITH ended <- protocol_failure # "none"
ImplementsLockstep == L!Spec

\* A script that is complete up to an ordinal is played up to it, unless the
\* ingress fails; the very last ordinal is never given out.
Complete(o) == First..o \subseteq DOMAIN script
ScriptIsPlayed ==
  \A o \in First..(MaxOrdinal - 1) :
    Complete(o) ~> (Len(played) > o - First \/ protocol_failure # "none")
=============================================================================
