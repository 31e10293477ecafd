------------------------------ MODULE DmaQueue ------------------------------
(***************************************************************************)
(* What the PI promises to whoever starts a transfer, in whichever way: an *)
(* accepted transfer moves its bytes exactly once, is over only after they *)
(* moved, and transfers are over in the order they were accepted; a reset  *)
(* forgets what was accepted, and such a transfer moves nothing any more.  *)
(***************************************************************************)
EXTENDS Naturals, Sequences, SequencesExt

CONSTANT Transfer

VARIABLES queue,   \* accepted and not over, oldest first
          landed,  \* whose bytes have moved, in that order
          over     \* which are over, in that order

vars == <<queue, landed, over>>

Known == ToSet(queue) \cup ToSet(landed) \cup ToSet(over)

Init == queue = <<>> /\ landed = <<>> /\ over = <<>>

\* The bytes may move at once, or later when the transfer is at the head.
Accept(t) ==
  /\ t \notin Known
  /\ queue' = Append(queue, t)
  /\ landed' \in {landed, Append(landed, t)}
  /\ UNCHANGED over

Land ==
  /\ queue # <<>> /\ Head(queue) \notin ToSet(landed)
  /\ landed' = Append(landed, Head(queue))
  /\ UNCHANGED <<queue, over>>

Finish ==
  /\ queue # <<>> /\ Head(queue) \in ToSet(landed)
  /\ over' = Append(over, Head(queue))
  /\ queue' = Tail(queue)
  /\ UNCHANGED landed

Reset == queue' = <<>> /\ UNCHANGED <<landed, over>>

Next == (\E t \in Transfer : Accept(t)) \/ Land \/ Finish \/ Reset

Spec == Init /\ [][Next]_vars
=============================================================================
