---------------------------- MODULE LockstepInput ----------------------------
(***************************************************************************)
(* What delayed lockstep promises the simulation (fn64-runtime,            *)
(* multiplayer.rs): the polls consume one script of inputs, ordinal by     *)
(* ordinal, and the script is settled by what was submitted first for each *)
(* ordinal.  Threads, mailbox and reorder window do not appear here, so    *)
(* they have no say in what the simulation sees.                           *)
(***************************************************************************)
EXTENDS Integers, Sequences

CONSTANTS First,    \* the session's first poll ordinal
          Ordinal,  \* the ordinals explored
          Input     \* what the players may have pressed

VARIABLES script,   \* ordinal -> the input submitted first for it
          played,   \* the inputs handed out, from First on
          ended     \* the session has failed; nothing more is handed out
vars == <<script, played, ended>>

Init ==
  /\ script = [o \in {} |-> First]
  /\ played = <<>>
  /\ ended = FALSE

Submit(o, i) ==
  /\ o \notin DOMAIN script
  /\ script' = [p \in DOMAIN script \cup {o} |-> IF p = o THEN i ELSE script[p]]
  /\ UNCHANGED <<played, ended>>

Play ==
  /\ ~ended
  /\ First + Len(played) \in DOMAIN script
  /\ played' = Append(played, script[First + Len(played)])
  /\ UNCHANGED <<script, ended>>

End == ~ended /\ ended' = TRUE /\ UNCHANGED <<script, played>>

Next == (\E o \in Ordinal, i \in Input : Submit(o, i)) \/ Play \/ End

Spec == Init /\ [][Next]_vars
=============================================================================
