------------------------------ MODULE DpcStream ------------------------------
(***************************************************************************)
(* What the DPC command port promises, renderer transactions left out: a   *)
(* range of commands is taken at one instant, or not at all, and what the  *)
(* guest does in between is not undone.  DpcPort implements this.          *)
(***************************************************************************)
EXTENDS Integers

CONSTANTS Addr, Mode, NoTail

VARIABLES
  regs,    \* [start, end, current, status]: status without the busy flags
  tail,    \* NoTail, or the command the port waits to see the end of
  stream   \* [origin, fed, replayed]: what of the open stream was decoded
vars == <<regs, tail, stream>>

Range(s, e) == {a \in Addr : s <= a /\ a < e}

NewStream(s) == [origin |-> s, fed |-> {}, replayed |-> FALSE]

\* The stream after the units s..e-1 reach the decoder.
Fed(st, s, e) ==
  [st EXCEPT !.fed = @ \cup Range(s, e),
             !.replayed = @ \/ Range(s, e) \cap st.fed # {}]

Init ==
  /\ regs = [start |-> 0, end |-> 0, current |-> 0, status |-> {}]
  /\ tail = NoTail
  /\ stream = NewStream(0)

\* XBUS and FREEZE change at any time, under a transaction or not.
SetModes ==
  /\ \E modes \in SUBSET Mode : regs' = [regs EXCEPT !.status = (@ \ Mode) \cup modes]
  /\ UNCHANGED <<tail, stream>>

\* START is held until an END uses it; it abandons a tail.
LatchStart ==
  /\ "START_VALID" \notin regs.status
  /\ \E a \in Addr : regs' = [regs EXCEPT !.start = a, !.status = @ \cup {"START_VALID"}]
  /\ tail' = NoTail
  /\ UNCHANGED stream

\* The registers with the range s..e exposed.
Exposed(s, e, now, status) ==
  /\ regs'.start \in {regs.start, s}
  /\ regs'.end = e
  /\ regs'.current = now
  /\ regs'.status = status

\* A range exposed while frozen, or an empty one, is not decoded yet.
Expose ==
  \E s, e \in Addr :
     /\ "FREEZE" \in regs.status \/ s = e
     /\ Exposed(s, e, s, (regs.status \ {"START_VALID"}) \ {"XBUS"})
          \/ Exposed(s, e, s, (regs.status \ {"START_VALID"}) \cup {"XBUS"})
     /\ stream' \in {stream, NewStream(s)}
     /\ UNCHANGED tail

\* A range decoded as a whole, with the tail it resumed.
Consume ==
  \E s, e \in Addr, modes \in SUBSET {"XBUS"} :
     /\ s < e
     /\ Exposed(s, e, e, (regs.status \ {"START_VALID", "XBUS"}) \cup modes)
     /\ stream' \in {Fed(stream, s, e), Fed(NewStream(s), s, e)}
     /\ tail' \in {tail, NoTail}

\* A range that ends inside a command: the port waits at that command.
Stall ==
  \E s, e \in Addr, modes \in SUBSET {"XBUS"} :
     /\ tail' # NoTail
     /\ s <= tail'.at /\ tail'.at < e /\ tail'.end = e
     /\ Exposed(s, e, tail'.at, (regs.status \ {"START_VALID", "XBUS"}) \cup modes)
     /\ stream' \in {stream, NewStream(s)}

\* A finished RSP task leaves the registers it programmed.
Reprogram ==
  /\ \E s, e \in Addr, now \in Addr, modes \in SUBSET Mode :
        /\ now \in {s, e} \/ <<s, e, now>> = <<regs.start, regs.end, regs.current>>
        /\ regs' = [start |-> s, end |-> e, current |-> now,
                    status |-> (regs.status \ Mode) \cup modes]
  /\ stream' = NewStream(regs'.current)
  /\ UNCHANGED tail

Next == SetModes \/ LatchStart \/ Expose \/ Consume \/ Stall \/ Reprogram

Spec == Init /\ [][Next]_vars
=============================================================================
