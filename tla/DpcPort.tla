------------------------------- MODULE DpcPort -------------------------------
(***************************************************************************)
(* The RDP command port of the device fabric: START, END, CURRENT and      *)
(* STATUS, one renderer transaction at a time, and the command left        *)
(* half exposed by an END write.                                           *)
(*                                                                         *)
(* Addresses count the 8-byte units END moves by.  Command bytes are left  *)
(* out: all that matters of a command is how many units it needs, and the  *)
(* memory behind a range may hold any commands when the port reads it.     *)
(***************************************************************************)
EXTENDS Integers, Sequences

CONSTANTS
  Limit,        \* [Source -> Nat]: the size of RDRAM and of DMEM
  MaxUnits,     \* the longest command
  MaxTokens,    \* bound: transactions
  MaxBatch,     \* bound: ranges of one RSP task
  Session,      \* the values RAW_DPC_SESSION's registration may have
  NoSubmission, NoTail

Source == {"Rdram", "Dmem"}
Mode == {"XBUS", "FREEZE"}       \* FLUSH is stored and read back only
Busy == {"END_VALID", "DMA_BUSY", "CMD_BUSY"}
Flag == Mode \cup Busy \cup {"START_VALID"}
Lane == {"cpu", "rsp", "batch", "member"}
Addr == 0..(IF Limit["Rdram"] > Limit["Dmem"] THEN Limit["Rdram"] ELSE Limit["Dmem"])

Registers == [start : Addr, end : Addr, current : Addr, status : SUBSET Flag]
Truncated ==
  {t \in [source : Source, at : Addr, end : Addr, needs : 1..MaxUnits] :
     t.at < t.end /\ t.end < t.at + t.needs /\ t.end <= Limit[t.source]}
Submission ==
  {p \in [source : Source, start : Addr, end : Addr, lane : Lane, opens : BOOLEAN,
          tail : Truncated \cup {NoTail}, rollback : Registers, early : BOOLEAN] :
     p.end <= Limit[p.source]}
Ranges == [source : Source, start : Addr, end : Addr]

ASSUME LimitAssumption ==
  /\ Limit \in [Source -> Nat]
  /\ MaxUnits \in Nat \ {0} /\ MaxTokens \in Nat /\ MaxBatch \in Nat
  /\ Session \subseteq BOOLEAN
ASSUME NoneAssumption == NoSubmission \notin Submission /\ NoTail \notin Truncated

VARIABLES
  dpc,        \* DpcRegisters
  pending,    \* pending_dpc: the transaction the renderer works on
  stalled,    \* stalled_dpc: the truncated command and what was exposed of it
  batch,      \* the ranges of an RSP task reserved and not yet activated
  session,    \* a raw-DPC session is registered
  issued,     \* tokens issued
  stream      \* history: [origin, fed, replayed], what the renderer was given
port == <<dpc, pending, stalled, batch>>
vars == <<port, session, issued, stream>>

\* The registers with nothing under way: what a rejection would restore.
Idle(regs) == [regs EXCEPT !.status = @ \ Busy]
Settled == Idle(IF pending = NoSubmission THEN dpc ELSE pending.rollback)

Stream == INSTANCE DpcStream WITH regs <- Settled, tail <- stalled

-----------------------------------------------------------------------------
SourceOf(status) == IF "XBUS" \in status THEN "Dmem" ELSE "Rdram"

WithSource(status, src) == IF src = "Dmem" THEN status \cup {"XBUS"} ELSE status \ {"XBUS"}

\* apply_dpc_status_mode_commands
ModeCommand == [clear : SUBSET Mode, set : SUBSET Mode]
Commanded(status, cmd) == (status \ cmd.clear) \cup cmd.set

\* validate_dpc_range
ValidRange(src, s, e) == s < e /\ e <= Limit[src]

\* The stream once a range that starts at s is exposed.
Opened(opens, s) == IF opens THEN Stream!NewStream(s) ELSE stream

\* The guest runs when no transaction is open, and while a worker renders the
\* first range of a batch; every other transaction ends within the call.
GuestRuns ==
  IF pending = NoSubmission THEN batch = <<>> ELSE pending.lane = "batch"

\* install_dpc_submission
Install(regs, p) ==
  /\ dpc' = [regs EXCEPT !.status = (@ \ {"START_VALID"}) \cup Busy]
  /\ pending' = p

\* begin_dpc_submission, or nothing yet while FREEZE holds: `regs` are the
\* registers with the range exposed, `before` what a rejection restores.
BeginUnlessFrozen(regs, before, lane, opens, tail) ==
  IF "FREEZE" \in regs.status
  THEN /\ dpc' = regs
       /\ stream' = Opened(opens, regs.current)
       /\ UNCHANGED <<pending, issued>>
  ELSE /\ issued < MaxTokens
       /\ issued' = issued + 1
       /\ Install(regs,
            [source |-> SourceOf(regs.status), start |-> regs.current, end |-> regs.end,
             lane |-> lane, opens |-> opens, tail |-> tail, rollback |-> before,
             early |-> FALSE])
       /\ UNCHANGED stream

-----------------------------------------------------------------------------
Init ==
  /\ dpc = [start |-> 0, end |-> 0, current |-> 0, status |-> {}]
  /\ pending = NoSubmission
  /\ stalled = NoTail
  /\ batch = <<>>
  /\ session \in Session
  /\ issued = 0
  /\ stream = Stream!NewStream(0)

\* Mutant: START is latched under an open transaction too.
LatchAnyTime(a) ==
  /\ GuestRuns
  /\ "START_VALID" \notin dpc.status
  /\ stalled' = NoTail
  /\ dpc' = [dpc EXCEPT !.start = a, !.status = @ \cup {"START_VALID"}]
  /\ UNCHANGED <<pending, batch, session, issued, stream>>

\* DPC_START_REG: kept until END uses it; a second write is ignored.
WriteStart(a) ==
  /\ GuestRuns /\ pending = NoSubmission
  /\ "START_VALID" \notin dpc.status
  /\ stalled' = NoTail
  /\ dpc' = [dpc EXCEPT !.start = a, !.status = @ \cup {"START_VALID"}]
  /\ UNCHANGED <<pending, batch, session, issued, stream>>

\* DPC_END_REG with a stalled command: the range restarts at that command.
ExtendTail(e) ==
  /\ stalled # NoTail
  /\ SourceOf(dpc.status) = stalled.source
  /\ "START_VALID" \notin dpc.status
  /\ ValidRange(stalled.source, stalled.end, e)
  /\ BeginUnlessFrozen([dpc EXCEPT !.end = e, !.current = stalled.at], dpc, "cpu", FALSE, stalled)

\* DPC_END_REG otherwise: from START if one is latched, else from CURRENT.
ExposeFrom(s, e, opens) ==
  LET regs == [dpc EXCEPT !.end = e, !.current = s, !.status = @ \ {"START_VALID"}]
  IN  \/ /\ s = e
         /\ dpc' = regs
         /\ stream' = Opened(opens, s)
         /\ UNCHANGED <<pending, issued>>
      \/ /\ ValidRange(SourceOf(dpc.status), s, e)
         /\ BeginUnlessFrozen(regs, dpc, "cpu", opens, NoTail)

ExposeRange(e) ==
  /\ stalled = NoTail
  /\ \/ "START_VALID" \in dpc.status /\ ExposeFrom(dpc.start, e, TRUE)
     \/ "START_VALID" \notin dpc.status /\ ExposeFrom(dpc.current, e, FALSE)

WriteEnd(e) ==
  /\ GuestRuns /\ pending = NoSubmission
  /\ ExtendTail(e) \/ ExposeRange(e)
  /\ UNCHANGED <<stalled, batch, session>>

\* Mutant: a mode command leaves the rollback alone.
NotMirrored(p, cmd) == p

\* A mode command reaches what a rejection will restore.
Mirrored(p, cmd) ==
  IF p = NoSubmission THEN p ELSE [p EXCEPT !.rollback.status = Commanded(@, cmd)]

\* DPC_STATUS_REG: modes; releasing FREEZE submits what was exposed under it.
WriteStatus(cmd) ==
  LET status == Commanded(dpc.status, cmd)
      resume == IF stalled = NoTail THEN dpc.current ELSE stalled.at
      regs   == [dpc EXCEPT !.status = status]
      Resumes == /\ "FREEZE" \in dpc.status /\ "FREEZE" \notin status
                 /\ pending = NoSubmission
                 /\ resume < dpc.end
  IN  /\ GuestRuns
      /\ \/ /\ Resumes
            /\ stalled # NoTail => stalled.source = SourceOf(status)
            /\ ValidRange(SourceOf(status), resume, dpc.end)
            /\ BeginUnlessFrozen([regs EXCEPT !.current = resume], regs, "cpu", FALSE, stalled)
         \/ /\ ~Resumes
            /\ dpc' = regs
            /\ pending' = Mirrored(pending, cmd)
            /\ UNCHANGED <<issued, stream>>
      /\ UNCHANGED <<stalled, batch, session>>

\* The registers a range submitted as a whole leaves.
Requested(src, s, e) ==
  [start |-> s, end |-> e, current |-> s,
   status |-> WithSource(dpc.status, src) \ {"START_VALID"}]

\* request_dpc_submission, by osDpSetNextBuffer ("cpu", then dispatched like an
\* END) and by the ranges an RSP task captured ("rsp").
Request(lane, src, s, e) ==
  /\ GuestRuns /\ pending = NoSubmission
  /\ lane = "cpu" => src = "Rdram"
  /\ ValidRange(src, s, e)
  /\ BeginUnlessFrozen(Requested(src, s, e), dpc, lane, TRUE, NoTail)
  /\ UNCHANGED <<stalled, batch, session>>

\* activate_reserved_dpc_submission; its callers do not accept a frozen port.
Activate(r, lane, early) ==
  LET regs == Requested(r.source, r.start, r.end)
  IN  /\ ValidRange(r.source, r.start, r.end)
      /\ "FREEZE" \notin dpc.status
      /\ pending' =
           [source |-> r.source, start |-> r.start, end |-> r.end, lane |-> lane,
            opens |-> TRUE, tail |-> NoTail, rollback |-> dpc, early |-> early]
      /\ dpc' = [regs EXCEPT !.status =
                   (@ \cup Busy) \ (IF early THEN {"DMA_BUSY"} ELSE {})]

\* A task's ranges are reserved, the first is activated and a worker takes it;
\* with the hand-off the command DMA may be declared done.
StartBatch(ranges, early) ==
  /\ session
  /\ GuestRuns /\ pending = NoSubmission
  /\ \A i \in DOMAIN ranges : ValidRange(ranges[i].source, ranges[i].start, ranges[i].end)
  /\ issued + Len(ranges) <= MaxTokens
  /\ issued' = issued + Len(ranges)
  /\ Activate(Head(ranges), "batch", early)
  /\ batch' = Tail(ranges)
  /\ UNCHANGED <<stalled, session, stream>>

\* The host joins the worker: each member is activated once its predecessor
\* committed.
NextMember ==
  /\ pending = NoSubmission /\ batch # <<>>
  /\ Activate(Head(batch), "member", FALSE)
  /\ batch' = Tail(batch)
  /\ UNCHANGED <<stalled, session, issued, stream>>
-----------------------------------------------------------------------------
\* Does the range end with a whole command?  What follows the command it
\* resumes may be anything, so only that command can tell.
MayBeWhole(p) == p.tail # NoTail => p.start + p.tail.needs <= p.end

\* The command the range may break off in (RawRdpScan::Incomplete).
BreaksOff(p, t) ==
  /\ t.source = p.source /\ t.end = p.end
  /\ p.start <= t.at
  /\ p.tail # NoTail =>
       (t.at >= p.start + p.tail.needs \/ (t.at = p.start /\ t.needs = p.tail.needs))

\* park_incomplete_raw_dpc: nothing of the range is dispatched, CURRENT waits
\* at the truncated command and the port stays busy.
Park(t) ==
  /\ pending # NoSubmission /\ pending.lane = "cpu"
  /\ BreaksOff(pending, t)
  /\ dpc' = [dpc EXCEPT !.current = t.at, !.end = pending.end]
  /\ stalled' = t
  /\ pending' = NoSubmission
  /\ stream' = Opened(pending.opens, pending.start)
  /\ UNCHANGED <<batch, session, issued>>

\* prepare_dpc_commit's checks 3 to 5 and 6; failing them is a panic.
AdmissionHolds(p, regs) ==
  /\ regs.current = p.start /\ regs.end = p.end
  /\ {"END_VALID", "CMD_BUSY"} \cup (IF p.early THEN {} ELSE {"DMA_BUSY"}) \subseteq regs.status
RollbackInOrder(r) == r.start <= r.current /\ r.current <= r.end

\* Mutant: the tail a transaction resumed stays.
CommitKeepsTail ==
  /\ pending # NoSubmission
  /\ pending.lane = "cpu" => MayBeWhole(pending)
  /\ dpc' = [dpc EXCEPT !.current = pending.end, !.status = @ \ Busy]
  /\ pending' = NoSubmission
  /\ stream' = Stream!Fed(Opened(pending.opens, pending.start), pending.start, pending.end)
  /\ UNCHANGED <<stalled, batch, session, issued>>

\* commit_dpc_submission, and with a session ReadyDpcFabricCommit::commit.
Commit ==
  /\ pending # NoSubmission
  /\ pending.lane = "cpu" => MayBeWhole(pending)
  /\ session => (AdmissionHolds(pending, dpc) /\ RollbackInOrder(pending.rollback))
  /\ dpc' = [dpc EXCEPT !.current = pending.end, !.status = @ \ Busy]
  /\ stalled' = IF session THEN stalled ELSE NoTail
  /\ pending' = NoSubmission
  /\ stream' = Stream!Fed(Opened(pending.opens, pending.start), pending.start, pending.end)
  /\ UNCHANGED <<batch, session, issued>>

\* Mutant: a rejection leaves the port idle.
CancelToIdle ==
  /\ pending # NoSubmission
  /\ dpc' = Idle(pending.rollback)
  /\ pending' = NoSubmission
  /\ batch' = <<>>
  /\ UNCHANGED <<stalled, session, issued, stream>>

\* cancel_dpc_submission: the renderer rejected the range, or unwound.
Cancel ==
  /\ pending # NoSubmission
  /\ dpc' = pending.rollback
  /\ pending' = NoSubmission
  /\ batch' = <<>>
  /\ UNCHANGED <<stalled, session, issued, stream>>

\* commit_complete_rsp_execution_state: an RSP task leaves the DPC registers
\* as its START, END and STATUS writes left the interpreter's; after a START
\* CURRENT is START, after an END it is END.
RspCommit(s, e, now, modes) ==
  /\ GuestRuns /\ pending = NoSubmission
  /\ now \in {s, e} \/ <<s, e, now>> = <<dpc.start, dpc.end, dpc.current>>
  /\ dpc' = [start |-> s, end |-> e, current |-> now, status |-> (dpc.status \ Mode) \cup modes]
  /\ stream' = Stream!NewStream(now)
  /\ UNCHANGED <<pending, stalled, batch, session, issued>>

Next ==
  \/ \E a \in Addr : WriteStart(a) \/ WriteEnd(a)
  \/ \E cmd \in ModeCommand : WriteStatus(cmd)
  \/ \E lane \in {"cpu", "rsp"}, src \in Source, s, e \in Addr : Request(lane, src, s, e)
  \/ \E n \in 1..MaxBatch : \E ranges \in [1..n -> Ranges], early \in BOOLEAN :
        StartBatch(ranges, early)
  \/ NextMember
  \/ \E t \in Truncated : Park(t)
  \/ Commit
  \/ Cancel
  \/ \E s, e, now \in Addr, modes \in SUBSET Mode : RspCommit(s, e, now, modes)

Spec == Init /\ [][Next]_vars

-----------------------------------------------------------------------------
TypeOK ==
  /\ dpc \in Registers
  /\ pending \in Submission \cup {NoSubmission}
  /\ stalled \in Truncated \cup {NoTail}
  /\ batch \in Seq(Ranges)
  /\ session \in Session
  /\ issued \in 0..MaxTokens
  /\ stream \in [origin : Addr, fed : SUBSET Addr, replayed : BOOLEAN]

\* What prepare_dpc_commit takes to be unreachable: while a transaction is
\* open, no write of the guest, of an RSP task or of the port itself moves
\* CURRENT or END off the admitted range, drops a busy flag the renderer still
\* owes, or latches a START.
HeldRange ==
  pending # NoSubmission =>
    /\ ValidRange(pending.source, pending.start, pending.end)
    /\ AdmissionHolds(pending, dpc)
    /\ "START_VALID" \notin dpc.status

\* Without a session, no command of a stream is decoded twice, however END
\* writes cut it, whatever is parked, frozen, rejected or submitted whole by
\* libultra or the RSP in between.
LegacyFedOnce == ~session => ~stream.replayed

\* Without a session the guest sees a busy DP for as long as the port waits for
\* the rest of a command, also after the renderer rejected an extension.
StalledIsBusy == ~session /\ stalled # NoTail => Busy \subseteq dpc.status

\* A transaction takes effect at one instant or not at all: rejecting it
\* restores START, END, CURRENT, START_VALID and the tail, and does not undo the
\* modes the guest set while it was open.
TakenAtOnce == Stream!Spec

-----------------------------------------------------------------------------
(***************************************************************************)
(* What the code's comments and tests say and the code does not do.        *)
(***************************************************************************)
\* With or without a session, no command of a stream is decoded twice
\* ("an unchanged END must not replay the range").
FedOnce == ~stream.replayed

\* CURRENT moves only past commands the renderer was given ("the prefix before
\* it is whole and its completion result stands").
NothingSkipped ==
  pending = NoSubmission =>
    \A a \in Addr : stream.origin <= a /\ a < dpc.current => a \in stream.fed

\* The registers a rejection would restore are always in order, so that
\* prepare_dpc_commit's last check never fails ("can never occur on a real
\* fabric").
RollbackConsistent ==
  session /\ pending # NoSubmission => RollbackInOrder(pending.rollback)
=============================================================================
