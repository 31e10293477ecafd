---------------------------- MODULE DpcPortProofs ----------------------------
(***************************************************************************)
(* What DpcPort keeps for every size of RDRAM and DMEM, every command      *)
(* length and any number of transactions.                                  *)
(***************************************************************************)
EXTENDS DpcPort, TLAPS

-----------------------------------------------------------------------------
(***************************************************************************)
(* Facts about single operators.                                           *)
(***************************************************************************)
\* Addresses are naturals, and a valid range lies among them.
LEMMA RangeFacts ==
  /\ Addr \subseteq Nat /\ 0 \in Addr
  /\ \A src \in Source : Limit[src] \in Nat /\ Limit[src] \in Addr
  /\ \A src \in Source, s \in Addr, e \in Nat : ValidRange(src, s, e) => e \in Addr
  BY LimitAssumption DEF Addr, Source, ValidRange

\* A status names one source, and mode commands touch the modes alone.
LEMMA StatusFacts ==
  ASSUME NEW status \in SUBSET Flag
  PROVE  /\ SourceOf(status) \in Source
         /\ SourceOf(status \ {"START_VALID"}) = SourceOf(status)
         /\ \A src \in Source :
              /\ WithSource(status, src) \in SUBSET Flag
              /\ SourceOf(WithSource(status, src) \ {"START_VALID"}) = src
         /\ \A cmd \in ModeCommand :
              /\ Commanded(status, cmd) \in SUBSET Flag
              /\ Commanded(status, cmd) \cap (Flag \ Mode) = status \cap (Flag \ Mode)
  BY DEF SourceOf, WithSource, Commanded, ModeCommand, Flag, Mode, Busy, Source

\* The stream stays a stream.
LEMMA StreamFacts ==
  ASSUME NEW st \in [origin : Addr, fed : SUBSET Addr, replayed : BOOLEAN],
         NEW s \in Addr, NEW e \in Addr
  PROVE  /\ Stream!NewStream(s) \in [origin : Addr, fed : SUBSET Addr, replayed : BOOLEAN]
         /\ Stream!Fed(st, s, e) \in [origin : Addr, fed : SUBSET Addr, replayed : BOOLEAN]
  BY DEF Stream!NewStream, Stream!Fed, Stream!Range

\* What begin_dpc_submission leaves is well formed.
LEMMA BeginTypes ==
  ASSUME TypeOK,
         NEW regs \in Registers, NEW before \in Registers, NEW lane \in Lane,
         NEW opens \in BOOLEAN, NEW tail \in Truncated \cup {NoTail},
         regs.end <= Limit[SourceOf(regs.status)],
         BeginUnlessFrozen(regs, before, lane, opens, tail)
  PROVE  /\ dpc' \in Registers
         /\ pending' \in Submission \cup {NoSubmission}
         /\ "FREEZE" \notin regs.status => pending' # NoSubmission
         /\ issued' \in 0..MaxTokens
         /\ stream' \in [origin : Addr, fed : SUBSET Addr, replayed : BOOLEAN]
<1>1. SourceOf(regs.status) \in Source
  BY StatusFacts DEF Registers
<1>2. CASE "FREEZE" \in regs.status
  <2>1. dpc' = regs /\ pending' = pending /\ issued' = issued
    BY <1>2 DEF BeginUnlessFrozen
  <2>2. stream' = Opened(opens, regs.current) /\ regs.current \in Addr
    BY <1>2 DEF BeginUnlessFrozen, Registers
  <2>3. stream' \in [origin : Addr, fed : SUBSET Addr, replayed : BOOLEAN]
    BY <2>2, StreamFacts DEF TypeOK, Opened
  <2> QED
    BY <1>2, <2>1, <2>3 DEF TypeOK
<1>3. CASE "FREEZE" \notin regs.status
  <2>1. dpc' \in Registers
    BY <1>3 DEF BeginUnlessFrozen, Install, Registers, Flag
  <2>2. pending' \in Submission
    <3>1. regs.current \in Addr /\ regs.end \in Addr
      BY DEF Registers
    <3>2. pending' =
            [source |-> SourceOf(regs.status), start |-> regs.current, end |-> regs.end,
             lane |-> lane, opens |-> opens, tail |-> tail, rollback |-> before,
             early |-> FALSE]
      BY <1>3 DEF BeginUnlessFrozen, Install
    <3> QED
      BY <1>1, <3>1, <3>2 DEF Submission
  <2>3. issued' \in 0..MaxTokens
    BY <1>3, LimitAssumption DEF BeginUnlessFrozen, TypeOK
  <2> QED
    BY <1>3, <2>1, <2>2, <2>3, NoneAssumption DEF BeginUnlessFrozen, TypeOK
<1> QED
  BY <1>2, <1>3

-----------------------------------------------------------------------------
(***************************************************************************)
(* Type correctness.                                                       *)
(***************************************************************************)
\* The boot state is typed, and every handler keeps it so.
LEMMA TypeInit == Init => TypeOK
  BY RangeFacts, LimitAssumption, StreamFacts
  DEF Init, TypeOK, Registers, Flag, Stream!NewStream

\* Every step keeps the types, one case per action.
LEMMA TypeStep == TypeOK /\ [Next]_vars => TypeOK'
<1> SUFFICES ASSUME TypeOK, [Next]_vars PROVE TypeOK'
  OBVIOUS
<1> USE RangeFacts
<1>1. ASSUME NEW a \in Addr, WriteStart(a) PROVE TypeOK'
  BY <1>1 DEF WriteStart, TypeOK, Registers, Flag
<1>2. ASSUME NEW a \in Addr, WriteEnd(a) PROVE TypeOK'
  <2>1. CASE ExtendTail(a)
    <3> DEFINE regs == [dpc EXCEPT !.end = a, !.current = stalled.at]
    <3>1. stalled \in Truncated /\ stalled.at \in Addr /\ regs \in Registers
      BY <2>1 DEF ExtendTail, TypeOK, Truncated, Registers
    <3>2. regs.end <= Limit[SourceOf(regs.status)]
      BY <2>1, <3>1 DEF ExtendTail, ValidRange, TypeOK, Registers
    <3> QED
      BY <1>2, <2>1, <3>1, <3>2, BeginTypes DEF WriteEnd, ExtendTail, TypeOK, Lane
  <2>2. ASSUME NEW s \in Addr, NEW opens \in BOOLEAN, ExposeFrom(s, a, opens) PROVE TypeOK'
    <3> DEFINE regs == [dpc EXCEPT !.end = a, !.current = s, !.status = @ \ {"START_VALID"}]
    <3>1. regs \in Registers
      BY DEF TypeOK, Registers
    <3>2. CASE s = a /\ dpc' = regs /\ stream' = Opened(opens, s) /\ UNCHANGED <<pending, issued>>
      BY <1>2, <3>1, <3>2, StreamFacts DEF WriteEnd, TypeOK, Opened
    <3>3. CASE ValidRange(SourceOf(dpc.status), s, a) /\ BeginUnlessFrozen(regs, dpc, "cpu", opens, NoTail)
      <4>1. regs.end <= Limit[SourceOf(regs.status)]
        BY <3>3, StatusFacts DEF ValidRange, TypeOK, Registers
      <4> QED
        BY <1>2, <3>1, <3>3, <4>1, BeginTypes DEF WriteEnd, TypeOK, Lane
    <3> QED
      BY <2>2, <3>2, <3>3 DEF ExposeFrom
  <2>3. CASE ExposeRange(a)
    BY <2>2, <2>3 DEF ExposeRange, TypeOK, Registers
  <2> QED
    BY <1>2, <2>1, <2>3 DEF WriteEnd
<1>3. ASSUME NEW cmd \in ModeCommand, WriteStatus(cmd) PROVE TypeOK'
  <2> DEFINE status == Commanded(dpc.status, cmd)
             resume == IF stalled = NoTail THEN dpc.current ELSE stalled.at
             regs   == [dpc EXCEPT !.status = status]
  <2>1. resume \in Addr /\ regs \in Registers /\ [regs EXCEPT !.current = resume] \in Registers
    BY StatusFacts DEF TypeOK, Registers, Truncated
  <2>2. CASE /\ ValidRange(SourceOf(status), resume, dpc.end)
             /\ BeginUnlessFrozen([regs EXCEPT !.current = resume], regs, "cpu", FALSE, stalled)
    <3>1. [regs EXCEPT !.current = resume].end <= Limit[SourceOf([regs EXCEPT !.current = resume].status)]
      BY <2>1, <2>2 DEF ValidRange, TypeOK, Registers
    <3> QED
      BY <1>3, <2>1, <2>2, <3>1, BeginTypes DEF WriteStatus, TypeOK, Lane
  <2>3. CASE /\ dpc' = regs
             /\ pending' = Mirrored(pending, cmd)
             /\ UNCHANGED <<issued, stream>>
    <3>1. pending' \in Submission \cup {NoSubmission}
      <4>1. CASE pending = NoSubmission
        BY <2>3, <4>1 DEF Mirrored
      <4>2. CASE pending # NoSubmission
        <5>1. pending \in Submission
          BY <4>2 DEF TypeOK
        <5>2. Commanded(pending.rollback.status, cmd) \in SUBSET Flag
          BY <5>1, StatusFacts DEF Submission, Registers
        <5> QED
          BY <2>3, <4>2, <5>1, <5>2 DEF Mirrored, Submission, Registers
      <4> QED
        BY <4>1, <4>2
    <3> QED
      BY <1>3, <2>1, <2>3, <3>1 DEF WriteStatus, TypeOK
  <2> QED
    BY <1>3, <2>2, <2>3 DEF WriteStatus
<1>4. ASSUME NEW lane \in {"cpu", "rsp"}, NEW src \in Source, NEW s \in Addr, NEW e \in Addr,
             Request(lane, src, s, e)
      PROVE TypeOK'
  <2>1. Requested(src, s, e) \in Registers
    BY StatusFacts DEF Requested, TypeOK, Registers
  <2>2. Requested(src, s, e).end <= Limit[SourceOf(Requested(src, s, e).status)]
    BY <1>4, StatusFacts DEF Request, Requested, ValidRange, TypeOK, Registers
  <2> QED
    BY <1>4, <2>1, <2>2, BeginTypes DEF Request, TypeOK, Lane
<1>5. ASSUME NEW r \in Ranges, NEW lane \in Lane, NEW early \in BOOLEAN,
             Activate(r, lane, early)
      PROVE  dpc' \in Registers /\ pending' \in Submission
  <2>1. Requested(r.source, r.start, r.end) \in Registers
    BY StatusFacts DEF Requested, TypeOK, Registers, Ranges
  <2>2. dpc' \in Registers
    BY <1>5, <2>1 DEF Activate, Registers, Flag, Busy
  <2>3. pending' \in Submission
    BY <1>5 DEF Activate, Submission, Ranges, ValidRange, TypeOK
  <2> QED
    BY <2>2, <2>3
<1>6. ASSUME NEW n \in 1..MaxBatch, NEW ranges \in [1..n -> Ranges], NEW early \in BOOLEAN,
             StartBatch(ranges, early)
      PROVE TypeOK'
  <2>1. ranges \in Seq(Ranges) /\ ranges # <<>> /\ Len(ranges) \in Nat
    BY LimitAssumption
  <2>2. Head(ranges) \in Ranges /\ Tail(ranges) \in Seq(Ranges) /\ Head(ranges) = ranges[1]
    BY <2>1
  <2>3. issued' \in 0..MaxTokens
    BY <1>6, <2>1, LimitAssumption DEF StartBatch, TypeOK
  <2> QED
    BY <1>5, <1>6, <2>2, <2>3 DEF StartBatch, TypeOK, Lane
<1>7. ASSUME NextMember PROVE TypeOK'
  <2>1. Head(batch) \in Ranges /\ Tail(batch) \in Seq(Ranges)
    BY <1>7 DEF NextMember, TypeOK
  <2> QED
    BY <1>5, <1>7, <2>1 DEF NextMember, TypeOK, Lane
<1>8. ASSUME NEW t \in Truncated, Park(t) PROVE TypeOK'
  <2>1. pending \in Submission /\ pending.start \in Addr /\ pending.end \in Addr /\ t.at \in Addr
    BY <1>8 DEF Park, TypeOK, Submission, Truncated
  <2> QED
    BY <1>8, <2>1, StreamFacts DEF Park, TypeOK, Registers, Opened
<1>9. ASSUME Commit PROVE TypeOK'
  <2>1. pending \in Submission /\ pending.start \in Addr /\ pending.end \in Addr
    BY <1>9 DEF Commit, TypeOK, Submission
  <2>2. Opened(pending.opens, pending.start) \in [origin : Addr, fed : SUBSET Addr, replayed : BOOLEAN]
    BY <2>1, StreamFacts DEF TypeOK, Opened
  <2> QED
    BY <1>9, <2>1, <2>2, StreamFacts DEF Commit, TypeOK, Registers
<1>10. ASSUME Cancel PROVE TypeOK'
  BY <1>10 DEF Cancel, TypeOK, Submission
<1>11. ASSUME NEW s \in Addr, NEW e \in Addr, NEW now \in Addr, NEW modes \in SUBSET Mode,
              RspCommit(s, e, now, modes)
       PROVE TypeOK'
  BY <1>11, StreamFacts DEF RspCommit, TypeOK, Registers, Flag
<1>12. ASSUME UNCHANGED vars PROVE TypeOK'
  BY <1>12 DEF vars, port, TypeOK
<1> QED
  BY <1>1, <1>2, <1>3, <1>4, <1>6, <1>7, <1>8, <1>9, <1>10, <1>11, <1>12 DEF Next

\* Registers, transaction, tail, batch and stream keep their types: no range of
\* a transaction and no tail ever ends outside the memory it is read from.
THEOREM PortTypeCorrect == Spec => []TypeOK
  BY TypeInit, TypeStep, PTL DEF Spec

-----------------------------------------------------------------------------
(***************************************************************************)
(* An open transaction keeps its range.                                    *)
(***************************************************************************)
\* The flags of a transaction, as install_dpc_submission sets them.
LEMMA BeginHolds ==
  ASSUME NEW regs \in Registers, NEW before, NEW lane, NEW opens, NEW tail,
         HeldRange, pending = NoSubmission,
         ValidRange(SourceOf(regs.status), regs.current, regs.end),
         BeginUnlessFrozen(regs, before, lane, opens, tail)
  PROVE  HeldRange'
<1>1. CASE "FREEZE" \in regs.status
  BY <1>1 DEF BeginUnlessFrozen, HeldRange
<1>2. CASE "FREEZE" \notin regs.status
  BY <1>2 DEF BeginUnlessFrozen, Install, HeldRange, AdmissionHolds, ValidRange, Registers, Busy
<1> QED
  BY <1>1, <1>2

\* No handler disturbs the range of an open transaction.
LEMMA HeldStep == TypeOK /\ HeldRange /\ [Next]_vars => HeldRange'
<1> SUFFICES ASSUME TypeOK, HeldRange, [Next]_vars PROVE HeldRange'
  OBVIOUS
<1> USE RangeFacts
<1>0. dpc \in Registers
  BY DEF TypeOK
<1>1. ASSUME NEW a \in Addr, WriteStart(a) PROVE HeldRange'
  BY <1>1 DEF WriteStart, HeldRange
<1>2. ASSUME NEW a \in Addr, WriteEnd(a) PROVE HeldRange'
  <2>1. CASE ExtendTail(a)
    <3> DEFINE regs == [dpc EXCEPT !.end = a, !.current = stalled.at]
    <3>1. /\ stalled \in Truncated /\ stalled.at \in Addr /\ regs \in Registers
          /\ regs.status = dpc.status /\ regs.current = stalled.at /\ regs.end = a
      BY <2>1 DEF ExtendTail, TypeOK, Truncated, Registers
    <3>2. ValidRange(SourceOf(regs.status), regs.current, regs.end)
      BY <2>1, <3>1 DEF ExtendTail, ValidRange, Truncated
    <3> QED
      BY <1>2, <2>1, <3>1, <3>2, BeginHolds DEF WriteEnd, ExtendTail
  <2>2. ASSUME NEW s \in Addr, NEW opens \in BOOLEAN, ExposeFrom(s, a, opens) PROVE HeldRange'
    <3> DEFINE regs == [dpc EXCEPT !.end = a, !.current = s, !.status = @ \ {"START_VALID"}]
    <3>1. CASE s = a /\ dpc' = regs /\ stream' = Opened(opens, s) /\ UNCHANGED <<pending, issued>>
      BY <1>2, <3>1 DEF WriteEnd, HeldRange
    <3>2. CASE ValidRange(SourceOf(dpc.status), s, a) /\ BeginUnlessFrozen(regs, dpc, "cpu", opens, NoTail)
      <4>1. regs \in Registers /\ regs.current = s /\ regs.end = a
        BY <1>0 DEF Registers
      <4>2. SourceOf(regs.status) = SourceOf(dpc.status)
        BY <1>0, StatusFacts DEF Registers
      <4> QED
        BY <1>2, <3>2, <4>1, <4>2, BeginHolds DEF WriteEnd
    <3> QED
      BY <2>2, <3>1, <3>2 DEF ExposeFrom
  <2>3. CASE ExposeRange(a)
    BY <1>0, <2>2, <2>3 DEF ExposeRange, Registers
  <2> QED
    BY <1>2, <2>1, <2>3 DEF WriteEnd
<1>3. ASSUME NEW cmd \in ModeCommand, WriteStatus(cmd) PROVE HeldRange'
  <2> DEFINE status == Commanded(dpc.status, cmd)
             resume == IF stalled = NoTail THEN dpc.current ELSE stalled.at
             regs   == [dpc EXCEPT !.status = status]
  <2>1. CASE /\ pending = NoSubmission
             /\ ValidRange(SourceOf(status), resume, dpc.end)
             /\ BeginUnlessFrozen([regs EXCEPT !.current = resume], regs, "cpu", FALSE, stalled)
    <3>1. resume \in Addr
      BY <1>0 DEF TypeOK, Registers, Truncated
    <3>2. [regs EXCEPT !.current = resume] \in Registers
      BY <1>0, <3>1, StatusFacts DEF Registers
    <3>3. ValidRange(SourceOf([regs EXCEPT !.current = resume].status),
                     [regs EXCEPT !.current = resume].current, [regs EXCEPT !.current = resume].end)
      BY <1>0, <2>1 DEF Registers
    <3> QED
      BY <2>1, <3>2, <3>3, BeginHolds
  <2>2. CASE /\ dpc' = regs
             /\ pending' = Mirrored(pending, cmd)
    <3>1. SUFFICES ASSUME pending' # NoSubmission PROVE HeldRange'
      BY DEF HeldRange
    <3>2. pending # NoSubmission /\ pending \in Submission
      BY <2>2, <3>1 DEF Mirrored, TypeOK
    <3>3. /\ pending'.start = pending.start /\ pending'.end = pending.end
          /\ pending'.source = pending.source /\ pending'.early = pending.early
      BY <2>2, <3>2 DEF Mirrored, Submission
    <3>4. /\ dpc'.current = dpc.current /\ dpc'.end = dpc.end
          /\ dpc'.status = Commanded(dpc.status, cmd)
      BY <1>0, <2>2 DEF Registers
    <3>5. dpc'.status \cap (Flag \ Mode) = dpc.status \cap (Flag \ Mode)
      BY <1>0, <3>4, StatusFacts DEF Registers
    <3>6. /\ \A f \in Busy \cup {"START_VALID"} : f \in dpc'.status <=> f \in dpc.status
      BY <3>5 DEF Flag, Mode, Busy
    <3> QED
      BY <3>2, <3>3, <3>4, <3>6 DEF HeldRange, AdmissionHolds, Busy, ValidRange
  <2> QED
    BY <1>3, <2>1, <2>2 DEF WriteStatus
<1>4. ASSUME NEW lane \in {"cpu", "rsp"}, NEW src \in Source, NEW s \in Addr, NEW e \in Addr,
             Request(lane, src, s, e)
      PROVE HeldRange'
  <2>1. Requested(src, s, e) \in Registers
    BY <1>0, StatusFacts DEF Requested, Registers
  <2>2. ValidRange(SourceOf(Requested(src, s, e).status),
                   Requested(src, s, e).current, Requested(src, s, e).end)
    BY <1>0, <1>4, StatusFacts DEF Request, Requested, Registers
  <2> QED
    BY <1>4, <2>1, <2>2, BeginHolds DEF Request
<1>5. ASSUME NEW r \in Ranges, NEW lane \in Lane, NEW early \in BOOLEAN, Activate(r, lane, early)
      PROVE  HeldRange'
  BY <1>5 DEF Activate, Requested, HeldRange, AdmissionHolds, ValidRange, Busy
<1>6. ASSUME NEW n \in 1..MaxBatch, NEW ranges \in [1..n -> Ranges], NEW early \in BOOLEAN,
             StartBatch(ranges, early)
      PROVE HeldRange'
  <2>1. ranges \in Seq(Ranges) /\ ranges # <<>>
    BY LimitAssumption
  <2>2. Head(ranges) \in Ranges
    BY <2>1
  <2> QED
    BY <1>5, <1>6, <2>2 DEF StartBatch, Lane
<1>7. ASSUME NextMember PROVE HeldRange'
  <2>1. Head(batch) \in Ranges
    BY <1>7 DEF NextMember, TypeOK
  <2> QED
    BY <1>5, <1>7, <2>1 DEF NextMember, Lane
<1>8. ASSUME pending' = NoSubmission PROVE HeldRange'
  BY <1>8 DEF HeldRange
<1>9. ASSUME NEW s \in Addr, NEW e \in Addr, NEW now \in Addr, NEW modes \in SUBSET Mode,
             RspCommit(s, e, now, modes)
      PROVE HeldRange'
  BY <1>9 DEF RspCommit, HeldRange
<1>10. ASSUME UNCHANGED vars PROVE HeldRange'
  BY <1>10 DEF vars, port, HeldRange, AdmissionHolds
<1> QED
  BY <1>1, <1>2, <1>3, <1>4, <1>6, <1>7, <1>8, <1>9, <1>10 DEF Next, Park, Commit, Cancel

\* While a transaction is open nothing moves CURRENT or END off the admitted
\* range, drops a flag the renderer owes or latches a START: what
\* prepare_dpc_commit panics on (its checks 3 to 5) is out of reach.
THEOREM OpenRangeHeld == Spec => []HeldRange
<1>1. Init => HeldRange
  BY DEF Init, HeldRange
<1> QED
  BY <1>1, HeldStep, PortTypeCorrect, PTL DEF Spec

-----------------------------------------------------------------------------
(***************************************************************************)
(* Without a session: a port that waits for the rest of a command is busy, *)
(* and no command is decoded twice.                                        *)
(***************************************************************************)
\* What a rejection restores while a command is parked is busy too, and only a
\* batch, which needs a session, is done with its DMA early.
ParkedIsBusy ==
  ~session =>
    /\ batch = <<>>
    /\ stalled # NoTail => Busy \subseteq dpc.status
    /\ pending # NoSubmission =>
         /\ ~pending.early
         /\ stalled # NoTail => Busy \subseteq pending.rollback.status

\* Everything decoded lies below the address the next range starts from: below
\* CURRENT, below the parked command, and below what a rejection restores.
Below(a) == \A x \in stream.fed : x < a

FedBehind ==
  ~session =>
    /\ ~stream.replayed
    /\ stalled # NoTail => Below(stalled.at)
    /\ pending = NoSubmission => Below(dpc.current)
    /\ pending # NoSubmission =>
         /\ Below(pending.rollback.current)
         /\ ~pending.opens => Below(pending.start)

\* Writing a status back with its modes changed leaves the busy flags alone.
LEMMA BusyKept ==
  ASSUME NEW status \in SUBSET Flag, Busy \subseteq status
  PROVE  /\ \A cmd \in ModeCommand : Busy \subseteq Commanded(status, cmd)
         /\ \A src \in Source : Busy \subseteq WithSource(status, src) \ {"START_VALID"}
         /\ \A modes \in SUBSET Mode : Busy \subseteq (status \ Mode) \cup modes
         /\ Busy \subseteq status \ {"START_VALID"}
         /\ Busy \subseteq status \cup {"START_VALID"}
  BY DEF Busy, Mode, ModeCommand, Commanded, WithSource

\* A range frozen or begun while a command is parked leaves the port busy, if
\* the registers it starts from and the ones it would restore are.
LEMMA BeginParkedIsBusy ==
  ASSUME NEW regs \in Registers, NEW before \in Registers, NEW lane, NEW opens, NEW tail,
         ParkedIsBusy, pending = NoSubmission,
         ~session /\ stalled # NoTail => Busy \subseteq regs.status /\ Busy \subseteq before.status,
         BeginUnlessFrozen(regs, before, lane, opens, tail),
         UNCHANGED <<stalled, batch, session>>
  PROVE  ParkedIsBusy'
<1>1. CASE "FREEZE" \in regs.status
  BY <1>1 DEF BeginUnlessFrozen, ParkedIsBusy
<1>2. CASE "FREEZE" \notin regs.status
  <2>1. dpc'.status = (regs.status \ {"START_VALID"}) \cup Busy
    BY <1>2 DEF BeginUnlessFrozen, Install, Registers
  <2>2. pending'.rollback = before /\ pending'.early = FALSE
    BY <1>2 DEF BeginUnlessFrozen, Install
  <2> QED
    BY <2>1, <2>2 DEF ParkedIsBusy
<1> QED
  BY <1>1, <1>2

\* No handler makes a port with a parked command look idle.
LEMMA ParkedIsBusyStep == TypeOK /\ HeldRange /\ ParkedIsBusy /\ [Next]_vars => ParkedIsBusy'
<1> SUFFICES ASSUME TypeOK, HeldRange, ParkedIsBusy, [Next]_vars PROVE ParkedIsBusy'
  OBVIOUS
<1>0. dpc \in Registers
  BY DEF TypeOK
<1>1. ASSUME NEW a \in Addr, WriteStart(a) PROVE ParkedIsBusy'
  BY <1>1 DEF WriteStart, ParkedIsBusy
<1>2. ASSUME NEW a \in Addr, WriteEnd(a) PROVE ParkedIsBusy'
  <2>1. CASE ExtendTail(a)
    <3> DEFINE regs == [dpc EXCEPT !.end = a, !.current = stalled.at]
    <3>1. regs \in Registers /\ regs.status = dpc.status
      BY <1>0, <2>1 DEF ExtendTail, TypeOK, Truncated, Registers
    <3> QED
      BY <1>0, <1>2, <2>1, <3>1, BeginParkedIsBusy DEF WriteEnd, ExtendTail, ParkedIsBusy
  <2>2. CASE ExposeRange(a)
    <3>1. stalled' = NoTail /\ pending = NoSubmission /\ UNCHANGED <<batch, session>>
      BY <1>2, <2>2 DEF WriteEnd, ExposeRange
    <3>2. ASSUME NEW s, NEW opens, ExposeFrom(s, a, opens)
          PROVE  pending' = NoSubmission \/ pending'.early = FALSE
      <4>1. CASE pending' = pending
        BY <3>1, <4>1
      <4>2. ASSUME NEW regs, BeginUnlessFrozen(regs, dpc, "cpu", opens, NoTail)
            PROVE  pending' = pending \/ pending'.early = FALSE
        BY <4>2 DEF BeginUnlessFrozen, Install
      <4> QED
        BY <3>2, <4>1, <4>2 DEF ExposeFrom
    <3>3. pending' = NoSubmission \/ pending'.early = FALSE
      BY <2>2, <3>2 DEF ExposeRange
    <3> QED
      BY <3>1, <3>3 DEF ParkedIsBusy
  <2> QED
    BY <1>2, <2>1, <2>2 DEF WriteEnd
<1>3. ASSUME NEW cmd \in ModeCommand, WriteStatus(cmd) PROVE ParkedIsBusy'
  <2> DEFINE status == Commanded(dpc.status, cmd)
             resume == IF stalled = NoTail THEN dpc.current ELSE stalled.at
             regs   == [dpc EXCEPT !.status = status]
  <2>0. UNCHANGED <<stalled, batch, session>>
    BY <1>3 DEF WriteStatus
  <2>1. resume \in Addr /\ regs \in Registers /\ regs.status = status
    BY <1>0, StatusFacts DEF TypeOK, Registers, Truncated
  <2>2. ~session /\ stalled # NoTail => Busy \subseteq status
    BY <1>0, BusyKept DEF ParkedIsBusy, Registers
  <2>3. CASE /\ pending = NoSubmission
             /\ BeginUnlessFrozen([regs EXCEPT !.current = resume], regs, "cpu", FALSE, stalled)
    <3>1. /\ [regs EXCEPT !.current = resume] \in Registers
          /\ [regs EXCEPT !.current = resume].status = status
      BY <2>1 DEF Registers
    <3> QED
      BY <2>0, <2>1, <2>2, <2>3, <3>1, BeginParkedIsBusy
  <2>4. CASE dpc' = regs /\ pending' = Mirrored(pending, cmd)
    <3>1. CASE pending = NoSubmission
      BY <2>0, <2>1, <2>2, <2>4, <3>1 DEF Mirrored, ParkedIsBusy
    <3>2. CASE pending # NoSubmission
      <4>1. pending \in Submission /\ pending.rollback \in Registers
        BY <3>2 DEF TypeOK, Submission
      <4>2. /\ pending' # NoSubmission => pending'.early = pending.early
            /\ pending'.rollback.status = Commanded(pending.rollback.status, cmd)
        BY <2>4, <3>2, <4>1 DEF Mirrored, Submission, Registers
      <4>3. ~session /\ stalled # NoTail => Busy \subseteq pending'.rollback.status
        <5>1. pending.rollback.status \in SUBSET Flag
          BY <4>1 DEF Registers
        <5>2. ~session /\ stalled # NoTail => Busy \subseteq pending.rollback.status
          BY <3>2 DEF ParkedIsBusy
        <5>3. ASSUME Busy \subseteq pending.rollback.status
              PROVE  Busy \subseteq Commanded(pending.rollback.status, cmd)
          BY <5>1, <5>3, BusyKept
        <5> QED
          BY <4>2, <5>2, <5>3
      <4> QED
        BY <2>0, <2>1, <2>2, <2>4, <3>2, <4>2, <4>3 DEF ParkedIsBusy
    <3> QED
      BY <3>1, <3>2
  <2> QED
    BY <1>3, <2>3, <2>4 DEF WriteStatus
<1>4. ASSUME NEW lane \in {"cpu", "rsp"}, NEW src \in Source, NEW s \in Addr, NEW e \in Addr,
             Request(lane, src, s, e)
      PROVE ParkedIsBusy'
  <2>1. Requested(src, s, e) \in Registers
    BY <1>0, StatusFacts DEF Requested, Registers
  <2>2. ~session /\ stalled # NoTail =>
          Busy \subseteq Requested(src, s, e).status /\ Busy \subseteq dpc.status
    BY <1>0, <1>4, BusyKept DEF Request, Requested, ParkedIsBusy, Registers
  <2> QED
    BY <1>0, <1>4, <2>1, <2>2, BeginParkedIsBusy DEF Request
<1>5. ASSUME session, UNCHANGED session PROVE ParkedIsBusy'
  BY <1>5 DEF ParkedIsBusy
<1>6. ASSUME NEW n \in 1..MaxBatch, NEW ranges \in [1..n -> Ranges], NEW early \in BOOLEAN,
             StartBatch(ranges, early)
      PROVE ParkedIsBusy'
  BY <1>5, <1>6 DEF StartBatch
<1>7. ASSUME NextMember PROVE ParkedIsBusy'
  <2>1. session
    BY <1>7 DEF NextMember, ParkedIsBusy
  <2> QED
    BY <1>5, <1>7, <2>1 DEF NextMember
<1>8. ASSUME NEW t \in Truncated, Park(t) PROVE ParkedIsBusy'
  <2>1. dpc'.status = dpc.status
    BY <1>0, <1>8 DEF Park, Registers
  <2>2. ~session => Busy \subseteq dpc.status
    BY <1>8 DEF Park, ParkedIsBusy, HeldRange, AdmissionHolds, Busy
  <2> QED
    BY <1>8, <2>1, <2>2 DEF Park, ParkedIsBusy
<1>9. ASSUME Commit PROVE ParkedIsBusy'
  BY <1>9 DEF Commit, ParkedIsBusy
<1>10. ASSUME Cancel PROVE ParkedIsBusy'
  BY <1>10 DEF Cancel, ParkedIsBusy
<1>11. ASSUME NEW s \in Addr, NEW e \in Addr, NEW now \in Addr, NEW modes \in SUBSET Mode,
              RspCommit(s, e, now, modes)
       PROVE ParkedIsBusy'
  <2>1. dpc'.status = (dpc.status \ Mode) \cup modes
    BY <1>11 DEF RspCommit
  <2>2. ~session /\ stalled # NoTail => Busy \subseteq dpc'.status
    BY <1>0, <2>1, BusyKept DEF ParkedIsBusy, Registers
  <2> QED
    BY <1>11, <2>2 DEF RspCommit, ParkedIsBusy
<1>12. ASSUME UNCHANGED vars PROVE ParkedIsBusy'
  BY <1>12 DEF vars, port, ParkedIsBusy
<1> QED
  BY <1>1, <1>2, <1>3, <1>4, <1>6, <1>7, <1>8, <1>9, <1>10, <1>11, <1>12 DEF Next

\* Without a session the guest sees a busy DP for as long as a command is
\* parked: no rejection, mode command or RSP task makes the port look idle.
THEOREM ParkedPortBusy == Spec => []StalledIsBusy
<1>1. Init => ParkedIsBusy
  BY DEF Init, ParkedIsBusy
<1>2. ParkedIsBusy => StalledIsBusy
  BY DEF ParkedIsBusy, StalledIsBusy
<1> QED
  BY <1>1, <1>2, ParkedIsBusyStep, PortTypeCorrect, OpenRangeHeld, PTL DEF Spec

\* A range taken to be frozen or begun keeps what was decoded behind it, if it
\* opens a stream or starts behind nothing decoded.
LEMMA BeginFedBehind ==
  ASSUME TypeOK,
         NEW regs \in Registers, NEW before \in Registers, NEW lane \in Lane,
         NEW opens \in BOOLEAN, NEW tail \in Truncated \cup {NoTail},
         regs.end <= Limit[SourceOf(regs.status)],
         FedBehind, pending = NoSubmission,
         before.current = dpc.current,
         ~session /\ ~opens => Below(regs.current),
         BeginUnlessFrozen(regs, before, lane, opens, tail),
         UNCHANGED <<stalled, session>>
  PROVE  FedBehind'
<1>1. CASE "FREEZE" \in regs.status
  <2>1. dpc' = regs /\ pending' = NoSubmission /\ stream' = Opened(opens, regs.current)
    BY <1>1 DEF BeginUnlessFrozen
  <2>2. CASE opens
    <3>1. stream'.fed = {} /\ ~stream'.replayed
      BY <2>1, <2>2 DEF Opened, Stream!NewStream
    <3> QED
      BY <2>1, <3>1 DEF FedBehind, Below
  <2>3. CASE ~opens
    BY <2>1, <2>3 DEF Opened, FedBehind, Below
  <2> QED
    BY <2>2, <2>3
<1>2. CASE "FREEZE" \notin regs.status
  <2>1. /\ pending'.rollback = before /\ pending'.opens = opens
        /\ pending'.start = regs.current /\ stream' = stream
    BY <1>2 DEF BeginUnlessFrozen, Install
  <2>2. pending' # NoSubmission
    BY <1>2, BeginTypes
  <2> QED
    BY <2>1, <2>2 DEF FedBehind, Below
<1> QED
  BY <1>1, <1>2

\* No handler lets the next range start before what was decoded.
LEMMA FedBehindStep ==
  TypeOK /\ HeldRange /\ ParkedIsBusy /\ FedBehind /\ [Next]_vars => FedBehind'
<1> SUFFICES ASSUME TypeOK, HeldRange, ParkedIsBusy, FedBehind, [Next]_vars PROVE FedBehind'
  OBVIOUS
<1> USE RangeFacts
<1>0. dpc \in Registers /\ "cpu" \in Lane /\ "rsp" \in Lane /\ NoTail \in Truncated \cup {NoTail}
  BY DEF TypeOK, Lane
<1>1. ASSUME NEW a \in Addr, WriteStart(a) PROVE FedBehind'
  BY <1>0, <1>1 DEF WriteStart, FedBehind, Below, Registers
<1>2. ASSUME NEW a \in Addr, WriteEnd(a) PROVE FedBehind'
  <2>1. pending = NoSubmission /\ UNCHANGED <<stalled, session>>
    BY <1>2 DEF WriteEnd
  <2>2. CASE ExtendTail(a)
    <3> DEFINE regs == [dpc EXCEPT !.end = a, !.current = stalled.at]
    <3>1. /\ stalled \in Truncated /\ stalled.at \in Addr /\ regs \in Registers
          /\ regs.status = dpc.status /\ regs.current = stalled.at /\ regs.end = a
      BY <1>0, <2>2 DEF ExtendTail, TypeOK, Truncated, Registers
    <3>2. regs.end <= Limit[SourceOf(regs.status)]
      BY <2>2, <3>1 DEF ExtendTail, ValidRange
    <3>3. ~session => Below(regs.current)
      BY <2>2, <3>1 DEF ExtendTail, FedBehind
    <3>4. BeginUnlessFrozen(regs, dpc, "cpu", FALSE, stalled)
      BY <2>2 DEF ExtendTail
    <3> QED
      BY <1>0, <2>1, <3>1, <3>2, <3>3, <3>4, BeginFedBehind
  <2>3. ASSUME NEW s \in Addr, NEW opens \in BOOLEAN, stalled = NoTail,
               ~opens => s = dpc.current, ExposeFrom(s, a, opens)
        PROVE  FedBehind'
    <3> DEFINE regs == [dpc EXCEPT !.end = a, !.current = s, !.status = @ \ {"START_VALID"}]
    <3>1. regs \in Registers /\ regs.current = s /\ regs.end = a
      BY <1>0 DEF Registers
    <3>2. ~session /\ ~opens => Below(s)
      BY <2>1, <2>3 DEF FedBehind
    <3>3. CASE dpc' = regs /\ stream' = Opened(opens, s) /\ UNCHANGED <<pending, issued>>
      <4>1. CASE opens
        BY <2>1, <2>3, <3>1, <3>3, <4>1 DEF FedBehind, Below, Opened, Stream!NewStream
      <4>2. CASE ~opens
        BY <2>1, <2>3, <3>1, <3>2, <3>3, <4>2 DEF FedBehind, Below, Opened
      <4> QED
        BY <4>1, <4>2
    <3>4. CASE ValidRange(SourceOf(dpc.status), s, a) /\ BeginUnlessFrozen(regs, dpc, "cpu", opens, NoTail)
      <4>1. regs.end <= Limit[SourceOf(regs.status)]
        BY <1>0, <3>4, StatusFacts DEF ValidRange, Registers
      <4> QED
        BY <1>0, <2>1, <3>1, <3>2, <3>4, <4>1, BeginFedBehind
    <3> QED
      BY <2>3, <3>3, <3>4 DEF ExposeFrom
  <2>4. CASE ExposeRange(a)
    BY <1>0, <2>3, <2>4 DEF ExposeRange, Registers
  <2> QED
    BY <1>2, <2>2, <2>4 DEF WriteEnd
<1>3. ASSUME NEW cmd \in ModeCommand, WriteStatus(cmd) PROVE FedBehind'
  <2> DEFINE status == Commanded(dpc.status, cmd)
             resume == IF stalled = NoTail THEN dpc.current ELSE stalled.at
             regs   == [dpc EXCEPT !.status = status]
  <2>0. UNCHANGED <<stalled, session>> /\ stalled \in Truncated \cup {NoTail}
    BY <1>3 DEF WriteStatus, TypeOK
  <2>1. resume \in Addr /\ regs \in Registers /\ regs.current = dpc.current
    BY <1>0, StatusFacts DEF TypeOK, Registers, Truncated
  <2>2. CASE /\ pending = NoSubmission
             /\ ValidRange(SourceOf(status), resume, dpc.end)
             /\ BeginUnlessFrozen([regs EXCEPT !.current = resume], regs, "cpu", FALSE, stalled)
    <3>1. /\ [regs EXCEPT !.current = resume] \in Registers
          /\ [regs EXCEPT !.current = resume].current = resume
          /\ [regs EXCEPT !.current = resume].end <= Limit[SourceOf([regs EXCEPT !.current = resume].status)]
      BY <1>0, <2>1, <2>2 DEF ValidRange, Registers
    <3>2. ~session => Below(resume)
      BY <2>2 DEF FedBehind
    <3> QED
      BY <1>0, <2>0, <2>1, <2>2, <3>1, <3>2, BeginFedBehind
  <2>3. CASE dpc' = regs /\ pending' = Mirrored(pending, cmd) /\ UNCHANGED stream
    <3>1. CASE pending = NoSubmission
      BY <2>0, <2>1, <2>3, <3>1 DEF Mirrored, FedBehind, Below
    <3>2. CASE pending # NoSubmission
      <4>1. pending \in Submission /\ pending.rollback \in Registers
        BY <3>2 DEF TypeOK, Submission
      <4>2. /\ pending'.opens = pending.opens /\ pending'.start = pending.start
            /\ pending'.rollback.current = pending.rollback.current
        BY <2>3, <3>2, <4>1 DEF Mirrored, Submission, Registers
      <4>3. pending' \in Submission
        BY <2>3, <3>2, <4>1, StatusFacts DEF Mirrored, Submission, Registers
      <4> QED
        BY <2>0, <2>3, <3>2, <4>2, <4>3, NoneAssumption DEF FedBehind, Below
    <3> QED
      BY <3>1, <3>2
  <2> QED
    BY <1>3, <2>2, <2>3 DEF WriteStatus
<1>4. ASSUME NEW lane \in {"cpu", "rsp"}, NEW src \in Source, NEW s \in Addr, NEW e \in Addr,
             Request(lane, src, s, e)
      PROVE FedBehind'
  <2>1. Requested(src, s, e) \in Registers
    BY <1>0, StatusFacts DEF Requested, Registers
  <2>2. Requested(src, s, e).end <= Limit[SourceOf(Requested(src, s, e).status)]
    BY <1>0, <1>4, StatusFacts DEF Request, Requested, ValidRange, Registers
  <2> QED
    BY <1>0, <1>4, <2>1, <2>2, BeginFedBehind DEF Request, Lane
<1>5. ASSUME session, UNCHANGED session PROVE FedBehind'
  BY <1>5 DEF FedBehind
<1>6. ASSUME NEW n \in 1..MaxBatch, NEW ranges \in [1..n -> Ranges], NEW early \in BOOLEAN,
             StartBatch(ranges, early)
      PROVE FedBehind'
  BY <1>5, <1>6 DEF StartBatch
<1>7. ASSUME NextMember PROVE FedBehind'
  <2>1. session
    BY <1>7 DEF NextMember, ParkedIsBusy
  <2> QED
    BY <1>5, <1>7, <2>1 DEF NextMember
<1>8. ASSUME NEW t \in Truncated, Park(t) PROVE FedBehind'
  <2>1. pending \in Submission /\ pending.start <= t.at /\ t.at \in Addr /\ pending.start \in Addr
    BY <1>8 DEF Park, BreaksOff, TypeOK, Submission, Truncated
  <2>2. dpc'.current = t.at /\ stalled' = t /\ pending' = NoSubmission /\ UNCHANGED session
    BY <1>0, <1>8 DEF Park, Registers
  <2>3. stream' = Opened(pending.opens, pending.start) /\ pending.opens \in BOOLEAN
    BY <1>8, <2>1 DEF Park, Submission
  <2>4. CASE pending.opens
    BY <2>2, <2>3, <2>4 DEF Opened, Stream!NewStream, FedBehind, Below
  <2>5. CASE ~pending.opens
    <3>1. stream' = stream /\ (~session => ~stream.replayed /\ Below(pending.start))
      BY <1>8, <2>3, <2>5 DEF Opened, Park, FedBehind
    <3>2. \A x \in stream.fed : x \in Nat
      BY DEF TypeOK
    <3>3. pending.start \in Nat /\ t.at \in Nat
      BY <2>1
    <3>4. ~session => \A x \in stream.fed : x < t.at
      BY <2>1, <3>1, <3>2, <3>3 DEF Below
    <3> QED
      BY <2>2, <3>1, <3>4 DEF FedBehind, Below
  <2> QED
    BY <2>4, <2>5
<1>9. ASSUME Commit PROVE FedBehind'
  <2> DEFINE opened == Opened(pending.opens, pending.start)
  <2>1. /\ pending \in Submission /\ pending.start \in Addr /\ pending.end \in Addr
        /\ pending.start < pending.end /\ pending.opens \in BOOLEAN
    BY <1>9 DEF Commit, TypeOK, Submission, HeldRange, ValidRange
  <2>2. /\ dpc'.current = pending.end /\ pending' = NoSubmission
        /\ session' = session /\ (~session => stalled' = NoTail)
        /\ stream' = Stream!Fed(opened, pending.start, pending.end)
    BY <1>0, <1>9 DEF Commit, Registers
  <2>3. opened \in [origin : Addr, fed : SUBSET Addr, replayed : BOOLEAN]
    BY <2>1, StreamFacts DEF TypeOK, Opened
  <2>4. ~session => ~opened.replayed /\ \A x \in opened.fed : x < pending.start
    <3>1. CASE pending.opens
      BY <3>1 DEF Opened, Stream!NewStream
    <3>2. CASE ~pending.opens
      BY <1>9, <3>2 DEF Opened, Commit, FedBehind, Below
    <3> QED
      BY <3>1, <3>2
  <2>5. /\ stream'.fed = opened.fed \cup Stream!Range(pending.start, pending.end)
        /\ stream'.replayed <=>
             opened.replayed \/ Stream!Range(pending.start, pending.end) \cap opened.fed # {}
    BY <2>2, <2>3 DEF Stream!Fed
  <2>6. \A x \in Stream!Range(pending.start, pending.end) :
          x \in Nat /\ pending.start <= x /\ x < pending.end
    BY DEF Stream!Range
  <2>7. (\A x \in opened.fed : x \in Nat) /\ pending.start \in Nat /\ pending.end \in Nat
    BY <2>1, <2>3
  <2>8. ~session => ~stream'.replayed
    BY <2>1, <2>4, <2>5, <2>6, <2>7
  <2>9. ~session => \A x \in stream'.fed : x < pending.end
    BY <2>1, <2>4, <2>5, <2>6, <2>7
  <2> QED
    BY <2>2, <2>8, <2>9 DEF FedBehind, Below
<1>10. ASSUME Cancel PROVE FedBehind'
  BY <1>10 DEF Cancel, FedBehind, Below
<1>11. ASSUME NEW s \in Addr, NEW e \in Addr, NEW now \in Addr, NEW modes \in SUBSET Mode,
              RspCommit(s, e, now, modes)
       PROVE FedBehind'
  BY <1>11 DEF RspCommit, FedBehind, Below, Stream!NewStream
<1>12. ASSUME UNCHANGED vars PROVE FedBehind'
  BY <1>12 DEF vars, port, FedBehind, Below
<1> QED
  BY <1>1, <1>2, <1>3, <1>4, <1>6, <1>7, <1>8, <1>9, <1>10, <1>11, <1>12 DEF Next

\* Without a session no command of a stream is decoded twice, however END
\* writes cut the stream and whatever is parked, frozen, rejected or submitted
\* whole in between.
THEOREM CommandsOnce == Spec => []LegacyFedOnce
<1>1. Init => ParkedIsBusy /\ FedBehind
  BY DEF Init, ParkedIsBusy, FedBehind, Below, Stream!NewStream
<1>2. FedBehind => LegacyFedOnce
  BY DEF FedBehind, LegacyFedOnce
<1> QED
  BY <1>1, <1>2, ParkedIsBusyStep, FedBehindStep, PortTypeCorrect, OpenRangeHeld, PTL DEF Spec

-----------------------------------------------------------------------------
(***************************************************************************)
(* DpcPort implements DpcStream.                                           *)
(***************************************************************************)
Moved == Busy \cup {"START_VALID", "XBUS"}

\* A transaction changed no register its range does not determine, and the
\* guest's modes reached its rollback.
RollbackMatches ==
  pending # NoSubmission =>
    /\ dpc.start \in {pending.rollback.start, pending.start}
    /\ dpc.status \ Moved = pending.rollback.status \ Moved

\* A transaction begins with the registers it would restore, moved as far as its
\* range says.
LEMMA BeginRollbackMatches ==
  ASSUME NEW regs \in Registers, NEW before \in Registers, NEW lane, NEW opens, NEW tail,
         RollbackMatches, pending = NoSubmission,
         regs.start \in {before.start, regs.current},
         regs.status \ Moved = before.status \ Moved,
         BeginUnlessFrozen(regs, before, lane, opens, tail)
  PROVE  RollbackMatches'
<1>1. CASE "FREEZE" \in regs.status
  BY <1>1 DEF BeginUnlessFrozen, RollbackMatches
<1>2. CASE "FREEZE" \notin regs.status
  <2>1. /\ dpc'.start = regs.start
        /\ dpc'.status = (regs.status \ {"START_VALID"}) \cup Busy
        /\ pending'.rollback = before /\ pending'.start = regs.current
    BY <1>2 DEF BeginUnlessFrozen, Install, Registers
  <2>2. dpc'.status \ Moved = regs.status \ Moved
    BY <2>1 DEF Moved
  <2> QED
    BY <2>1, <2>2 DEF RollbackMatches
<1> QED
  BY <1>1, <1>2

\* No handler moves the registers away from what a rejection would restore.
LEMMA RollbackMatchesStep == TypeOK /\ RollbackMatches /\ [Next]_vars => RollbackMatches'
<1> SUFFICES ASSUME TypeOK, RollbackMatches, [Next]_vars PROVE RollbackMatches'
  OBVIOUS
<1>0. dpc \in Registers
  BY DEF TypeOK
<1>1. ASSUME NEW a \in Addr, WriteStart(a) PROVE RollbackMatches'
  BY <1>1 DEF WriteStart, RollbackMatches
<1>2. ASSUME NEW a \in Addr, WriteEnd(a) PROVE RollbackMatches'
  <2>1. CASE ExtendTail(a)
    <3> DEFINE regs == [dpc EXCEPT !.end = a, !.current = stalled.at]
    <3>1. regs \in Registers /\ regs.start = dpc.start /\ regs.status = dpc.status
      BY <1>0, <2>1 DEF ExtendTail, TypeOK, Truncated, Registers
    <3> QED
      BY <1>0, <1>2, <2>1, <3>1, BeginRollbackMatches DEF WriteEnd, ExtendTail
  <2>2. ASSUME NEW s \in Addr, NEW opens \in BOOLEAN, ExposeFrom(s, a, opens)
        PROVE  RollbackMatches'
    <3> DEFINE regs == [dpc EXCEPT !.end = a, !.current = s, !.status = @ \ {"START_VALID"}]
    <3>1. regs \in Registers /\ regs.start = dpc.start /\ regs.status = dpc.status \ {"START_VALID"}
      BY <1>0 DEF Registers
    <3>2. regs.status \ Moved = dpc.status \ Moved
      BY <3>1 DEF Moved
    <3>3. CASE pending' = pending
      BY <1>2, <3>3 DEF WriteEnd, RollbackMatches
    <3>4. CASE BeginUnlessFrozen(regs, dpc, "cpu", opens, NoTail)
      BY <1>0, <1>2, <3>1, <3>2, <3>4, BeginRollbackMatches DEF WriteEnd
    <3> QED
      BY <2>2, <3>3, <3>4 DEF ExposeFrom
  <2>3. CASE ExposeRange(a)
    BY <1>0, <2>2, <2>3 DEF ExposeRange, Registers
  <2> QED
    BY <1>2, <2>1, <2>3 DEF WriteEnd
<1>3. ASSUME NEW cmd \in ModeCommand, WriteStatus(cmd) PROVE RollbackMatches'
  <2> DEFINE status == Commanded(dpc.status, cmd)
             resume == IF stalled = NoTail THEN dpc.current ELSE stalled.at
             regs   == [dpc EXCEPT !.status = status]
  <2>1. regs \in Registers /\ regs.status = status /\ regs.start = dpc.start
    BY <1>0, StatusFacts DEF Registers
  <2>2. CASE /\ pending = NoSubmission
             /\ BeginUnlessFrozen([regs EXCEPT !.current = resume], regs, "cpu", FALSE, stalled)
    <3>1. /\ [regs EXCEPT !.current = resume] \in Registers
          /\ [regs EXCEPT !.current = resume].status = regs.status
          /\ [regs EXCEPT !.current = resume].start = regs.start
      BY <1>0, <2>1 DEF TypeOK, Registers, Truncated
    <3> QED
      BY <2>1, <2>2, <3>1, BeginRollbackMatches
  <2>3. CASE dpc' = regs /\ pending' = Mirrored(pending, cmd)
    <3>1. CASE pending = NoSubmission
      BY <2>3, <3>1 DEF Mirrored, RollbackMatches
    <3>2. CASE pending # NoSubmission
      <4>1. pending \in Submission /\ pending.rollback \in Registers
        BY <3>2 DEF TypeOK, Submission
      <4>2. /\ pending'.start = pending.start
            /\ pending'.rollback.start = pending.rollback.start
            /\ pending'.rollback.status = Commanded(pending.rollback.status, cmd)
        BY <2>3, <3>2, <4>1 DEF Mirrored, Submission, Registers
      <4>3. dpc'.start = dpc.start /\ dpc'.status = Commanded(dpc.status, cmd)
        BY <2>1, <2>3
      <4>4. Commanded(dpc.status, cmd) \ Moved = Commanded(pending.rollback.status, cmd) \ Moved
        <5>1. dpc.status \ Moved = pending.rollback.status \ Moved
          BY <3>2 DEF RollbackMatches
        <5> QED
          BY <5>1 DEF Commanded
      <4> QED
        BY <3>2, <4>2, <4>3, <4>4 DEF RollbackMatches
    <3> QED
      BY <3>1, <3>2
  <2> QED
    BY <1>3, <2>2, <2>3 DEF WriteStatus
<1>4. ASSUME NEW src \in Source, NEW s \in Addr, NEW e \in Addr
      PROVE  /\ Requested(src, s, e) \in Registers
             /\ Requested(src, s, e).start = s /\ Requested(src, s, e).current = s
             /\ Requested(src, s, e).status \ Moved = dpc.status \ Moved
  BY <1>0, StatusFacts DEF Requested, Registers, WithSource, Moved
<1>5. ASSUME NEW lane \in {"cpu", "rsp"}, NEW src \in Source, NEW s \in Addr, NEW e \in Addr,
             Request(lane, src, s, e)
      PROVE RollbackMatches'
  <2>1. /\ pending = NoSubmission
        /\ BeginUnlessFrozen(Requested(src, s, e), dpc, lane, TRUE, NoTail)
    BY <1>5 DEF Request
  <2>2. /\ Requested(src, s, e) \in Registers
        /\ Requested(src, s, e).start \in {dpc.start, Requested(src, s, e).current}
        /\ Requested(src, s, e).status \ Moved = dpc.status \ Moved
    BY <1>4
  <2> QED
    BY <1>0, <2>1, <2>2, BeginRollbackMatches
<1>6. ASSUME NEW r \in Ranges, NEW lane \in Lane, NEW early \in BOOLEAN, Activate(r, lane, early)
      PROVE  RollbackMatches'
  <2>1. r.source \in Source /\ r.start \in Addr /\ r.end \in Addr
    BY DEF Ranges
  <2>2. /\ dpc'.start = r.start /\ pending'.start = r.start /\ pending'.rollback = dpc
        /\ dpc'.status = (Requested(r.source, r.start, r.end).status \cup Busy)
                           \ (IF early THEN {"DMA_BUSY"} ELSE {})
    BY <1>4, <1>6, <2>1 DEF Activate, Registers
  <2>3. dpc'.status \ Moved = dpc.status \ Moved
    BY <1>4, <2>1, <2>2 DEF Moved, Busy
  <2> QED
    BY <2>2, <2>3 DEF RollbackMatches
<1>7. ASSUME NEW n \in 1..MaxBatch, NEW ranges \in [1..n -> Ranges], NEW early \in BOOLEAN,
             StartBatch(ranges, early)
      PROVE RollbackMatches'
  <2>1. ranges \in Seq(Ranges) /\ ranges # <<>>
    BY LimitAssumption
  <2>2. Head(ranges) \in Ranges
    BY <2>1
  <2> QED
    BY <1>6, <1>7, <2>2 DEF StartBatch, Lane
<1>8. ASSUME NextMember PROVE RollbackMatches'
  <2>1. Head(batch) \in Ranges
    BY <1>8 DEF NextMember, TypeOK
  <2> QED
    BY <1>6, <1>8, <2>1 DEF NextMember, Lane
<1>9. ASSUME pending' = NoSubmission PROVE RollbackMatches'
  BY <1>9 DEF RollbackMatches
<1>10. ASSUME NEW s \in Addr, NEW e \in Addr, NEW now \in Addr, NEW modes \in SUBSET Mode,
              RspCommit(s, e, now, modes)
       PROVE RollbackMatches'
  BY <1>9, <1>10 DEF RspCommit
<1>11. ASSUME UNCHANGED vars PROVE RollbackMatches'
  BY <1>11 DEF vars, port, RollbackMatches
<1> QED
  BY <1>1, <1>2, <1>3, <1>5, <1>7, <1>8, <1>9, <1>10, <1>11 DEF Next, Park, Commit, Cancel

\* A range changes the settled registers if FREEZE holds it back, and none of
\* them if its transaction is only begun.
LEMMA BeginRefines ==
  ASSUME TypeOK,
         NEW regs \in Registers, NEW before \in Registers, NEW lane \in Lane,
         NEW opens \in BOOLEAN, NEW tail \in Truncated \cup {NoTail},
         regs.end <= Limit[SourceOf(regs.status)],
         pending = NoSubmission,
         BeginUnlessFrozen(regs, before, lane, opens, tail),
         UNCHANGED stalled
  PROVE  /\ "FREEZE" \in regs.status =>
              /\ Settled' = Idle(regs)
              /\ stream' \in {stream, Stream!NewStream(regs.current)}
         /\ "FREEZE" \notin regs.status =>
              /\ Settled' = Idle(before)
              /\ UNCHANGED stream
<1>1. CASE "FREEZE" \in regs.status
  <2>1. dpc' = regs /\ pending' = NoSubmission /\ stream' = Opened(opens, regs.current)
    BY <1>1 DEF BeginUnlessFrozen
  <2> QED
    BY <1>1, <2>1 DEF Settled, Opened
<1>2. CASE "FREEZE" \notin regs.status
  <2>1. pending' # NoSubmission
    BY <1>2, BeginTypes
  <2>2. pending'.rollback = before /\ UNCHANGED stream
    BY <1>2 DEF BeginUnlessFrozen, Install
  <2> QED
    BY <1>2, <2>1, <2>2 DEF Settled
<1> QED
  BY <1>1, <1>2

\* A range exposed while frozen is DpcStream's Expose.
LEMMA ExposeRefines ==
  ASSUME NEW before \in Registers, NEW regs \in Registers, NEW src \in Source,
         "FREEZE" \in before.status \/ regs.current = regs.end,
         Settled = Idle(before),
         Settled' = Idle(regs),
         regs.start \in {before.start, regs.current},
         regs.status = WithSource(before.status, src) \ {"START_VALID"},
         stream' \in {stream, Stream!NewStream(regs.current)},
         UNCHANGED stalled
  PROVE  Stream!Expose
<1>1. /\ Settled.start = before.start /\ Settled.status = before.status \ Busy
      /\ Settled'.start = regs.start /\ Settled'.end = regs.end
      /\ Settled'.current = regs.current /\ Settled'.status = regs.status \ Busy
  BY DEF Registers, Idle
<1>2. regs.current \in Addr /\ regs.end \in Addr
  BY DEF Registers
<1>3. "FREEZE" \in Settled.status \/ regs.current = regs.end
  BY <1>1 DEF Busy
<1>4. \/ Settled'.status = (Settled.status \ {"START_VALID"}) \ {"XBUS"}
      \/ Settled'.status = (Settled.status \ {"START_VALID"}) \cup {"XBUS"}
  BY <1>1 DEF WithSource, Busy
<1>5. \/ Stream!Exposed(regs.current, regs.end, regs.current, (Settled.status \ {"START_VALID"}) \ {"XBUS"})
      \/ Stream!Exposed(regs.current, regs.end, regs.current, (Settled.status \ {"START_VALID"}) \cup {"XBUS"})
  BY <1>1, <1>4 DEF Stream!Exposed
<1> QED
  BY <1>2, <1>3, <1>5 DEF Stream!Expose

\* Every step of the port is one step of the promise, or none.
LEMMA PortStepRefines ==
  TypeOK /\ HeldRange /\ RollbackMatches /\ [Next]_vars => [Stream!Next]_(Stream!vars)
<1> SUFFICES ASSUME TypeOK, HeldRange, RollbackMatches, [Next]_vars
             PROVE  Stream!Next \/ UNCHANGED Stream!vars
  OBVIOUS
<1> USE RangeFacts
<1>0. dpc \in Registers /\ "cpu" \in Lane /\ "rsp" \in Lane /\ NoTail \in Truncated \cup {NoTail}
  BY DEF TypeOK, Lane
<1>1. ASSUME UNCHANGED <<stalled, stream>>, Settled' = Settled PROVE UNCHANGED Stream!vars
  BY <1>1 DEF Stream!vars
<1>2. pending = NoSubmission => Settled = Idle(dpc)
  BY DEF Settled
<1>3. ASSUME NEW a \in Addr, WriteStart(a) PROVE Stream!LatchStart
  <2>1. Settled' = [Settled EXCEPT !.start = a, !.status = @ \cup {"START_VALID"}]
    BY <1>0, <1>3 DEF WriteStart, Settled, Idle, Registers, Busy
  <2>2. "START_VALID" \notin Settled.status
    BY <1>0, <1>2, <1>3 DEF WriteStart, Idle, Registers
  <2> QED
    BY <1>3, <2>1, <2>2 DEF WriteStart, Stream!LatchStart
<1>4. ASSUME NEW src \in Source, NEW regs \in Registers, NEW lane \in Lane, NEW opens \in BOOLEAN,
             NEW tail \in Truncated \cup {NoTail},
             pending = NoSubmission, ValidRange(SourceOf(regs.status), regs.current, regs.end),
             BeginUnlessFrozen(regs, dpc, lane, opens, tail),
             regs.start \in {dpc.start, regs.current},
             regs.status = WithSource(dpc.status, src) \ {"START_VALID"},
             UNCHANGED stalled
      PROVE  Stream!Next \/ UNCHANGED Stream!vars
  <2>1. regs.end <= Limit[SourceOf(regs.status)]
    BY <1>4 DEF ValidRange
  <2>2. CASE "FREEZE" \in regs.status
    <3>1. "FREEZE" \in dpc.status
      BY <1>4, <2>2 DEF WithSource
    <3>2. /\ Settled' = Idle(regs)
          /\ stream' \in {stream, Stream!NewStream(regs.current)}
      BY <1>0, <1>4, <2>1, <2>2, BeginRefines
    <3>3. Stream!Expose
      BY <1>0, <1>2, <1>4, <3>1, <3>2, ExposeRefines
    <3> QED
      BY <3>3 DEF Stream!Next
  <2>3. CASE "FREEZE" \notin regs.status
    <3>1. Settled' = Idle(dpc) /\ UNCHANGED stream
      BY <1>0, <1>4, <2>1, <2>3, BeginRefines
    <3> QED
      BY <1>1, <1>2, <1>4, <3>1
  <2> QED
    BY <2>2, <2>3
<1>5. WithSource(dpc.status, SourceOf(dpc.status)) = dpc.status /\ SourceOf(dpc.status) \in Source
  BY <1>0 DEF WithSource, SourceOf, Registers, Source
<1>6. ASSUME NEW a \in Addr, WriteEnd(a) PROVE Stream!Next \/ UNCHANGED Stream!vars
  <2>0. pending = NoSubmission /\ UNCHANGED stalled
    BY <1>6 DEF WriteEnd
  <2>1. CASE ExtendTail(a)
    <3> DEFINE regs == [dpc EXCEPT !.end = a, !.current = stalled.at]
    <3>1. /\ stalled \in Truncated /\ regs \in Registers /\ regs.start = dpc.start
          /\ regs.status = dpc.status /\ regs.current = stalled.at /\ regs.end = a
      BY <1>0, <2>1 DEF ExtendTail, TypeOK, Truncated, Registers
    <3>2. ValidRange(SourceOf(regs.status), regs.current, regs.end)
      BY <2>1, <3>1 DEF ExtendTail, ValidRange, Truncated
    <3>3. regs.status = WithSource(dpc.status, SourceOf(dpc.status)) \ {"START_VALID"}
      BY <1>5, <2>1, <3>1 DEF ExtendTail
    <3>4. BeginUnlessFrozen(regs, dpc, "cpu", FALSE, stalled)
      BY <2>1 DEF ExtendTail
    <3> QED
      BY <1>0, <1>4, <1>5, <2>0, <3>1, <3>2, <3>3, <3>4
  <2>2. ASSUME NEW s \in Addr, NEW opens \in BOOLEAN, stalled = NoTail, ExposeFrom(s, a, opens)
        PROVE  Stream!Next \/ UNCHANGED Stream!vars
    <3> DEFINE regs == [dpc EXCEPT !.end = a, !.current = s, !.status = @ \ {"START_VALID"}]
    <3>1. /\ regs \in Registers /\ regs.current = s /\ regs.end = a /\ regs.start = dpc.start
          /\ regs.status = WithSource(dpc.status, SourceOf(dpc.status)) \ {"START_VALID"}
      BY <1>0, <1>5 DEF Registers
    <3>2. CASE s = a /\ dpc' = regs /\ stream' = Opened(opens, s) /\ UNCHANGED <<pending, issued>>
      <4>1. Settled' = Idle(regs)
        BY <2>0, <3>2 DEF Settled
      <4>2. stream' \in {stream, Stream!NewStream(s)}
        BY <3>2 DEF Opened
      <4>3. Stream!Expose
        BY <1>0, <1>2, <1>5, <2>0, <3>1, <3>2, <4>1, <4>2, ExposeRefines
      <4> QED
        BY <4>3 DEF Stream!Next
    <3>3. CASE ValidRange(SourceOf(dpc.status), s, a) /\ BeginUnlessFrozen(regs, dpc, "cpu", opens, NoTail)
      <4>1. SourceOf(regs.status) = SourceOf(dpc.status)
        BY <1>0, <1>5, <3>1, StatusFacts DEF Registers
      <4>2. ValidRange(SourceOf(regs.status), regs.current, regs.end)
        BY <3>1, <3>3, <4>1
      <4>3. regs.start \in {dpc.start, regs.current}
        BY <3>1
      <4>4. BeginUnlessFrozen(regs, dpc, "cpu", opens, NoTail)
        BY <3>3
      <4> HIDE DEF regs
      <4> QED
        BY <1>0, <1>4, <1>5, <2>0, <3>1, <4>2, <4>3, <4>4
    <3> QED
      BY <2>2, <3>2, <3>3 DEF ExposeFrom
  <2>3. CASE ExposeRange(a)
    BY <1>0, <2>2, <2>3 DEF ExposeRange, Registers
  <2> QED
    BY <1>6, <2>1, <2>3 DEF WriteEnd
<1>7. ASSUME NEW lane \in {"cpu", "rsp"}, NEW src \in Source, NEW s \in Addr, NEW e \in Addr,
             Request(lane, src, s, e)
      PROVE Stream!Next \/ UNCHANGED Stream!vars
  <2>1. /\ Requested(src, s, e) \in Registers
        /\ Requested(src, s, e).start = s /\ Requested(src, s, e).current = s
        /\ Requested(src, s, e).end = e
        /\ Requested(src, s, e).status = WithSource(dpc.status, src) \ {"START_VALID"}
        /\ SourceOf(Requested(src, s, e).status) = src
    BY <1>0, StatusFacts DEF Requested, Registers
  <2>2. /\ pending = NoSubmission /\ ValidRange(src, s, e) /\ UNCHANGED stalled
        /\ BeginUnlessFrozen(Requested(src, s, e), dpc, lane, TRUE, NoTail)
    BY <1>7 DEF Request
  <2>3. lane \in Lane
    BY DEF Lane
  <2> QED
    BY <1>0, <1>4, <2>1, <2>2, <2>3
<1>8. ASSUME NEW cmd \in ModeCommand, WriteStatus(cmd) PROVE Stream!SetModes
  <2> DEFINE status == Commanded(dpc.status, cmd)
             resume == IF stalled = NoTail THEN dpc.current ELSE stalled.at
             regs   == [dpc EXCEPT !.status = status]
  <2>0. UNCHANGED <<stalled, stream>>
    <3>1. CASE UNCHANGED stream
      BY <1>8, <3>1 DEF WriteStatus
    <3>2. CASE /\ "FREEZE" \notin status
               /\ BeginUnlessFrozen([regs EXCEPT !.current = resume], regs, "cpu", FALSE, stalled)
      <4>1. [regs EXCEPT !.current = resume].status = status
        BY <1>0 DEF Registers
      <4> QED
        BY <1>8, <3>2, <4>1 DEF WriteStatus, BeginUnlessFrozen
    <3> QED
      BY <1>8, <3>1, <3>2 DEF WriteStatus
  <2>1. ASSUME NEW held \in Registers, Settled = Idle(held),
               Settled' = Idle([held EXCEPT !.status = Commanded(@, cmd)])
        PROVE  Stream!SetModes
    <3> DEFINE modes == Commanded(held.status, cmd) \cap Mode
    <3>1. held.status \in SUBSET Flag
      BY DEF Registers
    <3>2. Commanded(held.status, cmd) \ Busy = ((held.status \ Busy) \ Mode) \cup modes
      BY <3>1 DEF Commanded, ModeCommand, Busy, Mode, Flag
    <3>3. Settled' = [Settled EXCEPT !.status = (@ \ Mode) \cup modes]
      BY <2>1, <3>2 DEF Idle, Registers
    <3>4. modes \in SUBSET Mode
      OBVIOUS
    <3> QED
      BY <2>0, <3>3, <3>4 DEF Stream!SetModes
  <2>2. CASE /\ pending = NoSubmission /\ "FREEZE" \notin status
             /\ ValidRange(SourceOf(status), resume, dpc.end)
             /\ BeginUnlessFrozen([regs EXCEPT !.current = resume], regs, "cpu", FALSE, stalled)
    <3>1. /\ regs \in Registers /\ resume \in Addr
          /\ [regs EXCEPT !.current = resume] \in Registers
          /\ [regs EXCEPT !.current = resume].status = status
          /\ [regs EXCEPT !.current = resume].end = dpc.end
      BY <1>0, StatusFacts DEF TypeOK, Registers, Truncated
    <3>2. Settled' = Idle(regs)
      BY <1>0, <2>0, <2>2, <3>1, BeginRefines DEF ValidRange, TypeOK
    <3>3. Settled' = Idle([dpc EXCEPT !.status = Commanded(@, cmd)])
      BY <1>0, <3>2 DEF Registers
    <3> QED
      BY <1>0, <1>2, <2>1, <2>2, <3>3
  <2>3. CASE dpc' = regs /\ pending' = Mirrored(pending, cmd)
    <3>1. CASE pending = NoSubmission
      <4>1. Settled' = Idle([dpc EXCEPT !.status = Commanded(@, cmd)])
        BY <1>0, <2>3, <3>1 DEF Mirrored, Settled, Registers
      <4> QED
        BY <1>0, <1>2, <2>1, <3>1, <4>1
    <3>2. CASE pending # NoSubmission
      <4>1. pending \in Submission /\ pending.rollback \in Registers
        BY <3>2 DEF TypeOK, Submission
      <4>2. /\ pending' \in Submission
            /\ pending'.rollback =
                 [pending.rollback EXCEPT !.status = Commanded(pending.rollback.status, cmd)]
        BY <2>3, <3>2, <4>1, StatusFacts DEF Mirrored, Submission, Registers
      <4>3. Settled = Idle(pending.rollback)
        BY <3>2 DEF Settled
      <4>4. Settled' = Idle([pending.rollback EXCEPT !.status = Commanded(@, cmd)])
        BY <4>1, <4>2, NoneAssumption DEF Settled, Registers
      <4> QED
        BY <2>1, <4>1, <4>3, <4>4
    <3> QED
      BY <3>1, <3>2
  <2> QED
    BY <1>8, <2>2, <2>3 DEF WriteStatus
<1>9. ASSUME NEW r \in Ranges, NEW lane \in Lane, NEW early \in BOOLEAN, Activate(r, lane, early),
             pending = NoSubmission, UNCHANGED <<stalled, stream>>
      PROVE  UNCHANGED Stream!vars
  <2>1. /\ r.source \in Source /\ r.start \in Addr /\ r.end \in Addr /\ r.end <= Limit[r.source]
        /\ pending' = [source |-> r.source, start |-> r.start, end |-> r.end, lane |-> lane,
                       opens |-> TRUE, tail |-> NoTail, rollback |-> dpc, early |-> early]
    BY <1>9 DEF Activate, Ranges, ValidRange
  <2>2. pending' \in Submission
    BY <1>0, <2>1 DEF Submission
  <2>3. pending' # NoSubmission /\ pending'.rollback = dpc
    BY <2>1, <2>2, NoneAssumption
  <2> QED
    BY <1>1, <1>2, <1>9, <2>3 DEF Settled
<1>10. ASSUME NEW n \in 1..MaxBatch, NEW ranges \in [1..n -> Ranges], NEW early \in BOOLEAN,
              StartBatch(ranges, early)
       PROVE UNCHANGED Stream!vars
  <2>1. ranges \in Seq(Ranges) /\ ranges # <<>>
    BY LimitAssumption
  <2>2. Head(ranges) \in Ranges
    BY <2>1
  <2> QED
    BY <1>9, <1>10, <2>2 DEF StartBatch, Lane
<1>11. ASSUME NextMember PROVE UNCHANGED Stream!vars
  <2>1. Head(batch) \in Ranges
    BY <1>11 DEF NextMember, TypeOK
  <2> QED
    BY <1>9, <1>11, <2>1 DEF NextMember, Lane
<1>12. ASSUME pending # NoSubmission, pending' = NoSubmission, NEW now \in Addr,
              dpc'.start = dpc.start, dpc'.end = pending.end, dpc'.current = now,
              dpc'.status \ Busy = dpc.status \ Busy, dpc' \in Registers
       PROVE  \E modes \in SUBSET {"XBUS"} :
                Stream!Exposed(pending.start, pending.end, now,
                               (Settled.status \ {"START_VALID", "XBUS"}) \cup modes)
  <2>1. pending.rollback \in Registers
    BY <1>12 DEF TypeOK, Submission
  <2>2. Settled.start = pending.rollback.start /\ Settled.status = pending.rollback.status \ Busy
    BY <1>12, <2>1 DEF Settled, Idle, Registers
  <2>3. /\ Settled'.start = dpc'.start /\ Settled'.end = dpc'.end /\ Settled'.current = dpc'.current
        /\ Settled'.status = dpc'.status \ Busy
    BY <1>12 DEF Settled, Idle, Registers
  <2>4. "START_VALID" \notin dpc.status
    BY <1>12 DEF HeldRange
  <2>5. dpc.status \ Moved = pending.rollback.status \ Moved
    BY <1>12 DEF RollbackMatches
  <2>6. Settled'.status = (Settled.status \ {"START_VALID", "XBUS"}) \cup (dpc.status \cap {"XBUS"})
    BY <1>12, <2>2, <2>3, <2>4, <2>5 DEF Moved, Busy
  <2>7. Settled'.start \in {Settled.start, pending.start}
    BY <1>12, <2>2, <2>3 DEF RollbackMatches
  <2> QED
    BY <1>12, <2>3, <2>6, <2>7 DEF Stream!Exposed
<1>13. ASSUME NEW t \in Truncated, Park(t) PROVE Stream!Stall
  <2>1. /\ pending \in Submission /\ pending.start \in Addr /\ pending.end \in Addr /\ t.at \in Addr
        /\ pending.start <= t.at /\ t.at < t.end /\ t.end = pending.end
    BY <1>13 DEF Park, BreaksOff, TypeOK, Submission, Truncated
  <2>2. /\ pending # NoSubmission /\ pending' = NoSubmission /\ stalled' = t
        /\ dpc'.start = dpc.start /\ dpc'.end = pending.end /\ dpc'.current = t.at
        /\ dpc'.status = dpc.status /\ dpc' \in Registers
    BY <1>0, <1>13, <2>1 DEF Park, Registers
  <2>3. PICK modes \in SUBSET {"XBUS"} :
          Stream!Exposed(pending.start, pending.end, t.at,
                         (Settled.status \ {"START_VALID", "XBUS"}) \cup modes)
    BY <1>12, <2>1, <2>2
  <2>4. stream' \in {stream, Stream!NewStream(pending.start)}
    BY <1>13 DEF Park, Opened
  <2> QED
    BY <2>1, <2>2, <2>3, <2>4, NoneAssumption DEF Stream!Stall
<1>14. ASSUME Commit PROVE Stream!Consume
  <2>1. /\ pending \in Submission /\ pending.start \in Addr /\ pending.end \in Addr
        /\ pending.start < pending.end
    BY <1>14 DEF Commit, TypeOK, Submission, HeldRange, ValidRange
  <2>2. /\ pending # NoSubmission /\ pending' = NoSubmission /\ stalled' \in {stalled, NoTail}
        /\ dpc'.start = dpc.start /\ dpc'.end = pending.end /\ dpc'.current = pending.end
        /\ dpc'.status = dpc.status \ Busy /\ dpc' \in Registers
    BY <1>0, <1>14, <2>1 DEF Commit, Registers, HeldRange, AdmissionHolds
  <2>3. PICK modes \in SUBSET {"XBUS"} :
          Stream!Exposed(pending.start, pending.end, pending.end,
                         (Settled.status \ {"START_VALID", "XBUS"}) \cup modes)
    BY <1>12, <2>1, <2>2
  <2>4. stream' \in {Stream!Fed(stream, pending.start, pending.end),
                     Stream!Fed(Stream!NewStream(pending.start), pending.start, pending.end)}
    BY <1>14 DEF Commit, Opened
  <2> QED
    BY <2>1, <2>2, <2>3, <2>4 DEF Stream!Consume
<1>15. ASSUME Cancel PROVE UNCHANGED Stream!vars
  <2>1. Settled' = Settled
    BY <1>15 DEF Cancel, Settled
  <2> QED
    BY <1>1, <1>15, <2>1 DEF Cancel
<1>16. ASSUME NEW s \in Addr, NEW e \in Addr, NEW now \in Addr, NEW modes \in SUBSET Mode,
              RspCommit(s, e, now, modes)
       PROVE Stream!Reprogram
  <2>1. Settled' = [start |-> s, end |-> e, current |-> now,
                    status |-> (Settled.status \ Mode) \cup modes]
    <3>1. dpc' = [start |-> s, end |-> e, current |-> now, status |-> (dpc.status \ Mode) \cup modes]
      BY <1>16 DEF RspCommit
    <3>2. pending = NoSubmission /\ Settled' = Idle(dpc')
      BY <1>16 DEF RspCommit, Settled
    <3>3. ((dpc.status \ Mode) \cup modes) \ Busy = ((dpc.status \ Busy) \ Mode) \cup modes
      BY DEF Busy, Mode
    <3>4. Settled.status = dpc.status \ Busy
      BY <1>0, <1>2, <3>2 DEF Idle, Registers
    <3> QED
      BY <3>1, <3>2, <3>3, <3>4 DEF Idle
  <2>2. now \in {s, e} \/ <<s, e, now>> = <<Settled.start, Settled.end, Settled.current>>
    BY <1>0, <1>2, <1>16 DEF RspCommit, Idle, Registers
  <2>3. stream' = Stream!NewStream(Settled'.current) /\ UNCHANGED stalled
    BY <1>16, <2>1 DEF RspCommit
  <2> QED
    BY <2>1, <2>2, <2>3 DEF Stream!Reprogram
<1>17. ASSUME UNCHANGED vars PROVE UNCHANGED Stream!vars
  BY <1>17 DEF vars, port, Stream!vars, Settled
<1> QED
  BY <1>3, <1>6, <1>7, <1>8, <1>10, <1>11, <1>13, <1>14, <1>15, <1>16, <1>17 DEF Next, Stream!Next

\* The port implements DpcStream: a range is decoded at one instant or not at
\* all, and a rejection gives back START, END, CURRENT, START_VALID and the
\* tail without undoing the modes the guest set meanwhile.
THEOREM PortImplementsStream == Spec => TakenAtOnce
<1>1. Init => RollbackMatches
  BY DEF Init, RollbackMatches
<1>2. ASSUME Init PROVE Stream!Init
  <2>1. Settled = Idle(dpc)
    BY <1>2 DEF Init, Settled
  <2>2. Settled = [start |-> 0, end |-> 0, current |-> 0, status |-> {}]
    BY <1>2, <2>1 DEF Init, Idle
  <2> QED
    BY <1>2, <2>2 DEF Init, Stream!Init
<1> QED
  BY <1>1, <1>2, PortStepRefines, RollbackMatchesStep, PortTypeCorrect, OpenRangeHeld, PTL
  DEF Spec, TakenAtOnce, Stream!Spec
=============================================================================
