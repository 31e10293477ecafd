------------------------- MODULE RenderWorkerProofs --------------------------
(***************************************************************************)
(* What RenderWorker keeps for any number of batches and stores, both      *)
(* presentation policies, and a worker that may die at any batch.          *)
(***************************************************************************)
EXTENDS RenderWorker, SequenceTheorems, TLAPS

-----------------------------------------------------------------------------
(***************************************************************************)
(* Facts about operations and their logs.                                  *)
(***************************************************************************)
\* No batch is the null batch, whose number is zero.
LEMMA BatchFacts ==
  /\ \A b \in Batch : b # None /\ b.n \in Nat \ {0}
  /\ None.n = 0 /\ None.full_sync = FALSE /\ None.xbus = FALSE
  BY DEF Batch, None

\* The operations of a log are operations.
LEMMA OpFacts ==
  ASSUME NEW b \in Batch \union {None}
  PROVE  b.n \in Nat /\ Do("execute", b.n) \in Op /\ Do("publish", b.n) \in Op
<1>1. b.n \in Nat
  BY DEF Batch, None
<1> QED
  BY <1>1 DEF Do, Op

\* Concatenation is associative and the empty log is neutral.
LEMMA LogFacts ==
  ASSUME NEW S, NEW r \in Seq(S), NEW s \in Seq(S), NEW t \in Seq(S), NEW x \in S
  PROVE  /\ r \o s \in Seq(S) /\ Append(r, x) \in Seq(S) /\ <<x>> \in Seq(S)
         /\ (r \o s) \o t = r \o (s \o t)
         /\ <<>> \o r = r /\ r \o <<>> = r
         /\ Append(r, x) = r \o <<x>>
         /\ Append(r \o s, x) = r \o Append(s, x)
<1>1. r \o s \in Seq(S) /\ Append(r, x) \in Seq(S) /\ <<x>> \in Seq(S)
  OBVIOUS
<1>2. (r \o s) \o t = r \o (s \o t)
  OBVIOUS
<1>3. <<>> \o r = r /\ r \o <<>> = r
  OBVIOUS
<1>4. Append(r, x) = r \o <<x>>
  OBVIOUS
<1>5. Append(r \o s, x) = r \o Append(s, x)
  <2>1. Append(r \o s, x) = (r \o s) \o <<x>>
    BY <1>1, AppendIsConcat
  <2>2. (r \o s) \o <<x>> = r \o (s \o <<x>>)
    BY <1>1, ConcatAssociative
  <2>3. s \o <<x>> = Append(s, x)
    BY AppendIsConcat
  <2> QED
    BY <2>1, <2>2, <2>3
<1> QED
  BY <1>1, <1>2, <1>3, <1>4, <1>5

-----------------------------------------------------------------------------
(***************************************************************************)
(* Type correctness.                                                       *)
(***************************************************************************)
\* The program starts typed.
LEMMA TypeInit == Init => TypeOK
<1> SUFFICES ASSUME Init PROVE TypeOK
  OBVIOUS
<1>1. deferred \in Seq(Op) /\ issued \in Seq(Op) /\ seen \in Seq(Op)
  BY DEF Init
<1>2. batches \in Nat /\ writes \in Nat /\ published \in Nat
  BY DEF Init
<1> QED
  BY <1>1, <1>2, Zenon DEF Init, TypeOK, Where, Abort

\* What a join does to the renderer's side is typed, whatever is published.
LEMMA AcceptTypes ==
  ASSUME TypeOK, NEW ops \in Seq(Op), Accept(ops)
  PROVE  /\ completion' \in BOOLEAN /\ in_flight' \in BOOLEAN /\ ready' \in BOOLEAN
         /\ deferred' \in Seq(Op) /\ seen' \in Seq(Op)
<1>1. deferred \in Seq(Op) /\ seen \in Seq(Op)
  BY DEF TypeOK
<1>2. seen \o deferred \in Seq(Op)
  BY <1>1
<1>3. (seen \o deferred) \o ops \in Seq(Op)
  BY <1>2
<1>4. deferred' \in Seq(Op) /\ seen' \in Seq(Op)
  BY <1>3 DEF Accept
<1> QED
  BY <1>4, Zenon DEF Accept

\* Every step keeps the types, one case per action.
LEMMA TypeStep == TypeOK /\ [Next]_vars => TypeOK'
<1> SUFFICES ASSUME TypeOK, [Next]_vars PROVE TypeOK'
  OBVIOUS
<1>1. CASE GuestWrite
  <2>1. Do("write", writes + 1) \in Op /\ writes + 1 \in Nat
    BY DEF TypeOK, Do, Op
  <2>2. deferred' \in Seq(Op) /\ seen' \in Seq(Op) /\ issued' \in Seq(Op)
    <3>1. deferred \in Seq(Op) /\ seen \in Seq(Op) /\ issued \in Seq(Op)
      BY DEF TypeOK
    <3>2. /\ Append(issued, Do("write", writes + 1)) \in Seq(Op)
          /\ Append(seen, Do("write", writes + 1)) \in Seq(Op)
          /\ Append(deferred, Do("write", writes + 1)) \in Seq(Op)
      BY <2>1, <3>1
    <3> QED
      BY <1>1, <3>1, <3>2, Zenon DEF GuestWrite, Observe
  <2> QED
    BY <1>1, <2>1, <2>2 DEF GuestWrite, TypeOK, channel
<1>2. ASSUME NEW f \in BOOLEAN, NEW x \in BOOLEAN, StartGraphics(f, x) PROVE TypeOK'
  <2>1. next' \in Batch /\ batches' \in Nat
    BY <1>2 DEF StartGraphics, TypeOK, Batch
  <2> QED
    BY <1>2, <2>1 DEF StartGraphics, TypeOK, channel, log, Where
<1>3. CASE StartOther \/ BeginExit \/ ReachEdge
  BY <1>3 DEF StartOther, BeginExit, ReachEdge, TypeOK, channel, counts, log, Where
<1>4. CASE SpDone \/ DpDone
  BY <1>4 DEF SpDone, DpDone, TypeOK, channel, counts, log
<1>5. CASE WorkerReceives
  BY <1>5 DEF WorkerReceives, TypeOK, counts, log
<1>6. CASE WorkerExecutes
  <2>1. Do("execute", executing.n) \in Op
    BY OpFacts DEF TypeOK
  <2>2. seen' \in Seq(Op)
    BY <1>6, <2>1 DEF WorkerExecutes, TypeOK
  <2> QED
    BY <1>6, <2>2 DEF WorkerExecutes, TypeOK, counts
<1>7. CASE WorkerPanics
  BY <1>7 DEF WorkerPanics, TypeOK, counts, log
<1>8. CASE Join
  <2>1. Do("publish", continuation.n) \in Op /\ continuation.n \in Nat
    BY OpFacts DEF TypeOK
  <2>2. <<Do("publish", continuation.n)>> \in Seq(Op)
    BY <2>1
  <2>3. /\ completion' \in BOOLEAN /\ in_flight' \in BOOLEAN /\ ready' \in BOOLEAN
        /\ deferred' \in Seq(Op) /\ seen' \in Seq(Op)
    BY <1>8, <2>2, AcceptTypes DEF Join, Publish
  <2>4. issued' \in Seq(Op) /\ published' \in Nat /\ continuation' = None
    BY <1>8, <2>1 DEF Join, Publish, TypeOK
  <2>5. pending_dp' \in BOOLEAN /\ abort' \in Abort
    <3>1. pending_dp \in BOOLEAN /\ abort \in Abort
      BY DEF TypeOK
    <3>2. pending_dp' = (pending_dp \/ continuation.full_sync)
      BY <1>8, Zenon DEF Join, Publish
    <3>3. abort' \in Abort
      BY <1>8, <3>1, Zenon DEF Join, Publish, Abort
    <3> QED
      BY <3>2, <3>3, Zenon
  <2> QED
    BY <1>8, <2>3, <2>4, <2>5 DEF Join, TypeOK, counts
<1>9. CASE JoinFails
  BY <1>9 DEF JoinFails, TypeOK, channel, counts, log, Abort
<1>10. CASE SkipJoin
  BY <1>10 DEF SkipJoin, Skipped, TypeOK, channel, counts, log, Where
<1>11. CASE Present
  BY <1>11 DEF Present, TypeOK, channel, counts, log, Where, Abort
<1>12. CASE Dispatch
  <2>1. issued' \in Seq(Op)
    <3>1. Do("execute", next.n) \in Op
      BY OpFacts DEF TypeOK
    <3>2. issued \in Seq(Op)
      BY DEF TypeOK
    <3>3. Append(issued, Do("execute", next.n)) \in Seq(Op)
      BY <3>1, <3>2
    <3> QED
      BY <1>12, <3>2, <3>3, Zenon DEF Dispatch
  <2>2. abort' \in Abort
    BY <1>12 DEF Dispatch, Why, TypeOK, Abort
  <2> QED
    BY <1>12, <2>1, <2>2 DEF Dispatch, TypeOK, counts, Where
<1>13. CASE Boot
  <2>1. sp_busy' \in BOOLEAN /\ abort' \in Abort /\ at' \in Where
    BY <1>13, Zenon DEF Boot, TypeOK, Where, Abort
  <2> QED
    BY <1>13, <2>1, Zenon DEF Boot, TypeOK, channel, counts, log
<1>14. CASE Exit
  <2>1. <<>> \in Seq(Op)
    OBVIOUS
  <2>2. /\ completion' \in BOOLEAN /\ in_flight' \in BOOLEAN /\ ready' \in BOOLEAN
        /\ deferred' \in Seq(Op) /\ seen' \in Seq(Op)
    BY <1>14, <2>1, AcceptTypes DEF Exit, TypeOK
  <2> QED
    BY <1>14, <2>2 DEF Exit, TypeOK, counts, Where
<1>15. CASE UNCHANGED vars
  BY <1>15 DEF vars, TypeOK, channel, counts, log
<1> QED
  BY <1>1, <1>2, <1>3, <1>4, <1>5, <1>6, <1>7, <1>8, <1>9, <1>10, <1>11, <1>12, <1>13, <1>14, <1>15
  DEF Next, Guest, Device, Host, Worker

\* Every variable keeps its type.
THEOREM WorkerTypes == Spec => []TypeOK
<1>1. Init => TypeOK
  BY TypeInit
<1>2. TypeOK /\ [Next]_vars => TypeOK'
  BY TypeStep
<1> QED
  BY <1>1, <1>2, PTL DEF Spec

-----------------------------------------------------------------------------
(***************************************************************************)
(* The renderer has one owner.                                             *)
(***************************************************************************)
\* Where a renderer that is out can be: on its way, executing, on its way back.
OnItsWay  == command # None /\ executing = None /\ ~completion
Executing == command = None /\ executing # None /\ ~completion
OnItsBack == command = None /\ executing = None /\ completion

\* The channels agree with who owns the renderer, unless the worker took it
\* along when it died.
Hands ==
  /\ ready => command = None /\ executing = None /\ ~completion /\ deferred = <<>>
  /\ completion => OnItsBack
  /\ worker # "dead" /\ ~ready => OnItsWay \/ Executing \/ OnItsBack

\* What the emulation thread notes of it: a batch is out exactly while its
\* continuation is kept.
Flags ==
  /\ abort = "none" => (ready <=> ~in_flight)
  /\ abort = "none" /\ at # "gone" => (in_flight <=> continuation # None)
  /\ at = "graphics" => next # None

Hold == Hands /\ Flags

\* At first the emulation thread owns it.
LEMMA HoldInit == Init => Hold
  BY DEF Init, Hold, Hands, Flags, None

\* Every step keeps it, one case per action.
LEMMA HoldStep == TypeOK /\ Hold /\ [Next]_vars => Hold'
<1> SUFFICES ASSUME TypeOK, Hold, [Next]_vars PROVE Hold'
  OBVIOUS
<1> USE DEF Hold, Hands, OnItsWay, Executing, OnItsBack
<1>1. CASE GuestWrite
  <2>1. /\ ready' = ready /\ command' = command /\ worker' = worker /\ executing' = executing
        /\ completion' = completion /\ in_flight' = in_flight /\ continuation' = continuation
        /\ at' = at /\ next' = next /\ abort' = abort
    BY <1>1 DEF GuestWrite, channel
  <2>2. ready => deferred' = deferred
    BY <1>1, Zenon DEF GuestWrite, Observe
  <2>3. Hands'
    BY <2>1, <2>2, Zenon
  <2>4. Flags'
    BY <2>1, Zenon DEF Flags
  <2> QED
    BY <2>3, <2>4
<1>2. ASSUME NEW f \in BOOLEAN, NEW x \in BOOLEAN, StartGraphics(f, x) PROVE Hold'
  <2>1. next' # None
    <3>1. next' = [n |-> batches + 1, full_sync |-> f, xbus |-> x] /\ batches + 1 \in Nat \ {0}
      BY <1>2 DEF StartGraphics, TypeOK
    <3>2. next' \in Batch
      BY <3>1 DEF Batch
    <3> QED
      BY <3>2, BatchFacts
  <2> QED
    BY <1>2, <2>1, Zenon DEF StartGraphics, Flags, channel
<1>3. CASE StartOther \/ BeginExit \/ ReachEdge
  <2>1. /\ ready' = ready /\ command' = command /\ worker' = worker /\ executing' = executing
        /\ completion' = completion /\ deferred' = deferred /\ in_flight' = in_flight
        /\ continuation' = continuation /\ abort' = abort
        /\ at # "gone" /\ at' # "graphics"
    BY <1>3 DEF StartOther, BeginExit, ReachEdge, channel
  <2>2. Hands'
    BY <2>1, Zenon
  <2>3. Flags'
    BY <2>1, Zenon DEF Flags
  <2> QED
    BY <2>2, <2>3
<1>4. CASE SpDone \/ DpDone
  <2>1. /\ ready' = ready /\ command' = command /\ worker' = worker /\ executing' = executing
        /\ completion' = completion /\ deferred' = deferred /\ in_flight' = in_flight
        /\ continuation' = continuation /\ abort' = abort /\ at' = at /\ next' = next
    BY <1>4 DEF SpDone, DpDone, channel
  <2>2. Hands'
    BY <2>1, Zenon
  <2>3. Flags'
    BY <2>1, Zenon DEF Flags
  <2> QED
    BY <2>2, <2>3
<1>5. CASE WorkerReceives
  BY <1>5, Zenon DEF WorkerReceives, Flags
<1>6. CASE WorkerExecutes
  BY <1>6, Zenon DEF WorkerExecutes, Flags
<1>7. CASE WorkerPanics
  BY <1>7, Zenon DEF WorkerPanics, Flags
<1>8. CASE Join
  BY <1>8, Zenon DEF Join, Publish, Accept, Flags, Running
<1>9. CASE JoinFails
  <2>1. abort' # "none"
    BY <1>9 DEF JoinFails
  <2> QED
    BY <1>9, <2>1, Zenon DEF JoinFails, Flags, channel
<1>10. CASE SkipJoin
  <2>1. at' # "graphics" /\ at # "gone"
    BY <1>10 DEF SkipJoin
  <2> QED
    BY <1>10, <2>1, Zenon DEF SkipJoin, Skipped, Flags, channel
<1>11. CASE Present
  <2>1. at' # "graphics" /\ at # "gone" /\ (abort' = "none" => abort = "none")
    BY <1>11 DEF Present, Running
  <2> QED
    BY <1>11, <2>1, Zenon DEF Present, Flags, channel
<1>12. CASE Dispatch
  <2>1. abort = "none" /\ at = "graphics" /\ at' = "guest" /\ next # None
    BY <1>12 DEF Dispatch, Running, Flags
  <2>2. CASE Why = "none"
    <3>1. ready /\ ~in_flight
      BY <2>2 DEF Why
    <3> QED
      BY <1>12, <2>1, <2>2, <3>1 DEF Dispatch, Flags
  <2>3. CASE Why # "none"
    BY <1>12, <2>1, <2>3 DEF Dispatch, Flags
  <2> QED
    BY <2>2, <2>3
<1>13. CASE Boot
  <2>1. at' # "graphics" /\ at # "gone" /\ (abort' = "none" => abort = "none")
    BY <1>13 DEF Boot, Running
  <2> QED
    BY <1>13, <2>1, Zenon DEF Boot, Flags, channel
<1>14. CASE Exit
  <2>1. at' = "gone" /\ abort = "none" /\ worker' = "stopped"
    BY <1>14 DEF Exit, Running
  <2> QED
    BY <1>14, <2>1 DEF Exit, Accept, Flags
<1>15. CASE UNCHANGED vars
  BY <1>15, Zenon DEF vars, Flags, channel
<1> QED
  BY <1>1, <1>2, <1>3, <1>4, <1>5, <1>6, <1>7, <1>8, <1>9, <1>10, <1>11, <1>12, <1>13, <1>14, <1>15
  DEF Next, Guest, Device, Host, Worker

\* It holds throughout.
LEMMA HoldInvariant == Spec => [](TypeOK /\ Hold)
<1>1. Init => TypeOK /\ Hold
  BY TypeInit, HoldInit
<1>2. TypeOK /\ Hold /\ [Next]_vars => (TypeOK /\ Hold)'
  BY TypeStep, HoldStep
<1> QED
  BY <1>1, <1>2, PTL DEF Spec

\* The renderer is in one pair of hands, and the emulation thread knows in
\* whose: joins, skipped joins, failures and the exit never leave it in two
\* places or in none.
THEOREM RendererHasOneOwner == Spec => []OneOwner
<1>1. TypeOK /\ Hold => OneOwner
  <2> SUFFICES ASSUME Hold PROVE OneOwner
    OBVIOUS
  <2>1. ready => Out = {}
    BY DEF Hold, Hands, Out
  <2>2. OnItsWay => Out = {"command"}
    BY DEF OnItsWay, Out
  <2>3. Executing => Out = {"executing"}
    BY DEF Executing, Out
  <2>4. OnItsBack => Out = {"completion"}
    BY DEF OnItsBack, Out
  <2>5. worker # "dead" /\ ~ready => \E x \in Out : Out = {x}
    BY <2>2, <2>3, <2>4 DEF Hold, Hands
  <2> QED
    BY <2>1, <2>5 DEF Hold, Flags, OneOwner
<1> QED
  BY <1>1, HoldInvariant, PTL

-----------------------------------------------------------------------------
(***************************************************************************)
(* The renderer undergoes what was issued, in order.                       *)
(***************************************************************************)
\* Nothing issued is lost or overtaken.
Ordered == at # "gone" /\ worker # "dead" => issued = seen \o Owed

\* The owed operations are operations.
LEMMA OwedTypes ==
  ASSUME TypeOK
  PROVE  Unexecuted \in Seq(Op) /\ Owed \in Seq(Op)
<1>1. Unexecuted \in Seq(Op)
  <2>1. Do("execute", command.n) \in Op /\ Do("execute", executing.n) \in Op
    BY OpFacts DEF TypeOK
  <2>2. <<Do("execute", command.n)>> \in Seq(Op) /\ <<Do("execute", executing.n)>> \in Seq(Op)
        /\ <<>> \in Seq(Op)
    BY <2>1
  <2> QED
    BY <2>2, Zenon DEF Unexecuted
<1>2. deferred \in Seq(Op)
  BY DEF TypeOK
<1> QED
  BY <1>1, <1>2, ConcatProperties DEF Owed

\* A renderer that is at home owes nothing.
LEMMA HomeOwesNothing ==
  ASSUME Hold, ready
  PROVE  Owed = <<>>
<1>1. Unexecuted = <<>> /\ deferred = <<>>
  BY DEF Hold, Hands, Unexecuted
<1> QED
  BY <1>1 DEF Owed

\* Nor does one that is on its way back, but for the stores set aside.
LEMMA BackOwesStores ==
  ASSUME TypeOK, Hold, completion
  PROVE  Owed = deferred
<1>1. Unexecuted = <<>>
  BY DEF Hold, Hands, OnItsBack, Unexecuted
<1>2. deferred \in Seq(Op)
  BY DEF TypeOK
<1> QED
  BY <1>1, <1>2, ConcatEmptySeq DEF Owed

\* Steps that touch neither log nor channel.
LEMMA OrderedUntouched ==
  ASSUME Ordered, UNCHANGED <<issued, seen, command, executing, deferred>>,
         at' # "gone" /\ worker' # "dead" => at # "gone" /\ worker # "dead"
  PROVE  Ordered'
<1>1. Unexecuted' = Unexecuted
  BY DEF Unexecuted
<1>2. Owed' = Owed
  BY <1>1 DEF Owed
<1> QED
  BY <1>2 DEF Ordered

\* At first both logs are empty.
LEMMA OrderedInit == Init => Ordered
<1> SUFFICES ASSUME Init PROVE Ordered
  OBVIOUS
<1>1. Unexecuted = <<>> /\ deferred = <<>> /\ issued = <<>> /\ seen = <<>>
  BY DEF Init, Unexecuted
<1>2. Owed = <<>>
  BY <1>1 DEF Owed
<1> QED
  BY <1>1, <1>2 DEF Ordered

\* Every step keeps the order, one case per action.
LEMMA OrderedStep == TypeOK /\ TypeOK' /\ Hold /\ Hold' /\ Ordered /\ [Next]_vars => Ordered'
<1> SUFFICES ASSUME TypeOK, TypeOK', Hold, Hold', Ordered, [Next]_vars,
                    at' # "gone", worker' # "dead"
             PROVE  issued' = seen' \o Owed'
  BY DEF Ordered
<1>0. /\ issued \in Seq(Op) /\ seen \in Seq(Op) /\ deferred \in Seq(Op)
      /\ Unexecuted \in Seq(Op) /\ Owed \in Seq(Op)
      /\ seen' \in Seq(Op) /\ <<>> \in Seq(Op)
  BY OwedTypes DEF TypeOK
<1>1. CASE GuestWrite
  <2> DEFINE w == Do("write", writes + 1)
  <2>1. w \in Op /\ issued' = Append(issued, w) /\ issued = seen \o Owed
    BY <1>1 DEF GuestWrite, Observe, TypeOK, Do, Op, Running, Ordered, channel
  <2>2. Unexecuted' = Unexecuted
    BY <1>1 DEF GuestWrite, channel, Unexecuted
  <2>3. CASE ready
    <3>1. seen' = Append(seen, w) /\ deferred' = deferred
      BY <1>1, <2>3 DEF GuestWrite, Observe
    <3>2. Owed = <<>> /\ Owed' = <<>>
      BY <2>2, <2>3, <3>1, HomeOwesNothing DEF Owed
    <3>3. issued = seen
      BY <1>0, <2>1, <3>2, ConcatEmptySeq
    <3> QED
      BY <1>0, <2>1, <3>1, <3>2, <3>3, ConcatEmptySeq
  <2>4. CASE ~ready
    <3>1. seen' = seen /\ deferred' = Append(deferred, w)
      BY <1>1, <2>4 DEF GuestWrite, Observe
    <3>2. Owed' = Append(Owed, w)
      BY <1>0, <2>1, <2>2, <3>1, LogFacts DEF Owed
    <3>3. Append(seen \o Owed, w) = seen \o Append(Owed, w)
      BY <1>0, <2>1, LogFacts
    <3> HIDE DEF w
    <3> QED
      BY <2>1, <3>1, <3>2, <3>3
  <2> QED
    BY <2>3, <2>4
<1>2. ASSUME NEW f \in BOOLEAN, NEW x \in BOOLEAN, StartGraphics(f, x) PROVE issued' = seen' \o Owed'
  BY <1>2, OrderedUntouched DEF StartGraphics, Running, channel, log, Ordered
<1>3. CASE StartOther \/ BeginExit \/ ReachEdge
  BY <1>3, OrderedUntouched DEF StartOther, BeginExit, ReachEdge, Running, channel, log, Ordered
<1>4. CASE SpDone \/ DpDone
  BY <1>4, OrderedUntouched DEF SpDone, DpDone, Running, channel, log, Ordered
<1>5. CASE WorkerReceives
  <2>1. executing' = command /\ command' = None /\ command # None /\ executing = None
        /\ UNCHANGED <<issued, seen, deferred, worker, at>>
    BY <1>5 DEF WorkerReceives, log
  <2>2. Unexecuted' = Unexecuted
    BY <2>1 DEF Unexecuted
  <2> QED
    BY <2>1, <2>2 DEF Owed, Ordered
<1>6. CASE WorkerExecutes
  <2> DEFINE x == Do("execute", executing.n)
  <2>1. /\ executing # None /\ executing' = None /\ worker = "alive"
        /\ UNCHANGED <<command, issued, deferred, worker, at>> /\ seen' = Append(seen, x)
    BY <1>6 DEF WorkerExecutes
  <2>2. command = None
    BY <2>1 DEF Hold, Hands, OnItsWay, Executing, OnItsBack
  <2>3. Unexecuted = <<x>> /\ Unexecuted' = <<>>
    BY <2>1, <2>2 DEF Unexecuted
  <2>4. x \in Op
    BY OpFacts DEF TypeOK
  <2>5. Owed' = deferred
    BY <1>0, <2>1, <2>3, ConcatEmptySeq DEF Owed
  <2>6. <<x>> \in Seq(Op)
    BY <2>4
  <2>7. seen' = seen \o <<x>>
    BY <1>0, <2>1, <2>4, AppendIsConcat
  <2>8. (seen \o <<x>>) \o deferred = seen \o (<<x>> \o deferred)
    BY <1>0, <2>6, ConcatAssociative
  <2>9. issued = seen \o (<<x>> \o deferred)
    BY <2>1, <2>3 DEF Ordered, Owed
  <2> QED
    BY <2>1, <2>5, <2>7, <2>8, <2>9
<1>7. CASE WorkerPanics
  BY <1>7 DEF WorkerPanics
<1>8. CASE Join
  <2> DEFINE x == Do("publish", continuation.n)
  <2>1. /\ completion /\ seen' = (seen \o deferred) \o <<x>> /\ issued' = Append(issued, x)
        /\ ready' /\ UNCHANGED <<worker, at>>
    BY <1>8 DEF Join, Publish, Accept
  <2>2. x \in Op
    BY OpFacts DEF TypeOK
  <2>3. issued = seen \o deferred
    BY <2>1, BackOwesStores DEF Ordered
  <2>4. Append(issued, x) = issued \o <<x>>
    BY <1>0, <2>2, AppendIsConcat
  <2>5. Owed' = <<>>
    BY <2>1, HomeOwesNothing DEF Hold, Hands, Unexecuted, Owed
  <2>6. seen' \o <<>> = seen'
    BY <1>0, ConcatEmptySeq
  <2> QED
    BY <2>1, <2>3, <2>4, <2>5, <2>6
<1>9. CASE JoinFails
  BY <1>9, OrderedUntouched DEF JoinFails, Running, channel, log, Ordered
<1>10. CASE SkipJoin
  BY <1>10, OrderedUntouched DEF SkipJoin, Running, channel, log, Ordered
<1>11. CASE Present
  BY <1>11, OrderedUntouched DEF Present, Running, channel, log, Ordered
<1>12. CASE Dispatch
  <2>1. at # "gone" /\ UNCHANGED <<worker, executing, deferred, seen>>
    BY <1>12 DEF Dispatch
  <2>2. CASE Why = "none"
    <3> DEFINE x == Do("execute", next.n)
    <3>1. ready /\ command' = next /\ issued' = Append(issued, x)
      BY <1>12, <2>2 DEF Dispatch, Why
    <3>2. next # None /\ executing = None /\ deferred = <<>>
      BY <1>12, <3>1 DEF Dispatch, Hold, Hands, Flags
    <3>3. x \in Op
      BY OpFacts DEF TypeOK
    <3>4. issued = seen
      BY <1>0, <2>1, <3>1, HomeOwesNothing, ConcatEmptySeq DEF Ordered
    <3>5. Unexecuted' = <<x>>
      BY <3>1, <3>2 DEF Unexecuted
    <3>6. <<x>> \in Seq(Op)
      BY <3>3
    <3>7. Owed' = <<x>>
      BY <2>1, <3>2, <3>5, <3>6, ConcatEmptySeq DEF Owed
    <3>8. Append(seen, x) = seen \o <<x>>
      BY <1>0, <3>3, AppendIsConcat
    <3> QED
      BY <2>1, <3>1, <3>4, <3>7, <3>8
  <2>3. CASE Why # "none"
    BY <1>12, <2>1, <2>3, OrderedUntouched DEF Dispatch, Ordered
  <2> QED
    BY <2>2, <2>3
<1>13. CASE Boot
  BY <1>13, OrderedUntouched DEF Boot, Running, channel, log, Ordered
<1>14. CASE Exit
  BY <1>14 DEF Exit
<1>15. CASE UNCHANGED vars
  BY <1>15, OrderedUntouched DEF vars, channel, log, Ordered
<1> QED
  BY <1>1, <1>2, <1>3, <1>4, <1>5, <1>6, <1>7, <1>8, <1>9, <1>10, <1>11, <1>12, <1>13, <1>14, <1>15
  DEF Next, Guest, Device, Host, Worker

\* With a worker or without, the renderer undergoes the same operations in the
\* same order: no store is lost, moved before the batch it follows or behind the
\* publication of that batch, whichever join brings the renderer back.
THEOREM RendererAsIfLocal == Spec => []AsIfLocal
<1>1. Init => TypeOK /\ Hold /\ Ordered
  BY TypeInit, HoldInit, OrderedInit
<1>2. TypeOK /\ Hold /\ Ordered /\ [Next]_vars => (TypeOK /\ Hold /\ Ordered)'
  BY TypeStep, HoldStep, OrderedStep
<1>3. TypeOK /\ Hold /\ Ordered => AsIfLocal
  BY HomeOwesNothing DEF Ordered, AsIfLocal
<1> QED
  BY <1>1, <1>2, <1>3, PTL DEF Spec

-----------------------------------------------------------------------------
(***************************************************************************)
(* Nothing about the worker ends the program but its own panic.            *)
(***************************************************************************)
\* In a game that waits for the DP interrupt no batch meets a DP completion
\* that is still outstanding.
DpFree ==
  WaitsForDp =>
    /\ ~(pending_dp /\ continuation.full_sync)
    /\ at = "graphics" => ~pending_dp /\ ~continuation.full_sync

Calm == DpFree /\ NoAbort

\* At first there is no DP completion.
LEMMA CalmInit == Init => Calm
  BY BatchFacts, Zenon DEF Init, Calm, DpFree, NoAbort

\* Every step keeps it, one case per action.
LEMMA CalmStep == WaitsForDp /\ TypeOK /\ Hold /\ Calm /\ [Next]_vars => Calm'
<1> SUFFICES ASSUME WaitsForDp, TypeOK, Hold, Calm, [Next]_vars PROVE Calm'
  OBVIOUS
<1> USE BatchFacts DEF Calm, DpFree, NoAbort
<1>1. CASE GuestWrite
  BY <1>1, Zenon DEF GuestWrite, channel
<1>2. ASSUME NEW f \in BOOLEAN, NEW x \in BOOLEAN, StartGraphics(f, x) PROVE Calm'
  BY <1>2, Zenon DEF StartGraphics, channel
<1>3. CASE StartOther \/ BeginExit \/ ReachEdge
  <2>1. /\ pending_dp' = pending_dp /\ continuation' = continuation /\ abort' = abort
        /\ at' # "graphics"
    BY <1>3 DEF StartOther, BeginExit, ReachEdge
  <2> QED
    BY <2>1, Zenon
<1>4. CASE SpDone \/ DpDone
  <2>1. continuation' = continuation /\ abort' = abort /\ at' = at
    BY <1>4, Zenon DEF SpDone, DpDone
  <2>2. pending_dp' => pending_dp
    BY <1>4, Zenon DEF SpDone, DpDone
  <2> QED
    BY <2>1, <2>2, Zenon
<1>5. CASE Worker
  <2>1. /\ pending_dp' = pending_dp /\ continuation' = continuation /\ abort' = abort
        /\ at' = at
    BY <1>5, Zenon DEF Worker, WorkerReceives, WorkerExecutes, WorkerPanics
  <2> QED
    BY <2>1, Zenon
<1>6. CASE Join
  <2>1. continuation' = None /\ at' = at
    BY <1>6, Zenon DEF Join, Publish
  <2>2. abort' = abort
    BY <1>6, Zenon DEF Join, Publish
  <2>3. at = "graphics" => ~pending_dp'
    BY <1>6, Zenon DEF Join, Publish
  <2> QED
    BY <2>1, <2>2, <2>3, Zenon
<1>7. CASE JoinFails
  BY <1>7, Zenon DEF JoinFails
<1>8. CASE SkipJoin
  BY <1>8 DEF SkipJoin, Skipped
<1>9. CASE Present
  <2>1. ready
    BY <1>9, Zenon DEF Present, Running, MustJoin, Hold, Flags
  <2> QED
    BY <1>9, <2>1 DEF Present
<1>10. CASE Dispatch
  <2>1. continuation = None /\ ready /\ ~in_flight /\ ~pending_dp
    BY <1>10, Zenon DEF Dispatch, Running, MustJoin, Hold, Flags
  <2>2. Why = "none"
    BY <2>1 DEF Why
  <2> QED
    BY <1>10, <2>1, <2>2 DEF Dispatch
<1>11. CASE Boot
  <2>1. ~continuation.xbus
    BY <1>11, Zenon DEF Boot, MustJoin
  <2> QED
    BY <1>11, <2>1 DEF Boot
<1>12. CASE Exit
  <2>1. at' = "gone" /\ continuation' = None /\ UNCHANGED abort
    BY <1>12 DEF Exit
  <2> QED
    BY <2>1, Zenon
<1>13. CASE UNCHANGED vars
  BY <1>13, Zenon DEF vars
<1> QED
  BY <1>1, <1>2, <1>3, <1>4, <1>5, <1>6, <1>7, <1>8, <1>9, <1>10, <1>11, <1>12, <1>13
  DEF Next, Guest, Device, Host

\* In a game that waits for the DP interrupt no batch overtakes another, no
\* edge finds the renderer away and no boot waits for what only it can release.
THEOREM WorkerNeverAborts == WaitsForDp => (Spec => []NoAbort)
<1> SUFFICES ASSUME WaitsForDp PROVE Spec => []NoAbort
  OBVIOUS
<1>1. Init => TypeOK /\ Hold /\ Calm
  BY TypeInit, HoldInit, CalmInit
<1>2. TypeOK /\ Hold /\ Calm /\ [Next]_vars => (TypeOK /\ Hold /\ Calm)'
  BY TypeStep, HoldStep, CalmStep
<1>3. Calm => NoAbort
  BY DEF Calm
<1> QED
  BY <1>1, <1>2, <1>3, PTL DEF Spec
=============================================================================
