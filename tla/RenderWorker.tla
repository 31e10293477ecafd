---------------------------- MODULE RenderWorker ----------------------------
(***************************************************************************)
(* The persistent render worker (fn64-abi, task_dispatch/lifecycle.rs): a  *)
(* graphics task's command batch is handed to a host thread together with  *)
(* the renderer itself, and the emulation thread goes on running the guest *)
(* until a VI edge, a later graphics task or an RSP boot that needs DMEM    *)
(* makes it join.  Guest stores made in between are set aside and replayed *)
(* when the renderer comes back.                                           *)
(*                                                                         *)
(* `at` is where the emulation thread is, `issued` the renderer operations *)
(* in the order that thread issued them and `seen` the order in which the  *)
(* renderer underwent them (both history).                                 *)
(***************************************************************************)
EXTENDS Integers, Sequences

CONSTANTS MaxBatches,  \* graphics tasks with a batch for the worker
          MaxWrites,   \* guest halfword stores
          WaitsForDp   \* the game waits for the DP interrupt of a task that
                       \* reaches FullSync before it starts the next one

ASSUME WorkerAssumption ==
  /\ MaxBatches \in Nat /\ MaxWrites \in Nat
  /\ WaitsForDp \in BOOLEAN

VARIABLES
  ready,           \* the emulation thread owns the renderer
  in_flight,
  command,         \* the channel to the worker: a batch, or nothing
  worker,          \* the worker thread is alive, dead or stopped
  executing,       \* the batch it has received
  completion,      \* the channel back: the renderer has been sent, or not
  deferred,        \* deferred_non_rdp_writes
  continuation,    \* ASYNC_LLE_RENDER_CONTINUATION
  next,            \* the batch of the task being started
  at,              \* where the emulation thread is
  sp_busy,         \* an RSP task runs
  pending_dp,      \* a DP completion is scheduled
  audio_priority,  \* the host's presentation policy
  abort,           \* why the program ended, if it did
  batches, writes, published, issued, seen

vars == <<ready, in_flight, command, worker, executing, completion, deferred, continuation, next, at,
          sp_busy, pending_dp, audio_priority, abort, batches, writes, published, issued, seen>>
channel == <<command, worker, executing, completion>>
counts  == <<batches, writes>>
log     == <<issued, seen>>

Batch == [n : Nat \ {0}, full_sync : BOOLEAN, xbus : BOOLEAN]
None  == [n |-> 0, full_sync |-> FALSE, xbus |-> FALSE]
Where == {"guest", "graphics", "boot", "edge", "exit", "gone"}
Abort == {"none", "worker panicked", "overtaken", "backend absent", "DpBusy", "boot spins"}
Op    == [op : {"execute", "publish", "write"}, n : Nat]
Do(op, n) == [op |-> op, n |-> n]

Running == abort = "none" /\ at # "gone"

-----------------------------------------------------------------------------
Init ==
  /\ ready = TRUE /\ in_flight = FALSE
  /\ command = None /\ worker = "alive" /\ executing = None /\ completion = FALSE
  /\ deferred = <<>> /\ continuation = None /\ next = None
  /\ at = "guest" /\ sp_busy = FALSE /\ pending_dp = FALSE
  /\ audio_priority \in BOOLEAN
  /\ abort = "none"
  /\ batches = 0 /\ writes = 0 /\ published = 0
  /\ issued = <<>> /\ seen = <<>>

\* observe_non_rdp_write16.
Observe(w) ==
  /\ issued' = Append(issued, w)
  /\ IF ready THEN seen' = Append(seen, w) /\ UNCHANGED deferred
              ELSE deferred' = Append(deferred, w) /\ UNCHANGED seen

GuestWrite ==
  /\ Running /\ at = "guest" /\ writes < MaxWrites
  /\ writes' = writes + 1
  /\ Observe(Do("write", writes + 1))
  /\ UNCHANGED <<ready, in_flight, channel, continuation, next, at, sp_busy, pending_dp,
                 audio_priority, abort, batches, published>>

\* osSpTaskStartGo for a graphics task, up to its first join.  The RSP runs one
\* task at a time, and the game knows.
StartGraphics(full_sync, xbus) ==
  /\ Running /\ at = "guest" /\ ~sp_busy /\ batches < MaxBatches
  /\ WaitsForDp => ~continuation.full_sync /\ ~pending_dp
  /\ batches' = batches + 1
  /\ next' = [n |-> batches + 1, full_sync |-> full_sync, xbus |-> xbus]
  /\ at' = "graphics"
  /\ UNCHANGED <<ready, in_flight, channel, deferred, continuation, sp_busy, pending_dp,
                 audio_priority, abort, writes, published, log>>

\* osSpTaskStartGo for any other task: it boots over the shared DMEM.
StartOther ==
  /\ Running /\ at = "guest" /\ ~sp_busy
  /\ at' = "boot"
  /\ UNCHANGED <<ready, in_flight, channel, deferred, continuation, next, sp_busy, pending_dp,
                 audio_priority, abort, counts, published, log>>

\* A boundary that reaches the retrace: settle_renderer_before_vi.
ReachEdge ==
  /\ Running /\ at = "guest"
  /\ at' = "edge"
  /\ UNCHANGED <<ready, in_flight, channel, deferred, continuation, next, sp_busy, pending_dp,
                 audio_priority, abort, counts, published, log>>

\* The RSP task completes, or the DP interrupt is delivered.
SpDone ==
  /\ Running /\ at = "guest" /\ sp_busy /\ sp_busy' = FALSE
  /\ UNCHANGED <<ready, in_flight, channel, deferred, continuation, next, at, pending_dp,
                 audio_priority, abort, counts, published, log>>
DpDone ==
  /\ Running /\ at \in {"guest", "edge"} /\ pending_dp /\ pending_dp' = FALSE
  /\ UNCHANGED <<ready, in_flight, channel, deferred, continuation, next, at, sp_busy,
                 audio_priority, abort, counts, published, log>>

-----------------------------------------------------------------------------
(* The worker thread.                                                      *)

WorkerReceives ==
  /\ worker = "alive" /\ executing = None /\ command # None
  /\ executing' = command
  /\ command' = None
  /\ UNCHANGED <<ready, in_flight, worker, completion, deferred, continuation, next, at, sp_busy,
                 pending_dp, audio_priority, abort, counts, published, log>>

\* execute_raw_dpc_task_batch, and the renderer goes back.
WorkerExecutes ==
  /\ worker = "alive" /\ executing # None
  /\ executing' = None
  /\ completion' = TRUE
  /\ seen' = Append(seen, Do("execute", executing.n))
  /\ UNCHANGED <<ready, in_flight, command, worker, deferred, continuation, next, at, sp_busy,
                 pending_dp, audio_priority, abort, counts, published, issued>>

\* The worker unwinds: both its channel ends are dropped.
WorkerPanics ==
  /\ worker = "alive" /\ executing # None
  /\ executing' = None
  /\ worker' = "dead"
  /\ UNCHANGED <<ready, in_flight, command, completion, deferred, continuation, next, at, sp_busy,
                 pending_dp, audio_priority, abort, counts, published, log>>

-----------------------------------------------------------------------------
(* The joins.                                                              *)

\* Mutant: a later graphics task does not join.
JoinBootOnly ==
  continuation # None /\ (at \in {"edge", "exit"} \/ (at = "boot" /\ continuation.xbus))

\* A task or an edge that needs what the batch holds.  A batch from DMEM keeps
\* XBUS and DMA_BUSY raised until it is published.
MustJoin ==
  /\ continuation # None
  /\ \/ at = "edge"
     \/ at = "graphics"
     \/ at = "boot" /\ continuation.xbus
     \/ at = "exit"

\* Mutant: the deferred stores are replayed after the publication.
AcceptLate(ops) ==
  /\ completion' = FALSE /\ in_flight' = FALSE /\ ready' = TRUE
  /\ deferred' = <<>>
  /\ seen' = seen \o ops \o deferred

\* accept_completion, then the publication of the batch with the renderer back.
Accept(ops) ==
  /\ completion' = FALSE /\ in_flight' = FALSE /\ ready' = TRUE
  /\ deferred' = <<>>
  /\ seen' = seen \o deferred \o ops

\* complete_joined_render_batch: FullSync takes the DP slot one cycle from now.
Publish ==
  /\ Accept(<<Do("publish", continuation.n)>>)
  /\ issued' = Append(issued, Do("publish", continuation.n))
  /\ published' = continuation.n
  /\ continuation' = None
  /\ pending_dp' = (pending_dp \/ continuation.full_sync)
  /\ abort' = IF pending_dp /\ continuation.full_sync THEN "DpBusy" ELSE abort

\* advance_async_lle_render_task blocks, and at an edge under audio priority
\* try_advance_async_lle_render_task finds the renderer within its budget.
Join ==
  /\ Running /\ MustJoin /\ at # "exit" /\ completion
  /\ Publish
  /\ UNCHANGED <<command, worker, executing, next, at, sp_busy, audio_priority, counts>>

\* Mutant: the receive does not notice that the worker is gone.
NeverDisconnected == FALSE
Disconnected == worker = "dead" /\ ~completion

\* resume_worker_panic: the worker's panic becomes the emulation thread's.
JoinFails ==
  /\ Running /\ MustJoin /\ Disconnected
  /\ in_flight' = FALSE
  /\ abort' = "worker panicked"
  /\ UNCHANGED <<ready, channel, deferred, continuation, next, at, sp_busy, pending_dp,
                 audio_priority, counts, published, log>>

\* Mutant: the continuation taken for the attempt is not put back.
SkippedTaken == continuation' = None
Skipped == UNCHANGED continuation

\* The budget ran out: the previous field is shown again and the batch stays
\* with the worker.
SkipJoin ==
  /\ Running /\ at = "edge" /\ audio_priority
  /\ MustJoin /\ ~completion /\ ~Disconnected
  /\ at' = "guest"
  /\ Skipped
  /\ UNCHANGED <<ready, in_flight, channel, deferred, next, sp_busy, pending_dp, audio_priority,
                 abort, counts, published, log>>

\* present_render_backend, after the devices due at the edge.
Present ==
  /\ Running /\ at = "edge" /\ ~MustJoin /\ ~pending_dp
  /\ at' = "guest"
  /\ abort' = IF ready THEN abort ELSE "backend absent"
  /\ UNCHANGED <<ready, in_flight, channel, deferred, continuation, next, sp_busy, pending_dp,
                 audio_priority, counts, published, log>>

\* The batch of the new task is captured and sent: build_task_batch_capture
\* preflights the DP slot, start_raw_dpc_task_batch takes the renderer.
Why ==
  CASE next.full_sync /\ pending_dp -> "DpBusy"
    [] ~ready                       -> "backend absent"
    [] in_flight                    -> "overtaken"
    [] OTHER                        -> "none"
Dispatch ==
  /\ Running /\ at = "graphics" /\ ~MustJoin
  /\ next' = None
  /\ at' = "guest"
  /\ IF Why = "none"
     THEN /\ ready' = FALSE /\ in_flight' = TRUE
          /\ command' = next /\ continuation' = next
          /\ sp_busy' = TRUE
          /\ issued' = Append(issued, Do("execute", next.n))
          /\ UNCHANGED abort
     ELSE abort' = Why /\ UNCHANGED <<ready, in_flight, command, continuation, sp_busy, issued>>
  /\ UNCHANGED <<worker, executing, completion, deferred, pending_dp, audio_priority, counts, published, seen>>

\* rspboot polls XBUS DMA_BUSY before it loads over DMEM, and nothing clears
\* the flag while it spins.
Boot ==
  /\ Running /\ at = "boot" /\ ~MustJoin
  /\ at' = "guest"
  /\ IF continuation.xbus THEN abort' = "boot spins" /\ UNCHANGED sp_busy
                          ELSE sp_busy' = TRUE /\ UNCHANGED abort
  /\ UNCHANGED <<ready, in_flight, channel, deferred, continuation, next, pending_dp,
                 audio_priority, counts, published, log>>

\* drop_backends_for_process_exit: the result of an outstanding batch is waited
\* for and abandoned.
BeginExit ==
  /\ Running /\ at = "guest"
  /\ at' = "exit"
  /\ UNCHANGED <<ready, in_flight, channel, deferred, continuation, next, sp_busy, pending_dp,
                 audio_priority, abort, counts, published, log>>
Exit ==
  /\ Running /\ at = "exit"
  /\ IF in_flight THEN completion /\ Accept(<<>>)
                  ELSE UNCHANGED <<completion, in_flight, ready, deferred, seen>>
  /\ continuation' = None
  /\ worker' = "stopped"
  /\ at' = "gone"
  /\ UNCHANGED <<command, executing, next, sp_busy, pending_dp, audio_priority, abort, counts,
                 published, issued>>

Guest  == GuestWrite \/ (\E f, x \in BOOLEAN : StartGraphics(f, x)) \/ StartOther \/ BeginExit
Device == ReachEdge \/ SpDone \/ DpDone
Host   == Join \/ JoinFails \/ SkipJoin \/ Present \/ Dispatch \/ Boot \/ Exit
Worker == WorkerReceives \/ WorkerExecutes \/ WorkerPanics

Next == Guest \/ Device \/ Host \/ Worker

\* The emulation thread and the worker run.  Whatever the guest does takes
\* emulated time, so DP completions and VI edges come in between; the game need
\* not do anything, and a batch takes as long as it likes.
Fairness == WF_vars(Host) /\ WF_vars(Worker) /\ SF_vars(DpDone) /\ SF_vars(ReachEdge)

Spec == Init /\ [][Next]_vars /\ Fairness

-----------------------------------------------------------------------------
TypeOK ==
  /\ ready \in BOOLEAN /\ in_flight \in BOOLEAN /\ completion \in BOOLEAN
  /\ command \in Batch \union {None} /\ continuation \in Batch \union {None}
  /\ next \in Batch \union {None}
  /\ executing \in Batch \union {None} /\ worker \in {"alive", "dead", "stopped"}
  /\ deferred \in Seq(Op) /\ issued \in Seq(Op) /\ seen \in Seq(Op)
  /\ at \in Where /\ abort \in Abort
  /\ sp_busy \in BOOLEAN /\ pending_dp \in BOOLEAN /\ audio_priority \in BOOLEAN
  /\ batches \in Nat /\ writes \in Nat /\ published \in Nat

\* The renderer is in one pair of hands: the emulation thread's, or a batch's
\* that it knows is out, on its way to the worker, executing or on its way back.
Out == {x \in {"command", "executing", "completion"} :
          \/ x = "command" /\ command # None
          \/ x = "executing" /\ executing # None
          \/ x = "completion" /\ completion}
OneOwner ==
  /\ abort = "none" => (ready <=> ~in_flight)
  /\ abort = "none" /\ at # "gone" => (in_flight <=> continuation # None)
  /\ ready => Out = {}
  /\ worker # "dead" /\ ~ready => \E x \in Out : Out = {x}

\* What the renderer has yet to undergo of what was issued.
Unexecuted ==
  IF command # None THEN <<Do("execute", command.n)>>
  ELSE IF executing # None THEN <<Do("execute", executing.n)>> ELSE <<>>
Owed == Unexecuted \o deferred

\* The renderer undergoes the emulation thread's operations in the order they
\* were issued, as if there were no worker, and owes nothing whenever the
\* emulation thread can reach it.
AsIfLocal ==
  at # "gone" /\ worker # "dead" => issued = seen \o Owed /\ (ready => Owed = <<>>)

\* No assertion about the worker fails and no boot waits for itself, in a game
\* that waits for the DP interrupt: only the worker's own panic ends the program.
NoAbort == abort \in {"none", "worker panicked"}

\* "a later graphics task applies DPC backpressure": starting it is never an
\* error, whether or not the game waits for the DP interrupt first.
LaterGraphicsIsAdmitted == abort # "DpBusy"

\* A batch that was handed over is published, even when every VI edge skips it
\* for a while and the game never renders again.
EveryBatchPublished ==
  \A n \in 1..MaxBatches :
    continuation.n = n ~> (published >= n \/ abort = "worker panicked" \/ at \in {"exit", "gone"})

\* A join ends: the channels never leave the two threads waiting on each other,
\* and a dead worker is noticed.
HostNeverStuck == at \in Where \ {"guest"} ~> (at = "guest" \/ at = "gone" \/ abort # "none")
=============================================================================
