# fn64 in TLA+

fn64 runs statically recompiled Nintendo 64 programs: the guest's MIPS code
has been turned into Rust, every `OSThread` of the guest is a stackful
coroutine, and a deterministic executor plays libultra's scheduler, message
queues and timers around them while a host driver moves an emulated clock from
one hardware deadline to the next.  One host thread runs the guest and its
devices; most of the concurrency is in *emulated* time: threads that suspend
inside any libultra call, posts from timers and devices, host work that holds
the guest back.  Two more host threads really run beside it: a render worker that
owns the renderer until it is joined, and the network thread that feeds the
controllers of a multiplayer session.

This directory holds TLA+ modules for the parts of that machine whose
correctness depends on the order of events, TLC configurations that check them
on small instances, and proofs that TLAPS checks for every instance.
`PROJECT.json` maps each definition to the source lines it stands for and lists
the hazards each property answers.

Contents: [1 The system](#1-the-system) · [2 Modules](#2-the-modules-and-the-code)
· [3 Runs](#3-what-is-model-checked) · [4 Bounds](#4-bounds) ·
[5 Fairness](#5-fairness) · [6 Proofs](#6-what-is-proved) ·
[7 Findings](#7-where-the-code-and-its-documents-disagree) ·
[8 Plan](#8-plan) · [9 Not modelled](#9-what-is-not-modelled)

## 1 The system

### 1.1 How the parts interact

```
 recompiled guest code ── libultra shims (fn64-abi) ──┐ calls / yields
                                                      v
  host driver (fn64-abi/host.rs) ── run_one_step ──> Executor (fn64-runtime)
     │  commit_time_target                            threads, run queue,
     │                                                message queues, events,
     ├── device fabric: PI SI AI SP DP VI, MI ──post─>timer wheel, CP0 clock
     │      └── RDP command port <── START/END/STATUS, osDp*, RSP tasks
     │             └── transaction ──> renderer ──> commit or reject
     ├── HostKernel work ────────────────────ack────>
     ├── render worker (joined before a VI edge and before the next task)
     └── multiplayer broker (polled at each SI read) <── network thread
```

* The shims call the executor directly (create, stop, set priority, ...) or
  *yield* to it (send, receive, start, checkpoint, ...).  A yield carries the
  request; the value the coroutine is later resumed with carries the answer.
* The executor never calls the host.  The host asks for one step, then takes
  the *time target* the step left behind and walks the clock there.
* Devices and timers reach the guest through posts to message queues, which
  hand the message to a parked receiver or queue it.
* The RDP command port turns register writes into renderer transactions, one at a
  time.  A transaction ends in a commit, a rejection, or parked because the list
  breaks off inside a command; only an RSP task's batch keeps one open while the
  guest runs on.
* Host-kernel work interrupts a guest thread; nothing is dispatched until the
  host acknowledged and committed it at its deadline.

### 1.2 Components

| Component | State | Operations | Hard behaviour | What makes it correct |
|---|---|---|---|---|
| **Message queues** `mesgqueue.rs` | ring (capacity, slots, `first`, `valid_count`), two priority-ordered waiter lists | create, send, jam, receive, park, wake one receiver, wake one sender, remove a waiter | hand-off past the ring; waking a sender must write its message; head steps both ways around slot 0; zero capacity before creation | a bounded double-ended list; no lost wake-up, message or order |
| **Executor, scheduler** `executor/mod.rs`, `thread.rs` | thread table, run queue, run token, kept answers, interrupt masks, event table, time target, host work | create, start, stop, destroy, set priority, dispatch, every yield, post, inject event, commit | five tables updated one after the other by every handler; an answer chosen in one step and consumed many steps later; stop or destroy in between | the tables agree; the right value reaches each resumed coroutine; order by priority, in turn among equals |
| **OS timers** `timer.rs` | vector of armed timers, next id | set, stop, advance | catch-up of overdue repeating timers, ties | fires at its own instants, in order, however time is cut |
| **CP0 Count/Compare** `executor/mod.rs` | Count, half-rate phase, Compare, latch | advance, write Count, write Compare, restore | wrap-around, a match skipped by a long advance, Compare = Count | equals the cycle-by-cycle clock |
| **Virtual time driver** `host.rs` | clock, target, deadlines | ask for a target, settle renderer, commit a boundary | a boundary computed before a join that can add an earlier one; several classes due at one instant | every effect at its own instant, in order, before a guest resumes; the walk ends |
| **libultra shims** `fn64-abi/{thread,mesgqueue,dispatch,timer}.rs` | handle tables | which executor call each makes, what it accepts back | a shim panics on a resume it does not expect; re-arming an `OSTimer` orphans the earlier one | resume protocol; handles name live objects |
| **PI and SI with their host side** `device/fabric*.rs`, `pi/{timing,mmio}.rs`, `fn64-abi/{pi,si}.rs` | in the fabric one PI transfer, one SI operation, a heap of deadlines, MI's SI level; beside it the FIFO of managed PI transfers, the SI owner, who was answered, the exact interrupts to service | managed and raw DMA, PIF controls, PI reset, acknowledge, mask, load a ROM; one device step | two owners of one transfer; deadlines that outlive a reset; bytes moved at issue or at the deadline; completions of one instant | the host's tables name what the fabric holds; each transfer moves its bytes once and is over once, in order; every caller is told |
| **RDP command port** `device/{fabric,fabric_ops}.rs`, `rsp_commit/{scheduled,task_batch}.rs` | START, END, CURRENT, STATUS; the open transaction with what its rejection restores; the command left half exposed; ranges of a task reserved and not yet activated | write START, END, STATUS; `osDpSetNextBuffer`; ranges an RSP task captured; activate, park, commit, cancel; an RSP task's register commit | a command list exposed in pieces that cut commands; modes changed under an open transaction; two commit paths; rejection after an extension | every range decoded once, at one instant, or not at all; a rejection restores what the admission changed and nothing else |
| **Device fabric** `device/mod.rs` and its other devices (AI, SP, DP, VI) | DMA transactions per device, MI causes and mask | start, complete, acknowledge | an RSP task that ends between a graphics activation and DP's publication; busy/full double buffers | no completion lost or published twice; MI causes match transactions |
| **RSP dispatch, render worker** `task_dispatch/*.rs` | the renderer or where it is, the two channels, the worker, the continuation, stores set aside | start a graphics or another task, receive, execute, join at an edge, before a task or a boot, skip an edge, present, exit | guest stores while the worker has the renderer; a worker that dies; a join under a time budget; a batch whose DMEM a boot needs | one owner; the renderer sees what it would have seen without a worker; every batch published; no join waits for ever |
| **DPC schedule** `dpc_schedule.rs` | FIFO of submissions, sync tokens | admit, retire, full sync | sync that belongs to an earlier submission | retire in order |
| **Multiplayer broker** `multiplayer.rs` | bounded mailbox, reorder window, next ordinal, failure latch | submit, drop the ingress, drain, take the bundle of a poll | a producer thread between any two receives of a drain; late, duplicate, foreign, out-of-window bundles; a dropped sender with bundles still queued | the polls consume the first submission of each ordinal, in order; the bounds reject no one who keeps the lockstep |
| **Overlay residency** `overlay.rs` | sections and where they are loaded | load, unload, look up | overlapping loads | an address resolves to at most one section |
| **Controller Pak** `pfs.rs` | page chains, directory | allocate, delete, write, repair | full or damaged chain in mid operation | chains disjoint, terminated, accounted |
| **Save media** `save.rs` | EEPROM, SRAM, FlashRAM mode | command, erase, program | command out of sequence | a write is whole or absent |
| **Transfer Pak** `transfer_pak.rs` | power, bank, mapper | enable, select, access | access before power-up | bank in range |
| **VI, AI** `vi.rs`, `ai.rs` | latched and pending mode; DMA double buffer | set, latch at field, queue, drain | swap between fields | a field shows one whole mode |
| **SI, voice** `si.rs`, `voice.rs` | PIF command block | run commands | – | data transformation |
| **Memory, ROM, MMIO decode** `rdram.rs`, `rom.rs`, `mmio.rs` | bytes | read, write | – | bounds |
| **RSP hook** `rsp.rs`, `sp_dp.rs` | task log, registers | forward | – | – |
| **Recompiled driver** `recompiled/*.rs` | program counter, block tables | run a block, fault | what a fault does to its thread | a faulted thread is never resumed |

The remaining crates (code generator, discovery, renderers, audio synthesis,
certification, diff, shell and the rest) are offline tools or pure data
transformation; section 9 says so one by one.

### 1.3 The hard part

Five things make this code hard to test, and the properties aim at them:

1. **An answer outlives the step that chose it.**  `handle_yield` or a post
   stores a `Resume` for a thread; the thread may then be stopped, destroyed,
   restarted or re-prioritised before it is dispatched, and the shim it is
   suspended in panics on a value it does not expect.
2. **Five tables say who waits, who runs and who is owed what**, and every
   handler updates them one after the other.  `validate_control_evidence_invariants`
   spells out how they must agree.
3. **Deadlines appear while deadlines are being served.**  The boundary of a
   time commit is computed, then the renderer is joined, which may publish an
   earlier one; timers re-arm; the VI schedules its next field.
4. **A transaction can be rejected while the guest goes on.**  Admission moves the
   command port's registers before the renderer has said yes; START, CURRENT, the
   parked command and the modes the guest sets meanwhile each need the right
   treatment on each of four ways a transaction ends.
5. **One thing, two owners.**  The fabric holds a DMA transfer and the host a
   table of whom to tell; the renderer leaves with a worker while the guest
   keeps storing to the memory it reads; the mailbox belongs to a network thread and
   the window behind it to the simulation.  The halves are updated at different
   moments, and assertions on both sides rely on their agreeing.

## 2 The modules and the code

```
WaitList ──┬── MesgDeque   (what a queue promises)
           │      ^ refined by
           ├── MesgQueue ──── MCMesgQueue, MesgQueueProofs
           │      (the ring)
           ├── Executor ──┬── RunQueueSort (the sort itself) ── MCExecutor (workloads for TLC)
           │              │        └── ExecutorProofs (types, wake-ups, tables, order, loss,
           │              │                            the sort, the refinement)
           │              └── refines MesgDeque, through its run queue and threads
           └── WaitListProofs (lemmas on lists)
TimerList ──┬── TimerWheel       CpuClock
            └── VirtualTime      (all three proved about in TimeProofs)
DpcStream    (what the command port promises)
   ^ refined by
DpcPort ──┬── MCDpcPort
          └── DpcPortProofs   (types, held ranges, once-only decoding, refinement)
LockstepInput  (what the polls of a session see)      DmaQueue  (what the PI promises)
   ^ refined by                                          ^ refined by
InputBroker ── InputBrokerProofs                      Peripherals ── PeripheralsProofs
RenderWorker ── RenderWorkerProofs
```

Names follow the source: a variable or action has the name of the field or
function it stands for.

**WaitList** – `priority_insert_index`, `remove_waiter` and the run queue's
push-and-sort as moves of one element in a priority-ordered list: `Park`,
`Unpark`, `PriorityInsert`, `Without`, `Reposition`.  Nothing is recursive, so
both TLC and the proofs use it.

**MesgDeque** – the abstract queue.  State: capacity, messages in receive order,
two waiting rooms, the answer owed to each thread.  It knows nothing of slots,
coroutines or scheduling.

**MesgQueue** – `mesgqueue.rs` with its ring: slots, `first`, `valid_count`,
stale contents included.  `Send`, `Recv`, `Post`, `Create`, `RemoveWaiter`
each are the whole path an executor handler takes through `try_*`, `block_*`
and `wake_one_*`; `Resume` is the receiver picking its answer up.

**Executor** – threads, run queue, token, queues, events, host handshakes.
`run_one_step` is cut where guest code runs: `Dispatch` (choose, take the token,
resume), any number of `GuestCall`s (libultra calls that return), one
`GuestSuspend` (through `handle_yield`).  Between steps the host posts
(`Post`, `InjectEvent`) and commits (`CommitTimeTarget`, `CommitHostWork`).
`point[t]` says in which call the coroutine of `t` stands, and `Accepts` which
`Resume` the code there understands; a mismatch, a switch to a thread whose
interrupt mask is gone, or the start of a thread that is not stopped sets `panic`.
Queues appear in their logical view (the same one `MesgQueue` maps to).  The
constant `Calls` grants each thread the libultra calls its code makes.  Some calls
have names of their own for the case in which they are made.  `RestartMidCall` (start
a thread stopped inside a blocking call or after a fault, which the comments of
`start_thread` and `stop_thread` provide for) and `StartUnstopped` end the program, and
the workload of `exec_lifecycle` makes both.  `StopSelf`, `DestroySelf`, `StopDead` and
`RecreateQueue` (create a queue under its waiters) leave the tables in a state the
executor's own validator calls a structural bug, while no document says what they
ought to do: the workloads leave these four out, and a workload without them is
*disciplined*.  `SetParkedPri`, a priority change of a waiting thread, is allowed; see
section 7 for all of them.

**RunQueueSort** – justifies the one-element moves.  The code pushes (or changes a
priority) and then stably sorts the whole run queue; `Executor` moves one
element.  The module states the sort and `Vec::retain` by what they do: every
element in the place that the elements before it determine (`Arranged`).
`MoveIsSort` compares the two in every state the executor reaches, for every thread
and priority, so it also says that no caller leaves a list for the sort to repair.

**TimerList** – the vector of `timer.rs` and the walk of `advance` over it: which
timer is next, how it is armed again or removed, and the whole loop
(`AdvanceWheel`, a recursive function on the vector and what was fired).

**TimerWheel** – the wheel by itself, over TimerList.  `Advance` is the whole
`advance` call; `armed` and `fired` are history variables.  The clock is the executor's.

**CpuClock** – `advance_clock_to`, `set_cp0_count`, `write_cp0_compare`,
`restore_cp0_clock` with registers that wrap at `Wrap` instead of 2^32; the proof
holds at any.

**VirtualTime** – `commit_time_target` and `settle_renderer_before_vi`.  A device
is a deadline and what its completion schedules next; the timers are
TimerList's.  `Commit` is one turn of the loop, `Restart` the turn that is
abandoned because joining the renderer published an earlier deadline.

**DpcStream** – the abstract command port.  State: registers without busy flags,
the truncated command (`tail`), and which units of the open command stream have
been decoded.  A range is decoded, stalled at its last command, or merely
exposed, each in one step; the modes XBUS and FREEZE change at any time.

**DpcPort** – the port with its transactions.  Addresses count the 8-byte units
END moves by, and of a command only its length matters: the bytes may be
anything when the port reads them, so whether a range ends inside a command is a
choice (`BreaksOff`), except for a command whose head was already seen
(`MayBeWhole`).  `WriteStart`, `WriteEnd` and `WriteStatus` are the register
writes with all they submit; `Request` is `request_dpc_submission`, used by
`osDpSetNextBuffer` and by an RSP task's ranges; `StartBatch` and `NextMember`
reserve and activate the ranges of a task; `Park`, `Commit` and `Cancel` end a
transaction; `RspCommit` is a finished task leaving its registers.  `lane` says
who admitted a range, and with it who may run: the dispatch of every lane but
`batch` ends within the call that admitted it (`GuestRuns`).  `session` selects
between the two commit paths.  `Cancel` is enabled for every open transaction:
a guard restores the port whenever a dispatch returns an error or unwinds.
Where the code returns an error or panics before it changes a register (an
invalid range, a session's failed check, a batch activated under FREEZE), the
action is disabled.  `stream` is a history variable.  The refinement maps an open
transaction to the registers its rejection would restore (`Settled`).

**LockstepInput** – the abstract input of a multiplayer session: a script settled by
the first submission for each ordinal, and the polls that consume it in order.

**InputBroker** – `multiplayer.rs` with its two threads.  A poll is cut where the
producer can come in between: `BeginPoll`, one `Drain` per `try_recv`, `FinishPoll`
once the channel is found empty, with `Take` behind it.  The producer may submit
anything: foreign bundles, stale ones, duplicates, ordinals outside the window.
`Bundle.ours` stands for session and port set.  `script`, `strayed`, `answer` and
`sent` are history.

**DmaQueue** – the abstract PI: accepted transfers move their bytes once, not before
they are accepted and not after they are over, and are over in order; a reset
forgets what was accepted.

**Peripherals** – PI and SI with both halves of their state: the fabric's slots and
heap of deadlines, and the host's queue, owner, answers and interrupt routes.  A
device step is `Due` for each deadline of one instant, then `Settle`: the host
takes the notifications, answers the callers, starts the next transfer.  No guest
action is enabled between the two, as in `advance_device_time_step`.  Instants are left
out: any pending deadline may be the next, since PI latencies are programmed by
the guest.  A transfer's number stands for its request and for the token of its
deadline, which is what the fabric compares.  An exact interrupt (a PIF control) goes
through `AcceptInterrupt` and `CommitWork`, the host kernel's service.  `Careless`
says which of four conducts the guest may show that no caller in the repository is known
to have:
`AckOccurrence` (store to SI_STATUS while an exact occurrence is retained),
`ControlWhilePending` (a terminate-boot control under a raised SI level),
`ReloadInFlight` (load a ROM while an SI transfer is in flight) and
`QueuedOutsideWindow` (queue a managed PI transfer, behind another, that the fabric will
not admit).  The run lets it show all four; `conducts` is the history of those it has
shown, and `abort` names the assertion that ended the program: of a raised interrupt
level, of the SI ownership, of a step's notifications, of the request behind a completed
one, of the host-kernel service.  Section 7 says what the conducts lead to.

**RenderWorker** – `task_dispatch/lifecycle.rs`: the emulation thread, two channels and
the worker.  `at` says in which of its calls the emulation thread is: running the
guest, starting a graphics task, booting another one over shared DMEM, at a VI
edge, or leaving.  `Join`, `JoinFails` and `SkipJoin` are the three ways a join ends;
`Dispatch` captures and sends a batch; `Publish` completes one, replaying first the
guest stores set aside meanwhile.  The worker receives, executes, or panics and drops
its ends of the channels.  `issued` lists the renderer operations in the order the
emulation thread asked for them, `seen` the order in which the renderer underwent
them; both are history.  `WaitsForDp` says whether the game waits for the DP
interrupt of a task with a FullSync before it starts the next one.

A definition marked *Mutant* is a plausible programming error in the definition
that follows it (a message not written, a list not sorted, an index that does
not wrap).  No specification uses one; substituting it must break the property
`PROJECT.json` names, which shows the property can see that error.

## 3 What is model-checked

| Run | Asks | Shows | States |
|---|---|---|---|
| `queue_ring` | does the ring with its waiter lists behave as a double-ended list? | `ImplementsDeque` (refinement), `RingSound` (types, no lost wake-up, no message in two places), `NoSilentLoss`, `ServedInOrder`, for three callers, posts, stops and re-creation | 4 638 (up to symmetry) |
| `exec_mesg` | does scheduling add anything to a queue's behaviour, and does everybody get on? | the same refinement through the executor, for every flavour of send and receive and re-creation of the queue while nobody waits, with `TypeOK` and `NoLostWakeup`; liveness: `UrgentRuns` (the token), `ParkedIsServed` (messages); deadlock freedom | 10 812 |
| `exec_lifecycle` | do thread calls and host actions keep the tables? | `ControlInvariant`, `AbortsOnlyOnStart`, `StoppedStaysStopped`, `NoSilentLoss`, `RunsInOrder`, `MoveIsSort` while threads that run, wait, fault or hold an answer are created, started, restarted wherever they were stopped, stopped, destroyed and re-prioritised, with events, posts, time targets and host work between and inside the calls, at one queue and one never created | 478 233 |
| `timer_wheel` | do timers fire when they ought to? | `FiredOnSchedule` against an arithmetic definition of the schedule, order included | 1 929 446 |
| `cpu_clock` | is a bulk advance a series of cycles? | `BulkIsTicks` from every state | all 256 |
| `virtual_time` | is every effect delivered at its instant? | `DeliveredOnTime`, `DeliveredInOrder`, `NoTrap`, `TargetIsReached` | 65 057 |
| `dpc_port` | is a command list, however it is cut, decoded once and in whole transactions? | `TakenAtOnce` (refinement of `DpcStream`), `HeldRange`, `LegacyFedOnce`, `StalledIsBusy`, with and without a session, with parked commands, batches, FREEZE and rejections | 122 242 |
| `input_broker` | does a session's input depend on the timing of its network thread? | `ImplementsLockstep` (refinement of `LockstepInput`), `WindowBounded`, `OnlyStraysFail`, `DisconnectedIsFinal`, `ScriptIsPlayed` (liveness), with a producer that submits anything and may go away at any time | 157 259 |
| `render_worker` | can the guest tell that another thread renders? | `AsIfLocal`, `OneOwner`, `NoAbort`, and the liveness `EveryBatchPublished`, `HostNeverStuck`, under both presentation policies, with a worker that may die | 45 424 |
| `peripherals` | do fabric and host agree on who is owed what? | `ImplementsDmaQueue` (refinement of `DmaQueue`), `HostAgrees`, `AbortsForCause`, and the liveness `EveryoneIsTold`, `OccurrenceServiced`, for a guest of every conduct | 143 622 |
| `bad_later_graphics` | see section 7 | violation | – |
| `bad_restart` | see section 7 | violation | – |

What the main properties mean:

* `ControlInvariant` restates the executor's own validator
  (`validate_control_evidence_invariants`) and asks it of *every* state, inside
  guest calls too, not only of those where the host happens to ask.
* `ResumeProtocol` relates where a coroutine stands, the state of its thread and
  the value kept for it.
* `AbortsOnlyOnStart` (executor): its consequence at dispatch.  A scheduler assertion
  fails only when a thread is started that is not stopped, or when one is dispatched
  that was stopped in mid call and started again; and only a start brings a thread
  there.  No kept answer reaches the wrong call, whichever handler chose it.
* `NoLostWakeup`: a queue with a parked receiver is empty, with a parked sender
  full.  It is what lets the `try_*`, `block_*`, `wake_*` sequences be used
  without a re-check.
* `NoSilentLoss`: a sent token disappears only when a receiver runs with it, its
  holder is stopped, or the guest re-creates the queue.
* `RunsInOrder`: the dispatched thread is as urgent as any runnable one, and the
  run queue never lets two equals change places.
* `StoppedStaysStopped`: only a start or destroy by *another* thread changes a
  stopped thread, nothing a dead one.  This is about late answers and posts.
* `HeldRange`: while a transaction is open, no write of the guest, of an RSP task
  or of the port itself moves CURRENT or END off the admitted range, drops a busy
  flag the renderer still owes, or latches a START.  Three of the checks
  `prepare_dpc_commit` makes before a commit rest on it.
* `LegacyFedOnce`: without a session no unit of a command stream reaches the
  decoder twice, whatever is parked, frozen or rejected in between.  (With a
  session this fails: section 7.)
* `StalledIsBusy`: without a session the guest sees a busy DP for as long as the
  port waits for the rest of a command, also after a rejected extension.
* `TakenAtOnce`: a transaction takes effect at one instant or not at all.  A
  rejection restores START, END, CURRENT, START_VALID and the tail, and does not
  undo the modes the guest set meanwhile.

* `WindowBounded`: one drain takes as many bundles as the producer pushes into it,
  and still the window holds only the next `Capacity` ordinals.
* `OnlyStraysFail`: the ingress fails for good at the first bundle it rejects; so it
  matters that a producer that submits each ordinal once and stays less than
  `Capacity` ahead of the polls *already answered* is never rejected, although its
  bundles wait in the mailbox while the polls move on.
* `DisconnectedIsFinal`: a dropped sender ends a session only when the bundle that
  is wanted was never sent; the mailbox is emptied before the disconnection is
  believed.
* `AsIfLocal`: executions, guest stores and publications reach the renderer in the
  order the emulation thread asked for them, and whenever that thread has the
  renderer in hand nothing is owed.
* `EveryBatchPublished`: under audio priority every VI edge may find the batch
  unfinished and skip it; it is still published if the game never renders again.
* `HostAgrees`: the head of the host's PI queue is the transfer in the fabric's
  slot, until its completion is notified; the SI owner names the SI transfer; a
  deadline left behind by a reset or a ROM load owns nothing; every retained
  interrupt is the live occurrence.  The owner is excepted once a ROM was loaded under
  an SI transfer, the interrupts once the guest acknowledged an occurrence itself.
* `AbortsForCause`: each assertion of the two interfaces fails only after the conduct
  that leads to it, and those on PI metadata, SI metadata and host-kernel work never:
  no order of completions, resets, acknowledgements and ROM loads makes the host commit
  what the fabric does not have.
* `EveryoneIsTold`: a caller whose request was accepted and who asked for a message gets
  it, in whichever order the deadlines of the instant are taken, unless a reset or a ROM
  load forgot the request or the program ended; and `osPfsIsPlug` returns unless a ROM
  was loaded under it.

Deadlock is checked, in `exec_mesg` too, except in the executor runs whose workloads may
really stop (all threads ended or waiting for each other, or the program ended:
`exec_lifecycle`, `bad_restart`), in `virtual_time`, where the guest asks for no
target past `MaxTime`, in `dpc_port`, where every unfrozen END or request needs a
token below `MaxTokens` and an open transaction that a session refuses to commit
ends only by a rejection, in `render_worker` and `bad_later_graphics`, where
the program may exit or die with its worker, and in `peripherals`, whose transfers
are counted and whose guest may end the program.  What deadlock would have shown of the
last two, the liveness properties say.

## 4 Bounds

| Bound | Where | Why it is enough |
|---|---|---|
| three threads | queues, executor | an actor, a victim and a bystander: waiter lists with a head, a middle and a tail; two equals and one more urgent |
| capacity 0..3 | `queue_ring` | uncreated; one slot (head is tail); two; three, where both ends wrap with stale slots between them |
| capacity ≤ 2 / 1 | executor runs | full and empty are one step apart; a queue the guest never created has capacity 0; the ring is covered above |
| four or five tokens | same | one per slot, per parked sender and per pending answer.  A sender takes the lowest token not in transit; tokens carry no meaning |
| two priorities | all | more urgent, equal, less urgent |
| three timers, five instants, countdown and interval 0..2 | `timer_wheel` | one-shot, repeating, overdue twice or more, ties between all three |
| registers that wrap at 8, chunks ≤ 40 cycles | `cpu_clock` | two and a half turns of Count: matches skipped, hit exactly, passed twice; an odd and an even phase |
| 2 units of RDRAM, 1 of DMEM, commands of up to 3 units | `dpc_port` | a range can be one whole command, whole commands and a broken one, or only part of a longer one; DMEM is smaller than RDRAM, so a range valid in one is not in the other |
| three transactions, batches of two | `dpc_port` | parked, extended and restarted; a batch with a first and a later member, and one more transaction |
| five cycles, two timers, one DMA, one render batch | `virtual_time` | each class due alone and together, before and after the joined deadline |

| mailbox and window of two, ordinals 0..3, two inputs, five submissions | `input_broker` | full and empty mailbox, both ends of the window and one beyond; the last ordinal is the largest there is, so exhaustion is reached; enough submissions for a complete script and one stray, or for any mixture of own and foreign bundles |
| three batches, three stores | `render_worker` | a batch behind, with and before another; stores before, between and after the worker's execution; with and without FullSync and XBUS |
| three PI transfers, two SI operations, four of both, one thread, one ROM load | `peripherals` | a transfer in flight, one behind it, and one after a reset whose stale deadline is still in the heap, with one SI operation; an SI transfer and a PIF control in either order, with two PI transfers |

`BrokerAssumption`, `WorkerAssumption` and `PeripheralsAssumption` say that counts
are naturals, that a capacity is positive (`InputMailbox` and the broker refuse zero),
which conducts `Careless` may name, and that no thread is called as the two owners
of an SI transfer that are none.  `LimitAssumption` says only that sizes and bounds are
naturals and a command has a unit; `TimerAssumption` and `TimeAssumption` say only that instants are naturals,
that a device never answers in the cycle it was started (`Latency` positive),
that fields and service take time, and that `Never`, which stands for no deadline, is
later than any; the code has these as checked or constant values.  `ClockAssumption` says
that a register has at least one value.  Symmetry is used for threads and tokens in `queue_ring` only,
which checks no liveness.

## 5 Fairness

`Executor!Fairness` is weak fairness on four things: a dispatch that stays
possible, the running body reaching *some* suspending call, and the two host
commits.  The code justifies them: the drivers in `host.rs` loop on
`run_one_step` and commit a target or host work before the next; a body that
never suspends hangs the one host thread, which is why the recompiler turns
guest spin loops into yields and inserts instruction checkpoints.  *Which* call
the body makes is left open, so the workload of `exec_mesg`, the run of the liveness
properties, has threads that only send, receive and re-create the queue, with or without
waiting; one only takes and one only puts, so that somebody always goes on.  Posts and events have no fairness: a device owes the
guest nothing.

`DpcPort` assumes none: its properties are safety.

`InputBroker` assumes that the simulation thread keeps polling and asks for the ordinal
it needs: weak fairness of entering a poll and of each receive, strong fairness of
finishing it, because the producer may refill the mailbox during a drain, a finite
number of times.  Nothing is assumed of the producer.

`RenderWorker` assumes weak fairness of the emulation thread's joins and dispatches and
of the worker, which are two running host threads, and strong fairness of a DP
completion and of reaching a VI edge: whatever the guest does takes emulated time,
so these deadlines come in between.  The worker may take as long as it likes (a
skipped join is always possible before it ends) and the game need not do anything.

`Peripherals` assumes weak fairness of each device's deadline, of settling a device step
and of committing host-kernel work, which are the driver's loop, and strong fairness
of accepting an interrupt: a guest samples it at its boundaries, between which it may
mask and unmask it.

`VirtualTime` assumes weak fairness of the commit loop, which is a `loop` in one
function.  Nothing is assumed of the guest or of the worker: the join may report
"not finished" for ever under audio-priority presentation.

## 6 What is proved

TLAPS proves these for every set of threads, queues, events, messages and
priorities, every capacity, boot sequence and workload, from
`ExecutorAssumption` alone (the null values are not members, priorities are
integers, the host boots threads once each in priority order):

| Theorem | Statement |
|---|---|
| `ExecutorProofs!TypeCorrect` | `Spec => []TypeOK`, including "no queue holds more than its capacity" |
| `ExecutorProofs!WakeupsNotLost` | `Spec => []NoLostWakeup` |
| `ExecutorProofs!TablesAgree` | *disciplined* `=> (Spec => []ControlInvariant)` |
| `ExecutorProofs!AbortsExplained` | *disciplined* `=> (Spec => AbortsOnlyOnStart)`: starting what is not stopped and restarting in mid call are all that ends the program |
| `ExecutorProofs!StoppedForGood` | *disciplined* `=> (Spec => StoppedStaysStopped)` |
| `ExecutorProofs!ServedByPriority` | *disciplined* `=> (Spec => RunsInOrder)` |
| `ExecutorProofs!SentIsNotLost` | *disciplined* `=> (Spec => NoSilentLoss)` |
| `ExecutorProofs!MovesSort` | *disciplined* `=> (Spec => []MoveIsSort)`: moving one thread is sorting the run queue |
| `ExecutorProofs!QueueImplementsDeque` | *disciplined*, one queue `=> (Spec => ImplementsDeque)`: the executor implements `MesgDeque` |

For the message queue it proves these for every capacity, set of threads,
priorities and tokens, from `QueueAssumption`:

| Theorem | Statement |
|---|---|
| `MesgQueueProofs!RingImplementsDeque` | `Spec => ImplementsDeque`: the ring implements `MesgDeque` |
| `MesgQueueProofs!RingStaysSound` | `Spec => []RingSound`: types, no lost wake-up, no token in two places |
| `MesgQueueProofs!NothingLostSilently` | `Spec => NoSilentLoss` |
| `MesgQueueProofs!WaitersServedInOrder` | `Spec => ServedInOrder` |

For the three models of time, for every horizon, set of countdowns and intervals,
number of timers, latency, field and service time, and for registers and chunks of any
size, from `TimerAssumption`, `TimeAssumption` and `ClockAssumption`:

| Theorem | Statement |
|---|---|
| `TimeProofs!OnTime` | `Spec => []DeliveredOnTime` (VirtualTime) |
| `TimeProofs!LoopProgresses` | `Spec => []NoTrap`: the commit loop's assertion never fails |
| `TimeProofs!InOrder` | `Spec => DeliveredInOrder` |
| `TimeProofs!TimersOnSchedule` | `WheelSpec => []FiredOnSchedule` |
| `TimeProofs!ChunksAreTicks` | `ClockSpec => []BulkIsTicks` |

For the command port it proves these for every size of RDRAM and DMEM, every
command length, batch size and number of transactions, with or without sessions,
from `LimitAssumption` and `NoneAssumption` (the null values are not members):

| Theorem | Statement |
|---|---|
| `DpcPortProofs!PortTypeCorrect` | `Spec => []TypeOK`: in particular no transaction and no parked command ends outside the memory it is read from |
| `DpcPortProofs!OpenRangeHeld` | `Spec => []HeldRange` |
| `DpcPortProofs!ParkedPortBusy` | `Spec => []StalledIsBusy` |
| `DpcPortProofs!CommandsOnce` | `Spec => []LegacyFedOnce` |
| `DpcPortProofs!PortImplementsStream` | `Spec => TakenAtOnce`: the port implements `DpcStream` |

For the multiplayer broker it proves these for every capacity, range of ordinals, set
of inputs and number of submissions, from `BrokerAssumption`:

| Theorem | Statement |
|---|---|
| `InputBrokerProofs!BrokerTypes` | `Spec => []TypeOK`: the mailbox keeps its bound, the ordinal never passes the last one |
| `InputBrokerProofs!WindowStaysBounded` | `Spec => []WindowBounded` |
| `InputBrokerProofs!LockstepNeverRejected` | `Spec => []OnlyStraysFail` |
| `InputBrokerProofs!NothingLeftBehind` | `Spec => []DisconnectedIsFinal` |
| `InputBrokerProofs!BrokerImplementsLockstep` | `Spec => ImplementsLockstep`: the broker implements `LockstepInput` |

For the render worker, for any number of batches and stores and both presentation
policies, from `WorkerAssumption`:

| Theorem | Statement |
|---|---|
| `RenderWorkerProofs!WorkerTypes` | `Spec => []TypeOK` |
| `RenderWorkerProofs!RendererHasOneOwner` | `Spec => []OneOwner` |
| `RenderWorkerProofs!RendererAsIfLocal` | `Spec => []AsIfLocal` |
| `RenderWorkerProofs!WorkerNeverAborts` | `WaitsForDp => (Spec => []NoAbort)` |

The assumption of the last cannot be dropped: `bad_later_graphics` (section 7).

For PI and SI, for any number of transfers, ROM loads and threads and a guest of whatever
conduct, from `PeripheralsAssumption`:

| Theorem | Statement |
|---|---|
| `PeripheralsProofs!PiImplementsQueue` | `Spec => ImplementsDmaQueue`: the PI implements `DmaQueue` |
| `PeripheralsProofs!HostAndFabricAgree` | `Spec => []HostAgrees` |
| `PeripheralsProofs!AbortsAreCaused` | `Spec => []AbortsForCause` |

The conducts are in the properties, not in the hypotheses: each theorem says what remains
true after any of them, and a guest that shows none meets no assertion.

*Disciplined* is `Disciplined` in `ExecutorProofs`: no thread's code makes
`StopSelf`, `DestroySelf`, `StopDead` or `RecreateQueue`.  It may restart threads in mid
call and start ones that are not stopped.  The assumption cannot be dropped: each of
the four calls really breaks one of the properties (section 7).  `TypeCorrect` and
`WakeupsNotLost` need no such assumption; re-creating a queue under its waiters loses the waiters,
not the wake-up.

**Wake-ups.**  `TypeOK` is not inductive alone.  A receive that wakes a sender
puts a message in: that fits because a sender is parked only at a full queue,
which is half of `NoLostWakeup`; and `NoLostWakeup` needs types to speak of
lengths.  `SafeTypes` proves the conjunction inductive.  `QueuesOK` gathers what
both say of one queue, and one lemma per way of replacing a queue
(`ReceiverGoneServed`, `ReceivedServed`, `QueuedServed`, `PostedServed`,
`ReceiverParkedServed`, `SenderParkedServed`, `UnwaitedServed`,
`NewQueueServed`) does the work; the proof of the step is then a case per action.

**Tables.**  `ControlInvariant` is not inductive either.  `Dispatch` sets `panic`
unless the kept value fits, so `AbortsOnlyOnStart` needs `ResumeProtocol`, which
excepts a thread restarted in mid call; `ResumeProtocol` for a thread that is woken needs to know that a blocked thread stands in the
call it is blocked in and that nothing is kept for it, which is
`ControlInvariant`'s `PendingSound`; and `WaitersSound` after a wake-up needs the
woken thread to wait nowhere else.  `Control`, the conjunction of the two, is
inductive under `TypeOK /\ NoLostWakeup`.  For the proof it is regrouped into
`Parts`: the run queue, the waiter lists (as sets of thread identities, so that
the ordering drops out), host work, and a *profile* per thread
(`ThreadSound(state, point, kept value, mask, owns token)`).  Each handler then
shows that the threads it touches end in one of the legal `Profiles` and
that the others are untouched.

**Order and loss.**  `Before` makes the run queue a linear order (`BeforeFacts`), and
`Urgent`, that whoever stands before is at least as urgent, is the invariant added.  Only
three things happen to the queue: a thread is inserted, one is taken out, and one is put
in its new place when its priority changes.  Each keeps the order of all the others
(`InsertedBefore`, `RemovedBefore`).  A newcomer and a thread made more urgent go behind the
threads of that priority, one made less urgent in front of them, as a stable sort leaves
them (`RepositionOrder`).  The head is then as urgent as any runnable thread, since `ControlInvariant` says
the queue holds all of them.  For `NoSilentLoss`, `Held` is what a queue holds, its parked
senders' messages included: every step but a receive, a stop and a re-creation lets it
grow only (`HeldGrows`, `QueuesStep`), a receive hands its head to the caller, and an
answer stays with its thread until that runs or is stopped (`AnswerStays`), because whoever
is woken was blocked and was owed nothing.

**The executor's sort.**  The code sorts the whole run queue, the model moves one thread.
Both orders are given by what stands before what.  A list whose elements are told
apart by priority and, among equals, by their old order is the stable sort
(`SortedIsSort`): each element's rank, the number of those that precede it, is its place,
because the places are a bijection onto 1..n (`PlacesCounted`).  What is left is that
after an append (`EnqueueIsSort`) and after a changed priority (`RepositionIsSort`) the
move keeps exactly that order, provided the queue was sorted before: `Urgent`, the
invariant of `RunsInOrder`.  `WithoutIsRetain` is the same for `Vec::retain`.

**The executor's refinement.**  An answer is what is kept for a thread, `Start` and
`Continue` excepted (`Kept`).  `DequeStep` maps each action: a dispatch is a `Resume` if
the thread is owed an answer; stopping, destroying, pausing and returning are `Withdraw`; a
fault's event is a `Post`, since the faulting thread runs and so neither waits nor is owed
anything; `CreateMesgQueue` is a `Create` because a disciplined guest creates no queue
under its waiters; everything else shows nothing.  The caller of a send or receive is
`Ready` and is not the thread it wakes: both are in `Control` (`CallerIsReady`,
`Calling`).  Starting a thread installs `Start` only where nothing was kept, which is
`PendingSound`.  `OneQueue` says that there is a single queue, of whatever capacity when
the host starts: the property speaks of one queue because an answer does not say which queue it came from.

**Time.**  `AdvanceWheel` and `Ticks` are recursive functions, and the library's induction
theorems cannot be used (below).  What they return is proved by the least counterexample,
an element of a set of naturals that has none below it.  For the wheel that takes a function to speak of: `LoopExists` shows that a
recursion `IF s \in Go THEN f[step[s]] ELSE s` has a solution, whether or not it ends,
and `LoopKeeps` that a solution leads from a set the turns keep into that set and out of
`Go`, if a natural number comes down with every turn.  The set here is `OnSchedule`
of the vector and the firings so far: each timer's id is its number of arming and the
vector is in that order (`Numbered`); a timer in the vector has fired at exactly the
instants of its schedule before its deadline (`Pending`), one that is gone was stopped or
has fired at its only one (`Gone`), whatever fired came before whatever is pending
(`Past`), and firings are in order of deadline and arming (`InOrderOf`).  The number is the
cardinality of `Ahead`: the timers in the vector, each with the instants up to now that its
deadline has not passed; a turn takes at least one away.  `WheelInvariant` is `OnSchedule`
between advances, when every order has been served up to its due.
For `BulkIsTicks`, `FirstMatch` says that `IncrementsToMatch` is the first increment that
hits Compare, and `BulkOfOneMore` that a bulk advance by one more cycle is a tick more.
In VirtualTime, `TimeInvariant` says that every device and the host-kernel work lie in the
future and no timer in the past.  `BoundaryFacts` then puts the boundary below every
deadline of the devices it was computed for, also when joining the renderer has
just published one, so that a turn passes over none; `DeliveryInvariant` adds that the
last deliveries were due now, in the order of their classes.  A second turn at the same instant
can serve only timers, because whatever devices and work schedule next is later: `Latency`,
`Field` and `Service` are positive.

**Command port.**  `HeldRange` is inductive under `TypeOK`.  `StalledIsBusy` is not:
a rejection restores old registers, so `ParkedIsBusy` says the same of the
rollback, that no batch exists without a session, and that only a batch ends its
DMA early.  `LegacyFedOnce` becomes `FedBehind`: all that was decoded lies below
the address the next range starts from, which is CURRENT, the parked command, or
what a rejection restores, and a transaction that continues a stream starts
there too.  The refinement rests on `RollbackMatches`: a transaction changed no
register its range does not determine, and every mode command reached its
rollback, so a commit from `dpc` is a step from `Settled`.  `PortStepRefines` then
maps each action: admissions, activations, rejections and reservations stutter,
unless a FREEZE exposes the range at once; `Commit` is `Consume`, `Park` is
`Stall`.

**Broker.**  What is in the mailbox when the producer goes matters later, so
`Inv` speaks of it: the first own bundle of an ordinal carries the input of the script
(`MailScripted`), every scripted ordinal is played, in the window or in the mailbox
unless the ingress has failed, and as long as nobody strayed everything in the mailbox
will be accepted when it is received (`MailAcceptable`): own, not yet played, within
the window, no ordinal twice.  The last point is where the mailbox's delay is
harmless: a bundle sent within `Capacity` of the polls answered then lies within
`Capacity` of those answered later.  The refinement then maps a push to `Submit` (if it is
first for its ordinal), a finished poll to `Play` and a rejection to `End`.

**Render worker.**  `Hold` says where the renderer is: with the emulation thread, or
in exactly one of the command channel, the worker and the completion channel, for as
long as the continuation of the batch is kept.  From it follow `OneOwner` and, with
`Ordered` (issued operations are the seen ones followed by the owed ones), `AsIfLocal`:
associativity of concatenation carries a store past the batch it was made behind.
`WorkerNeverAborts` needs `Calm`: a FullSync batch outstanding excludes a DP completion
scheduled, and a task being started excludes both if the game waits; that is why no
batch finds the DP slot taken.

**Peripherals.**  The two halves have an invariant each.  For the PI it is `PiSound`:
the transfer in flight is the head of the host's queue until its completion is notified
(`Slot`), numbers are used once (`Numbered`), a deadline is that of the transfer in
flight or of a forgotten one (`Deadlines`), and a managed transfer's bytes have moved
while a raw one's move with its notice (`Landed`).  `Deadlines` is what makes a reset
harmless: a stale deadline can name neither a transfer that waits nor one that is over.
Nothing in it depends on the guest, so the refinement does not either.

For the SI it is `Tables`.  `Serial`: the one deadline is that of the operation under way.
`Claimed`: the host knows of the transfer whose deadline is to come, whatever was loaded in
between, because an SI transfer that finds an owner ends the program.  `Owned`: whose
transfer it is, that it is nobody else's, and that an answer to `osPfsIsPlug` goes to a
thread that still waits for it, until a ROM is loaded under a transfer.  `Level`: an exact
occurrence is the SI level's, and a control in flight will find the level low unless it was
written under a raised one.  `Routed`: an occurrence is on its way to the host or routed
once, until the guest acknowledges one.  `Working`: while the host services an occurrence, it
is live, unmasked and at the front of the routes; this needs no condition, since no guest
runs meanwhile, so that the assertion of the service never fails.  `Single`: a step
completes one control.

Each part whose condition names a conduct is the premise of one clause of
`AbortsForCause`: `Owned` of the SI owner and the collision of answers, `Level` of the second
occurrence, and `Fitting` (what waits and will be refused was queued beyond its window) of
the refused request.  PI and SI metadata are `PiSound` and `Claimed`.  `Sound` is the
conjunction of all and inductive.

**Message queue.**  The only arithmetic is the ring's: `At` reads slot `first + k`
without the remainder (two laps at most, `WrapFacts`), and `SendFacts`, `JamFacts` and
`RecvFacts` say what each access does to `Messages`, the valid slots read as a sequence:
append, prepend, drop the first.  From there on the ring is a sequence.  `Sound` is the
first invariant: `Ring` and `NoLostWakeup` together, since the slot a woken sender fills
is free only because it was woken by a receive.  `Once` places every token in exactly
one of ring, parked senders and answers; `Waits` says that a thread waits in one place
and is owed nothing as long as it waits, so that an answer never overwrites another.
`NoSilentLoss` follows from the three.  For `ServedInOrder` both lists are `Sorted`, a
step leaves a list alone, parks one more, serves the first or takes out one that is
owed no answer, and whoever stays is read from the old list in increasing positions
(`KeptOrder`, `SubOrder`).

**Lists.**  `WaitListProofs` shows what inserting, removing and moving do to the
set of elements, to freedom from repeats and to types: all the executor's induction
needs; the order of the lists is the subject of the proofs of `RunsInOrder`,
`ServedInOrder` and `MoveIsSort`.

**Only model-checked.**  Liveness (`UrgentRuns`, `ParkedIsServed`,
`TargetIsReached`, `ScriptIsPlayed`, `EveryBatchPublished`, `HostNeverStuck`,
`EveryoneIsTold`, `OccurrenceServiced`) is out of the prover's reach, and so is what fails
(section 7): a theorem says nothing of a workload outside its hypotheses.  Every safety
invariant, action property and refinement that a passing run checks is also a theorem.
The induction theorems of the library take an operator as a parameter, which the provers at
hand cannot instantiate; where a proof would use one it goes through sets of naturals instead (Time).

## 7 Where the code and its documents disagree

Two have a run, which checks the sentence quoted and finds it violated:

* **A second FullSync task ends the program** (`bad_later_graphics`).
  `osSpTaskStartGo` for a graphics task joins the batch that is on the worker; a
  FullSync in it schedules its DP completion one cycle later, and capturing the new
  task's batch in the same call finds the DP slot busy and panics
  (`guest_read_arena.rs:52`).  `docs/DESIGN.md:2708-2711` says that "a later graphics
  task applies DPC backpressure" and "neither overtakes the batch nor fabricates queue
  capacity".  A game that waits for the DP interrupt first is not affected
  (`WorkerNeverAborts`), and `render_join_census.rs:46` records that the code's own
  long run never took this join.

* **A thread restarted in mid call ends the program** (`bad_restart`).  `stop_thread`
  removes the waiter and cancels the kept answer; `start_thread` installs a resume only
  for a thread that never ran, so the coroutine is resumed with `Continue`, on which the
  receive and send shims panic.  `executor/mod.rs:1125-1126` says that "a later restart
  preserves the coroutine's already-established continuation protocol", lines 1252-1257
  that a stopped thread can be started again, and the comment at 1270-1274 describes this
  schedule: woken with a result, stopped, restarted.  A thread that stopped at a
  fault panics when it is dispatched again, too.  `AbortsExplained` says that apart
  from starting what is not stopped nothing else ends the program.

Three more are kept as configurations that TLC finds violated, outside the runs
(`tlc -config bad_dpc_twice.cfg MCDpcPort`, and likewise `bad_dpc_skipped.cfg` and
`bad_dpc_rollback.cfg`):

* **A session decodes a resumed command again** (`bad_dpc_twice`).
  `commit_dpc_submission` clears the parked command; `ReadyDpcFabricCommit::commit`,
  in which every dispatch under a registered session ends, does not.  The next END
  restarts at the command once parked, and its units reach the decoder twice.
* **Whole commands before a broken one are dropped** (`bad_dpc_skipped`).
  `park_incomplete_raw_dpc` keeps the words from the broken command on and returns
  without a dispatch; the commands before it are neither decoded nor kept, while
  CURRENT moves past them.
* **A legal START makes every commit fail under a session** (`bad_dpc_rollback`).
  START above the previous END, then END: the rollback has START beyond END,
  `prepare_dpc_commit` rejects it, and the dispatch panics.  The comments call that
  check unreachable on a real fabric.

Others were met while modelling.  Those that name a conduct are explored by the run
`peripherals`, whose properties say how far their effect reaches; those that name a call can
be seen by adding it to a workload of `MCExecutor`; the others follow from the code cited:

* `load_rom` replaces the fabric but keeps `pending_si_completion` and
  `completed_pfs_is_plug` (`mmio.rs`), so the next SI transfer of a program loaded while one
  was in flight fails the "prior SI ownership" assertion (`ReloadInFlight`).
* A store to SI_STATUS while an exact occurrence is retained clears the occurrence and
  leaves its route at the front: it is never ready again, so later
  occurrences are never serviced (`AckOccurrence`), which the assertion in `publication.rs`
  about a retained route presumes impossible.
* Under the host kernel nothing lowers the SI level after an SI DMA, so a terminate-boot
  control written then trips `raise_interrupt_occurrence`'s assertion
  (`fabric.rs`; `ControlWhilePending`).
* The bytes of a managed transfer move when it is issued, those of a raw one at its
  deadline: behind a raw transfer in flight, the bytes of the later ones land first.
* A managed request that has to wait skips the range check its predecessor got, and
  panics when it is started from the queue, in the step that completes the other
  (`QueuedOutsideWindow`).
* A thread that stops itself goes on: `osStopThread` on the caller marks it stopped
  and returns, and its next yield makes it runnable (`StopSelf`).
* A waiting thread keeps its old place among the waiters: `set_thread_pri` re-sorts
  the run queue only (`SetParkedPri`).
* `stop_thread` on a dead thread turns it into a stopped one whose interrupt mask is
  retired (`StopDead`), and `create_mesg_queue` forgets the threads parked in the
  queue it replaces (`RecreateQueue`): they stay blocked, are listed nowhere, and no
  message reaches them any more.  The executor's own validator calls such
  states "structural bugs, never legitimate guest outcomes".
* The words of a parked command decide whether its extension is complete, but the
  dispatch reads memory again (`scheduled.rs`), and the two may differ by then.
* A guest that sets FREEZE while the first range of a batch renders makes the
  activation of the next one panic (`task_batch.rs`); and a range submitted whole
  under FREEZE keeps an earlier list's parked command, which is where the release
  of FREEZE resumes.

## 8 Plan

Done: the queue and its abstract specification, the executor, the run queue's
sort, timers, clock, virtual time, the RDP command port and its abstract
specification, the multiplayer broker and its abstract specification, the render
worker, PI and SI with their host side and the abstract PI; types, wake-ups, the control
invariant, order, loss, the sort and the refinement of the executor proved; the timers, the clock
and virtual time; the queue's refinement, soundness, loss and order;
types, held ranges, once-only decoding and the
refinement of the port; types, safety and refinement of the broker; types and safety of
the worker; the agreement of host and fabric and the refinement of PI.

Modules next, most important first:

1. **AudioInterface** and the **SP/DP/VI** slots of the fabric (`device/*.rs`): the AI FIFO
   of two, a full FIFO and a late acknowledge; an RSP task that ends between a graphics
   activation and DP's publication.  SP and DP start from `DpcPort`'s transactions;
   `RenderWorker`'s `pending_dp` is their DP slot.  Then VirtualTime's deadlines are those of
   `Peripherals` and these.
2. **DpcSchedule** – `dpc_schedule.rs`: submissions retired in order, syncs that belong
   to an earlier one; composed with `DpcPort` and `RenderWorker`.
3. **OsTimerHandles** – `fn64-abi/timer.rs`'s handle table over TimerWheel: re-arming
   an `OSTimer` orphans the earlier timer.
4. **Pfs**, **SaveMedia**, **TransferPak**, **Overlay**, **ViLatch**.

Proofs next: what a session keeps of the port's once-only decoding, the executor's refinement
for any number of queues (answers would have to name the queue), and lemmas towards the liveness
properties: the safety half of each `~>`.

## 9 What is not modelled

* In the modelled components: `prepare_process_exit` and process reset (teardown
  of everything at once), the RDRAM mirror of a queue's header, tracing and the
  yield census, argument decoding and guest stack set-up, reuse of a thread
  identity after its destruction, wrap-around of timer ids, the order of two
  queues' events within one device step.
* In the command port: command bytes and the number of syncs in a range, the DPC
  counters, FLUSH (stored and read back only), the DP interrupt and when it is
  published, the copy of captured ranges into RDRAM, the wording of errors.
* In the peripherals: instants (which would fix the order of two deadlines), the MI level of
  PI, which only guests that poll it read, the bytes themselves and the overlays a
  PI completion makes resident, the commands inside a PIF block, the wording of errors.
* In the render worker: the bytes of a batch and of a store, the chunks of HLE tasks and
  the audio backend, the census of joins, the time budget itself (a join may or may not
  find the batch finished).
* In the broker: the players and ports of a bundle, `ReplayInputSource` (a sequential
  read of a recording), the blocking variant of a submission.
* The device fabric's AI, SP, DP and VI, DPC schedule, overlays, Controller
  Pak, save media, Transfer Pak, VI and AI shims: in the plan above.
* SI and voice, memory and ROM access, MMIO decode, the RSP hook: data
  transformation and address arithmetic with no behaviour over time.
* CPU runtime and its code generator, HLE audio, the renderers and their
  conformance suites, RT64 bindings: instruction, sample and pixel semantics,
  which golden and differential tests cover.
* Boot harness, shell, certification, diff runner, discovery, recompiler front
  end, timing trace: offline tools or user interface.
