---------------------------- MODULE Peripherals -----------------------------
(***************************************************************************)
(* The peripheral and serial interfaces as the host owns them (fn64-abi,   *)
(* pi/mmio.rs and pi/timing.rs) over the device fabric (fn64-runtime,      *)
(* device/fabric.rs and fabric_ops.rs).  The fabric holds one PI transfer, *)
(* one SI operation and a heap of deadlines; the host keeps beside it a    *)
(* FIFO of managed PI transfers, the owner of the SI transfer, and the     *)
(* exact SI interrupts it still has to service.                            *)
(*                                                                         *)
(* Instants are left out: any pending deadline may be the next to fall due *)
(* (PI latencies are programmed by the guest), and several may fall due at *)
(* one instant.  Operations are numbered; as each is admitted to the       *)
(* hardware once, its number stands for its request and for the token of   *)
(* its deadline.  landed, over, posted, forgotten and conducts are         *)
(* history.  A failed assertion ends the program and is noted in `abort`.  *)
(***************************************************************************)
EXTENDS Integers, Sequences, FiniteSets, SequencesExt

CONSTANTS Thread,        \* the threads that call osPfsIsPlug
          MaxTransfers,  \* PI transfers explored
          MaxSerial,     \* SI transfers and PIF controls explored
          MaxOperations, \* both together
          MaxReloads,    \* ROM loads explored
          Careless       \* which of the conducts below the guest may show

\* What no caller in the code is known to do: store to SI_STATUS under an exact
\* occurrence, write the PIF control with the SI interrupt pending, load a ROM
\* during an SI transfer, queue a PI transfer beyond its device's window.
Conduct == {"AckOccurrence", "ControlWhilePending", "ReloadInFlight", "QueuedOutsideWindow"}

ASSUME PeripheralsAssumption ==
  /\ MaxTransfers \in Nat /\ MaxSerial \in Nat /\ MaxOperations \in Nat /\ MaxReloads \in Nat
  /\ Careless \subseteq Conduct
  /\ Thread \cap {"OsEvent", "none"} = {}

VARIABLES
  \* DeviceFabric
  pending_pi, pending_si, events,
  mi_pending,             \* the SI level; that of PI is left to guests that poll it
  mi_mask,                \* MI passes SI on
  mi_occurrence,          \* the exact occurrence behind the SI level, or 0
  \* HostState and Executor
  pending_pi_completions, pending_si_completion, completed_pfs_is_plug,
  routes,                 \* pending_host_interrupt_routes
  host_kernel_work,       \* the occurrence being serviced, or 0
  \* advance_device_time_step
  stepping, notified,
  \* the threads inside osPfsIsPlug, the counts explored, and history
  asking, transfers, serials, reloads, landed, over, posted, forgotten,
  conducts, abort

fabric  == <<pending_pi, pending_si, events>>
mi      == <<mi_pending, mi_mask, mi_occurrence>>
piHost  == <<pending_pi_completions, transfers, landed, over, forgotten>>
siHost  == <<pending_si_completion, completed_pfs_is_plug, asking, serials>>
kernel  == <<routes, host_kernel_work>>
stepper == <<stepping, notified, posted>>
vars    == <<fabric, mi, piHost, siHost, kernel, stepper, reloads, conducts, abort>>

NoPi == [id |-> 0, committed |-> FALSE]
NoSi == [kind |-> "none", id |-> 0]
NoOwner == [id |-> 0, owner |-> "none"]
\* A thread inside osPfsIsPlug, or whoever waits for OS_EVENT_SI.
Owner == Thread \cup {"OsEvent"}

\* What the step under way has been told.
Notified(what) == {n.id : n \in {n \in notified : n.what = what}}

\* The guest runs: no device step is under way and no interrupt is serviced.
Guest == abort = "none" /\ ~stepping /\ host_kernel_work = 0

-----------------------------------------------------------------------------
Init ==
  /\ pending_pi = NoPi /\ pending_si = NoSi /\ events = {}
  /\ mi_pending = FALSE /\ mi_mask = FALSE /\ mi_occurrence = 0
  /\ pending_pi_completions = <<>> /\ pending_si_completion = NoOwner
  /\ completed_pfs_is_plug = {} /\ asking = {}
  /\ routes = <<>> /\ host_kernel_work = 0
  /\ stepping = FALSE /\ notified = {}
  /\ transfers = 0 /\ serials = 0 /\ reloads = 0
  /\ landed = <<>> /\ over = <<>> /\ posted = {} /\ forgotten = {}
  /\ conducts = {} /\ abort = "none"

\* The guest does what it should not, if `done`.
Shows(conduct, done) ==
  /\ done => conduct \in Careless
  /\ conducts' = IF done THEN conducts \cup {conduct} ELSE conducts

MoreTransfers == transfers < MaxTransfers /\ transfers + serials < MaxOperations

\* admit_pi_dma: the hardware slot and its deadline.
AdmitPi(id, committed) ==
  /\ pending_pi' = [id |-> id, committed |-> committed]
  /\ events' = events \cup {[device |-> "Pi", id |-> id]}

\* start_timed_pi_dma (osEPiStartDma, osEPiRawStartDma): the first transfer
\* takes the hardware, any other waits; the bytes of both move at once.  Of a
\* request the fabric would not admit, the first is refused and nothing changes;
\* one that waits is not looked at until its turn.  Moving the bytes fails only
\* for a transfer into ROM (try_start_dma), refused before anything is taken.
StartManaged(wants, fits) ==
  /\ Guest /\ MoreTransfers
  /\ transfers' = transfers + 1
  /\ IF pending_pi_completions = <<>>
     THEN fits /\ pending_pi = NoPi /\ AdmitPi(transfers + 1, TRUE)
     ELSE UNCHANGED <<pending_pi, events>>
  /\ Shows("QueuedOutsideWindow", ~fits)
  /\ landed' = Append(landed, transfers + 1)
  /\ pending_pi_completions' =
       Append(pending_pi_completions,
              [id |-> transfers + 1, managed |-> TRUE, ret_queue |-> wants, fits |-> fits])
  /\ UNCHANGED <<pending_si, mi, over, forgotten, siHost, kernel, stepper, reloads, abort>>

\* A store to PI_RD_LEN or PI_WR_LEN.  A guest that drives the registers looks
\* at the busy bit first: write_live_device_mmio panics otherwise.
StartRawPi ==
  /\ Guest /\ MoreTransfers
  /\ pending_pi_completions = <<>> /\ pending_pi = NoPi
  /\ transfers' = transfers + 1
  /\ AdmitPi(transfers + 1, FALSE)
  /\ pending_pi_completions' =
       <<[id |-> transfers + 1, managed |-> FALSE, ret_queue |-> FALSE, fits |-> TRUE]>>
  /\ UNCHANGED <<pending_si, mi, landed, over, forgotten, siHost, kernel, stepper, reloads, conducts,
                 abort>>

\* A store to PI_STATUS with bit 0: the deadline stays in the heap, but owns
\* nothing any more.
ResetPi ==
  /\ Guest /\ pending_pi_completions # <<>>
  /\ pending_pi' = NoPi
  /\ forgotten' = forgotten \cup {p.id : p \in ToSet(pending_pi_completions)}
  /\ pending_pi_completions' = <<>>
  /\ UNCHANGED <<pending_si, events, mi, transfers, landed, over, siHost, kernel, stepper, reloads,
                 conducts, abort>>

-----------------------------------------------------------------------------
\* start_si_dma: one operation at a time.
AdmitSi(kind, device) ==
  /\ pending_si = NoSi /\ serials < MaxSerial /\ transfers + serials < MaxOperations
  /\ serials' = serials + 1
  /\ pending_si' = [kind |-> kind, id |-> serials + 1]
  /\ events' = events \cup {[device |-> device, id |-> serials + 1]}

\* start_live_si_dma and start_live_controller_si_dma; a thread inside
\* osPfsIsPlug is the owner itself and waits.  A busy SI refuses and nothing changes.
StartSi(owner) ==
  /\ Guest /\ owner \notin asking
  /\ AdmitSi("Dma", "Si")
  /\ IF pending_si_completion = NoOwner
     THEN /\ pending_si_completion' = [id |-> serials + 1, owner |-> owner]
          /\ asking' = asking \cup ({owner} \cap Thread)
          /\ UNCHANGED abort
     ELSE abort' = "prior SI ownership" /\ UNCHANGED <<pending_si_completion, asking>>
  /\ UNCHANGED <<pending_pi, mi, piHost, completed_pfs_is_plug, kernel, stepper, reloads, conducts>>

\* A store to SI_PIF_ADDR_RD64B or SI_PIF_ADDR_WR64B.
StartRawSi ==
  /\ Guest
  /\ AdmitSi("Dma", "Si")
  /\ pending_si_completion' = [id |-> serials + 1, owner |-> "OsEvent"]
  /\ UNCHANGED <<pending_pi, mi, piHost, completed_pfs_is_plug, asking, kernel, stepper, reloads,
                 conducts, abort>>

\* pif_ram_cpu_write_w with the terminate-boot control.  A guest does it with
\* the SI quiet; a busy SI is a panic.
WriteControl ==
  /\ Guest
  /\ Shows("ControlWhilePending", mi_pending)
  /\ AdmitSi("PifControl", "PifControl")
  /\ UNCHANGED <<pending_pi, mi, piHost, pending_si_completion, completed_pfs_is_plug, asking, kernel,
                 stepper, reloads, abort>>

\* A store to SI_STATUS.
AckSi ==
  /\ Guest /\ mi_pending
  /\ Shows("AckOccurrence", mi_occurrence # 0)
  /\ mi_pending' = FALSE
  /\ mi_occurrence' = 0
  /\ UNCHANGED <<fabric, mi_mask, piHost, siHost, kernel, stepper, reloads, abort>>

SetMask ==
  /\ Guest
  /\ mi_mask' = ~mi_mask
  /\ UNCHANGED <<fabric, mi_pending, mi_occurrence, piHost, siHost, kernel, stepper, reloads, conducts,
                 abort>>

\* osPfsIsPlug resumes with the message of its transaction.
PlugReturns(t) ==
  /\ Guest /\ t \in asking /\ t \in completed_pfs_is_plug
  /\ asking' = asking \ {t}
  /\ completed_pfs_is_plug' = completed_pfs_is_plug \ {t}
  /\ UNCHANGED <<fabric, mi, piHost, pending_si_completion, serials, kernel, stepper, reloads, conducts,
                 abort>>

\* load_rom: a new fabric; of the host's tables the SI ones are kept.
Reload ==
  /\ abort = "none" /\ ~stepping /\ reloads < MaxReloads
  /\ Shows("ReloadInFlight", pending_si_completion # NoOwner \/ asking # {})
  /\ reloads' = reloads + 1
  /\ pending_pi' = NoPi /\ pending_si' = NoSi /\ events' = {}
  /\ mi_pending' = FALSE /\ mi_mask' = FALSE /\ mi_occurrence' = 0
  /\ forgotten' = forgotten \cup {p.id : p \in ToSet(pending_pi_completions)}
  /\ pending_pi_completions' = <<>>
  /\ routes' = <<>> /\ host_kernel_work' = 0
  /\ UNCHANGED <<transfers, landed, over, siHost, stepper, abort>>

-----------------------------------------------------------------------------
(* advance_device_time_step: the fabric commits every event due at one     *)
(* instant, the host takes the notifications, the messages go out, and no  *)
(* guest runs before that.                                                 *)

\* Mutant: a deadline completes whatever transfer is in flight.
OwnsAny(e) == pending_pi # NoPi
Owns(e) == pending_pi.id = e.id

\* Mutant: bytes that were moved at issue move again at the deadline.
LandAgain == landed' = Append(landed, pending_pi.id)
LandIfLeft == landed' = IF pending_pi.committed THEN landed ELSE Append(landed, pending_pi.id)

PiDue(e) ==
  IF Owns(e)
  THEN /\ LandIfLeft
       /\ pending_pi' = NoPi
       /\ notified' = notified \cup {[what |-> "Pi", id |-> pending_pi.id]}
       /\ UNCHANGED <<pending_si, mi_pending, mi_occurrence, abort>>
  ELSE UNCHANGED <<landed, pending_pi, pending_si, mi_pending, mi_occurrence, notified, abort>>

SiDue ==
  /\ pending_si' = NoSi
  /\ mi_pending' = TRUE
  /\ mi_occurrence' = IF mi_pending THEN mi_occurrence ELSE 0
  /\ notified' = notified \cup {[what |-> "Si", id |-> pending_si.id]}
  /\ UNCHANGED <<pending_pi, landed, abort>>

\* raise_interrupt_occurrence asserts that the level was low.
PifControlDue(e) ==
  /\ pending_si' = NoSi
  /\ IF mi_pending
     THEN abort' = "second SI occurrence" /\ UNCHANGED <<mi_pending, mi_occurrence, notified>>
     ELSE /\ mi_pending' = TRUE
          /\ mi_occurrence' = e.id
          /\ notified' = notified \cup {[what |-> "PifControl", id |-> e.id]}
          /\ UNCHANGED abort
  /\ UNCHANGED <<pending_pi, landed>>

Due(device) ==
  /\ abort = "none"
  /\ \E e \in events :
       /\ e.device = device
       /\ events' = events \ {e}
       /\ \/ device = "Pi" /\ PiDue(e)
          \/ device = "Si" /\ SiDue
          \/ device = "PifControl" /\ PifControlDue(e)
  /\ stepping' = TRUE
  /\ UNCHANGED <<mi_mask, pending_pi_completions, transfers, over, forgotten, siHost, kernel, posted,
                 reloads, conducts>>

\* Mutant: the queue is not advanced.
StartNextNever(queue) == UNCHANGED <<pending_pi, events>>

\* start_pi_dma for the transfer behind, marked as moved if it was; see Broken
\* for one the fabric does not admit.
StartNext(queue) ==
  IF queue = <<>> THEN UNCHANGED <<pending_pi, events>>
                  ELSE AdmitPi(Head(queue).id, Head(queue).managed)

\* The completion that was notified is that of the head of the host's queue.
PiDmaComplete ==
  IF Notified("Pi") # {}
  THEN LET head == Head(pending_pi_completions)
       IN /\ pending_pi_completions' = Tail(pending_pi_completions)
          /\ over' = Append(over, head.id)
          /\ StartNext(Tail(pending_pi_completions))
  ELSE UNCHANGED <<pending_pi, events, pending_pi_completions, over>>

\* Mutant: the owner stays behind.
KeepOwner == UNCHANGED pending_si_completion
TakeOwner == pending_si_completion' = NoOwner

SiDmaComplete ==
  IF Notified("Si") # {}
  THEN /\ TakeOwner
       /\ completed_pfs_is_plug' =
            completed_pfs_is_plug \cup (Thread \cap {pending_si_completion.owner})
  ELSE UNCHANGED <<pending_si_completion, completed_pfs_is_plug>>

\* The messages of the instant: those the PI callers asked for.
Messages ==
  {id \in Notified("Pi") : Head(pending_pi_completions).ret_queue}

\* The assertions of the step: what was notified is what the host is waiting
\* for, the fabric admits the transfer behind, and a thread's previous answer
\* was taken.
Broken ==
  CASE \E id \in Notified("Pi") :
         pending_pi_completions = <<>> \/ Head(pending_pi_completions).id # id -> "PI metadata"
    [] Notified("Pi") # {} /\ \E p \in ToSet(Tail(pending_pi_completions)) :
         p = pending_pi_completions[2] /\ ~p.fits -> "queued request refused"
    [] \E id \in Notified("Si") : pending_si_completion.id # id -> "SI metadata"
    [] Notified("Si") # {} /\ pending_si_completion.owner \in completed_pfs_is_plug -> "plug collision"
    [] OTHER -> "none"

Settle ==
  /\ abort = "none" /\ stepping
  /\ abort' = Broken
  /\ IF Broken = "none"
     THEN /\ PiDmaComplete /\ SiDmaComplete
          /\ routes' = routes \o SetToSeq(Notified("PifControl"))
          /\ posted' = posted \cup Messages
          /\ stepping' = FALSE /\ notified' = {}
     ELSE UNCHANGED <<pending_pi, events, pending_pi_completions, over, pending_si_completion,
                      completed_pfs_is_plug, routes, stepper>>
  /\ UNCHANGED <<pending_si, mi, transfers, landed, forgotten, asking, serials, host_kernel_work, reloads,
                 conducts>>

-----------------------------------------------------------------------------
\* prepare_host_interrupt_occurrence_service.
Ready(occurrence) == mi_mask /\ mi_pending /\ mi_occurrence = occurrence

\* host_interrupt_occurrence_ready at a boundary of the guest, which parks.
AcceptInterrupt ==
  /\ Guest /\ routes # <<>> /\ Ready(Head(routes))
  /\ host_kernel_work' = Head(routes)
  /\ UNCHANGED <<fabric, mi, piHost, siHost, routes, stepper, reloads, conducts, abort>>

\* Mutant: the route outlives its service.
KeepRoute == UNCHANGED routes
PopRoute == routes' = Tail(routes)

\* commit_due_host_kernel_work, once the service time has passed.
CommitWork ==
  /\ abort = "none" /\ ~stepping /\ host_kernel_work # 0
  /\ IF routes # <<>> /\ Head(routes) = host_kernel_work /\ Ready(host_kernel_work)
     THEN /\ PopRoute
          /\ mi_pending' = FALSE
          /\ mi_occurrence' = 0
          /\ host_kernel_work' = 0
          /\ UNCHANGED abort
     ELSE abort' = "host kernel work" /\ UNCHANGED <<routes, mi_pending, mi_occurrence, host_kernel_work>>
  /\ UNCHANGED <<fabric, mi_mask, piHost, siHost, stepper, reloads, conducts>>

Device == {"Pi", "Si", "PifControl"}

Next ==
  \/ \E wants, fits \in BOOLEAN : StartManaged(wants, fits)
  \/ StartRawPi \/ ResetPi
  \/ \E o \in Owner : StartSi(o)
  \/ StartRawSi \/ WriteControl \/ AckSi \/ SetMask \/ Reload
  \/ \E t \in Thread : PlugReturns(t)
  \/ \E d \in Device : Due(d)
  \/ Settle \/ AcceptInterrupt \/ CommitWork

\* Every deadline falls due, the host completes its step and its work, and a
\* guest that can take the interrupt samples it at one of its boundaries.
Fairness ==
  /\ \A d \in Device : WF_vars(Due(d))
  /\ WF_vars(Settle) /\ WF_vars(CommitWork) /\ SF_vars(AcceptInterrupt)

Spec == Init /\ [][Next]_vars /\ Fairness

-----------------------------------------------------------------------------
TypeOK ==
  /\ pending_pi \in [id : 0..MaxTransfers, committed : BOOLEAN]
  /\ pending_si \in [kind : {"none", "Dma", "PifControl"}, id : 0..MaxSerial]
  /\ events \subseteq [device : Device, id : Nat]
  /\ mi_pending \in BOOLEAN /\ mi_mask \in BOOLEAN /\ mi_occurrence \in Nat
  /\ pending_pi_completions \in Seq([id : 1..MaxTransfers, managed : BOOLEAN, ret_queue : BOOLEAN, fits : BOOLEAN])
  /\ pending_si_completion \in [id : 0..MaxSerial, owner : Owner \cup {"none"}]
  /\ completed_pfs_is_plug \subseteq Thread /\ asking \subseteq Thread
  /\ routes \in Seq(Nat) /\ host_kernel_work \in Nat
  /\ stepping \in BOOLEAN /\ conducts \subseteq Careless

\* What the host keeps beside the fabric names what the fabric holds: the head
\* of the PI queue and the owner of the SI transfer while they are in flight,
\* and until then what has just been notified; no transfer is over before its
\* own deadline; and every retained interrupt is the live occurrence, so that
\* the host can service it.  A ROM loaded during an SI transfer leaves its owner
\* behind, and an occurrence the guest itself acknowledges leaves its route.
HostAgrees ==
  /\ pending_pi.id = 0 /\ Notified("Pi") = {} <=> pending_pi_completions = <<>>
  /\ pending_pi_completions # <<>> =>
       {pending_pi.id} \cup Notified("Pi") \in {{Head(pending_pi_completions).id},
                                             {0, Head(pending_pi_completions).id}}
  /\ "ReloadInFlight" \notin conducts =>
       {pending_si_completion.id} =
         IF pending_si.kind = "Dma" THEN {pending_si.id}
         ELSE IF Notified("Si") # {} THEN Notified("Si") ELSE {0}
  /\ \A e \in events : e.device = "Pi" => e.id \notin ToSet(over)
  /\ "AckOccurrence" \notin conducts =>
       ToSet(routes) \cup Notified("PifControl") \subseteq {mi_occurrence} \ {0}

\* The PI is a queue that moves each transfer's bytes once: a deadline left
\* behind by a reset, a transfer that waited and a completion of the same
\* instant change nothing about that.
D == INSTANCE DmaQueue
       WITH Transfer <- 1..MaxTransfers, over <- over, landed <- landed,
            queue <- [i \in 1..Len(pending_pi_completions) |-> pending_pi_completions[i].id]
ImplementsDmaQueue == D!Spec

\* What the guest did for an assertion to fail.  That the host is told of a
\* transfer it does not know, or commits work that is not live, is nobody's doing.
Culprit ==
  CASE abort = "queued request refused" -> {"QueuedOutsideWindow"}
    [] abort = "second SI occurrence" -> {"ControlWhilePending"}
    [] abort \in {"prior SI ownership", "plug collision"} -> {"ReloadInFlight"}
    [] OTHER -> {}

\* An assertion of the two interfaces fails only where the guest has done what
\* leads to it.
AbortsForCause == abort # "none" => Culprit \cap conducts # {}

\* A caller that was accepted and waits for its message gets it, unless the PI
\* was reset, a ROM loaded or the program ended; and osPfsIsPlug returns, unless
\* a ROM was loaded under it.
EveryoneIsTold ==
  /\ \A i \in 1..MaxTransfers :
       (\E p \in ToSet(pending_pi_completions) : p.id = i /\ p.ret_queue)
         ~> (i \in posted \/ i \in forgotten \/ abort # "none")
  /\ \A t \in Thread :
       t \in asking
         ~> (t \in completed_pfs_is_plug \/ "ReloadInFlight" \in conducts \/ abort # "none")

\* A direct PIF interrupt that the guest lets through is serviced: no route of
\* an earlier one stands in its way, as long as the guest leaves SI_STATUS alone
\* while one is pending.
OccurrenceServiced ==
  (mi_occurrence # 0 /\ mi_mask)
    ~> (mi_occurrence = 0 \/ ~mi_mask \/ "AckOccurrence" \in conducts \/ abort # "none")
=============================================================================
