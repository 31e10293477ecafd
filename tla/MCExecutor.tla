---------------------------- MODULE MCExecutor ----------------------------
(***************************************************************************)
(* Workloads for Executor: which threads the host boots and which libultra *)
(* calls their code makes.  A workload grants a call whenever the thread   *)
(* runs, in any order and with any arguments.                              *)
(***************************************************************************)
EXTENDS RunQueueSort

CONSTANTS t1, t2, t3, q1, q2

AllEqual == [t \in Thread |-> 1]
\* t1 outranks the others.
OneUrgent == [t \in Thread |-> IF t = t1 THEN 2 ELSE 1]
BootTwo   == <<t1, t2>>
BootThree == <<t1, t2, t3>>
\* q2 is never created: whoever receives from it or sends to it waits.
OneCreated == [q \in Queue |-> IF q = q1 THEN 1 ELSE 0]
SmallQueues == [q \in Queue |-> 1]

\* Messages: t1 takes and re-creates, t2 puts, t3 does both, each in every
\* flavour, blocking or not.
MesgCalls ==
  [t \in Thread |->
     CASE t = t1 -> {"Recv", "TryRecv", "CreateQueue"}
       [] t = t2 -> {"Send", "TrySend", "Jam", "TryJam"}
       [] OTHER  -> {"Send", "TrySend", "Jam", "TryJam", "Recv", "TryRecv"}]

\* Threads: t1 manages the others, which wait, answer, fault and end while the
\* host brings time, host work and events.
LifecycleCalls ==
  [t \in Thread |-> IF t = t1
                    THEN {"Create", "Start", "StartUnstopped", "RestartMidCall", "Stop", "Destroy",
                          "SetPri", "Recv", "SetEvent"}
                    ELSE {"Send", "Recv", "Yield", "Pause", "Return",
                          "Checkpoint", "Interrupt", "Fault"}]

\* t1 stops the others wherever they wait, and starts them again.
RestartCalls == [t \in Thread |-> IF t = t1 THEN {"Yield", "Stop", "Start", "RestartMidCall"}
                                           ELSE {"Send", "Recv", "Yield"}]
=============================================================================
