---------------------------- MODULE RunQueueSort ----------------------------
(***************************************************************************)
(* What the code does to the run queue: it pushes, or changes a priority,  *)
(* and sorts the whole vector (sort_by_key, stable), and it removes with   *)
(* Vec::retain.  WaitList states the same as the move of one element,      *)
(* which the proofs can reason about; MoveIsSort compares the two.         *)
(***************************************************************************)
EXTENDS Executor

\* The elements of s at the positions K, in the order of their ranks.
Arranged(s, K, rank) == [i \in 1..Cardinality(K) |-> s[CHOOSE k \in K : rank[k] = i]]

\* Mutant: an unstable sort, equals in reverse.
UnstableRank(s, pri, k) ==
  Cardinality({j \in DOMAIN s : pri[s[j]] > pri[s[k]]})
    + Cardinality({j \in DOMAIN s : pri[s[j]] = pri[s[k]] /\ j >= k})

\* Where a stable sort by descending priority puts s[k].
Rank(s, pri, k) ==
  Cardinality({j \in DOMAIN s : pri[s[j]] > pri[s[k]]})
    + Cardinality({j \in DOMAIN s : pri[s[j]] = pri[s[k]] /\ j <= k})

\* sort_run_queue: sort_by_key(|id| Reverse(threads[id].priority)).
StableSort(s, pri) == Arranged(s, DOMAIN s, [k \in DOMAIN s |-> Rank(s, pri, k)])

\* run_queue.retain(|t| *t != id)
Retain(s, x) ==
  LET kept == {k \in DOMAIN s : s[k] # x}
  IN Arranged(s, kept, [k \in kept |-> Cardinality({j \in kept : j <= k})])

-----------------------------------------------------------------------------
\* In every state the executor reaches, moving one element of the run queue
\* gives what the code's sort of the whole vector gives: whichever thread is
\* pushed, changes its priority or leaves, no caller of sort_run_queue depends
\* on the sort to repair more than its own change.
MoveIsSort ==
  \A t \in Thread :
    /\ t \notin ToSet(run_queue) =>
         Enqueue(run_queue, t) = StableSort(Append(run_queue, t), priority)
    /\ \A p \in Priority :
         Reposition(run_queue, Ranks(run_queue), t, priority[t], p)
           = StableSort(run_queue, [priority EXCEPT ![t] = p])
    /\ Without(run_queue, t) = Retain(run_queue, t)
=============================================================================
