------------------------------ MODULE WaitList ------------------------------
(***************************************************************************)
(* The two ordered lists the fn64 executor schedules from: the waiter      *)
(* lists of an OSMesgQueue (mesgqueue.rs) and the run queue                *)
(* (executor/mod.rs).  Both are kept in descending priority, first come    *)
(* first served among equals.                                              *)
(*                                                                         *)
(* Operators take a list s and the sequence ks of its elements' priorities *)
(* (ks[i] is the priority of s[i]), so that the same definitions serve a   *)
(* waiter list, which remembers the priority a thread parked with, and the *)
(* run queue, which looks the current priority up in the thread table.     *)
(***************************************************************************)
EXTENDS Integers, Sequences, SequencesExt

\* ks is in descending order.
Descending(ks) == \A i, j \in DOMAIN ks : i < j => ks[i] >= ks[j]

\* No element occurs twice.
NoRepeats(s) == \A i, j \in DOMAIN s : s[i] = s[j] => i = j

\* The first index of ks in Hit, or one past the end.
FirstIn(ks, Hit) ==
  IF Hit = {} THEN Len(ks) + 1
              ELSE CHOOSE i \in Hit : \A j \in Hit : i <= j

\* Mutant: in front of equals as well.
InsertIndexBefore(ks, p) == FirstIn(ks, {i \in DOMAIN ks : ks[i] <= p})

\* priority_insert_index: in front of the first strictly lower priority.
InsertIndex(ks, p) == FirstIn(ks, {i \in DOMAIN ks : ks[i] < p})

\* A newcomer of priority p goes behind its equals.
PriorityInsert(s, ks, x, p) == InsertAt(s, InsertIndex(ks, p), x)

\* Vec::retain(|e| e != x) on a list that holds x at most once.
Without(s, x) ==
  IF \E i \in DOMAIN s : s[i] = x
  THEN RemoveAt(s, CHOOSE i \in DOMAIN s : s[i] = x)
  ELSE s

(***************************************************************************)
(* Waiters are records with at least the thread's id and the priority it   *)
(* parked with.                                                            *)
(***************************************************************************)
Priorities(ws) == [i \in DOMAIN ws |-> ws[i].pri]
WaiterIds(ws)  == [i \in DOMAIN ws |-> ws[i].id]

\* BlockedList::push, BlockedSenderList::push.
Park(ws, w) == PriorityInsert(ws, Priorities(ws), w, w.pri)

\* BlockedList::remove, BlockedSenderList::remove.
Unpark(ws, t) ==
  IF \E i \in DOMAIN ws : ws[i].id = t
  THEN RemoveAt(ws, CHOOSE i \in DOMAIN ws : ws[i].id = t)
  ELSE ws

(***************************************************************************)
(* sort_run_queue is a stable sort by descending priority.  Each caller    *)
(* has just appended one element to a sorted list, or changed one element's*)
(* priority, and on such a list a stable sort moves that element only:     *)
(* appended or raised, it lands behind its equals; lowered, in front of    *)
(* them; unchanged, it stays.  RunQueueSort states the sort itself, and    *)
(* MoveIsSort that the two agree.                                          *)
(***************************************************************************)
Reposition(s, ks, x, old, new) ==
  LET k    == CHOOSE i \in DOMAIN s : s[i] = x
      rest == RemoveAt(s, k)
      rks  == RemoveAt(ks, k)
  IN IF new = old \/ ~ \E i \in DOMAIN s : s[i] = x THEN s
     ELSE IF new > old THEN PriorityInsert(rest, rks, x, new)
     ELSE InsertAt(rest, FirstIn(rks, {i \in DOMAIN rks : rks[i] <= new}), x)
=============================================================================
