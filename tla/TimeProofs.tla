----------------------------- MODULE TimeProofs -----------------------------
(***************************************************************************)
(* Theorems about the three models of time: VirtualTime, TimerWheel and    *)
(* CpuClock, for every bound, timer, latency and register width.           *)
(*                                                                         *)
(* TimerWheel::advance is a loop and Ticks counts cycles, so both are      *)
(* recursive functions.  Neither needs induction over an operator: a       *)
(* solution of the recursion is shown to exist, and what it returns        *)
(* follows from the least counterexample, a least element of a set of      *)
(* naturals.                                                               *)
(***************************************************************************)
EXTENDS VirtualTime, TimerWheel, CpuClock, WaitListProofs, FiniteSetTheorems

-----------------------------------------------------------------------------
(* Induction, stated of a set.                                             *)

\* A set of naturals that holds 0 and every successor holds them all.
LEMMA EveryNat ==
  ASSUME NEW T \in SUBSET Nat, 0 \in T, \A n \in T : n + 1 \in T
  PROVE  Nat \subseteq T
  <1> SUFFICES ASSUME Nat \ T # {} PROVE FALSE
    OBVIOUS
  <1>1. PICK m \in Nat \ T : \A k \in Nat \ T : m <= k
    BY LeastElement
  <1>2. m - 1 \in Nat
    BY <1>1
  <1>3. m - 1 \in T
    BY <1>1, <1>2
  <1>4. (m - 1) + 1 \in T
    BY <1>3
  <1> QED BY <1>1, <1>4

-----------------------------------------------------------------------------
(* A loop: a recursive function that turns s into step[s] while s \in Go.  *)

\* g is what the loop returns.
IsLoop(g, D, Go, step) == g = [s \in D |-> IF s \in Go THEN g[step[s]] ELSE s]

\* Each turn from P stays in P and comes down by the measure M.
Shrinks(P, Go, step, M) ==
  \A s \in P : s \in Go => step[s] \in P /\ M[step[s]] < M[s]

\* Some function satisfies the recursion, whether or not the loop ends: two
\* points on one path are given the same result.
LEMMA LoopExists ==
  ASSUME NEW D, NEW Go \in SUBSET D, NEW step \in [D -> D]
  PROVE  \E g : IsLoop(g, D, Go, step)
  <1> DEFINE Closed(F) == \A s \in D : /\ s \notin Go => s \in F[s]
                                       /\ s \in Go => F[step[s]] \subseteq F[s]
             E == [s \in D |-> {e \in D : \A F \in [D -> SUBSET D] : Closed(F) => e \in F[s]}]
             F0 == [s \in D |-> IF s \in Go THEN E[step[s]] ELSE {s}]
             Chosen(X) == CHOOSE e : e \in X
             g == [s \in D |-> Chosen(E[s])]
  <1>1. \A s \in D : step[s] \in D
    OBVIOUS
  <1>2. E \in [D -> SUBSET D]
    OBVIOUS
  <1>3. Closed(E)
    <2> SUFFICES ASSUME NEW s \in D
                 PROVE  /\ s \notin Go => s \in E[s]
                        /\ s \in Go => E[step[s]] \subseteq E[s]
      OBVIOUS
    <2>1. ASSUME s \notin Go PROVE s \in E[s]
      BY <2>1
    <2>2. ASSUME s \in Go, NEW e \in E[step[s]] PROVE e \in E[s]
      <3>1. e \in D /\ \A F \in [D -> SUBSET D] : Closed(F) => e \in F[step[s]]
        BY <1>1
      <3>2. ASSUME NEW F \in [D -> SUBSET D], Closed(F) PROVE e \in F[s]
        <4>1. e \in F[step[s]]
          BY <3>1, <3>2
        <4>2. F[step[s]] \subseteq F[s]
          BY <2>2, <3>2
        <4> QED BY <4>1, <4>2
      <3> HIDE DEF Closed
      <3> QED BY <3>1, <3>2
    <2> QED BY <2>1, <2>2
  <1>4. F0 \in [D -> SUBSET D]
    <2> HIDE DEF E
    <2> QED BY <1>1, <1>2
  <1>5. Closed(F0)
    <2> HIDE DEF E
    <2> QED BY <1>1, <1>2, <1>3
  <1>6. \A s \in D : E[s] \subseteq F0[s]
    <2> HIDE DEF F0, Closed
    <2> QED BY <1>4, <1>5
  <1>7. \A s \in D : E[s] = IF s \in Go THEN E[step[s]] ELSE {s}
    <2> HIDE DEF E
    <2> QED BY <1>1, <1>2, <1>3, <1>6
  <1>8. \A s \in D : g[s] = IF s \in Go THEN g[step[s]] ELSE s
    <2>1. \A s \in D : g[s] = Chosen(E[s]) /\ Chosen({s}) = s
      OBVIOUS
    <2> HIDE DEF E, Chosen, g
    <2> QED BY <1>1, <1>7, <2>1
  <1>9. g = [s \in D |-> IF s \in Go THEN g[step[s]] ELSE s]
    <2>1. g \in [D -> {g[s] : s \in D}]
      OBVIOUS
    <2> HIDE DEF g
    <2> QED BY <1>8, <2>1
  <1> QED BY <1>9 DEF IsLoop

\* What every turn keeps, a loop that ends keeps, and it ends outside Go.
LEMMA LoopKeeps ==
  ASSUME NEW D, NEW Go \in SUBSET D, NEW step \in [D -> D], NEW g,
         IsLoop(g, D, Go, step),
         NEW P \in SUBSET D, NEW M \in [D -> Nat],
         Shrinks(P, Go, step, M)
  PROVE  \A s \in P : g[s] \in P /\ g[s] \notin Go
  <1> USE DEF IsLoop, Shrinks
  <1> DEFINE Bad == {s \in P : ~ (g[s] \in P /\ g[s] \notin Go)}
             T == {M[s] : s \in Bad}
  <1> SUFFICES ASSUME Bad # {} PROVE FALSE
    OBVIOUS
  <1>1. T \in SUBSET Nat /\ T # {}
    OBVIOUS
  <1>2. PICK s \in Bad : \A r \in Bad : M[s] <= M[r]
    <2>1. PICK m \in T : \A k \in T : m <= k
      <3> HIDE DEF T
      <3> QED BY <1>1, LeastElement
    <2> QED BY <2>1
  <1>3. s \in Go
    <2> SUFFICES ASSUME s \notin Go PROVE FALSE
      OBVIOUS
    <2>1. g[s] = s
      OBVIOUS
    <2> QED BY <1>2, <2>1
  <1>4. g[s] = g[step[s]]
    BY <1>3
  <1>5. step[s] \in P /\ M[step[s]] < M[s]
    BY <1>2, <1>3
  <1>6. step[s] \in Bad
    BY <1>2, <1>4, <1>5
  <1>7. M[s] \in Nat /\ M[step[s]] \in Nat
    OBVIOUS
  <1>8. M[s] <= M[step[s]]
    BY <1>2, <1>6
  <1> QED BY <1>5, <1>7, <1>8

-----------------------------------------------------------------------------
(* The walk of TimerWheel::advance.                                        *)

\* Timers are numbered as they are armed, below k, and keep that order.
Numbered(ts, k) ==
  \A i \in DOMAIN ts : /\ ts[i].id < k
                       /\ \A j \in DOMAIN ts : i < j => ts[i].id < ts[j].id

\* x fires before y.
Sooner(x, y) == x.deadline < y.deadline \/ (x.deadline = y.deadline /\ x.id < y.id)

\* The timer a repeating x becomes.
Again(x) == [x EXCEPT !.deadline = @ + x.interval]

\* Numbers identify timers.
LEMMA NumberedFacts ==
  ASSUME NEW k \in Nat, NEW ts \in Seq(Timer), Numbered(ts, k)
  PROVE  /\ NoRepeats(ts)
         /\ \A x, y \in ToSet(ts) : x.id = y.id => x = y
         /\ \A x \in ToSet(ts) : x \in Timer /\ x.id < k
  <1>1. DOMAIN ts = 1..Len(ts) /\ Len(ts) \in Nat /\ \A y : y \in ToSet(ts) <=> \E j \in 1..Len(ts) : ts[j] = y
    BY ToSetFacts
  <1>2. \A i \in 1..Len(ts) : ts[i] \in Timer
    BY ElementOfSeq
  <1>3. \A i, j \in 1..Len(ts) : ts[i].id = ts[j].id => i = j
    <2> SUFFICES ASSUME NEW i \in 1..Len(ts), NEW j \in 1..Len(ts), ts[i].id = ts[j].id, i # j
                 PROVE FALSE
      OBVIOUS
    <2>1. ts[i].id \in Nat /\ ts[j].id \in Nat
      BY <1>2 DEF Timer
    <2>2. i < j \/ j < i
      OBVIOUS
    <2> QED BY <1>1, <2>1, <2>2 DEF Numbered
  <1> QED BY <1>1, <1>2, <1>3 DEF NoRepeats, Numbered

\* The walk's choice is the earliest timer, in deadline order and then in the
\* order of arming.
LEMMA NextFacts ==
  ASSUME NEW ts \in Seq(Timer), NEW n \in Nat, Due(ts, n)
  PROVE  LET i == CHOOSE k \in DOMAIN ts : IsNext(ts, n, k)
         IN i \in 1..Len(ts) /\ IsNext(ts, n, i)
  <1>1. DOMAIN ts = 1..Len(ts) /\ Len(ts) \in Nat
    BY ToSetFacts
  <1>2. \A i \in 1..Len(ts) : ts[i].deadline \in Nat
    <2>1. \A i \in 1..Len(ts) : ts[i] \in Timer
      BY ElementOfSeq
    <2> QED BY <2>1 DEF Timer
  <1> DEFINE D == {ts[i].deadline : i \in 1..Len(ts)}
  <1>3. PICK d \in D : \A e \in D : d <= e
    <2>1. D \in SUBSET Nat /\ D # {}
      BY <1>1, <1>2 DEF Due
    <2> HIDE DEF D
    <2> QED BY <2>1, LeastElement
  <1> DEFINE J == {i \in 1..Len(ts) : ts[i].deadline = d}
  <1>4. PICK i \in J : \A j \in J : i <= j
    <2>1. J \in SUBSET Nat /\ J # {}
      BY <1>3
    <2> HIDE DEF J
    <2> QED BY <2>1, LeastElement
  <1>5. d \in Nat /\ d <= n
    <2>1. D \in SUBSET Nat
      BY <1>2
    <2>2. PICK j \in 1..Len(ts) : ts[j].deadline <= n
      BY <1>1 DEF Due
    <2>3. d <= ts[j].deadline /\ ts[j].deadline \in Nat
      BY <1>2, <1>3
    <2> HIDE DEF D
    <2> QED BY <2>1, <2>2, <2>3
  <1>6. IsNext(ts, n, i)
    <2>1. ASSUME NEW j \in 1..Len(ts)
          PROVE  ts[j].deadline >= ts[i].deadline /\ (j < i => ts[j].deadline > ts[i].deadline)
      <3>1. d <= ts[j].deadline /\ ts[j].deadline \in Nat
        BY <1>2, <1>3
      <3>2. ts[j].deadline = d => i <= j
        BY <1>4
      <3> QED BY <1>4, <1>5, <3>1, <3>2
    <2> QED BY <1>1, <1>4, <1>5, <2>1 DEF IsNext
  <1> QED BY <1>1, <1>4, <1>6

\* Only the deadline moves.
LEMMA AgainFacts ==
  ASSUME NEW x \in Timer
  PROVE  /\ Again(x) \in Timer
         /\ Again(x).id = x.id /\ Again(x).interval = x.interval
         /\ Again(x).deadline = x.deadline + x.interval
  BY DEF Again, Timer

\* Rearm changes one timer or drops it.
LEMMA RearmFacts ==
  ASSUME NEW k \in Nat, NEW ts \in Seq(Timer), Numbered(ts, k), NEW i \in 1..Len(ts), NEW n
  PROVE  /\ Rearm(ts, i, n) \in Seq(Timer)
         /\ Numbered(Rearm(ts, i, n), k)
         /\ ToSet(Rearm(ts, i, n)) =
              (ToSet(ts) \ {ts[i]}) \union (IF ts[i].interval > 0 THEN {Again(ts[i])} ELSE {})
  <1> DEFINE x == ts[i]
             r == Rearm(ts, i, n)
  <1>1. DOMAIN ts = 1..Len(ts) /\ Len(ts) \in Nat /\ \A y : y \in ToSet(ts) <=> \E j \in 1..Len(ts) : ts[j] = y
    BY ToSetFacts
  <1>2. \A j \in 1..Len(ts) : ts[j] \in Timer
    BY ElementOfSeq
  <1>3. NoRepeats(ts)
    BY NumberedFacts
  <1>4. CASE x.interval > 0
    <2>1. Again(x) \in Timer /\ Again(x).id = x.id
      BY <1>2, AgainFacts
    <2>2. r = [ts EXCEPT ![i] = Again(x)]
      BY <1>1, <1>4 DEF Rearm, Again
    <2>3. /\ r \in Seq(Timer) /\ Len(r) = Len(ts)
          /\ \A j \in 1..Len(ts) : r[j] = IF j = i THEN Again(x) ELSE ts[j]
      BY <2>1, <2>2, ExceptSeq
    <2> HIDE DEF r, x
    <2>4. DOMAIN r = 1..Len(ts) /\ \A y : y \in ToSet(r) <=> \E j \in 1..Len(ts) : r[j] = y
      BY <2>3, ToSetFacts
    <2>5. Numbered(r, k)
      <3>1. \A j \in 1..Len(ts) : r[j].id = ts[j].id
        BY <2>1, <2>3 DEF x
      <3> QED BY <1>1, <2>4, <3>1 DEF Numbered
    <2>6. ToSet(r) = (ToSet(ts) \ {x}) \union {Again(x)}
      <3>1. ASSUME NEW y \in ToSet(r) PROVE y = Again(x) \/ (y \in ToSet(ts) /\ y # x)
        BY <1>1, <1>3, <2>3, <2>4 DEF NoRepeats, x
      <3>2. Again(x) \in ToSet(r)
        BY <2>3, <2>4
      <3>3. ASSUME NEW y \in ToSet(ts), y # x PROVE y \in ToSet(r)
        BY <1>1, <2>3, <2>4, <3>3 DEF x
      <3> QED BY <3>1, <3>2, <3>3
    <2> QED BY <1>4, <2>3, <2>5, <2>6 DEF r, x
  <1>5. CASE ~(x.interval > 0)
    <2>1. r = RemoveAt(ts, i)
      BY <1>5 DEF Rearm
    <2>2. /\ r \in Seq(Timer) /\ Len(r) = Len(ts) - 1
          /\ \A j \in 1..(Len(ts) - 1) : r[j] = IF j < i THEN ts[j] ELSE ts[j + 1]
      BY <2>1, RemoveAtFacts
    <2>3. ToSet(r) = ToSet(ts) \ {x}
      BY <1>3, <2>1, RemoveAtElems
    <2> HIDE DEF r, x
    <2>4. Numbered(r, k)
      <3> DEFINE old(j) == IF j < i THEN j ELSE j + 1
      <3>1. DOMAIN r = 1..(Len(ts) - 1)
        BY <1>1, <2>2, LenProperties
      <3>2. \A j \in 1..(Len(ts) - 1) : old(j) \in 1..Len(ts) /\ r[j] = ts[old(j)]
        BY <1>1, <2>2
      <3>3. \A j, m \in 1..(Len(ts) - 1) : j < m => old(j) < old(m)
        BY <1>1
      <3> HIDE DEF old
      <3>4. ASSUME NEW j \in 1..(Len(ts) - 1), NEW m \in 1..(Len(ts) - 1), j < m
            PROVE  r[j].id < r[m].id
        <4>1. old(j) \in DOMAIN ts /\ old(m) \in DOMAIN ts /\ old(j) < old(m)
          BY <1>1, <3>2, <3>3, <3>4
        <4> QED BY <3>2, <4>1 DEF Numbered
      <3>5. ASSUME NEW j \in 1..(Len(ts) - 1) PROVE r[j].id < k
        BY <1>1, <3>2 DEF Numbered
      <3> QED BY <3>1, <3>4, <3>5 DEF Numbered
    <2> QED BY <1>5, <2>2, <2>3, <2>4 DEF r, x
  <1> QED BY <1>4, <1>5

\* A turn gives a walk.
LEMMA FireNextType ==
  ASSUME NEW n \in Nat, NEW w \in Walk, Due(w.timers, n)
  PROVE  FireNext(w, n) \in Walk
  <1> DEFINE ts == w.timers
             i == CHOOSE m \in DOMAIN ts : IsNext(ts, n, m)
             x == ts[i]
  <1>1. ts \in Seq(Timer) /\ w.fired \in Seq(Firing)
    BY DEF Walk
  <1>2. i \in 1..Len(ts)
    BY <1>1, NextFacts
  <1>3. FireNext(w, n) = [timers |-> Rearm(ts, i, n), fired |-> Append(w.fired, [id |-> x.id, at |-> x.deadline])]
    BY DEF FireNext
  <1> HIDE DEF i
  <1>4. x \in Timer
    BY <1>1, <1>2, ElementOfSeq
  <1>5. [id |-> x.id, at |-> x.deadline] \in Firing
    BY <1>4 DEF Timer, Firing
  <1>6. Rearm(ts, i, n) \in Seq(Timer)
    <2>1. CASE x.interval > 0
      <3>1. Rearm(ts, i, n) = [ts EXCEPT ![i] = Again(x)]
        BY <1>1, <1>2, <2>1, LenProperties DEF Rearm, Again
      <3> QED BY <1>1, <1>2, <1>4, <3>1, AgainFacts, ExceptSeq
    <2>2. CASE ~(x.interval > 0)
      BY <1>1, <1>2, <2>2, RemoveAtFacts DEF Rearm
    <2> QED BY <2>1, <2>2
  <1> HIDE DEF x, ts
  <1> QED BY <1>1, <1>3, <1>5, <1>6 DEF Walk, ts

\* One turn: the earliest timer fires, and is armed again or gone.
Turn(w, n, x, v) ==
  /\ x \in ToSet(w.timers) /\ x.deadline <= n
  /\ \A z \in ToSet(w.timers) : z # x => z.id # x.id /\ Sooner(x, z)
  /\ v.fired = Append(w.fired, [id |-> x.id, at |-> x.deadline])
  /\ ToSet(v.timers) = (ToSet(w.timers) \ {x}) \union (IF x.interval > 0 THEN {Again(x)} ELSE {})

\* FireNext takes a turn.
LEMMA FireNextFacts ==
  ASSUME NEW k \in Nat, NEW n \in Nat, NEW w \in Walk, Numbered(w.timers, k), Due(w.timers, n)
  PROVE  /\ FireNext(w, n) \in Walk
         /\ Numbered(FireNext(w, n).timers, k)
         /\ \E x \in Timer : Turn(w, n, x, FireNext(w, n))
  <1> DEFINE ts == w.timers
             i == CHOOSE m \in DOMAIN ts : IsNext(ts, n, m)
             x == ts[i]
             v == FireNext(w, n)
  <1>1. ts \in Seq(Timer) /\ w.fired \in Seq(Firing)
    BY DEF Walk
  <1>2. i \in 1..Len(ts) /\ IsNext(ts, n, i)
    BY <1>1, NextFacts
  <1>3. v = [timers |-> Rearm(ts, i, n), fired |-> Append(w.fired, [id |-> x.id, at |-> x.deadline])]
    BY DEF FireNext
  <1> HIDE DEF i, v
  <1>4. /\ DOMAIN ts = 1..Len(ts) /\ Len(ts) \in Nat
        /\ \A y : y \in ToSet(ts) <=> \E j \in 1..Len(ts) : ts[j] = y
    BY <1>1, ToSetFacts
  <1>5. \A j \in 1..Len(ts) : ts[j] \in Timer
    BY <1>1, ElementOfSeq
  <1>6. /\ Rearm(ts, i, n) \in Seq(Timer)
        /\ Numbered(Rearm(ts, i, n), k)
        /\ ToSet(Rearm(ts, i, n)) = (ToSet(ts) \ {x}) \union (IF x.interval > 0 THEN {Again(x)} ELSE {})
    BY <1>1, <1>2, RearmFacts
  <1>7. [id |-> x.id, at |-> x.deadline] \in Firing
    BY <1>2, <1>5 DEF Timer, Firing
  <1>8. ASSUME NEW z \in ToSet(ts), z # x PROVE z.id # x.id /\ Sooner(x, z)
    <2>1. PICK j \in 1..Len(ts) : ts[j] = z
      BY <1>4
    <2>2. j # i
      BY <1>8, <2>1
    <2>3. /\ ts[j].deadline >= ts[i].deadline /\ (j < i => ts[j].deadline > ts[i].deadline)
          /\ ts[j].deadline \in Nat /\ ts[i].deadline \in Nat /\ ts[j].id \in Nat /\ ts[i].id \in Nat
      BY <1>2, <1>4, <1>5 DEF IsNext, Timer
    <2>4. (i < j => ts[i].id < ts[j].id) /\ (j < i => ts[j].id < ts[i].id)
      BY <1>2, <1>4 DEF Numbered
    <2>5. i < j \/ j < i
      BY <1>2, <1>4, <2>2
    <2>6. Sooner(ts[i], ts[j])
      <3> HIDE DEF ts
      <3>1. CASE i < j
        BY <2>3, <2>4, <3>1 DEF Sooner
      <3>2. CASE j < i
        BY <2>3, <2>4, <3>2 DEF Sooner
      <3> QED BY <2>5, <3>1, <3>2
    <2> QED BY <2>1, <2>3, <2>4, <2>5, <2>6
  <1>9. x \in Timer /\ x \in ToSet(ts) /\ x.deadline <= n
    BY <1>2, <1>4, <1>5 DEF IsNext
  <1>10. v \in Walk
    BY <1>1, <1>3, <1>6, <1>7 DEF Walk
  <1>11. Turn(w, n, x, v)
    BY <1>3, <1>6, <1>8, <1>9 DEF Turn
  <1>12. Numbered(v.timers, k)
    BY <1>3, <1>6
  <1> HIDE DEF x
  <1> QED BY <1>9, <1>10, <1>11, <1>12 DEF v

\* What is left to fire up to n, were every pending timer due at every instant
\* from its deadline on.  Each turn takes something away.
Ahead(w, n, k) ==
  {p \in (0..k) \X (0..n) : \E x \in ToSet(w.timers) : x.id = p[1] /\ x.deadline <= p[2]}

\* There is only so much ahead.
LEMMA AheadFacts ==
  ASSUME NEW k \in Nat, NEW n \in Nat, NEW w
  PROVE  IsFiniteSet(Ahead(w, n, k)) /\ Cardinality(Ahead(w, n, k)) \in Nat
  <1>1. IsFiniteSet((0..k) \X (0..n))
    <2>1. IsFiniteSet(0..k) /\ IsFiniteSet(0..n)
      BY FS_Interval
    <2> QED BY <2>1, FS_Product
  <1>2. Ahead(w, n, k) \in SUBSET ((0..k) \X (0..n))
    BY DEF Ahead
  <1> QED BY <1>1, <1>2, FS_Subset, FS_CardinalityType

\* Each turn leaves less ahead.
LEMMA TurnShortens ==
  ASSUME NEW k \in Nat, NEW n \in Nat, NEW w \in Walk, Numbered(w.timers, k), NEW x \in Timer,
         NEW v, Turn(w, n, x, v)
  PROVE  Cardinality(Ahead(v, n, k)) < Cardinality(Ahead(w, n, k))
  <1> DEFINE A == Ahead(w, n, k)
             B == Ahead(v, n, k)
             p == <<x.id, x.deadline>>
  <1>1. w.timers \in Seq(Timer)
    BY DEF Walk
  <1>2. \A z \in ToSet(w.timers) : z \in Timer /\ z.id < k
    BY <1>1, NumberedFacts
  <1>3. x \in ToSet(w.timers) /\ x.id \in 0..k /\ x.deadline \in 0..n
    BY <1>2 DEF Turn, Timer
  <1>4. p \in A
    BY <1>3 DEF Ahead
  <1>5. ASSUME NEW q \in B PROVE q \in A /\ q # p
    <2>1. q \in (0..k) \X (0..n)
      BY DEF Ahead
    <2>2. PICK z \in ToSet(v.timers) : z.id = q[1] /\ z.deadline <= q[2]
      BY DEF Ahead
    <2>3. CASE z \in ToSet(w.timers) /\ z # x
      <3>1. z.id # x.id
        BY <2>3 DEF Turn
      <3> QED BY <2>1, <2>2, <2>3, <3>1 DEF Ahead
    <2>4. CASE x.interval > 0 /\ z = Again(x)
      <3>1. z.id = x.id /\ z.deadline = x.deadline + x.interval /\ x.deadline \in Nat /\ x.interval \in Nat
        BY <2>4, AgainFacts DEF Timer
      <3>2. q[2] > x.deadline /\ x.deadline <= q[2] /\ q[1] = x.id
        BY <2>1, <2>2, <2>4, <3>1
      <3>3. q # p
        BY <3>1, <3>2
      <3>4. q \in A
        BY <1>3, <2>1, <3>2 DEF Ahead
      <3> QED BY <3>3, <3>4
    <2>5. (z \in ToSet(w.timers) /\ z # x) \/ (x.interval > 0 /\ z = Again(x))
      BY <2>2 DEF Turn
    <2> QED BY <2>3, <2>4, <2>5
  <1>6. B \in SUBSET A /\ B # A
    BY <1>4, <1>5
  <1>7. IsFiniteSet(A) /\ Cardinality(A) \in Nat /\ Cardinality(B) \in Nat
    BY AheadFacts
  <1> HIDE DEF A, B
  <1>8. Cardinality(B) <= Cardinality(A) /\ Cardinality(A) # Cardinality(B)
    BY <1>6, <1>7, FS_Subset
  <1> QED BY <1>7, <1>8 DEF A, B

\* What every turn of the walk keeps, AdvanceWheel keeps, and it leaves nothing
\* due.  P is a set of walks.
LEMMA AdvanceKeeps ==
  ASSUME NEW k \in Nat, NEW n \in Nat, NEW P \in SUBSET Walk,
         \A w \in P : Numbered(w.timers, k),
         \A w \in P : \A x \in Timer : \A v \in Walk :
           Turn(w, n, x, v) /\ Numbered(v.timers, k) => v \in P,
         NEW ts, [timers |-> ts, fired |-> <<>>] \in P
  PROVE  AdvanceWheel(ts, n) \in P /\ ~ Due(AdvanceWheel(ts, n).timers, n)
  <1> DEFINE Go == {w \in Walk : Due(w.timers, n)}
             step == [w \in Walk |-> IF Due(w.timers, n) THEN FireNext(w, n) ELSE w]
             M == [w \in Walk |-> Cardinality(Ahead(w, n, k))]
             Solves(g) == IsLoop(g, Walk, Go, step)
             Walks(g) == g = [w \in Walk |-> IF Due(w.timers, n) THEN g[FireNext(w, n)] ELSE w]
             start == [timers |-> ts, fired |-> <<>>]
             g == CHOOSE walk : Walks(walk)
  <1>1. \A w \in Walk : w \in Go <=> Due(w.timers, n)
    OBVIOUS
  <1>2. step \in [Walk -> Walk]
    BY FireNextType
  <1>3. \A w \in Go : step[w] = FireNext(w, n)
    OBVIOUS
  <1>4. \E f : Solves(f)
    <2> HIDE DEF Go, step
    <2>1. Go \in SUBSET Walk
      BY DEF Go
    <2> QED BY <1>2, <2>1, LoopExists
  <1>5. \A f : Walks(f) <=> Solves(f)
    <2> SUFFICES ASSUME NEW f PROVE Walks(f) <=> Solves(f)
      OBVIOUS
    <2>1. \A w \in Walk : (IF Due(w.timers, n) THEN f[FireNext(w, n)] ELSE w)
                          = (IF w \in Go THEN f[step[w]] ELSE w)
      <3> HIDE DEF Go, step
      <3> QED BY <1>1, <1>3
    <2> HIDE DEF Go, step
    <2>2. [w \in Walk |-> IF Due(w.timers, n) THEN f[FireNext(w, n)] ELSE w]
          = [w \in Walk |-> IF w \in Go THEN f[step[w]] ELSE w]
      BY <2>1
    <2> QED BY <2>2 DEF IsLoop
  <1>6. Solves(g)
    <2> HIDE DEF Solves, Walks
    <2> QED BY <1>4, <1>5
  <1>7. AdvanceWheel(ts, n) = g[start]
    BY DEF AdvanceWheel
  <1>8. M \in [Walk -> Nat]
    BY AheadFacts
  <1>9. ASSUME NEW w \in P, w \in Go PROVE step[w] \in P /\ M[step[w]] < M[w]
    <2> DEFINE v == FireNext(w, n)
    <2>1. w \in Walk /\ Numbered(w.timers, k) /\ Due(w.timers, n)
      BY <1>9
    <2>2. v \in Walk /\ Numbered(v.timers, k) /\ \E x \in Timer : Turn(w, n, x, v)
      BY <2>1, FireNextFacts
    <2> HIDE DEF v
    <2>3. PICK x \in Timer : Turn(w, n, x, v)
      BY <2>2
    <2>4. v \in P
      BY <2>2, <2>3
    <2>5. Cardinality(Ahead(v, n, k)) < Cardinality(Ahead(w, n, k))
      BY <2>1, <2>3, TurnShortens
    <2>6. step[w] = v
      BY <1>9 DEF v
    <2> QED BY <2>1, <2>2, <2>4, <2>5, <2>6
  <1>10. Go \in SUBSET Walk
    OBVIOUS
  <1> HIDE DEF Go, step, M, g
  <1>11. Shrinks(P, Go, step, M)
    BY <1>9 DEF Shrinks
  <1>12. \A w \in P : g[w] \in P /\ g[w] \notin Go
    BY <1>2, <1>6, <1>8, <1>10, <1>11, LoopKeeps
  <1> QED BY <1>1, <1>7, <1>12

-----------------------------------------------------------------------------
(* Virtual time.                                                           *)

\* With nothing earlier than b in the wheel, advancing it to b fires at b only.
LEMMA AdvanceOnTime ==
  ASSUME NEW k \in Nat, NEW b \in Nat, NEW ts \in Seq(Timer), Numbered(ts, k),
         \A x \in ToSet(ts) : x.deadline >= b
  PROVE  LET a == AdvanceWheel(ts, b)
         IN /\ a \in Walk
            /\ Numbered(a.timers, k)
            /\ \A x \in ToSet(a.timers) : x.deadline > b
            /\ \A i \in DOMAIN a.fired : a.fired[i].at = b
  <1> DEFINE P == {w \in Walk : /\ Numbered(w.timers, k)
                                /\ \A x \in ToSet(w.timers) : x.deadline >= b
                                /\ \A i \in DOMAIN w.fired : w.fired[i].at = b}
             a == AdvanceWheel(ts, b)
  <1>1. [timers |-> ts, fired |-> <<>>] \in P
    BY DEF Walk
  <1>2. ASSUME NEW w \in P, NEW x \in Timer, NEW v \in Walk, Turn(w, b, x, v), Numbered(v.timers, k)
        PROVE  v \in P
    <2>1. x \in ToSet(w.timers) /\ x.deadline = b
      BY <1>2 DEF Turn, Timer
    <2>2. \A y \in ToSet(v.timers) : y.deadline >= b
      <3> SUFFICES ASSUME NEW y \in ToSet(v.timers) PROVE y.deadline >= b
        OBVIOUS
      <3>1. y \in ToSet(w.timers) \/ y = Again(x)
        BY <1>2 DEF Turn
      <3>2. Again(x).deadline >= b
        BY <2>1, AgainFacts DEF Timer
      <3> QED BY <3>1, <3>2
    <2>3. \A i \in DOMAIN v.fired : v.fired[i].at = b
      <3>1. v.fired = Append(w.fired, [id |-> x.id, at |-> b])
        BY <1>2, <2>1 DEF Turn
      <3>2. w.fired \in Seq(Firing) /\ DOMAIN w.fired = 1..Len(w.fired)
        BY LenProperties DEF Walk
      <3>3. \A i \in 1..Len(w.fired) : w.fired[i].at = b
        BY <3>2
      <3> HIDE DEF P
      <3> QED BY <3>1, <3>2, <3>3
    <2> QED BY <1>2, <2>2, <2>3
  <1>3. a \in P /\ ~ Due(a.timers, b)
    <2>1. P \in SUBSET Walk /\ \A w \in P : Numbered(w.timers, k)
      OBVIOUS
    <2> HIDE DEF P
    <2> QED BY <1>1, <1>2, <2>1, AdvanceKeeps
  <1>4. a.timers \in Seq(Timer)
    BY <1>3 DEF Walk
  <1>5. \A x \in ToSet(a.timers) : x.deadline > b
    <2> SUFFICES ASSUME NEW x \in ToSet(a.timers) PROVE x.deadline > b
      OBVIOUS
    <2>1. PICK i \in DOMAIN a.timers : a.timers[i] = x
      BY <1>4, ToSetFacts
    <2>2. ~ (x.deadline <= b) /\ x.deadline >= b
      BY <1>3, <2>1 DEF Due
    <2>3. x \in Timer
      BY <1>4, ToSetFacts
    <2> QED BY <2>2, <2>3 DEF Timer
  <1> QED BY <1>3, <1>5

\* Nothing is due before sim_time; what can be due at it is a timer just armed.
TimeInvariant ==
  /\ sim_time \in 0..MaxTime
  /\ target = Never \/ target \in sim_time..MaxTime
  /\ device \in [Device -> Nat] /\ \A d \in Device : device[d] > sim_time
  /\ next_id \in Nat
  /\ timers \in Seq(Timer) /\ Numbered(timers, next_id)
  /\ \A x \in ToSet(timers) : x.deadline >= sim_time
  /\ work \in Nat /\ work > sim_time
  /\ trap = FALSE

\* What was delivered last was due now, devices first and timers last.
Delivery == [what : {"device", "host_kernel", "timer"}, due : Nat]
Ordered(es) == \A i, j \in DOMAIN es : i < j => Rank[es[i].what] <= Rank[es[j].what]
DeliveryInvariant ==
  /\ delivered \in Seq(Delivery)
  /\ \A i \in DOMAIN delivered : delivered[i].due = sim_time
  /\ Ordered(delivered)

\* The boundary is the least of the deadlines and the target.
LEMMA BoundaryFacts ==
  ASSUME TimeInvariant, target # Never, NEW dev \in [Device -> Nat]
  PROVE  /\ Boundary(dev) \in Nat
         /\ Boundary(dev) <= target
         /\ \A d \in Deadlines(dev) : d \in Nat /\ Boundary(dev) <= d
         /\ Boundary(dev) \in Deadlines(dev) \union {target}
  <1> DEFINE S == {d \in Deadlines(dev) : d <= target} \union {target}
             b == Boundary(dev)
  <1>1. target \in Nat
    BY TimeAssumption, TimerAssumption DEF TimeInvariant
  <1>2. Deadlines(dev) \in SUBSET Nat
    <2>1. \A i \in DOMAIN timers : timers[i] \in Timer
      BY ToSetFacts, ElementOfSeq DEF TimeInvariant
    <2> QED BY <2>1 DEF Deadlines, TimeInvariant, Timer
  <1>3. b \in S /\ \A y \in S : b <= y
    <2>1. S \in SUBSET Nat /\ S # {}
      BY <1>1, <1>2
    <2> HIDE DEF S
    <2>2. \E x \in S : \A y \in S : x <= y
      BY <2>1, LeastElement
    <2>3. b = CHOOSE x \in S : \A y \in S : x <= y
      BY DEF Boundary, Min, S
    <2> HIDE DEF b
    <2> QED BY <2>2, <2>3
  <1>4. b \in Nat /\ b <= target
    BY <1>1, <1>2, <1>3
  <1>5. ASSUME NEW d \in Deadlines(dev) PROVE b <= d
    <2> HIDE DEF b
    <2>1. CASE d <= target
      BY <1>3, <2>1
    <2>2. CASE ~(d <= target)
      BY <1>1, <1>2, <1>4, <2>2
    <2> QED BY <2>1, <2>2
  <1> QED BY <1>2, <1>3, <1>4, <1>5

\* No deadline of a device is moved before the present.
LEMMA SettleFacts ==
  ASSUME TimeInvariant, NEW finished
  PROVE  /\ Settle(finished) \in [Device -> Nat]
         /\ \A d \in Device : Settle(finished)[d] > sim_time
  <1>1. sim_time + 1 \in Nat /\ sim_time + 1 > sim_time
    BY DEF TimeInvariant
  <1>2. device \in [Device -> Nat] /\ \A d \in Device : device[d] > sim_time
    BY DEF TimeInvariant
  <1>3. CASE Settle(finished) = device
    BY <1>2, <1>3
  <1>4. CASE Settle(finished) = [device EXCEPT !["DP"] = sim_time + 1]
    BY <1>1, <1>2, <1>4
  <1> QED BY <1>3, <1>4 DEF Settle

\* When nothing lies before b, the devices due by b are due at it.
LEMMA DueDevicesFacts ==
  ASSUME NEW b \in Nat, NEW dev \in [Device -> Nat], \A d \in Device : dev[d] >= b
  PROVE  \E n \in Nat : /\ DOMAIN DueDevices(dev, b) = 1..n
                        /\ \A i \in 1..n : dev[DueDevices(dev, b)[i]] = b
                        /\ (\A d \in Device : dev[d] > b) => n = 0
  <1> DEFINE due == {d \in Device : dev[d] <= b}
             n == Cardinality(due)
             Sorted(s) == \A i, j \in DOMAIN s : i < j => s[i] # s[j] /\ dev[s[i]] <= dev[s[j]]
  <1>1. \A d \in due : dev[d] = b
    OBVIOUS
  <1>2. IsFiniteSet(due)
    <2>1. IsFiniteSet({"PI"} \union {"VI"} \union {"DP"})
      BY FS_Singleton, FS_Union
    <2>2. due \in SUBSET ({"PI"} \union {"VI"} \union {"DP"})
      BY DEF Device
    <2> QED BY <2>1, <2>2, FS_Subset
  <1>3. n \in Nat /\ ExistsBijection(1..n, due)
    BY <1>2, FS_CardinalityType
  <1>4. PICK f \in [1..n -> due] : \A i, j \in 1..n : i # j => f[i] # f[j]
    <2> HIDE DEF n, due
    <2>1. PICK f \in Bijection(1..n, due) : TRUE
      BY <1>3 DEF ExistsBijection
    <2> QED BY <2>1 DEF Bijection, Injection, IsInjective
  <1> HIDE DEF n
  <1>5. Sorted(f)
    BY <1>1, <1>3, <1>4
  <1>6. DueDevices(dev, b) = CHOOSE s \in [1..n -> due] : Sorted(s)
    BY DEF DueDevices, n
  <1> HIDE DEF due, Sorted
  <1>7. DueDevices(dev, b) \in [1..n -> due]
    BY <1>4, <1>5, <1>6
  <1>8. (\A d \in Device : dev[d] > b) => n = 0
    <2> SUFFICES ASSUME \A d \in Device : dev[d] > b PROVE n = 0
      OBVIOUS
    <2>1. due = {}
      BY DEF due
    <2> QED BY <2>1, FS_EmptySet DEF n
  <1> QED BY <1>1, <1>3, <1>7, <1>8

\* What is delivered at b, when nothing lies before it.
LEMMA DeliverFacts ==
  ASSUME TimeInvariant, NEW b \in Nat, NEW dev \in [Device -> Nat],
         \A d \in Device : dev[d] >= b, work >= b, \A x \in ToSet(timers) : x.deadline >= b
  PROVE  /\ Deliver(dev, b) \in Seq(Delivery)
         /\ \A i \in DOMAIN Deliver(dev, b) : Deliver(dev, b)[i].due = b
         /\ Ordered(Deliver(dev, b))
         /\ (\A d \in Device : dev[d] > b) /\ work > b =>
              \A i \in DOMAIN Deliver(dev, b) : Deliver(dev, b)[i].what = "timer"
  <1> DEFINE dd == DueDevices(dev, b)
             w  == AdvanceWheel(timers, b)
             p  == [i \in DOMAIN dd |-> Event("device", dev[dd[i]])]
             q  == IF work <= b THEN <<Event("host_kernel", work)>> ELSE <<>>
             r  == [i \in DOMAIN w.fired |-> Event("timer", w.fired[i].at)]
             D  == Deliver(dev, b)
  <1>1. PICK n \in Nat : /\ DOMAIN dd = 1..n
                         /\ \A i \in 1..n : dev[dd[i]] = b
                         /\ (\A d \in Device : dev[d] > b) => n = 0
    BY DueDevicesFacts
  <1>2. \A what \in {"device", "host_kernel", "timer"} : Event(what, b) \in Delivery
    BY DEF Event, Delivery
  <1>3. p \in Seq(Delivery) /\ Len(p) = n /\ \A i \in 1..n : p[i] = Event("device", b)
    <2> HIDE DEF dd
    <2>1. p = [i \in 1..n |-> Event("device", b)]
      BY <1>1
    <2> HIDE DEF p
    <2> QED BY <1>2, <2>1
  <1>4. q \in Seq(Delivery) /\ Len(q) \in 0..1 /\ (work > b => Len(q) = 0)
          /\ \A i \in 1..Len(q) : q[i] = Event("host_kernel", b)
    <2>1. CASE work <= b
      <3>1. work = b
        BY <2>1 DEF TimeInvariant
      <3> HIDE DEF Event
      <3> QED BY <1>2, <2>1, <3>1
    <2>2. CASE ~(work <= b)
      BY <2>2
    <2> QED BY <2>1, <2>2
  <1>5. w \in Walk /\ \A i \in DOMAIN w.fired : w.fired[i].at = b
    BY AdvanceOnTime DEF TimeInvariant
  <1>6. Len(w.fired) \in Nat /\ DOMAIN w.fired = 1..Len(w.fired)
    <2>1. w.fired \in Seq(Firing)
      BY <1>5 DEF Walk
    <2> QED BY <2>1, LenProperties
  <1>7. r \in Seq(Delivery) /\ Len(r) = Len(w.fired) /\ \A i \in 1..Len(r) : r[i] = Event("timer", b)
    <2> HIDE DEF w
    <2>1. r = [i \in 1..Len(w.fired) |-> Event("timer", b)]
      BY <1>5, <1>6
    <2> HIDE DEF r
    <2> QED BY <1>2, <1>6, <2>1
  <1>8. D = p \o q \o r
    BY DEF Deliver
  <1> HIDE DEF p, q, r, D, w, dd
  <1>9. /\ p \o q \in Seq(Delivery) /\ Len(p \o q) = n + Len(q)
        /\ \A i \in 1..(n + Len(q)) : (p \o q)[i] = IF i <= n THEN p[i] ELSE q[i - n]
    BY <1>3, <1>4, ConcatProperties
  <1>10. /\ D \in Seq(Delivery) /\ Len(D) = n + Len(q) + Len(r)
         /\ \A i \in 1..(n + Len(q) + Len(r)) :
              D[i] = IF i <= n + Len(q) THEN (p \o q)[i] ELSE r[i - (n + Len(q))]
    BY <1>7, <1>8, <1>9, ConcatProperties
  <1>11. Len(q) \in Nat /\ Len(r) \in Nat /\ DOMAIN D = 1..(n + Len(q) + Len(r))
    BY <1>4, <1>6, <1>7, <1>10, LenProperties
  <1>12. \A i \in DOMAIN D :
           D[i] = Event(IF i <= n THEN "device" ELSE IF i <= n + Len(q) THEN "host_kernel" ELSE "timer", b)
    <2> SUFFICES ASSUME NEW i \in 1..(n + Len(q) + Len(r))
                 PROVE  D[i] = Event(IF i <= n THEN "device" ELSE IF i <= n + Len(q) THEN "host_kernel" ELSE "timer", b)
      BY <1>11
    <2>1. CASE i <= n
      BY <1>3, <1>9, <1>10, <1>11, <2>1
    <2>2. CASE i > n /\ i <= n + Len(q)
      <3>1. i - n \in 1..Len(q)
        BY <1>11, <2>2
      <3>2. D[i] = q[i - n]
        BY <1>9, <1>10, <1>11, <2>2
      <3> QED BY <1>4, <2>2, <3>1, <3>2
    <2>3. CASE i > n + Len(q)
      <3>1. i - (n + Len(q)) \in 1..Len(r)
        BY <1>11, <2>3
      <3>2. D[i] = r[i - (n + Len(q))]
        BY <1>10, <1>11, <2>3
      <3> QED BY <1>7, <1>11, <2>3, <3>1, <3>2
    <2> QED BY <1>11, <2>1, <2>2, <2>3
  <1>13. \A i \in DOMAIN D : D[i].due = b
    BY <1>12 DEF Event
  <1>14. \A i \in DOMAIN D :
           D[i].what = IF i <= n THEN "device" ELSE IF i <= n + Len(q) THEN "host_kernel" ELSE "timer"
    BY <1>12 DEF Event
  <1>15. Ordered(D)
    <2> SUFFICES ASSUME NEW i \in DOMAIN D, NEW j \in DOMAIN D, i < j
                 PROVE  Rank[D[i].what] <= Rank[D[j].what]
      BY DEF Ordered
    <2>1. \A m \in DOMAIN D : Rank[D[m].what] = IF m <= n THEN 1 ELSE IF m <= n + Len(q) THEN 2 ELSE 3
      BY <1>14 DEF Rank
    <2> QED BY <1>11, <2>1
  <1>16. ASSUME \A d \in Device : dev[d] > b, work > b
         PROVE  \A i \in DOMAIN D : D[i].what = "timer"
    <2>1. n = 0 /\ Len(q) = 0
      BY <1>1, <1>4, <1>16
    <2>2. \A i \in DOMAIN D : ~(i <= n) /\ ~(i <= n + Len(q))
      BY <1>11, <2>1
    <2> QED BY <1>14, <2>2
  <1> QED BY <1>10, <1>13, <1>15, <1>16 DEF D

\* A step of the loop: everything due by the boundary is due at it, is delivered
\* there, and leaves nothing due behind.
LEMMA CommitFacts ==
  ASSUME TimeInvariant, NEW finished \in BOOLEAN, Commit(finished)
  PROVE  /\ sim_time' \in sim_time..target /\ target \in sim_time..MaxTime
         /\ target' = Never \/ (target' = target /\ sim_time' < target)
         /\ device' \in [Device -> Nat] /\ \A d \in Device : device'[d] > sim_time'
         /\ timers' \in Seq(Timer) /\ Numbered(timers', next_id)
         /\ \A x \in ToSet(timers') : x.deadline > sim_time'
         /\ work' \in Nat /\ work' > sim_time'
         /\ trap' = FALSE
         /\ delivered' \in Seq(Delivery)
         /\ \A i \in DOMAIN delivered' : delivered'[i].due = sim_time'
         /\ Ordered(delivered')
         /\ sim_time' = sim_time => \A i \in DOMAIN delivered' : delivered'[i].what = "timer"
  <1> DEFINE dev == Settle(finished)
             b   == Boundary(device)
  <1>1. /\ target # Never
        /\ StillFirst(dev)
        /\ sim_time' = b
        /\ delivered' = Deliver(dev, b)
        /\ device' = AfterDevices(dev, b)
        /\ work' = IF work <= b THEN Never ELSE work
        /\ timers' = AdvanceWheel(timers, b).timers
        /\ target' = IF b = target THEN Never ELSE target
        /\ trap' = (b # target /\ \E d \in {device'[x] : x \in Device} \union {work'}
                                    \union {timers'[i].deadline : i \in DOMAIN timers'} : d <= b)
    BY DEF Commit
  <1>2. /\ sim_time \in Nat /\ target \in sim_time..MaxTime /\ MaxTime \in Nat /\ Never \in Nat
        /\ MaxTime < Never /\ FieldTime \in Nat \ {0} /\ work \in Nat /\ work > sim_time
        /\ timers \in Seq(Timer) /\ next_id \in Nat /\ Numbered(timers, next_id)
        /\ device \in [Device -> Nat] /\ \A d \in Device : device[d] > sim_time
        /\ \A x \in ToSet(timers) : x \in Timer /\ x.deadline >= sim_time
    <2>1. MaxTime + FieldTime < Never /\ FieldTime \in Nat \ {0} /\ MaxTime \in Nat /\ Never \in Nat
      BY TimeAssumption, TimerAssumption
    <2>2. \A x \in ToSet(timers) : x \in Timer
      BY ToSetFacts DEF TimeInvariant
    <2> QED BY <1>1, <2>1, <2>2 DEF TimeInvariant
  <1>3. dev \in [Device -> Nat] /\ \A d \in Device : dev[d] > sim_time
    BY SettleFacts
  <1>4. /\ b \in Nat /\ b <= target /\ Boundary(dev) \in Nat
        /\ b \in Deadlines(device) \union {target}
        /\ \A d \in Deadlines(device) : d \in Nat /\ b <= d
        /\ \A d \in Deadlines(dev) : d \in Nat /\ Boundary(dev) <= d
    BY <1>1, <1>2, <1>3, BoundaryFacts
  <1> HIDE DEF dev, b
  <1>5. /\ \A d \in Device : dev[d] \in Deadlines(dev) /\ device[d] \in Deadlines(device)
        /\ work \in Deadlines(dev)
        /\ \A x \in ToSet(timers) : x.deadline \in Deadlines(dev) /\ x.deadline \in Deadlines(device)
    <2>1. \A x \in ToSet(timers) : \E i \in DOMAIN timers : timers[i] = x
      BY <1>2, ToSetFacts
    <2> QED BY <2>1 DEF Deadlines
  <1>6. \A d \in Deadlines(dev) : d \in Nat /\ b <= d
    BY <1>1, <1>4 DEF StillFirst, b
  <1>7. sim_time <= b
    <2>1. \A i \in DOMAIN timers : timers[i] \in ToSet(timers)
      BY <1>2, ToSetFacts
    <2>2. \A d \in Deadlines(device) : sim_time <= d
      BY <1>2, <1>4, <2>1 DEF Deadlines
    <2> QED BY <1>2, <1>4, <2>2
  <1>8. /\ \A d \in Device : dev[d] >= b
        /\ work >= b
        /\ \A x \in ToSet(timers) : x.deadline >= b
    BY <1>3, <1>4, <1>5, <1>6, <1>2
  <1>9. device' \in [Device -> Nat] /\ \A d \in Device : device'[d] > b
    <2>1. b < Never /\ \A d \in Device : dev[d] + FieldTime > b /\ dev[d] + FieldTime \in Nat
      BY <1>2, <1>3, <1>4, <1>8
    <2> QED BY <1>1, <1>2, <1>3, <2>1 DEF AfterDevices
  <1>10. work' \in Nat /\ work' > b
    BY <1>1, <1>2, <1>4
  <1>11. timers' \in Seq(Timer) /\ Numbered(timers', next_id) /\ \A x \in ToSet(timers') : x.deadline > b
    <2>1. LET a == AdvanceWheel(timers, b)
          IN a \in Walk /\ Numbered(a.timers, next_id) /\ \A x \in ToSet(a.timers) : x.deadline > b
      BY <1>2, <1>4, <1>8, AdvanceOnTime
    <2> QED BY <1>1, <2>1 DEF Walk
  <1>12. trap' = FALSE
    <2>1. \A i \in DOMAIN timers' : timers'[i] \in ToSet(timers') /\ timers'[i] \in Timer
      BY <1>11, ToSetFacts
    <2>2. \A i \in DOMAIN timers' : timers'[i].deadline > b /\ timers'[i].deadline \in Nat
      BY <1>11, <2>1 DEF Timer
    <2>3. ASSUME NEW d \in {device'[x] : x \in Device} \union {work'}
                                    \union {timers'[i].deadline : i \in DOMAIN timers'}
          PROVE  ~(d <= b)
      BY <1>4, <1>9, <1>10, <2>2
    <2> QED BY <1>1, <2>3
  <1>13. /\ Deliver(dev, b) \in Seq(Delivery)
         /\ \A i \in DOMAIN Deliver(dev, b) : Deliver(dev, b)[i].due = b
         /\ Ordered(Deliver(dev, b))
         /\ (\A d \in Device : dev[d] > b) /\ work > b =>
              \A i \in DOMAIN Deliver(dev, b) : Deliver(dev, b)[i].what = "timer"
    BY <1>3, <1>4, <1>8, DeliverFacts
  <1>14. b = sim_time => (\A d \in Device : dev[d] > b) /\ work > b
    BY <1>2, <1>3
  <1>15. sim_time' \in sim_time..target
    BY <1>1, <1>2, <1>4, <1>7
  <1>16. target' = Never \/ (target' = target /\ sim_time' < target)
    BY <1>1, <1>2, <1>4
  <1> QED BY <1>1, <1>2, <1>9, <1>10, <1>11, <1>12, <1>13, <1>14, <1>15, <1>16

\* A timer armed last has the highest number.
LEMMA ArmFacts ==
  ASSUME NEW k \in Nat, NEW ts \in Seq(Timer), Numbered(ts, k), NEW x \in Timer, x.id = k
  PROVE  /\ Append(ts, x) \in Seq(Timer)
         /\ Numbered(Append(ts, x), k + 1)
         /\ ToSet(Append(ts, x)) = ToSet(ts) \union {x}
  <1>1. DOMAIN ts = 1..Len(ts) /\ Len(ts) \in Nat
    BY ToSetFacts
  <1>2. \A i \in 1..Len(ts) : ts[i].id \in Nat /\ ts[i].id < k
    <2>1. \A i \in 1..Len(ts) : ts[i] \in Timer
      BY <1>1, ElementOfSeq
    <2> QED BY <1>1, <2>1 DEF Numbered, Timer
  <1> DEFINE r == Append(ts, x)
  <1>3. /\ r \in Seq(Timer) /\ DOMAIN r = 1..(Len(ts) + 1)
        /\ \A i \in 1..Len(ts) : r[i] = ts[i]
        /\ r[Len(ts) + 1] = x
    BY <1>1
  <1> HIDE DEF r
  <1>4. ASSUME NEW i \in 1..(Len(ts) + 1)
        PROVE  r[i].id < k + 1 /\ \A j \in 1..(Len(ts) + 1) : i < j => r[i].id < r[j].id
    <2>1. CASE i = Len(ts) + 1
      BY <1>1, <1>3, <2>1
    <2>2. CASE i # Len(ts) + 1
      <3>1. i \in 1..Len(ts)
        BY <1>1, <2>2
      <3>2. r[i].id < k /\ r[i].id \in Nat
        BY <1>2, <1>3, <3>1
      <3>3. ASSUME NEW j \in 1..(Len(ts) + 1), i < j PROVE r[i].id < r[j].id
        <4>1. CASE j = Len(ts) + 1
          BY <1>3, <3>2, <4>1
        <4>2. CASE j # Len(ts) + 1
          BY <1>1, <1>3, <3>1, <3>3, <4>2 DEF Numbered
        <4> QED BY <4>1, <4>2
      <3> QED BY <3>2, <3>3
    <2> QED BY <2>1, <2>2
  <1>5. Numbered(r, k + 1)
    BY <1>3, <1>4 DEF Numbered
  <1>6. ToSet(r) = ToSet(ts) \union {x}
    <2>1. \A y : y \in ToSet(r) <=> \E j \in 1..(Len(ts) + 1) : r[j] = y
      BY <1>3 DEF ToSet
    <2>2. \A y : y \in ToSet(ts) <=> \E j \in 1..Len(ts) : ts[j] = y
      BY ToSetFacts
    <2>3. ASSUME NEW y \in ToSet(r) PROVE y \in ToSet(ts) \union {x}
      <3>1. PICK j \in 1..(Len(ts) + 1) : r[j] = y
        BY <2>1
      <3>2. j = Len(ts) + 1 \/ j \in 1..Len(ts)
        BY <1>1
      <3> QED BY <1>3, <2>2, <3>1, <3>2
    <2>4. ASSUME NEW y \in ToSet(ts) \union {x} PROVE y \in ToSet(r)
      <3>1. CASE y = x
        BY <1>1, <1>3, <2>1, <3>1
      <3>2. CASE y \in ToSet(ts)
        <4>1. PICK j \in 1..Len(ts) : ts[j] = y
          BY <2>2, <3>2
        <4> QED BY <1>1, <1>3, <2>1, <4>1
      <3> QED BY <3>1, <3>2
    <2> QED BY <2>3, <2>4
  <1> QED BY <1>3, <1>5, <1>6 DEF r

\* Every action keeps both invariants.
LEMMA TimeStep ==
  ASSUME TimeInvariant, DeliveryInvariant, [Next]_vars
  PROVE  TimeInvariant' /\ DeliveryInvariant'
  <1>1. /\ MaxTime \in Nat /\ Latency \subseteq Nat \ {0}
        /\ Countdown \subseteq Nat /\ Interval \subseteq Nat
        /\ ServiceTime \in Nat \ {0}
    BY TimeAssumption, TimerAssumption
  <1>2. sim_time \in Nat
    BY <1>1 DEF TimeInvariant
  <1>3. ASSUME NEW l \in Latency, StartDma(l) PROVE TimeInvariant' /\ DeliveryInvariant'
    <2>1. sim_time + l \in Nat /\ sim_time + l > sim_time
      BY <1>1, <1>2
    <2>2. device' \in [Device -> Nat] /\ \A d \in Device : device'[d] > sim_time
      BY <1>3, <2>1 DEF StartDma, TimeInvariant
    <2> QED BY <1>3, <2>2 DEF StartDma, TimeInvariant, DeliveryInvariant
  <1>4. ASSUME NEW c \in Countdown, NEW i \in Interval, OsSetTimer(c, i)
        PROVE  TimeInvariant' /\ DeliveryInvariant'
    <2> DEFINE x == [id |-> next_id, deadline |-> sim_time + c, interval |-> i]
    <2>1. x \in Timer /\ x.deadline >= sim_time /\ x.id = next_id /\ next_id + 1 \in Nat
      BY <1>1, <1>2 DEF TimeInvariant, Timer
    <2>2. timers' = Append(timers, x) /\ next_id' = next_id + 1
      BY <1>4 DEF OsSetTimer, Arm
    <2> HIDE DEF x
    <2>3. timers' \in Seq(Timer) /\ Numbered(timers', next_id') /\ \A y \in ToSet(timers') : y.deadline >= sim_time
      BY <2>1, <2>2, ArmFacts DEF TimeInvariant
    <2> QED BY <1>4, <2>1, <2>2, <2>3 DEF OsSetTimer, Arm, TimeInvariant, DeliveryInvariant
  <1>5. ASSUME StartRender PROVE TimeInvariant' /\ DeliveryInvariant'
    BY <1>5 DEF StartRender, TimeInvariant, DeliveryInvariant
  <1>6. ASSUME AcceptHostWork PROVE TimeInvariant' /\ DeliveryInvariant'
    <2>1. work' \in Nat /\ work' > sim_time
      BY <1>1, <1>2, <1>6 DEF AcceptHostWork
    <2> QED BY <1>6, <2>1 DEF AcceptHostWork, TimeInvariant, DeliveryInvariant
  <1>7. ASSUME NEW t \in sim_time..MaxTime, AskFor(t) PROVE TimeInvariant' /\ DeliveryInvariant'
    BY <1>7 DEF AskFor, TimeInvariant, DeliveryInvariant
  <1>8. ASSUME Restart PROVE TimeInvariant' /\ DeliveryInvariant'
    <2>1. device' \in [Device -> Nat] /\ \A d \in Device : device'[d] > sim_time
      BY <1>8, SettleFacts DEF Restart
    <2> QED BY <1>8, <2>1 DEF Restart, TimeInvariant, DeliveryInvariant
  <1>9. ASSUME NEW f \in BOOLEAN, Commit(f) PROVE TimeInvariant' /\ DeliveryInvariant'
    <2>1. next_id' = next_id
      BY <1>9 DEF Commit
    <2>2. /\ sim_time' \in sim_time..target /\ target \in sim_time..MaxTime
          /\ target' = Never \/ (target' = target /\ sim_time' < target)
          /\ device' \in [Device -> Nat] /\ \A d \in Device : device'[d] > sim_time'
          /\ timers' \in Seq(Timer) /\ Numbered(timers', next_id)
          /\ \A x \in ToSet(timers') : x.deadline > sim_time'
          /\ work' \in Nat /\ work' > sim_time'
          /\ trap' = FALSE
      BY <1>9, CommitFacts
    <2>3. DeliveryInvariant'
      BY <1>9, CommitFacts DEF DeliveryInvariant
    <2>4. sim_time' \in 0..MaxTime /\ (target' = Never \/ target' \in sim_time'..MaxTime)
      BY <1>1, <1>2, <2>2
    <2>5. \A x \in ToSet(timers') : x.deadline >= sim_time'
      <3>1. \A x \in ToSet(timers') : x \in Timer
        BY <2>2, ToSetFacts
      <3> QED BY <1>1, <2>2, <2>4, <3>1 DEF Timer
    <2>6. next_id' \in Nat
      BY <2>1 DEF TimeInvariant
    <2> QED BY <2>1, <2>2, <2>3, <2>4, <2>5, <2>6 DEF TimeInvariant
  <1>10. CASE UNCHANGED vars
    BY <1>10 DEF vars, TimeInvariant, DeliveryInvariant
  <1> QED BY <1>3, <1>4, <1>5, <1>6, <1>7, <1>8, <1>9, <1>10 DEF Next

\* They hold throughout.
LEMMA TimeTypes == Spec => [](TimeInvariant /\ DeliveryInvariant)
  <1>1. Init => TimeInvariant /\ DeliveryInvariant
    <2> SUFFICES ASSUME Init PROVE TimeInvariant /\ DeliveryInvariant
      OBVIOUS
    <2>1. MaxTime \in Nat /\ Never \in Nat /\ MaxTime + FieldTime < Never /\ FieldTime \in Nat \ {0}
      BY TimeAssumption, TimerAssumption
    <2>2. ToSet(timers) = {} /\ DOMAIN timers = {} /\ timers \in Seq(Timer)
      BY DEF Init, ToSet
    <2>3. device \in [Device -> Nat] /\ \A d \in Device : device[d] > 0
      BY <2>1 DEF Init
    <2>4. TimeInvariant
      BY <2>1, <2>2, <2>3 DEF Init, TimeInvariant, Numbered
    <2>5. DeliveryInvariant
      BY DEF Init, DeliveryInvariant, Ordered
    <2> QED BY <2>4, <2>5
  <1>2. TimeInvariant /\ DeliveryInvariant /\ [Next]_vars => (TimeInvariant /\ DeliveryInvariant)'
    BY TimeStep
  <1> QED BY <1>1, <1>2, PTL DEF Spec

\* Whatever was delivered was due at that instant, and between commits nothing
\* is overdue.
THEOREM OnTime == Spec => []DeliveredOnTime
  <1>1. TimeInvariant /\ DeliveryInvariant => DeliveredOnTime
    <2> SUFFICES ASSUME TimeInvariant, DeliveryInvariant PROVE DeliveredOnTime
      OBVIOUS
    <2>1. \A i \in DOMAIN timers : timers[i].deadline >= sim_time
      BY ToSetFacts DEF TimeInvariant
    <2> QED BY <2>1 DEF DeliveredOnTime, NothingOverdue, TimeInvariant, DeliveryInvariant
  <1> QED BY <1>1, TimeTypes, PTL

\* The loop's assertion never fails: a boundary before the target leaves
\* nothing due at it.
THEOREM LoopProgresses == Spec => []NoTrap
  <1>1. TimeInvariant => NoTrap
    BY DEF TimeInvariant, NoTrap
  <1> QED BY <1>1, TimeTypes, PTL

\* Devices before host work before timers, within a commit and over the commits
\* made at one instant.
THEOREM InOrder == Spec => DeliveredInOrder
  <1> DEFINE Kept == \A j \in DOMAIN delivered' :
       /\ \A i \in DOMAIN delivered' : i < j => Rank[delivered'[i].what] <= Rank[delivered'[j].what]
       /\ sim_time' = sim_time /\ delivered' # delivered =>
            \A i \in DOMAIN delivered : Rank[delivered[i].what] <= Rank[delivered'[j].what]
  <1>1. TimeInvariant /\ DeliveryInvariant /\ (TimeInvariant /\ DeliveryInvariant)' /\ [Next]_vars => [Kept]_vars
    <2> SUFFICES ASSUME TimeInvariant, DeliveryInvariant, DeliveryInvariant', Next PROVE Kept
      OBVIOUS
    <2>1. \A i, j \in DOMAIN delivered' : i < j => Rank[delivered'[i].what] <= Rank[delivered'[j].what]
      BY DEF DeliveryInvariant, Ordered
    <2>2. ASSUME sim_time' = sim_time, delivered' # delivered, NEW j \in DOMAIN delivered', NEW i \in DOMAIN delivered
          PROVE  Rank[delivered[i].what] <= Rank[delivered'[j].what]
      <3>1. PICK f \in BOOLEAN : Commit(f)
        BY <2>2 DEF Next, StartDma, OsSetTimer, Arm, StartRender, AcceptHostWork, AskFor, Restart
      <3>2. delivered'[j].what = "timer"
        BY <2>2, <3>1, CommitFacts
      <3>3. delivered[i] \in Delivery
        BY ElementOfSeq, LenProperties DEF DeliveryInvariant
      <3> QED BY <3>2, <3>3 DEF Delivery, Rank
    <2> QED BY <2>1, <2>2
  <1> QED BY <1>1, TimeTypes, PTL DEF Spec, DeliveredInOrder

-----------------------------------------------------------------------------
(* CP0 Count and Compare.                                                  *)

\* Quotient and remainder are unique.
LEMMA Quotient ==
  ASSUME NEW W \in Nat \ {0}, NEW q \in Int, NEW r \in 0..(W - 1)
  PROVE  (W * q + r) % W = r
  <1> DEFINE x == W * q + r
             d == x \div W
             m == x % W
  <1>1. x \in Int /\ d \in Int /\ m \in 0..(W - 1) /\ x = W * d + m
    OBVIOUS
  <1>2. W * (q - d) = m - r
    BY <1>1
  <1>3. ASSUME NEW k \in Int, k >= 1 PROVE W * k >= W /\ W * (-k) <= -W
    BY <1>3
  <1>4. q - d < 1 /\ q - d > -1
    <2> HIDE DEF d, m, x
    <2> DEFINE k == q - d
    <2>1. k \in Int
      BY <1>1
    <2>2. W * k = m - r /\ m - r < W /\ m - r > -W
      BY <1>1, <1>2
    <2> HIDE DEF k
    <2>3. ASSUME k >= 1 PROVE FALSE
      BY <1>3, <2>1, <2>2, <2>3
    <2>4. ASSUME k <= -1 PROVE FALSE
      <3>1. -k \in Int /\ -k >= 1 /\ -(-k) = k
        BY <2>1, <2>4
      <3>2. W * k <= -W
        BY <1>3, <3>1
      <3> QED BY <1>1, <2>1, <2>2, <3>2
    <2> QED BY <2>1, <2>3, <2>4 DEF k
  <1> QED BY <1>1, <1>2, <1>4

\* The remainder of a successor.
LEMMA NextResidue ==
  ASSUME NEW W \in Nat \ {0}, NEW x \in Nat
  PROVE  (x + 1) % W = ((x % W) + 1) % W
  <1> DEFINE d == x \div W
             m == x % W
  <1>1. x \in Int /\ d \in Int /\ m \in 0..(W - 1) /\ x = W * d + m
    OBVIOUS
  <1> HIDE DEF d, m
  <1>2. CASE m + 1 = W
    <2>1. x + 1 = W * (d + 1) + 0
      BY <1>1, <1>2
    <2>2. (W * (d + 1) + 0) % W = 0 /\ (W * 1 + 0) % W = 0
      BY <1>1, Quotient
    <2> QED BY <1>2, <2>1, <2>2 DEF m
  <1>3. CASE m + 1 # W
    <2>1. x + 1 = W * d + (m + 1) /\ m + 1 \in 0..(W - 1)
      BY <1>1, <1>3
    <2>2. (W * d + (m + 1)) % W = m + 1 /\ (W * 0 + (m + 1)) % W = m + 1
      BY <1>1, <2>1, Quotient
    <2> QED BY <1>3, <2>1, <2>2 DEF m
  <1> QED BY <1>2, <1>3

ClockTypes ==
  /\ cp0_count \in Word
  /\ cp0_count_phase \in {0, 1}
  /\ cp0_compare \in Word
  /\ cp0_timer_pending \in BOOLEAN

\* The match is reached after IncrementsToMatch increments and not before.
LEMMA FirstMatch ==
  ASSUME ClockTypes
  PROVE  /\ IncrementsToMatch \in 1..Wrap
         /\ (cp0_count + IncrementsToMatch) % Wrap = cp0_compare
         /\ \A i \in Nat : i >= 1 /\ i < IncrementsToMatch => (cp0_count + i) % Wrap # cp0_compare
  <1> DEFINE W == Wrap
             c == cp0_count
             k == cp0_compare
             d == IncrementsToMatch
  <1>1. W \in Nat \ {0} /\ c \in 0..(W - 1) /\ k \in 0..(W - 1)
    BY ClockAssumption DEF ClockTypes, Word
  <1>2. \A r \in 0..(W - 1) : r % W = r /\ (W + r) % W = r
    <2> SUFFICES ASSUME NEW r \in 0..(W - 1) PROVE r % W = r /\ (W + r) % W = r
      OBVIOUS
    <2>1. (W * 0 + r) % W = r /\ (W * 1 + r) % W = r
      BY <1>1, Quotient
    <2> QED BY <1>1, <2>1
  <1>3. (k - c) % W = IF k >= c THEN k - c ELSE k - c + W
    <2>1. CASE k >= c
      BY <1>1, <1>2, <2>1
    <2>2. CASE k < c
      <3>1. (W * (-1) + (k - c + W)) % W = k - c + W
        BY <1>1, <2>2, Quotient
      <3> QED BY <1>1, <2>2, <3>1
    <2> QED BY <1>1, <2>1, <2>2
  <1>4. d = IF k > c THEN k - c ELSE k - c + W
    BY <1>1, <1>3 DEF IncrementsToMatch
  <1> HIDE DEF d, c, k, W
  <1>5. d \in 1..W
    BY <1>1, <1>4
  <1>6. (c + d) % W = k
    BY <1>1, <1>2, <1>4
  <1>7. ASSUME NEW i \in Nat, i >= 1, i < d PROVE (c + i) % W # k
    <2>1. CASE c + i < W
      <3>1. (c + i) % W = c + i
        BY <1>1, <1>2, <2>1
      <3> QED BY <1>1, <1>4, <1>7, <2>1, <3>1
    <2>2. CASE c + i >= W
      <3>1. c + i - W \in 0..(W - 1)
        BY <1>1, <1>5, <1>7, <2>2
      <3>2. (W + (c + i - W)) % W = c + i - W
        BY <1>2, <3>1
      <3>3. W + (c + i - W) = c + i
        BY <1>1
      <3> QED BY <1>1, <1>4, <1>7, <2>2, <3>1, <3>2, <3>3
    <2> QED BY <1>1, <2>1, <2>2
  <1> QED BY <1>5, <1>6, <1>7 DEF d, c, k, W

\* No cycle at all changes nothing.
LEMMA BulkOfNone ==
  ASSUME ClockTypes
  PROVE  Bulk(0) = [count |-> cp0_count, phase |-> cp0_count_phase, pending |-> cp0_timer_pending]
  <1>1. (cp0_count_phase + 0) \div 2 = 0 /\ (cp0_count_phase + 0) % 2 = cp0_count_phase
    BY DEF ClockTypes
  <1>2. (cp0_count + 0) % Wrap = cp0_count
    BY ClockAssumption DEF ClockTypes, Word
  <1> QED BY <1>1, <1>2 DEF Bulk, Increments, ClockTypes

\* One more cycle is one more tick.
LEMMA BulkOfOneMore ==
  ASSUME ClockTypes, NEW n \in Nat
  PROVE  LET s == Bulk(n)
             c == (s.count + 1) % Wrap
         IN Bulk(n + 1) =
              IF s.phase = 0 THEN [s EXCEPT !.phase = 1]
              ELSE [count |-> c, phase |-> 0, pending |-> s.pending \/ c = cp0_compare]
  <1> DEFINE x == cp0_count_phase + n
             i == x \div 2
             s == Bulk(n)
             c == (s.count + 1) % Wrap
             itm == IncrementsToMatch
  <1>1. x \in Nat /\ i \in Nat /\ cp0_count_phase + (n + 1) = x + 1
    BY DEF ClockTypes
  <1>2. Wrap \in Nat \ {0} /\ cp0_count \in Nat /\ cp0_timer_pending \in BOOLEAN
    BY ClockAssumption DEF ClockTypes, Word
  <1>3. s = [count |-> (cp0_count + i) % Wrap, phase |-> x % 2,
             pending |-> cp0_timer_pending \/ (i # 0 /\ i >= itm)]
    BY DEF Bulk, Increments
  <1>4. Bulk(n + 1) =
          [count |-> (cp0_count + (x + 1) \div 2) % Wrap, phase |-> (x + 1) % 2,
           pending |-> cp0_timer_pending \/ ((x + 1) \div 2 # 0 /\ (x + 1) \div 2 >= itm)]
    BY <1>1 DEF Bulk, Increments
  <1>5. CASE x % 2 = 0
    <2>1. (x + 1) \div 2 = i /\ (x + 1) % 2 = 1
      BY <1>1, <1>5
    <2> QED BY <1>3, <1>4, <1>5, <2>1
  <1>6. CASE x % 2 # 0
    <2>1. (x + 1) \div 2 = i + 1 /\ (x + 1) % 2 = 0
      BY <1>1, <1>6
    <2>2. c = (cp0_count + (i + 1)) % Wrap
      <3>1. s.count = (cp0_count + i) % Wrap
        BY <1>3
      <3>2. ((cp0_count + i) + 1) % Wrap = (((cp0_count + i) % Wrap) + 1) % Wrap
        BY <1>1, <1>2, NextResidue
      <3>3. (cp0_count + i) + 1 = cp0_count + (i + 1)
        BY <1>1, <1>2
      <3> QED BY <3>1, <3>2, <3>3
    <2>3. (i + 1 # 0 /\ i + 1 >= itm) <=> ((i # 0 /\ i >= itm) \/ c = cp0_compare)
      <3>1. /\ itm \in 1..Wrap
            /\ (cp0_count + itm) % Wrap = cp0_compare
            /\ \A j \in Nat : j >= 1 /\ j < itm => (cp0_count + j) % Wrap # cp0_compare
        BY FirstMatch
      <3> HIDE DEF i, c, itm
      <3>2. CASE i + 1 < itm
        <4>1. (cp0_count + (i + 1)) % Wrap # cp0_compare
          BY <1>1, <3>1, <3>2
        <4> QED BY <1>1, <2>2, <3>1, <3>2, <4>1
      <3>3. CASE i + 1 = itm
        BY <1>1, <2>2, <3>1, <3>3
      <3>4. CASE i + 1 > itm
        BY <1>1, <1>2, <3>1, <3>4
      <3> QED BY <1>1, <1>2, <3>1, <3>2, <3>3, <3>4
    <2>4. s.phase # 0
      BY <1>3, <1>6
    <2>5. Bulk(n + 1) =
            [count |-> c, phase |-> 0, pending |-> cp0_timer_pending \/ (i # 0 /\ i >= itm) \/ c = cp0_compare]
      BY <1>2, <1>4, <2>1, <2>2, <2>3
    <2>6. s.pending = (cp0_timer_pending \/ (i # 0 /\ i >= itm))
      BY <1>3
    <2> QED BY <2>4, <2>5, <2>6
  <1> QED BY <1>5, <1>6

\* Any number of cycles at once is that many ticks.
LEMMA TicksAreBulk ==
  ASSUME ClockTypes
  PROVE  \A n \in Nat : Bulk(n) = Ticks[n]
  <1> DEFINE B == [n \in Nat |-> Bulk(n)]
             Step(T, n) == 
               IF n = 0
               THEN [count |-> cp0_count, phase |-> cp0_count_phase, pending |-> cp0_timer_pending]
               ELSE LET s == T[n - 1]
                        c == (s.count + 1) % Wrap
                    IN IF s.phase = 0 THEN [s EXCEPT !.phase = 1]
                       ELSE [count |-> c, phase |-> 0, pending |-> s.pending \/ c = cp0_compare]
  <1>1. ASSUME NEW n \in Nat PROVE B[n] = Step(B, n)
    <2>1. CASE n = 0
      BY <2>1, BulkOfNone
    <2>2. CASE n # 0
      <3>1. n - 1 \in Nat /\ (n - 1) + 1 = n
        BY <2>2
      <3>2. B[n - 1] = Bulk(n - 1) /\ B[n] = Bulk((n - 1) + 1)
        BY <3>1
      <3> HIDE DEF B
      <3> QED BY <2>2, <3>1, <3>2, BulkOfOneMore
    <2> QED BY <2>1, <2>2
  <1>2. B = [n \in Nat |-> Step(B, n)]
    BY <1>1
  <1>3. Ticks = [n \in Nat |-> Step(Ticks, n)]
    <2>1. Ticks = CHOOSE T : T = [n \in Nat |-> Step(T, n)]
      BY DEF Ticks
    <2> HIDE DEF B, Step
    <2> QED BY <1>2, <2>1
  <1> DEFINE Same == {n \in Nat : Ticks[n] = B[n]}
  <1>4. 0 \in Same
    BY <1>1, <1>3
  <1>5. ASSUME NEW n \in Same PROVE n + 1 \in Same
    <2>1. n \in Nat /\ n + 1 \in Nat /\ n + 1 # 0 /\ (n + 1) - 1 = n /\ Ticks[n] = B[n]
      BY <1>5
    <2>2. Step(Ticks, n + 1) = Step(B, n + 1)
      BY <2>1
    <2>3. Ticks[n + 1] = Step(Ticks, n + 1)
      <3> HIDE DEF Step, B
      <3> QED BY <1>3, <2>1
    <2>4. B[n + 1] = Step(B, n + 1)
      BY <1>1, <2>1
    <2> QED BY <2>1, <2>2, <2>3, <2>4
  <1>6. Nat \subseteq Same
    <2> HIDE DEF Same
    <2> QED BY <1>4, <1>5, EveryNat DEF Same
  <1> QED BY <1>6

\* From every state the executor reaches, one advance over a whole chunk is what
\* the hardware does a cycle at a time.
THEOREM ChunksAreTicks == ClockSpec => []BulkIsTicks
  <1>1. ClockInit => ClockTypes
    <2>1. 0 \in Word
      BY ClockAssumption DEF Word
    <2> QED BY <2>1 DEF ClockInit, ClockTypes
  <1>2. ClockTypes /\ [ClockNext]_clockVars => ClockTypes'
    <2> SUFFICES ASSUME ClockTypes, [ClockNext]_clockVars PROVE ClockTypes'
      OBVIOUS
    <2> USE DEF ClockTypes, Word
    <2>1. ASSUME NEW n \in 0..MaxElapsed, AdvanceClock(n) PROVE ClockTypes'
      <3>1. n \in Nat /\ Wrap \in Nat \ {0}
        BY ClockAssumption
      <3>2. (cp0_count_phase + n) % 2 \in {0, 1} /\ (cp0_count_phase + n) \div 2 \in Nat
        BY <3>1
      <3>3. (cp0_count + (cp0_count_phase + n) \div 2) % Wrap \in 0..(Wrap - 1)
        BY <3>1, <3>2
      <3> QED BY <2>1, <3>2, <3>3 DEF AdvanceClock, Bulk, Increments
    <2>2. ASSUME NEW c \in Word, SetCount(c) \/ WriteCompare(c) PROVE ClockTypes'
      BY <2>2 DEF SetCount, WriteCompare
    <2>3. ASSUME NEW c \in Word, NEW k \in Word, NEW b \in BOOLEAN, Restore(c, k, b)
          PROVE  ClockTypes'
      BY <2>3 DEF Restore
    <2>4. CASE UNCHANGED clockVars
      BY <2>4 DEF clockVars
    <2> QED BY <2>1, <2>2, <2>3, <2>4 DEF ClockNext
  <1>3. ClockTypes => BulkIsTicks
    BY TicksAreBulk, ClockAssumption DEF BulkIsTicks
  <1> QED BY <1>1, <1>2, <1>3, PTL DEF ClockSpec
-----------------------------------------------------------------------------
(* The timer wheel on its own.                                             *)

\* An interval after an instant in phase comes the next one, and none between.
LEMMA NextInPhase ==
  ASSUME NEW v \in Nat \ {0}, NEW e \in Nat, e % v = 0
  PROVE  /\ (e + v) % v = 0
         /\ \A d \in Nat : e < d /\ d < e + v => d % v # 0
  <1> DEFINE q == e \div v
  <1>1. q \in Int /\ e = v * q
    OBVIOUS
  <1> HIDE DEF q
  <1>2. (e + v) % v = 0
    <2>1. e + v = v * (q + 1) + 0
      BY <1>1
    <2>2. q + 1 \in Int /\ 0 \in 0..(v - 1)
      BY <1>1
    <2>3. (v * (q + 1) + 0) % v = 0
      BY <2>2, Quotient
    <2> QED BY <2>1, <2>3
  <1>3. ASSUME NEW d \in Nat, e < d, d < e + v PROVE d % v # 0
    <2> DEFINE r == d - e
    <2>1. r \in 1..(v - 1) /\ r \in 0..(v - 1) /\ d = v * q + r
      BY <1>1, <1>3
    <2> HIDE DEF r
    <2>2. (v * q + r) % v = r
      BY <1>1, <2>1, Quotient
    <2> QED BY <2>1, <2>2
  <1> QED BY <1>2, <1>3

\* What osSetTimer asked for, and how far it has been served.
Order == [first : Nat, interval : Nat, served : Int, stopped : BOOLEAN]

\* The instants an order asks for.
Instants(a) ==
  {d \in Nat : d >= a.first /\ (d = a.first \/ (a.interval > 0 /\ (d - a.first) % a.interval = 0))}
\* The instants timer id has fired at.
Times(fs, id) == {fs[i].at : i \in {j \in DOMAIN fs : fs[j].id = id}}

\* What is posted is the part of an order's instants that has been served.
LEMMA ScheduleFacts ==
  ASSUME NEW a \in Order
  PROVE  /\ Schedule(a) = {d \in Instants(a) : d <= a.served}
         /\ a.first \in Instants(a) /\ \A d \in Instants(a) : d >= a.first
         /\ a.interval = 0 => Instants(a) = {a.first}
  BY DEF Schedule, Instants, Order

\* A pending timer stands at the first instant it has not fired at.
Pending(as, ts, fs, n) ==
  \A x \in ToSet(ts) :
    LET a == as[x.id + 1]
    IN /\ ~ a.stopped /\ x.interval = a.interval /\ x.deadline \in Instants(a)
       /\ \A d \in Instants(a) : d < x.deadline => d <= n
       /\ Times(fs, x.id) = {d \in Instants(a) : d < x.deadline}
\* A timer that is gone was stopped, or had one instant only and fired at it.
Gone(as, ts, fs, n) ==
  \A k \in DOMAIN as :
    (\A x \in ToSet(ts) : x.id # k - 1) =>
      IF as[k].stopped THEN Times(fs, k - 1) = Schedule(as[k])
      ELSE as[k].interval = 0 /\ as[k].first <= n /\ Times(fs, k - 1) = {as[k].first}
\* Whatever has fired came before whatever is pending.
Past(as, ts, fs, n) ==
  \A i \in DOMAIN fs :
    /\ fs[i].at <= n /\ fs[i].id < Len(as)
    /\ \A x \in ToSet(ts) : fs[i].at < x.deadline \/ (fs[i].at = x.deadline /\ fs[i].id < x.id)
InOrderOf(fs) ==
  \A i, j \in DOMAIN fs :
    i < j => fs[i].at < fs[j].at \/ (fs[i].at = fs[j].at /\ fs[i].id < fs[j].id)

OnSchedule(as, ts, fs, n) ==
  /\ Numbered(ts, Len(as))
  /\ Pending(as, ts, fs, n) /\ Gone(as, ts, fs, n) /\ Past(as, ts, fs, n) /\ InOrderOf(fs)

\* One more firing adds one instant, of one timer.
LEMMA OneMoreFiring ==
  ASSUME NEW fs \in Seq(Firing), NEW f \in Firing
  PROVE  /\ Append(fs, f) \in Seq(Firing)
         /\ DOMAIN Append(fs, f) = 1..(Len(fs) + 1) /\ DOMAIN fs = 1..Len(fs) /\ Len(fs) \in Nat
         /\ \A i \in 1..Len(fs) : Append(fs, f)[i] = fs[i]
         /\ Append(fs, f)[Len(fs) + 1] = f
         /\ \A id : Times(Append(fs, f), id) = Times(fs, id) \union (IF id = f.id THEN {f.at} ELSE {})
  <1> DEFINE gs == Append(fs, f)
             n == Len(fs)
  <1>1. /\ gs \in Seq(Firing) /\ DOMAIN gs = 1..(n + 1) /\ DOMAIN fs = 1..n /\ n \in Nat
        /\ \A i \in 1..n : gs[i] = fs[i]
        /\ gs[n + 1] = f
    BY LenProperties
  <1> HIDE DEF gs, n
  <1>2. ASSUME NEW id PROVE Times(gs, id) = Times(fs, id) \union (IF id = f.id THEN {f.at} ELSE {})
    <2>1. ASSUME NEW t \in Times(gs, id) PROVE t \in Times(fs, id) \union (IF id = f.id THEN {f.at} ELSE {})
      <3>1. PICK i \in 1..(n + 1) : gs[i].id = id /\ gs[i].at = t
        BY <1>1 DEF Times
      <3>2. CASE i = n + 1
        BY <1>1, <3>1, <3>2
      <3>3. CASE i # n + 1
        BY <1>1, <3>1, <3>3 DEF Times
      <3> QED BY <3>2, <3>3
    <2>2. ASSUME NEW t \in Times(fs, id) PROVE t \in Times(gs, id)
      BY <1>1 DEF Times
    <2>3. ASSUME id = f.id PROVE f.at \in Times(gs, id)
      BY <1>1, <2>3 DEF Times
    <2> QED BY <2>1, <2>2, <2>3
  <1> QED BY <1>1, <1>2 DEF gs, n

\* A turn of the walk.
LEMMA TurnOnSchedule ==
  ASSUME NEW as \in Seq(Order), NEW fs \in Seq(Firing), NEW n \in Nat,
         NEW w \in Walk, NEW v \in Walk, NEW x \in Timer, Turn(w, n, x, v),
         Numbered(v.timers, Len(as)), OnSchedule(as, w.timers, fs, n),
         NEW f \in Firing, f = [id |-> x.id, at |-> x.deadline]
  PROVE  OnSchedule(as, v.timers, Append(fs, f), n)
  <1> DEFINE gs == Append(fs, f)
             a == as[x.id + 1]
             W == ToSet(w.timers)
             V == ToSet(v.timers)
  <1>1. /\ DOMAIN gs = 1..(Len(fs) + 1) /\ DOMAIN fs = 1..Len(fs) /\ Len(fs) \in Nat
        /\ \A i \in 1..Len(fs) : gs[i] = fs[i]
        /\ gs[Len(fs) + 1] = f
    BY OneMoreFiring
  <1>2. \A id : Times(gs, id) = Times(fs, id) \union (IF id = x.id THEN {x.deadline} ELSE {})
    BY OneMoreFiring
  <1> HIDE DEF gs
  <1>3. x \in W /\ x.deadline <= n
    BY DEF Turn
  <1>4. \A z \in W : z # x => z.id # x.id /\ Sooner(x, z)
    BY DEF Turn
  <1>5. V = (W \ {x}) \union (IF x.interval > 0 THEN {Again(x)} ELSE {})
    BY DEF Turn
  <1>6. /\ \A z \in W : /\ ~ as[z.id + 1].stopped /\ z.interval = as[z.id + 1].interval
                        /\ z.deadline \in Instants(as[z.id + 1])
                        /\ \A d \in Instants(as[z.id + 1]) : d < z.deadline => d <= n
                        /\ Times(fs, z.id) = {d \in Instants(as[z.id + 1]) : d < z.deadline}
    BY DEF OnSchedule, Pending
  <1>7. \A k \in DOMAIN as :
          (\A z \in W : z.id # k - 1) =>
            IF as[k].stopped THEN Times(fs, k - 1) = Schedule(as[k])
            ELSE as[k].interval = 0 /\ as[k].first <= n /\ Times(fs, k - 1) = {as[k].first}
    BY DEF OnSchedule, Gone
  <1>8. \A i \in 1..Len(fs) :
          /\ fs[i].at <= n /\ fs[i].id < Len(as)
          /\ \A z \in W : fs[i].at < z.deadline \/ (fs[i].at = z.deadline /\ fs[i].id < z.id)
    BY <1>1 DEF OnSchedule, Past
  <1>9. \A i \in 1..Len(fs) : fs[i].at \in Nat /\ fs[i].id \in Nat
    <2>1. \A i \in 1..Len(fs) : fs[i] \in Firing
      BY ElementOfSeq
    <2> QED BY <2>1 DEF Firing
  <1>10. Len(as) \in Nat /\ DOMAIN as = 1..Len(as) /\ \A k \in 1..Len(as) : as[k] \in Order
    BY LenProperties, ElementOfSeq
  <1>11. \A z \in W : z.id \in Nat /\ z.id < Len(as) /\ z.deadline \in Nat /\ z.interval \in Nat
    <2>1. w.timers \in Seq(Timer) /\ Numbered(w.timers, Len(as))
      BY DEF Walk, OnSchedule
    <2>2. \A z \in W : z \in Timer /\ z.id < Len(as)
      BY <1>10, <2>1, NumberedFacts
    <2> QED BY <2>2 DEF Timer
  <1> HIDE DEF W, V
  <1>12. Again(x).id = x.id /\ Again(x).interval = x.interval /\ Again(x).deadline = x.deadline + x.interval
    BY AgainFacts
  <1>13. x.id + 1 \in 1..Len(as) /\ a \in Order
    <2>1. x.id \in Nat /\ x.id < Len(as) /\ Len(as) \in Nat
      BY <1>3, <1>10, <1>11
    <2>2. \A i, l \in Nat : i < l => i + 1 \in 1..l
      OBVIOUS
    <2>3. x.id + 1 \in 1..Len(as)
      BY <2>1, <2>2
    <2> QED BY <1>10, <2>3 DEF a
  <1>14. /\ ~ a.stopped /\ x.interval = a.interval /\ x.deadline \in Instants(a)
         /\ Times(fs, x.id) = {d \in Instants(a) : d < x.deadline}
    BY <1>3, <1>6
  <1> HIDE DEF a
  <1>15. \A d \in Instants(a) : d \in Nat /\ d >= a.first
    BY DEF Instants
  <1>16. x.deadline \in Nat /\ x.interval \in Nat /\ x.id \in Nat /\ a.first \in Nat
    BY <1>3, <1>11, <1>13 DEF Order
  <1>17. Times(gs, x.id) = {d \in Instants(a) : d <= x.deadline}
    <2>1. Times(gs, x.id) = Times(fs, x.id) \union {x.deadline}
      BY <1>2
    <2>2. \A d \in Instants(a) : d <= x.deadline <=> (d < x.deadline \/ d = x.deadline)
      BY <1>15, <1>16
    <2> QED BY <1>14, <2>1, <2>2
  <1>18. Pending(as, v.timers, gs, n)
    <2> SUFFICES ASSUME NEW z \in V
                 PROVE  /\ ~ as[z.id + 1].stopped /\ z.interval = as[z.id + 1].interval
                        /\ z.deadline \in Instants(as[z.id + 1])
                        /\ \A d \in Instants(as[z.id + 1]) : d < z.deadline => d <= n
                        /\ Times(gs, z.id) = {d \in Instants(as[z.id + 1]) : d < z.deadline}
      BY DEF Pending, V
    <2>1. CASE z \in W /\ z # x
      <3>1. z.id # x.id
        BY <1>4, <2>1
      <3>2. Times(gs, z.id) = Times(fs, z.id)
        BY <1>2, <3>1
      <3> QED BY <1>6, <2>1, <3>2
    <2>2. CASE x.interval > 0 /\ z = Again(x)
      <3> DEFINE e == x.deadline - a.first
                 u == a.interval
      <3>1. z.id = x.id /\ z.interval = a.interval /\ z.deadline = x.deadline + u
        BY <1>12, <1>14, <2>2
      <3>2. u \in Nat \ {0} /\ u > 0
        BY <1>14, <1>16, <2>2
      <3>3. e \in Nat /\ e % u = 0
        <4>1. x.deadline >= a.first
          BY <1>14, <1>15
        <4>2. e \in Nat
          BY <1>16, <4>1
        <4>3. x.deadline = a.first \/ e % u = 0
          BY <1>14 DEF Instants
        <4>4. 0 % u = 0
          BY <3>2
        <4> QED BY <1>16, <4>2, <4>3, <4>4
      <3>4. (e + u) % u = 0 /\ \A d \in Nat : e < d /\ d < e + u => d % u # 0
        BY <3>2, <3>3, NextInPhase
      <3>5. z.deadline \in Instants(a)
        <4>1. e + u = z.deadline - a.first /\ z.deadline \in Nat /\ z.deadline >= a.first
          BY <1>14, <1>15, <1>16, <3>1, <3>2
        <4>2. (z.deadline - a.first) % a.interval = 0
          BY <3>4, <4>1
        <4> QED BY <3>2, <4>1, <4>2 DEF Instants
      <3>6. ASSUME NEW d \in Instants(a), d < z.deadline PROVE d <= x.deadline
        <4> SUFFICES ASSUME d > x.deadline PROVE FALSE
          BY <1>15, <1>16
        <4>1. d \in Nat /\ d >= a.first /\ x.deadline >= a.first /\ d # a.first
          BY <1>14, <1>15, <1>16
        <4>2. d - a.first \in Nat /\ e < d - a.first /\ d - a.first < e + u
          BY <1>16, <3>1, <3>2, <3>6, <4>1
        <4>3. (d - a.first) % a.interval # 0
          BY <3>4, <4>2
        <4> QED BY <4>1, <4>3 DEF Instants
      <3>7. \A d \in Instants(a) : d <= x.deadline => d < z.deadline
        BY <1>15, <1>16, <3>1, <3>2
      <3>8. Times(gs, z.id) = {d \in Instants(a) : d < z.deadline}
        BY <1>17, <3>1, <3>6, <3>7
      <3>9. \A d \in Instants(a) : d < z.deadline => d <= n
        BY <1>3, <1>15, <1>16, <3>6
      <3>10. as[z.id + 1] = a
        BY <3>1 DEF a
      <3> HIDE DEF u
      <3> QED BY <1>14, <3>1, <3>5, <3>8, <3>9, <3>10
    <2>3. (z \in W /\ z # x) \/ (x.interval > 0 /\ z = Again(x))
      BY <1>5
    <2> QED BY <2>1, <2>2, <2>3
  <1>19. Gone(as, v.timers, gs, n)
    <2> SUFFICES ASSUME NEW k \in 1..Len(as), \A z \in V : z.id # k - 1
                 PROVE  IF as[k].stopped THEN Times(gs, k - 1) = Schedule(as[k])
                        ELSE as[k].interval = 0 /\ as[k].first <= n /\ Times(gs, k - 1) = {as[k].first}
      BY <1>10 DEF Gone, V
    <2>1. CASE k - 1 = x.id
      <3>1. as[k] = a
        <4>1. k = x.id + 1
          BY <1>10, <1>16, <2>1
        <4> QED BY <4>1 DEF a
      <3>2. x.interval = 0
        <4> SUFFICES ASSUME x.interval > 0 PROVE FALSE
          BY <1>16
        <4>1. Again(x) \in V
          BY <1>5
        <4> QED BY <1>12, <2>1, <4>1
      <3>3. Instants(a) = {a.first}
        BY <1>13, <1>14, <3>2, ScheduleFacts
      <3>4. x.deadline = a.first
        BY <1>14, <3>3
      <3>5. Times(gs, k - 1) = {a.first}
        BY <1>16, <1>17, <2>1, <3>3, <3>4
      <3> QED BY <1>3, <1>14, <3>1, <3>2, <3>4, <3>5
    <2>2. CASE k - 1 # x.id
      <3>1. Times(gs, k - 1) = Times(fs, k - 1)
        BY <1>2, <2>2
      <3>2. \A z \in W : z.id # k - 1
        BY <1>5, <2>2
      <3> QED BY <1>7, <1>10, <3>1, <3>2
    <2> QED BY <2>1, <2>2
  <1>20. Past(as, v.timers, gs, n)
    <2>1. ASSUME NEW i \in 1..Len(fs)
          PROVE  /\ gs[i].at <= n /\ gs[i].id < Len(as)
                 /\ \A z \in V : gs[i].at < z.deadline \/ (gs[i].at = z.deadline /\ gs[i].id < z.id)
      <3>1. gs[i] = fs[i] /\ fs[i].at \in Nat /\ fs[i].at <= n /\ fs[i].id < Len(as)
        BY <1>1, <1>8, <1>9
      <3>2. \A z \in W : fs[i].at < z.deadline \/ (fs[i].at = z.deadline /\ fs[i].id < z.id)
        BY <1>8
      <3>3. x.interval > 0 => fs[i].at < Again(x).deadline
        <4>1. fs[i].at <= x.deadline
          BY <1>3, <1>16, <3>1, <3>2
        <4> QED BY <1>12, <1>16, <3>1, <4>1
      <3> QED BY <1>5, <3>1, <3>2, <3>3
    <2>2. /\ f.at <= n /\ f.id < Len(as)
          /\ \A z \in V : f.at < z.deadline \/ (f.at = z.deadline /\ f.id < z.id)
      <3>1. x.interval > 0 => f.at < Again(x).deadline
        BY <1>12, <1>16
      <3>2. \A z \in W : z # x => f.at < z.deadline \/ (f.at = z.deadline /\ f.id < z.id)
        BY <1>4 DEF Sooner
      <3>3. f.at <= n /\ f.id < Len(as)
        BY <1>3, <1>11
      <3> QED BY <1>5, <3>1, <3>2, <3>3
    <2>3. \A i \in DOMAIN gs : i \in 1..Len(fs) \/ gs[i] = f
      BY <1>1
    <2> QED BY <2>1, <2>2, <2>3 DEF Past, V
  <1>21. InOrderOf(gs)
    <2> SUFFICES ASSUME NEW i \in DOMAIN gs, NEW j \in DOMAIN gs, i < j
                 PROVE  gs[i].at < gs[j].at \/ (gs[i].at = gs[j].at /\ gs[i].id < gs[j].id)
      BY DEF InOrderOf
    <2>1. i \in 1..Len(fs) /\ gs[i] = fs[i]
      BY <1>1
    <2>2. CASE j \in 1..Len(fs)
      <3>1. gs[j] = fs[j] /\ DOMAIN fs = 1..Len(fs)
        BY <1>1, <2>2
      <3> QED BY <2>1, <2>2, <3>1 DEF OnSchedule, InOrderOf
    <2>3. CASE j = Len(fs) + 1
      <3>1. fs[i].at < x.deadline \/ (fs[i].at = x.deadline /\ fs[i].id < x.id)
        BY <1>3, <1>8, <2>1
      <3>2. gs[j] = f
        BY <1>1, <2>3
      <3> QED BY <2>1, <3>1, <3>2
    <2> QED BY <1>1, <2>2, <2>3
  <1> QED BY <1>18, <1>19, <1>20, <1>21 DEF OnSchedule, gs

\* The wheel stands where the orders, the firings and the time say.
WheelTypes ==
  /\ now \in Nat
  /\ timers \in Seq(Timer)
  /\ armed \in Seq(Order)
  /\ next_id = Len(armed)
  /\ fired \in Seq(Firing)

WheelInvariant ==
  /\ WheelTypes
  /\ OnSchedule(armed, timers, fired, now)
  /\ \A k \in DOMAIN armed : Times(fired, k - 1) = Schedule(armed[k])

\* A whole advance.
LEMMA AdvanceOnSchedule ==
  ASSUME NEW as \in Seq(Order), NEW ts \in Seq(Timer), NEW fs \in Seq(Firing), NEW n \in Nat,
         OnSchedule(as, ts, fs, n)
  PROVE  LET w == AdvanceWheel(ts, n)
         IN /\ w \in Walk /\ fs \o w.fired \in Seq(Firing)
            /\ OnSchedule(as, w.timers, fs \o w.fired, n)
            /\ \A x \in ToSet(w.timers) : x.deadline > n
  <1> DEFINE P == {w \in Walk : OnSchedule(as, w.timers, fs \o w.fired, n)}
             k == Len(as)
             w0 == [timers |-> ts, fired |-> <<>>]
  <1>1. k \in Nat
    BY LenProperties
  <1>2. P \in SUBSET Walk /\ \A w \in P : Numbered(w.timers, k)
    BY DEF OnSchedule
  <1>3. w0 \in P
    <2>1. w0 \in Walk
      BY DEF Walk
    <2>2. fs \o w0.fired = fs
      BY ConcatEmptySeq
    <2> QED BY <2>1, <2>2
  <1>4. ASSUME NEW w \in P, NEW x \in Timer, NEW v \in Walk, Turn(w, n, x, v), Numbered(v.timers, k)
        PROVE  v \in P
    <2> DEFINE f == [id |-> x.id, at |-> x.deadline]
    <2>1. f \in Firing
      BY DEF Timer, Firing
    <2>2. w \in Walk /\ w.fired \in Seq(Firing) /\ OnSchedule(as, w.timers, fs \o w.fired, n)
      BY DEF Walk
    <2>3. v.fired = Append(w.fired, f)
      BY <1>4 DEF Turn
    <2>4. fs \o w.fired \in Seq(Firing)
      BY <2>2
    <2>5. fs \o v.fired = Append(fs \o w.fired, f)
      <3> HIDE DEF P, f
      <3> QED BY <2>1, <2>2, <2>3
    <2>6. OnSchedule(as, v.timers, Append(fs \o w.fired, f), n)
      <3> HIDE DEF P
      <3> QED BY <1>4, <2>1, <2>2, <2>4, TurnOnSchedule
    <2> HIDE DEF f
    <2> QED BY <2>5, <2>6
  <1> DEFINE w == AdvanceWheel(ts, n)
  <1>5. w \in P /\ ~ Due(w.timers, n)
    <2> HIDE DEF P, k
    <2> QED BY <1>1, <1>2, <1>3, <1>4, AdvanceKeeps
  <1> HIDE DEF w
  <1>6. w \in Walk /\ w.timers \in Seq(Timer) /\ w.fired \in Seq(Firing)
        /\ OnSchedule(as, w.timers, fs \o w.fired, n)
    BY <1>5 DEF Walk
  <1>7. fs \o w.fired \in Seq(Firing)
    BY <1>6
  <1>8. ASSUME NEW x \in ToSet(w.timers) PROVE x.deadline > n
    <2>1. x \in Timer /\ \E i \in DOMAIN w.timers : w.timers[i] = x
      BY <1>6, ToSetFacts
    <2>2. ~ (x.deadline <= n)
      BY <1>5, <2>1 DEF Due
    <2> QED BY <2>1, <2>2 DEF Timer
  <1> QED BY <1>6, <1>7, <1>8 DEF w

\* Time may pass as long as nothing is due.
LEMMA LaterOnSchedule ==
  ASSUME NEW as \in Seq(Order), NEW ts, NEW fs \in Seq(Firing), NEW m \in Nat, NEW n \in Nat, m <= n,
         OnSchedule(as, ts, fs, m)
  PROVE  OnSchedule(as, ts, fs, n)
  <1>1. Pending(as, ts, fs, n)
    <2>1. Pending(as, ts, fs, m)
      BY DEF OnSchedule
    <2>2. \A a : \A d \in Instants(a) : d <= m => d <= n
      BY DEF Instants
    <2> QED BY <2>1, <2>2 DEF Pending
  <1>2. Gone(as, ts, fs, n)
    <2>1. Gone(as, ts, fs, m)
      BY DEF OnSchedule
    <2>2. \A k \in DOMAIN as : as[k].first <= m => as[k].first <= n
      <3>1. \A k \in DOMAIN as : as[k] \in Order
        BY LenProperties, ElementOfSeq
      <3>2. \A k \in DOMAIN as : as[k].first \in Nat
        BY <3>1 DEF Order
      <3>3. \A d \in Nat : d <= m => d <= n
        OBVIOUS
      <3> QED BY <3>2, <3>3
    <2> QED BY <2>1, <2>2 DEF Gone
  <1>3. Past(as, ts, fs, n)
    <2>1. Past(as, ts, fs, m)
      BY DEF OnSchedule
    <2>2. \A i \in DOMAIN fs : fs[i].at <= m => fs[i].at <= n
      <3>1. \A i \in DOMAIN fs : fs[i] \in Firing
        BY LenProperties, ElementOfSeq
      <3> QED BY <3>1 DEF Firing
    <2> QED BY <2>1, <2>2 DEF Past
  <1> QED BY <1>1, <1>2, <1>3 DEF OnSchedule

\* The three actions keep the invariant.
LEMMA AdvanceStep ==
  ASSUME WheelInvariant, NEW n \in now..MaxTime, Advance(n)
  PROVE  WheelInvariant'
  <1> DEFINE w == AdvanceWheel(timers, n)
  <1>1. /\ now' = n /\ timers' = w.timers /\ fired' = fired \o w.fired /\ next_id' = next_id
        /\ armed' = [k \in DOMAIN armed |->
                       IF armed[k].stopped THEN armed[k] ELSE [armed[k] EXCEPT !.served = n]]
    BY DEF Advance
  <1>2. /\ now \in Nat /\ n \in Nat /\ now <= n /\ timers \in Seq(Timer) /\ armed \in Seq(Order)
        /\ fired \in Seq(Firing) /\ next_id = Len(armed)
    BY TimerAssumption DEF WheelInvariant, WheelTypes
  <1>3. OnSchedule(armed, timers, fired, n)
    BY <1>2, LaterOnSchedule DEF WheelInvariant
  <1>4. /\ w \in Walk /\ fired \o w.fired \in Seq(Firing)
        /\ OnSchedule(armed, w.timers, fired \o w.fired, n)
        /\ \A x \in ToSet(w.timers) : x.deadline > n
    BY <1>2, <1>3, AdvanceOnSchedule
  <1> HIDE DEF w
  <1>5. w.timers \in Seq(Timer)
    BY <1>4 DEF Walk
  <1>6. Len(armed) \in Nat /\ DOMAIN armed = 1..Len(armed) /\ \A k \in 1..Len(armed) : armed[k] \in Order
    BY <1>2, LenProperties, ElementOfSeq
  <1>7. \A k \in 1..Len(armed) :
          /\ armed'[k] \in Order
          /\ armed'[k].first = armed[k].first /\ armed'[k].interval = armed[k].interval
          /\ armed'[k].stopped = armed[k].stopped
          /\ armed[k].stopped => armed'[k] = armed[k]
          /\ ~ armed[k].stopped => armed'[k].served = n
    <2> SUFFICES ASSUME NEW k \in 1..Len(armed)
                 PROVE  /\ armed'[k] \in Order
                        /\ armed'[k].first = armed[k].first /\ armed'[k].interval = armed[k].interval
                        /\ armed'[k].stopped = armed[k].stopped
                        /\ armed[k].stopped => armed'[k] = armed[k]
                        /\ ~ armed[k].stopped => armed'[k].served = n
      OBVIOUS
    <2>1. armed[k] \in Order /\ n \in Int
      BY <1>2, <1>6
    <2>2. armed'[k] = IF armed[k].stopped THEN armed[k] ELSE [armed[k] EXCEPT !.served = n]
      BY <1>1, <1>6
    <2>3. CASE armed[k].stopped
      BY <2>1, <2>2, <2>3
    <2>4. CASE ~ armed[k].stopped
      <3>1. armed'[k] = [armed[k] EXCEPT !.served = n]
        BY <2>2, <2>4
      <3> QED BY <2>1, <2>4, <3>1 DEF Order
    <2> QED BY <2>3, <2>4
  <1>8. armed' \in Seq(Order) /\ Len(armed') = Len(armed) /\ DOMAIN armed' = 1..Len(armed)
    <2>1. armed' \in [1..Len(armed) -> Order]
      BY <1>1, <1>6, <1>7
    <2> QED BY <1>6, <2>1
  <1>9. \A k \in 1..Len(armed) : Instants(armed'[k]) = Instants(armed[k])
    BY <1>7 DEF Instants
  <1>10. \A x \in ToSet(w.timers) : x \in Timer /\ x.id + 1 \in 1..Len(armed) /\ (x.id + 1) - 1 = x.id
    <2>1. \A x \in ToSet(w.timers) : x \in Timer /\ x.id < Len(armed)
      BY <1>4, <1>5, <1>6, NumberedFacts DEF OnSchedule
    <2> QED BY <1>6, <2>1 DEF Timer
  <1>11. OnSchedule(armed', w.timers, fired \o w.fired, n)
    <2>1. Pending(armed', w.timers, fired \o w.fired, n)
      BY <1>4, <1>7, <1>9, <1>10 DEF OnSchedule, Pending
    <2>2. Gone(armed', w.timers, fired \o w.fired, n)
      BY <1>4, <1>6, <1>7, <1>8 DEF OnSchedule, Gone
    <2>3. Past(armed', w.timers, fired \o w.fired, n)
      BY <1>4, <1>8 DEF OnSchedule, Past
    <2> QED BY <1>4, <1>8, <2>1, <2>2, <2>3 DEF OnSchedule
  <1>12. ASSUME NEW k \in 1..Len(armed) PROVE Times(fired \o w.fired, k - 1) = Schedule(armed'[k])
    <2> DEFINE a == armed'[k]
    <2>1. a \in Order
      BY <1>7
    <2>2. Schedule(a) = {d \in Instants(a) : d <= a.served} /\ (a.interval = 0 => Instants(a) = {a.first})
      BY <2>1, ScheduleFacts
    <2>3. CASE \A x \in ToSet(w.timers) : x.id # k - 1
      <3>1. IF a.stopped THEN Times(fired \o w.fired, k - 1) = Schedule(a)
            ELSE a.interval = 0 /\ a.first <= n /\ Times(fired \o w.fired, k - 1) = {a.first}
        BY <1>8, <1>11, <2>3 DEF OnSchedule, Gone
      <3>2. ~ a.stopped => a.served = n
        BY <1>7
      <3> HIDE DEF a
      <3> QED BY <2>2, <3>1, <3>2 DEF a
    <2>4. ASSUME NEW x \in ToSet(w.timers), x.id = k - 1
          PROVE  Times(fired \o w.fired, k - 1) = Schedule(a)
      <3>1. x.id + 1 = k /\ x \in Timer /\ x.deadline > n
        BY <1>4, <1>6, <1>10, <2>4
      <3>2. /\ ~ a.stopped
            /\ \A d \in Instants(a) : d < x.deadline => d <= n
            /\ Times(fired \o w.fired, k - 1) = {d \in Instants(a) : d < x.deadline}
        BY <1>11, <2>4, <3>1 DEF OnSchedule, Pending
      <3>3. a.served = n
        BY <1>7, <3>2
      <3>4. \A d \in Instants(a) : d <= n => d < x.deadline
        BY <1>2, <3>1 DEF Instants, Timer
      <3> HIDE DEF a
      <3> QED BY <2>2, <3>2, <3>3, <3>4
    <2> QED BY <2>3, <2>4
  <1> QED BY <1>1, <1>2, <1>4, <1>5, <1>8, <1>11, <1>12 DEF WheelInvariant, WheelTypes

\* osSetTimer keeps the schedule: the new timer has fired nothing and lies ahead
\* of all that has.
LEMMA SetTimerStep ==
  ASSUME WheelInvariant, NEW c \in Nat, NEW i \in Nat, SetTimer(c, i)
  PROVE  WheelInvariant'
  <1> DEFINE x == [id |-> next_id, deadline |-> now + c, interval |-> i]
             a == [first |-> now + c, interval |-> i, served |-> -1, stopped |-> FALSE]
             m == Len(armed)
  <1>1. /\ timers' = Append(timers, x) /\ next_id' = next_id + 1 /\ armed' = Append(armed, a)
        /\ now' = now /\ fired' = fired
    BY DEF SetTimer, Arm
  <1>2. /\ now \in Nat /\ timers \in Seq(Timer)
        /\ armed \in Seq(Order) /\ next_id = m /\ fired \in Seq(Firing)
    BY DEF WheelInvariant, WheelTypes
  <1>3. m \in Nat /\ DOMAIN armed = 1..m /\ \A k \in 1..m : armed[k] \in Order
    BY <1>2, LenProperties, ElementOfSeq
  <1>4. x \in Timer /\ x.id = m /\ a \in Order
    BY <1>2, <1>3 DEF Timer, Order
  <1>5. x.deadline = a.first /\ x.interval = a.interval /\ ~ a.stopped /\ a.served = -1 /\ x.deadline >= now
    BY <1>2
  <1> HIDE DEF x, a
  <1>6. /\ armed' \in Seq(Order) /\ Len(armed') = m + 1 /\ DOMAIN armed' = 1..(m + 1)
        /\ \A k \in 1..m : armed'[k] = armed[k]
        /\ armed'[m + 1] = a
    BY <1>1, <1>2, <1>3, <1>4
  <1>7. Numbered(timers, m) /\ Pending(armed, timers, fired, now) /\ Gone(armed, timers, fired, now)
          /\ Past(armed, timers, fired, now) /\ InOrderOf(fired)
    BY DEF WheelInvariant, OnSchedule
  <1> HIDE DEF m
  <1>8. timers' \in Seq(Timer) /\ Numbered(timers', m + 1) /\ ToSet(timers') = ToSet(timers) \union {x}
    BY <1>1, <1>2, <1>3, <1>4, <1>7, ArmFacts
  <1>9. \A y \in ToSet(timers) : y \in Timer /\ y.id < m /\ y.id \in Nat
    <2>1. \A y \in ToSet(timers) : y \in Timer /\ y.id < m
      BY <1>2, <1>3, <1>7, NumberedFacts
    <2> QED BY <2>1 DEF Timer
  <1>10. \A j \in DOMAIN fired : fired[j].id \in Nat /\ fired[j].id < m /\ fired[j].at \in Nat /\ fired[j].at <= now
    <2>1. \A j \in DOMAIN fired : fired[j] \in Firing
      BY <1>2, LenProperties, ElementOfSeq
    <2> QED BY <1>7, <2>1 DEF Past, Firing, m
  <1>11. Times(fired, m) = {}
    BY <1>3, <1>10 DEF Times
  <1>12. \A d \in Instants(a) : d \in Nat /\ d >= a.first /\ a.first \in Nat
    BY <1>4 DEF Instants, Order
  <1>13. Pending(armed', timers', fired, now)
    <2> SUFFICES ASSUME NEW y \in ToSet(timers')
                 PROVE  /\ ~ armed'[y.id + 1].stopped /\ y.interval = armed'[y.id + 1].interval
                        /\ y.deadline \in Instants(armed'[y.id + 1])
                        /\ \A d \in Instants(armed'[y.id + 1]) : d < y.deadline => d <= now
                        /\ Times(fired, y.id) = {d \in Instants(armed'[y.id + 1]) : d < y.deadline}
      BY DEF Pending
    <2>1. CASE y \in ToSet(timers)
      <3>1. armed'[y.id + 1] = armed[y.id + 1]
        BY <1>3, <1>6, <1>9, <2>1
      <3> QED BY <1>7, <2>1, <3>1 DEF Pending
    <2>2. CASE y = x
      <3>1. armed'[y.id + 1] = a
        BY <1>4, <1>6, <2>2 DEF m
      <3>2. a.first \in Instants(a)
        BY <1>4, ScheduleFacts
      <3>3. \A d \in Instants(a) : ~(d < a.first)
        BY <1>12
      <3>4. Times(fired, y.id) = {}
        BY <1>4, <1>11, <2>2 DEF m
      <3> QED BY <1>5, <2>2, <3>1, <3>2, <3>3, <3>4
    <2> QED BY <1>8, <2>1, <2>2
  <1>14. Gone(armed', timers', fired, now)
    <2> SUFFICES ASSUME NEW k \in 1..(m + 1), \A y \in ToSet(timers') : y.id # k - 1
                 PROVE  IF armed'[k].stopped THEN Times(fired, k - 1) = Schedule(armed'[k])
                        ELSE armed'[k].interval = 0 /\ armed'[k].first <= now /\ Times(fired, k - 1) = {armed'[k].first}
      BY <1>6 DEF Gone
    <2>1. k # m + 1
      BY <1>3, <1>4, <1>8 DEF m
    <2>2. k \in 1..m /\ armed'[k] = armed[k]
      BY <1>3, <1>6, <2>1
    <2> QED BY <1>3, <1>7, <1>8, <2>2 DEF Gone
  <1>15. Past(armed', timers', fired, now)
    <2> SUFFICES ASSUME NEW j \in DOMAIN fired
                 PROVE  /\ fired[j].at <= now /\ fired[j].id < Len(armed')
                        /\ \A y \in ToSet(timers') : fired[j].at < y.deadline \/ (fired[j].at = y.deadline /\ fired[j].id < y.id)
      BY DEF Past
    <2>1. fired[j].at < x.deadline \/ (fired[j].at = x.deadline /\ fired[j].id < x.id)
      <3>1. x.id = m /\ x.deadline \in Nat
        BY <1>4 DEF Timer, m
      <3> QED BY <1>2, <1>5, <1>10, <3>1
    <2>2. \A y \in ToSet(timers) : fired[j].at < y.deadline \/ (fired[j].at = y.deadline /\ fired[j].id < y.id)
      BY <1>7 DEF Past
    <2>3. fired[j].id < m + 1
      BY <1>3, <1>10
    <2> QED BY <1>6, <1>8, <1>10, <2>1, <2>2, <2>3
  <1>16. ASSUME NEW k \in 1..(m + 1) PROVE Times(fired, k - 1) = Schedule(armed'[k])
    <2>1. CASE k \in 1..m
      BY <1>3, <1>6, <2>1 DEF WheelInvariant
    <2>2. CASE k = m + 1
      <3>1. Schedule(a) = {d \in Instants(a) : d <= a.served}
        BY <1>4, ScheduleFacts
      <3>2. \A d \in Instants(a) : ~(d <= a.served)
        BY <1>5, <1>12
      <3>3. k - 1 = m /\ armed'[k] = a
        BY <1>3, <1>6, <2>2
      <3> QED BY <1>11, <3>1, <3>2, <3>3
    <2> QED BY <1>3, <2>1, <2>2
  <1>17. OnSchedule(armed', timers', fired', now')
    BY <1>1, <1>6, <1>7, <1>8, <1>13, <1>14, <1>15 DEF OnSchedule
  <1>18. next_id' = Len(armed')
    BY <1>1, <1>2, <1>6 DEF m
  <1> QED BY <1>1, <1>2, <1>6, <1>8, <1>16, <1>17, <1>18 DEF WheelInvariant, WheelTypes

\* StopIn takes out one timer.
LEMMA StopInFacts ==
  ASSUME NEW k \in Nat, NEW ts \in Seq(Timer), Numbered(ts, k), NEW id
  PROVE  /\ StopIn(ts, id) \in Seq(Timer)
         /\ Numbered(StopIn(ts, id), k)
         /\ ToSet(StopIn(ts, id)) = {x \in ToSet(ts) : x.id # id}
  <1>1. DOMAIN ts = 1..Len(ts) /\ Len(ts) \in Nat /\ \A y : y \in ToSet(ts) <=> \E j \in 1..Len(ts) : ts[j] = y
    BY ToSetFacts
  <1>2. NoRepeats(ts) /\ \A x, y \in ToSet(ts) : x.id = y.id => x = y
    BY NumberedFacts
  <1>3. CASE \E j \in DOMAIN ts : ts[j].id = id
    <2> DEFINE i == CHOOSE j \in DOMAIN ts : ts[j].id = id
               r == RemoveAt(ts, i)
    <2>1. i \in 1..Len(ts) /\ ts[i].id = id
      BY <1>1, <1>3
    <2> HIDE DEF i
    <2>2. StopIn(ts, id) = r
      BY <1>3 DEF StopIn, i
    <2>3. /\ r \in Seq(Timer) /\ Len(r) = Len(ts) - 1
          /\ \A j \in 1..(Len(ts) - 1) : r[j] = IF j < i THEN ts[j] ELSE ts[j + 1]
      BY <2>1, RemoveAtFacts
    <2>4. ToSet(r) = ToSet(ts) \ {ts[i]}
      BY <1>2, <2>1, RemoveAtElems
    <2> HIDE DEF r
    <2>5. ToSet(r) = {x \in ToSet(ts) : x.id # id}
      BY <1>1, <1>2, <2>1, <2>4
    <2>6. Numbered(r, k)
      <3> DEFINE old(j) == IF j < i THEN j ELSE j + 1
      <3>1. DOMAIN r = 1..(Len(ts) - 1)
        BY <1>1, <2>3, LenProperties
      <3>2. \A j \in 1..(Len(ts) - 1) : old(j) \in 1..Len(ts) /\ r[j] = ts[old(j)]
        BY <1>1, <2>1, <2>3
      <3>3. \A j, l \in 1..(Len(ts) - 1) : j < l => old(j) < old(l)
        BY <1>1, <2>1
      <3> HIDE DEF old
      <3>4. ASSUME NEW j \in 1..(Len(ts) - 1), NEW l \in 1..(Len(ts) - 1), j < l
            PROVE  r[j].id < r[l].id
        <4>1. old(j) \in DOMAIN ts /\ old(l) \in DOMAIN ts /\ old(j) < old(l)
          BY <1>1, <3>2, <3>3, <3>4
        <4> QED BY <3>2, <4>1 DEF Numbered
      <3>5. ASSUME NEW j \in 1..(Len(ts) - 1) PROVE r[j].id < k
        BY <1>1, <3>2 DEF Numbered
      <3> QED BY <3>1, <3>4, <3>5 DEF Numbered
    <2> QED BY <2>2, <2>3, <2>5, <2>6
  <1>4. CASE ~ \E j \in DOMAIN ts : ts[j].id = id
    <2>1. StopIn(ts, id) = ts
      BY <1>4 DEF StopIn
    <2>2. \A x \in ToSet(ts) : x.id # id
      BY <1>1, <1>4
    <2> QED BY <2>1, <2>2
  <1> QED BY <1>3, <1>4

\* osStopTimer keeps the schedule: the history is frozen at the last advance.
LEMMA StopTimerStep ==
  ASSUME WheelInvariant, NEW id \in 0..(next_id - 1), StopTimer(id)
  PROVE  WheelInvariant'
  <1> DEFINE m == Len(armed)
  <1>1. /\ timers' = StopIn(timers, id) /\ armed' = [armed EXCEPT ![id + 1].stopped = TRUE]
        /\ now' = now /\ next_id' = next_id /\ fired' = fired
    BY DEF StopTimer
  <1>2. /\ now \in Nat /\ timers \in Seq(Timer)
        /\ armed \in Seq(Order) /\ next_id = m /\ fired \in Seq(Firing)
    BY DEF WheelInvariant, WheelTypes
  <1>3. m \in Nat /\ DOMAIN armed = 1..m /\ \A k \in 1..m : armed[k] \in Order
    BY <1>2, LenProperties, ElementOfSeq
  <1>4. Numbered(timers, m) /\ Pending(armed, timers, fired, now) /\ Gone(armed, timers, fired, now)
          /\ Past(armed, timers, fired, now) /\ InOrderOf(fired)
    BY DEF WheelInvariant, OnSchedule
  <1>5. \A k \in 1..m : Times(fired, k - 1) = Schedule(armed[k])
    BY <1>3 DEF WheelInvariant
  <1> HIDE DEF m
  <1>6. id + 1 \in 1..m /\ id \in Nat
    BY <1>2, <1>3
  <1> DEFINE b == [armed[id + 1] EXCEPT !.stopped = TRUE]
  <1>7. /\ b \in Order /\ b.stopped
        /\ b.first = armed[id + 1].first
        /\ b.interval = armed[id + 1].interval /\ b.served = armed[id + 1].served
    <2>1. armed[id + 1] \in Order
      BY <1>3, <1>6
    <2> QED BY <2>1 DEF Order
  <1>8. armed' = [armed EXCEPT ![id + 1] = b]
    BY <1>1, <1>3, <1>6
  <1> HIDE DEF b
  <1>9. /\ armed' \in Seq(Order) /\ Len(armed') = m
        /\ \A k \in 1..m : armed'[k] = IF k = id + 1 THEN b ELSE armed[k]
    BY <1>2, <1>6, <1>7, <1>8, ExceptSeq DEF m
  <1>10. DOMAIN armed' = 1..m
    BY <1>9, LenProperties
  <1>11. \A k \in 1..m : Instants(armed'[k]) = Instants(armed[k]) /\ Schedule(armed'[k]) = Schedule(armed[k])
    BY <1>7, <1>9 DEF Instants, Schedule
  <1>12. /\ timers' \in Seq(Timer) /\ Numbered(timers', m)
         /\ ToSet(timers') = {x \in ToSet(timers) : x.id # id}
    BY <1>1, <1>2, <1>3, <1>4, StopInFacts
  <1>13. \A x \in ToSet(timers) : x.id \in Nat /\ x.id < m
    <2>1. \A x \in ToSet(timers) : x \in Timer /\ x.id < m
      BY <1>2, <1>3, <1>4, NumberedFacts
    <2> QED BY <2>1 DEF Timer
  <1>14. Pending(armed', timers', fired, now)
    <2> SUFFICES ASSUME NEW y \in ToSet(timers')
                 PROVE  /\ ~ armed'[y.id + 1].stopped /\ y.interval = armed'[y.id + 1].interval
                        /\ y.deadline \in Instants(armed'[y.id + 1])
                        /\ \A d \in Instants(armed'[y.id + 1]) : d < y.deadline => d <= now
                        /\ Times(fired, y.id) = {d \in Instants(armed'[y.id + 1]) : d < y.deadline}
      BY DEF Pending
    <2>1. y \in ToSet(timers) /\ y.id + 1 \in 1..m /\ y.id + 1 # id + 1
      BY <1>3, <1>6, <1>12, <1>13
    <2>2. armed'[y.id + 1] = armed[y.id + 1]
      BY <1>9, <2>1
    <2> QED BY <1>4, <2>1, <2>2 DEF Pending
  <1>15. Gone(armed', timers', fired, now)
    <2> SUFFICES ASSUME NEW k \in 1..m, \A y \in ToSet(timers') : y.id # k - 1
                 PROVE  IF armed'[k].stopped THEN Times(fired, k - 1) = Schedule(armed'[k])
                        ELSE armed'[k].interval = 0 /\ armed'[k].first <= now /\ Times(fired, k - 1) = {armed'[k].first}
      BY <1>10 DEF Gone
    <2>1. CASE k = id + 1
      BY <1>5, <1>7, <1>9, <1>11, <2>1
    <2>2. CASE k # id + 1
      <3>1. armed'[k] = armed[k] /\ \A y \in ToSet(timers) : y.id # k - 1
        BY <1>3, <1>6, <1>9, <1>12, <2>2
      <3> QED BY <1>3, <1>4, <3>1 DEF Gone
    <2> QED BY <2>1, <2>2
  <1>16. Past(armed', timers', fired, now)
    <2>1. Len(armed') = Len(armed)
      BY <1>9 DEF m
    <2> QED BY <1>4, <1>12, <2>1 DEF Past
  <1>17. OnSchedule(armed', timers', fired', now')
    BY <1>1, <1>4, <1>9, <1>12, <1>14, <1>15, <1>16 DEF OnSchedule
  <1>18. \A k \in 1..m : Times(fired', k - 1) = Schedule(armed'[k])
    BY <1>1, <1>5, <1>11
  <1> QED BY <1>1, <1>2, <1>9, <1>10, <1>12, <1>17, <1>18 DEF WheelInvariant, WheelTypes

\* However time is cut into advances, every timer fires exactly at its first
\* deadline and then once per interval until it is stopped, in deadline order.
THEOREM TimersOnSchedule == WheelSpec => []FiredOnSchedule
  <1>1. WheelInit => WheelInvariant
    <2> SUFFICES ASSUME WheelInit PROVE WheelInvariant
      OBVIOUS
    <2>1. now = 0 /\ timers = <<>> /\ next_id = 0 /\ armed = <<>> /\ fired = <<>>
      BY DEF WheelInit
    <2>2. ToSet(timers) = {} /\ DOMAIN timers = {} /\ DOMAIN armed = {} /\ DOMAIN fired = {}
      BY <2>1 DEF ToSet
    <2> QED BY <2>1, <2>2 DEF WheelInvariant, WheelTypes, OnSchedule, Numbered, Pending, Gone, Past, InOrderOf
  <1>2. WheelInvariant /\ [WheelNext]_wheelVars => WheelInvariant'
    <2> SUFFICES ASSUME WheelInvariant, [WheelNext]_wheelVars PROVE WheelInvariant'
      OBVIOUS
    <2>1. ASSUME NEW c \in Countdown, NEW i \in Interval, SetTimer(c, i) PROVE WheelInvariant'
      <3>1. c \in Nat /\ i \in Nat
        BY TimerAssumption
      <3> QED BY <2>1, <3>1, SetTimerStep
    <2>2. ASSUME NEW id \in 0..(next_id - 1), StopTimer(id) PROVE WheelInvariant'
      BY <2>2, StopTimerStep
    <2>3. ASSUME NEW n \in now..MaxTime, Advance(n) PROVE WheelInvariant'
      BY <2>3, AdvanceStep
    <2>4. CASE UNCHANGED wheelVars
      <3>1. now' = now /\ timers' = timers /\ next_id' = next_id /\ armed' = armed /\ fired' = fired
        BY <2>4 DEF wheelVars
      <3> QED BY <3>1 DEF WheelInvariant, WheelTypes, Schedule
    <2> QED BY <2>1, <2>2, <2>3, <2>4 DEF WheelNext
  <1>3. WheelInvariant => FiredOnSchedule
    <2> SUFFICES ASSUME WheelInvariant PROVE FiredOnSchedule
      OBVIOUS
    <2>1. FiredInOrder
      BY DEF WheelInvariant, OnSchedule, InOrderOf, FiredInOrder
    <2>2. \A k \in DOMAIN armed :
            {fired[i].at : i \in {j \in DOMAIN fired : fired[j].id = k - 1}} = Schedule(armed[k])
      BY DEF WheelInvariant, Times
    <2> QED BY <2>1, <2>2 DEF FiredOnSchedule
  <1> QED BY <1>1, <1>2, <1>3, PTL DEF WheelSpec

=============================================================================
