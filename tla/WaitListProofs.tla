--------------------------- MODULE WaitListProofs ---------------------------
(***************************************************************************)
(* What the list operators of WaitList return, preserve and bound, for     *)
(* lists of every length.                                                  *)
(***************************************************************************)
EXTENDS WaitList, SequenceTheorems, WellFoundedInduction, TLAPS

\* InsertAt yields a sequence one longer, with x at i and the rest in order.
LEMMA InsertAtFacts ==
  ASSUME NEW S, NEW s \in Seq(S), NEW i \in 1..(Len(s) + 1), NEW x \in S
  PROVE  /\ InsertAt(s, i, x) \in Seq(S)
         /\ Len(InsertAt(s, i, x)) = Len(s) + 1
         /\ \A j \in 1..(Len(s) + 1) : InsertAt(s, i, x)[j] =
              IF j < i THEN s[j] ELSE IF j = i THEN x ELSE s[j - 1]
  <1> DEFINE a == SubSeq(s, 1, i - 1)
             b == SubSeq(s, i, Len(s))
             c == a \o <<x>>
  <1>0. Len(s) \in Nat /\ i \in Nat
    BY LenProperties
  <1>1. a \in Seq(S) /\ Len(a) = i - 1 /\ \A j \in 1..(i - 1) : a[j] = s[j]
    BY SubSeqProperties
  <1>2. b \in Seq(S) /\ Len(b) = Len(s) - i + 1 
                     /\ \A j \in 1..(Len(s) - i + 1) : b[j] = s[i + j - 1]
    BY SubSeqProperties
  <1>3. <<x>> \in Seq(S) /\ Len(<<x>>) = 1 /\ <<x>>[1] = x
    OBVIOUS
  <1> HIDE DEF a, b
  <1>4. /\ c \in Seq(S) /\ Len(c) = i
        /\ \A j \in 1..i : c[j] = IF j < i THEN s[j] ELSE x
    BY <1>1, <1>3, ConcatProperties
  <1> HIDE DEF c
  <1>5. /\ c \o b \in Seq(S)
        /\ Len(c \o b) = Len(s) + 1
        /\ \A j \in 1..(Len(s) + 1) :
              (c \o b)[j] = IF j <= i THEN c[j] ELSE b[j - i]
    <2>1. Len(c) + Len(b) = Len(s) + 1
      BY <1>2, <1>4
    <2> QED BY <2>1, <1>2, <1>4, ConcatProperties
  <1>6. ASSUME NEW j \in 1..(Len(s) + 1)
        PROVE (c \o b)[j] = IF j < i THEN s[j] ELSE IF j = i THEN x ELSE s[j - 1]
    <2>1. CASE j <= i
      BY <2>1, <1>4, <1>5
    <2>2. CASE j > i
      <3>1. j - i \in 1..(Len(s) - i + 1) /\ i + (j - i) - 1 = j - 1
        BY <2>2
      <3> QED BY <3>1, <2>2, <1>2, <1>5
    <2>3. j <= i \/ j > i
      BY <1>0
    <2> QED BY <2>1, <2>2, <2>3
  <1> QED BY <1>5, <1>6 DEF InsertAt, a, b, c

\* RemoveAt yields a sequence one shorter, without position i.
LEMMA RemoveAtFacts ==
  ASSUME NEW S, NEW s \in Seq(S), NEW i \in 1..Len(s)
  PROVE  /\ RemoveAt(s, i) \in Seq(S)
         /\ Len(RemoveAt(s, i)) = Len(s) - 1
         /\ \A j \in 1..(Len(s) - 1) : RemoveAt(s, i)[j] =
              IF j < i THEN s[j] ELSE s[j + 1]
  <1> DEFINE a == SubSeq(s, 1, i - 1)
             b == SubSeq(s, i + 1, Len(s))
  <1>0. Len(s) \in Nat /\ i \in Nat
    BY LenProperties
  <1>1. a \in Seq(S) /\ Len(a) = i - 1 /\ \A j \in 1..(i - 1) : a[j] = s[j]
    BY SubSeqProperties
  <1>2. b \in Seq(S) /\ Len(b) = Len(s) - i
                     /\ \A j \in 1..(Len(s) - i) : b[j] = s[i + j]
    BY SubSeqProperties
  <1> HIDE DEF a, b
  <1>3. /\ a \o b \in Seq(S)
        /\ Len(a \o b) = Len(s) - 1
        /\ \A j \in 1..(Len(s) - 1) :
              (a \o b)[j] = IF j <= i - 1 THEN a[j] ELSE b[j - (i - 1)]
    <2>1. Len(a) + Len(b) = Len(s) - 1
      BY <1>0, <1>1, <1>2
    <2>2. /\ a \o b \in Seq(S)
          /\ Len(a \o b) = Len(a) + Len(b)
          /\ \A j \in 1..(Len(a) + Len(b)) :
               (a \o b)[j] = IF j <= Len(a) THEN a[j] ELSE b[j - Len(a)]
      BY <1>1, <1>2, ConcatProperties
    <2> QED BY <2>1, <2>2, <1>1
  <1>4. ASSUME NEW j \in 1..(Len(s) - 1)
        PROVE (a \o b)[j] = IF j < i THEN s[j] ELSE s[j + 1]
    <2>1. CASE j < i
      BY <2>1, <1>1, <1>3
    <2>2. CASE j >= i
      <3>1. j - (i - 1) \in 1..(Len(s) - i) /\ i + (j - (i - 1)) = j + 1
        BY <2>2
      <3> QED BY <3>1, <2>2, <1>2, <1>3
    <2>3. j < i \/ j >= i
      BY <1>0
    <2> QED BY <2>1, <2>2, <2>3
  <1> QED BY <1>3, <1>4 DEF RemoveAt, a, b

\* A nonempty set of naturals has a least element.
LEMMA LeastElement ==
  ASSUME NEW T \in SUBSET Nat, T # {}
  PROVE  \E m \in T : \A k \in T : m <= k
  <1>1. PICK m \in T : \A k \in T : ~(<<k, m>> \in OpToRel(<, Nat))
    BY NatLessThanWellFounded, WFMin
  <1>2. ASSUME NEW k \in T
        PROVE m <= k
    <2>1. ~(k < m)
      BY <1>1 DEF OpToRel
    <2> QED BY <2>1
  <1> QED BY <1>2

\* FirstIn is in range, and everything before it misses Hit.
LEMMA FirstInFacts ==
  ASSUME NEW S, NEW ks \in Seq(S), NEW Hit \in SUBSET (1..Len(ks))
  PROVE  /\ FirstIn(ks, Hit) \in 1..(Len(ks) + 1)
         /\ FirstIn(ks, Hit) \in Hit \/ FirstIn(ks, Hit) = Len(ks) + 1
         /\ \A j \in 1..Len(ks) : j < FirstIn(ks, Hit) => j \notin Hit
  <1>1. CASE Hit = {}
    BY <1>1 DEF FirstIn
  <1>2. CASE Hit # {}
    <2>1. \E m \in Hit : \A k \in Hit : m <= k
      BY <1>2, LeastElement
    <2> DEFINE f == CHOOSE i \in Hit : \A j \in Hit : i <= j
    <2>2. f \in Hit /\ \A k \in Hit : f <= k
      BY <2>1
    <2>3. FirstIn(ks, Hit) = f
      BY <1>2 DEF FirstIn
    <2> HIDE DEF f
    <2> QED BY <2>2, <2>3
  <1> QED BY <1>1, <1>2

\* The elements of a sequence, by position.
LEMMA ToSetFacts ==
  ASSUME NEW S, NEW s \in Seq(S)
  PROVE  /\ DOMAIN s = 1..Len(s)
         /\ Len(s) \in Nat
         /\ ToSet(s) \subseteq S
         /\ \A y : y \in ToSet(s) <=> \E j \in 1..Len(s) : s[j] = y
  <1>1. DOMAIN s = 1..Len(s) /\ Len(s) \in Nat /\ \A j \in 1..Len(s) : s[j] \in S
    BY LenProperties, ElementOfSeq
  <1> QED BY <1>1 DEF ToSet

\* Inserting x adds x and nothing else, wherever it goes.
LEMMA InsertAtElems ==
  ASSUME NEW S, NEW s \in Seq(S), NEW i \in 1..(Len(s) + 1), NEW x \in S
  PROVE  /\ ToSet(InsertAt(s, i, x)) = ToSet(s) \union {x}
         /\ NoRepeats(s) /\ x \notin ToSet(s) => NoRepeats(InsertAt(s, i, x))
  <1>0. /\ InsertAt(s, i, x) \in Seq(S)
        /\ Len(InsertAt(s, i, x)) = Len(s) + 1
        /\ \A j \in 1..(Len(s) + 1) : InsertAt(s, i, x)[j] =
              IF j < i THEN s[j] ELSE IF j = i THEN x ELSE s[j - 1]
    BY InsertAtFacts
  <1> DEFINE r == InsertAt(s, i, x)
             n == Len(s)
  <1>1. /\ r \in Seq(S) /\ Len(r) = n + 1 /\ n \in Nat /\ i \in 1..(n + 1)
        /\ DOMAIN r = 1..(n + 1) /\ DOMAIN s = 1..n
        /\ \A j \in 1..(n + 1) :
             r[j] = IF j < i THEN s[j] ELSE IF j = i THEN x ELSE s[j - 1]
    <2>1. /\ r \in Seq(S) /\ Len(r) = n + 1
          /\ \A j \in 1..(n + 1) :
               r[j] = IF j < i THEN s[j] ELSE IF j = i THEN x ELSE s[j - 1]
      BY <1>0
    <2>2. n \in Nat /\ DOMAIN s = 1..n
      BY ToSetFacts
    <2>3. DOMAIN r = 1..Len(r)
      BY <2>1, ToSetFacts
    <2> QED BY <2>1, <2>2, <2>3
  <1>2. /\ \A y : y \in ToSet(s) <=> \E j \in 1..n : s[j] = y
        /\ \A y : y \in ToSet(r) <=> \E j \in 1..(n + 1) : r[j] = y
    <2>1. \A y : y \in ToSet(s) <=> \E j \in 1..n : s[j] = y
      BY ToSetFacts
    <2>2. \A y : y \in ToSet(r) <=> \E j \in 1..Len(r) : r[j] = y
      BY <1>1, ToSetFacts
    <2> QED BY <2>1, <2>2, <1>1
  <1> HIDE DEF r, n
  <1>3. ASSUME NEW y \in ToSet(s) PROVE y \in ToSet(r)
    <2>1. PICK j \in 1..n : s[j] = y
      BY <1>2
    <2>2. CASE j < i
      BY <2>1, <2>2, <1>1, <1>2
    <2>3. CASE j >= i
      <3>1. j + 1 \in 1..(n + 1) /\ ~(j + 1 < i) /\ j + 1 # i /\ (j + 1) - 1 = j
        BY <2>3, <1>1
      <3>2. r[j + 1] = s[j]
        BY <3>1, <1>1
      <3> QED BY <3>1, <3>2, <2>1, <1>2
    <2>4. j < i \/ j >= i
      BY <1>1
    <2> QED BY <2>2, <2>3, <2>4
  <1>4. x \in ToSet(r)
    BY <1>1, <1>2
  <1>5. ASSUME NEW y \in ToSet(r) PROVE y \in ToSet(s) \/ y = x
    <2>1. PICK j \in 1..(n + 1) : r[j] = y
      BY <1>2
    <2>2. CASE j < i
      BY <2>1, <2>2, <1>1, <1>2
    <2>3. CASE j = i
      BY <2>1, <2>3, <1>1
    <2>4. CASE j > i
      <3>1. j - 1 \in 1..n /\ r[j] = s[j - 1]
        BY <2>4, <1>1
      <3> QED BY <3>1, <2>1, <1>2
    <2> QED BY <2>2, <2>3, <2>4, <1>1
  <1>6. ASSUME NoRepeats(s), x \notin ToSet(s) PROVE NoRepeats(r)
    <2>1. \A j \in 1..n : s[j] # x
      BY <1>6, <1>2
    <2>2. \A j, k \in 1..n : s[j] = s[k] => j = k
      BY <1>6, <1>1 DEF NoRepeats
    <2>3. ASSUME NEW j \in 1..(n + 1), NEW k \in 1..(n + 1), r[j] = r[k]
          PROVE  j = k
      <3> DEFINE old(m) == IF m < i THEN m ELSE m - 1
      <3>1. \A m \in 1..(n + 1) : m # i => old(m) \in 1..n /\ r[m] = s[old(m)]
        BY <1>1
      <3>2. CASE j = i /\ k # i
        BY <3>1, <3>2, <2>3, <2>1, <1>1
      <3>3. CASE j # i /\ k = i
        BY <3>1, <3>3, <2>3, <2>1, <1>1
      <3>4. CASE j # i /\ k # i
        <4>1. old(j) = old(k)
          <5>1. /\ old(j) \in 1..n /\ old(k) \in 1..n
                /\ s[old(j)] = s[old(k)]
            BY <3>1, <3>4, <2>3
          <5> HIDE DEF old
          <5> QED BY <5>1, <2>2
        <4> QED BY <4>1, <3>4, <1>1
      <3> QED BY <3>2, <3>3, <3>4
    <2> QED BY <2>3, <1>1 DEF NoRepeats
  <1> QED BY <1>3, <1>4, <1>5, <1>6 DEF r

\* Removing position i of a list without repeats removes exactly that element.
LEMMA RemoveAtElems ==
  ASSUME NEW S, NEW s \in Seq(S), NEW i \in 1..Len(s), NoRepeats(s)
  PROVE  /\ ToSet(RemoveAt(s, i)) = ToSet(s) \ {s[i]}
         /\ NoRepeats(RemoveAt(s, i))
  <1> DEFINE r == RemoveAt(s, i)
             n == Len(s)
             old(m) == IF m < i THEN m ELSE m + 1
  <1>1. /\ r \in Seq(S) /\ Len(r) = n - 1 /\ n \in Nat /\ i \in 1..n
        /\ DOMAIN r = 1..(n - 1) /\ DOMAIN s = 1..n
    BY RemoveAtFacts, ToSetFacts
  <1>2. \A j \in 1..(n - 1) : r[j] = s[old(j)]
    BY RemoveAtFacts
  <1>3. /\ \A y : y \in ToSet(s) <=> \E j \in 1..n : s[j] = y
        /\ \A y : y \in ToSet(r) <=> \E j \in 1..(n - 1) : r[j] = y
    <2>1. \A y : y \in ToSet(s) <=> \E j \in 1..n : s[j] = y
      BY ToSetFacts
    <2>2. \A y : y \in ToSet(r) <=> \E j \in 1..Len(r) : r[j] = y
      BY <1>1, ToSetFacts
    <2> QED BY <2>1, <2>2, <1>1
  <1>4. \A j, k \in 1..n : s[j] = s[k] => j = k
    BY <1>1 DEF NoRepeats
  <1> HIDE DEF r, n
  <1>5. \A m \in 1..(n - 1) : old(m) \in 1..n /\ old(m) # i
    BY <1>1
  <1>6. \A m \in 1..n : m # i => \E k \in 1..(n - 1) : old(k) = m
    <2>1. ASSUME NEW m \in 1..n, m < i PROVE \E k \in 1..(n - 1) : old(k) = m
      BY <2>1, <1>1
    <2>2. ASSUME NEW m \in 1..n, m > i PROVE \E k \in 1..(n - 1) : old(k) = m
      <3>1. m - 1 \in 1..(n - 1) /\ old(m - 1) = m
        BY <2>2, <1>1
      <3> QED BY <3>1
    <2>3. \A m \in 1..n : m # i => m < i \/ m > i
      BY <1>1
    <2> QED BY <2>1, <2>2, <2>3
  <1>7. \A j, k \in 1..(n - 1) : old(j) = old(k) => j = k
    BY <1>1
  <1> HIDE DEF old
  <1>8. \A y : y \in ToSet(r) <=> y \in ToSet(s) /\ y # s[i]
    <2>1. ASSUME NEW y \in ToSet(r) PROVE y \in ToSet(s) /\ y # s[i]
      <3>1. PICK j \in 1..(n - 1) : r[j] = y
        BY <1>3
      <3>2. old(j) \in 1..n /\ old(j) # i /\ s[old(j)] = y
        BY <3>1, <1>2, <1>5
      <3> QED BY <3>2, <1>1, <1>3, <1>4
    <2>2. ASSUME NEW y \in ToSet(s), y # s[i] PROVE y \in ToSet(r)
      <3>1. PICK m \in 1..n : s[m] = y
        BY <1>3
      <3>2. PICK k \in 1..(n - 1) : old(k) = m
        BY <3>1, <2>2, <1>6
      <3> QED BY <3>1, <3>2, <1>2, <1>3
    <2> QED BY <2>1, <2>2
  <1>9. NoRepeats(r)
    BY <1>1, <1>2, <1>4, <1>5, <1>7 DEF NoRepeats
  <1> QED BY <1>8, <1>9 DEF r

\* Without removes x and keeps everything else, still without repeats.
LEMMA WithoutFacts ==
  ASSUME NEW S, NEW s \in Seq(S), NEW x, NoRepeats(s)
  PROVE  /\ Without(s, x) \in Seq(S)
         /\ ToSet(Without(s, x)) = ToSet(s) \ {x}
         /\ NoRepeats(Without(s, x))
  <1>1. DOMAIN s = 1..Len(s) /\ \A y : y \in ToSet(s) <=> \E j \in 1..Len(s) : s[j] = y
    BY ToSetFacts
  <1>2. CASE x \in ToSet(s)
    <2> DEFINE k == CHOOSE i \in DOMAIN s : s[i] = x
    <2>1. k \in 1..Len(s) /\ s[k] = x
      BY <1>1, <1>2
    <2>2. Without(s, x) = RemoveAt(s, k)
      BY <2>1, <1>1 DEF Without
    <2> HIDE DEF k
    <2> QED BY <2>1, <2>2, RemoveAtFacts, RemoveAtElems
  <1>3. CASE x \notin ToSet(s)
    <2>1. Without(s, x) = s
      BY <1>1, <1>3 DEF Without
    <2> QED BY <2>1, <1>3
  <1> QED BY <1>2, <1>3

\* Placing a newcomer by priority adds it and nothing else.
LEMMA PriorityInsertFacts ==
  ASSUME NEW S, NEW s \in Seq(S), NEW K, NEW ks \in Seq(K), Len(ks) = Len(s),
         NEW x \in S, NEW p
  PROVE  /\ PriorityInsert(s, ks, x, p) \in Seq(S)
         /\ ToSet(PriorityInsert(s, ks, x, p)) = ToSet(s) \union {x}
         /\ NoRepeats(s) /\ x \notin ToSet(s) => NoRepeats(PriorityInsert(s, ks, x, p))
  <1>1. InsertIndex(ks, p) \in 1..(Len(s) + 1)
    <2>1. DOMAIN ks = 1..Len(ks)
      BY LenProperties
    <2>2. {i \in DOMAIN ks : ks[i] < p} \in SUBSET (1..Len(ks))
      BY <2>1
    <2> QED BY <2>2, FirstInFacts DEF InsertIndex
  <1> QED BY <1>1, InsertAtFacts, InsertAtElems DEF PriorityInsert

\* Without keeps the type, repeats or not.
LEMMA WithoutType ==
  ASSUME NEW S, NEW s \in Seq(S), NEW x
  PROVE  Without(s, x) \in Seq(S)
  <1>1. DOMAIN s = 1..Len(s)
    BY LenProperties
  <1>2. CASE \E i \in DOMAIN s : s[i] = x
    <2> DEFINE k == CHOOSE i \in DOMAIN s : s[i] = x
    <2>1. k \in 1..Len(s)
      BY <1>1, <1>2
    <2>2. Without(s, x) = RemoveAt(s, k)
      BY <1>2 DEF Without
    <2> HIDE DEF k
    <2> QED BY <2>1, <2>2, RemoveAtFacts
  <1>3. CASE ~ \E i \in DOMAIN s : s[i] = x
    BY <1>3 DEF Without
  <1> QED BY <1>2, <1>3

\* Taking the head off a list.
LEMMA TailFacts ==
  ASSUME NEW S, NEW s \in Seq(S), s # <<>>
  PROVE  /\ Head(s) \in S /\ Head(s) \in ToSet(s)
         /\ Tail(s) \in Seq(S)
         /\ Len(s) > 0 /\ Len(Tail(s)) = Len(s) - 1
         /\ ToSet(s) = ToSet(Tail(s)) \union {Head(s)}
         /\ NoRepeats(s) => NoRepeats(Tail(s)) /\ Head(s) \notin ToSet(Tail(s))
  <1> DEFINE r == Tail(s)
             n == Len(s)
  <1>1. /\ Head(s) = s[1] /\ r \in Seq(S)
        /\ Len(r) = n - 1 /\ n \in Nat \ {0}
        /\ \A i \in 1..(n - 1) : r[i] = s[i + 1]
    BY HeadTailProperties, EmptySeq, LenProperties
  <1>2. DOMAIN s = 1..n /\ DOMAIN r = 1..(n - 1)
    BY <1>1, LenProperties
  <1>3. /\ \A y : y \in ToSet(s) <=> \E j \in 1..n : s[j] = y
        /\ \A y : y \in ToSet(r) <=> \E j \in 1..(n - 1) : r[j] = y
    <2>1. \A y : y \in ToSet(s) <=> \E j \in 1..n : s[j] = y
      BY ToSetFacts
    <2>2. \A y : y \in ToSet(r) <=> \E j \in 1..Len(r) : r[j] = y
      <3>1. r \in Seq(S)
        BY <1>1
      <3> HIDE DEF r
      <3> QED BY <3>1, ToSetFacts
    <2> QED BY <2>1, <2>2, <1>1
  <1>4. s[1] \in S
    BY <1>1, ElementOfSeq
  <1> HIDE DEF r, n
  <1>5. s[1] \in ToSet(s)
    BY <1>1, <1>3
  <1>6. ASSUME NEW y PROVE y \in ToSet(s) <=> y \in ToSet(r) \/ y = s[1]
    <2>1. ASSUME y \in ToSet(s), y # s[1] PROVE y \in ToSet(r)
      <3>1. PICK j \in 1..n : s[j] = y
        BY <2>1, <1>3
      <3>2. j - 1 \in 1..(n - 1) /\ (j - 1) + 1 = j
        BY <3>1, <2>1, <1>1
      <3>3. r[j - 1] = y
        BY <3>1, <3>2, <1>1
      <3> QED BY <3>2, <3>3, <1>3
    <2>2. ASSUME y \in ToSet(r) PROVE y \in ToSet(s)
      <3>1. PICK j \in 1..(n - 1) : r[j] = y
        BY <2>2, <1>3
      <3>2. j + 1 \in 1..n /\ s[j + 1] = y
        BY <3>1, <1>1
      <3> QED BY <3>2, <1>3
    <2> QED BY <2>1, <2>2, <1>5
  <1>7. ASSUME NoRepeats(s) PROVE NoRepeats(r) /\ s[1] \notin ToSet(r)
    <2>1. \A i, j \in 1..n : s[i] = s[j] => i = j
      BY <1>7, <1>2 DEF NoRepeats
    <2>2. ASSUME NEW i \in 1..(n - 1), NEW j \in 1..(n - 1), r[i] = r[j] PROVE i = j
      <3>1. i + 1 \in 1..n /\ j + 1 \in 1..n /\ s[i + 1] = s[j + 1]
        BY <2>2, <1>1
      <3>2. i + 1 = j + 1
        BY <3>1, <2>1
      <3> QED BY <3>2
    <2>3. ASSUME NEW j \in 1..(n - 1), r[j] = s[1] PROVE FALSE
      <3>1. j + 1 \in 1..n /\ 1 \in 1..n /\ s[j + 1] = s[1] /\ j + 1 # 1
        BY <2>3, <1>1
      <3> QED BY <3>1, <2>1
    <2> QED BY <2>2, <2>3, <1>2, <1>3 DEF NoRepeats
  <1> QED BY <1>1, <1>4, <1>5, <1>6, <1>7 DEF r, n

\* No thread is listed twice exactly when no entry is and entries are told
\* apart by their threads.
LEMMA DistinctWaiters ==
  ASSUME NEW S, NEW ws \in Seq(S)
  PROVE  NoRepeats(WaiterIds(ws)) <=>
           NoRepeats(ws) /\ \A v, w \in ToSet(ws) : v.id = w.id => v = w
  <1>1. /\ DOMAIN ws = 1..Len(ws)
        /\ \A y : y \in ToSet(ws) <=> \E j \in 1..Len(ws) : ws[j] = y
    BY ToSetFacts
  <1>2. DOMAIN WaiterIds(ws) = 1..Len(ws) /\ \A i \in 1..Len(ws) : WaiterIds(ws)[i] = ws[i].id
    BY <1>1 DEF WaiterIds
  <1>3. NoRepeats(WaiterIds(ws)) <=> \A i, j \in 1..Len(ws) : ws[i].id = ws[j].id => i = j
    BY <1>2 DEF NoRepeats
  <1>4. NoRepeats(ws) <=> \A i, j \in 1..Len(ws) : ws[i] = ws[j] => i = j
    BY <1>1 DEF NoRepeats
  <1> QED BY <1>1, <1>3, <1>4

\* Parking adds the waiter and nothing else.
LEMMA ParkFacts ==
  ASSUME NEW S, NEW ws \in Seq(S), NEW w \in S
  PROVE  /\ Park(ws, w) \in Seq(S)
         /\ ToSet(Park(ws, w)) = ToSet(ws) \union {w}
         /\ NoRepeats(WaiterIds(ws)) /\ (\A v \in ToSet(ws) : v.id # w.id)
              => NoRepeats(WaiterIds(Park(ws, w)))
  <1> DEFINE K == {ws[i].pri : i \in DOMAIN ws}
             r == Park(ws, w)
  <1>1. DOMAIN ws = 1..Len(ws) /\ Len(ws) \in Nat
    BY LenProperties
  <1>2. Priorities(ws) \in Seq(K) /\ Len(Priorities(ws)) = Len(ws)
    BY <1>1 DEF Priorities
  <1>3. /\ r \in Seq(S)
        /\ ToSet(r) = ToSet(ws) \union {w}
        /\ NoRepeats(ws) /\ w \notin ToSet(ws) => NoRepeats(r)
    BY <1>2, PriorityInsertFacts DEF Park
  <1> HIDE DEF r
  <1>4. ASSUME NoRepeats(WaiterIds(ws)), \A v \in ToSet(ws) : v.id # w.id
        PROVE  NoRepeats(WaiterIds(r))
    <2>1. NoRepeats(ws) /\ \A u, v \in ToSet(ws) : u.id = v.id => u = v
      BY <1>4, DistinctWaiters
    <2>2. NoRepeats(r) /\ \A u, v \in ToSet(r) : u.id = v.id => u = v
      BY <2>1, <1>3, <1>4
    <2> QED BY <2>2, <1>3, DistinctWaiters
  <1> QED BY <1>3, <1>4 DEF r

\* Unparking removes the thread's entry and nothing else.
LEMMA UnparkFacts ==
  ASSUME NEW S, NEW ws \in Seq(S), NEW t
  PROVE  /\ Unpark(ws, t) \in Seq(S)
         /\ ws = <<>> => Unpark(ws, t) = <<>>
         /\ NoRepeats(WaiterIds(ws)) =>
              /\ ToSet(Unpark(ws, t)) = {w \in ToSet(ws) : w.id # t}
              /\ NoRepeats(WaiterIds(Unpark(ws, t)))
  <1>1. /\ DOMAIN ws = 1..Len(ws) /\ Len(ws) \in Nat
        /\ \A y : y \in ToSet(ws) <=> \E j \in 1..Len(ws) : ws[j] = y
    BY ToSetFacts
  <1>2. CASE \E i \in DOMAIN ws : ws[i].id = t
    <2> DEFINE k == CHOOSE i \in DOMAIN ws : ws[i].id = t
               r == RemoveAt(ws, k)
    <2>1. k \in 1..Len(ws) /\ ws[k].id = t
      BY <1>1, <1>2
    <2>2. Unpark(ws, t) = r
      BY <1>2 DEF Unpark
    <2> HIDE DEF k
    <2>3. r \in Seq(S)
      BY <2>1, RemoveAtFacts
    <2>4. ws # <<>>
      BY <2>1
    <2>5. ASSUME NoRepeats(WaiterIds(ws))
          PROVE  ToSet(r) = {w \in ToSet(ws) : w.id # t} /\ NoRepeats(WaiterIds(r))
      <3>1. NoRepeats(ws) /\ \A u, v \in ToSet(ws) : u.id = v.id => u = v
        BY <2>5, DistinctWaiters
      <3>2. ToSet(r) = ToSet(ws) \ {ws[k]} /\ NoRepeats(r)
        BY <3>1, <2>1, RemoveAtElems
      <3>3. ws[k] \in ToSet(ws)
        BY <2>1, <1>1
      <3>4. ToSet(r) = {w \in ToSet(ws) : w.id # t}
        BY <3>1, <3>2, <3>3, <2>1
      <3>5. \A u, v \in ToSet(r) : u.id = v.id => u = v
        BY <3>1, <3>4
      <3> HIDE DEF r
      <3> QED BY <3>2, <3>4, <3>5, <2>3, DistinctWaiters
    <2> QED BY <2>2, <2>3, <2>4, <2>5
  <1>3. CASE ~ \E i \in DOMAIN ws : ws[i].id = t
    <2>1. Unpark(ws, t) = ws
      BY <1>3 DEF Unpark
    <2>2. \A w \in ToSet(ws) : w.id # t
      BY <1>1, <1>3
    <2> QED BY <2>1, <2>2
  <1> QED BY <1>2, <1>3

\* A priority change moves one element and keeps them all.
LEMMA RepositionFacts ==
  ASSUME NEW S, NEW s \in Seq(S), NEW ks \in Seq(Int), Len(ks) = Len(s),
         NEW x, NEW old \in Int, NEW new \in Int
  PROVE  /\ Reposition(s, ks, x, old, new) \in Seq(S)
         /\ NoRepeats(s) => /\ ToSet(Reposition(s, ks, x, old, new)) = ToSet(s)
                            /\ NoRepeats(Reposition(s, ks, x, old, new))
  <1> DEFINE k    == CHOOSE i \in DOMAIN s : s[i] = x
             rest == RemoveAt(s, k)
             rks  == RemoveAt(ks, k)
             up   == InsertIndex(rks, new)
             down == FirstIn(rks, {i \in DOMAIN rks : rks[i] <= new})
             r    == Reposition(s, ks, x, old, new)
  <1>1. DOMAIN s = 1..Len(s) /\ Len(s) \in Nat
    BY LenProperties
  <1>2. CASE ~(\E i \in DOMAIN s : s[i] = x) \/ new = old
    <2>1. r = s
      BY <1>2 DEF Reposition
    <2> QED BY <2>1
  <1>3. CASE (\E i \in DOMAIN s : s[i] = x) /\ new # old
    <2>1. k \in 1..Len(s) /\ s[k] = x /\ x \in S
      BY <1>1, <1>3, ElementOfSeq
    <2>2. r = InsertAt(rest, up, x) \/ r = InsertAt(rest, down, x)
      <3>1. CASE new > old
        BY <1>3, <3>1 DEF Reposition, PriorityInsert
      <3>2. CASE new < old
        BY <1>3, <3>2 DEF Reposition
      <3> QED BY <3>1, <3>2, <1>3
    <2> HIDE DEF k, r
    <2>3. rest \in Seq(S) /\ Len(rest) = Len(s) - 1
      BY <2>1, RemoveAtFacts
    <2>4. rks \in Seq(Int) /\ Len(rks) = Len(s) - 1
      BY <2>1, RemoveAtFacts
    <2> HIDE DEF rest, rks
    <2>5. up \in 1..(Len(rest) + 1) /\ down \in 1..(Len(rest) + 1)
      <3>1. DOMAIN rks = 1..Len(rks)
        BY <2>4, LenProperties
      <3>2. /\ {i \in DOMAIN rks : rks[i] < new} \in SUBSET (1..Len(rks))
            /\ {i \in DOMAIN rks : rks[i] <= new} \in SUBSET (1..Len(rks))
        BY <3>1
      <3> QED BY <3>2, <2>3, <2>4, FirstInFacts DEF InsertIndex
    <2> HIDE DEF up, down
    <2>6. r \in Seq(S)
      BY <2>1, <2>2, <2>3, <2>5, InsertAtFacts
    <2>7. ASSUME NoRepeats(s) PROVE ToSet(r) = ToSet(s) /\ NoRepeats(r)
      <3>1. ToSet(rest) = ToSet(s) \ {x} /\ NoRepeats(rest)
        BY <2>7, <2>1, RemoveAtElems DEF rest
      <3> DEFINE put(i) == InsertAt(rest, i, x)
      <3>2. ASSUME NEW i \in 1..(Len(rest) + 1)
            PROVE  ToSet(put(i)) = ToSet(rest) \union {x} /\ NoRepeats(put(i))
        <4>1. x \notin ToSet(rest)
          BY <3>1
        <4>2. /\ ToSet(put(i)) = ToSet(rest) \union {x}
              /\ NoRepeats(rest) /\ x \notin ToSet(rest) => NoRepeats(put(i))
          BY <2>1, <2>3, InsertAtElems
        <4> QED BY <4>1, <4>2, <3>1
      <3>3. r = put(up) \/ r = put(down)
        BY <2>2
      <3> HIDE DEF put
      <3>4. x \in ToSet(s)
        BY <1>1, <2>1, ToSetFacts
      <3> QED BY <3>1, <3>2, <3>3, <3>4, <2>5
    <2> QED BY <2>6, <2>7 DEF r
  <1> QED BY <1>2, <1>3

\* The threads on a waiter list.
Ids(ws) == {w.id : w \in ToSet(ws)}

\* How parking, unparking and serving the first waiter change them.
LEMMA ParkIds ==
  ASSUME NEW S, NEW ws \in Seq(S), NEW w \in S, NoRepeats(WaiterIds(ws)), w.id \notin Ids(ws)
  PROVE  Ids(Park(ws, w)) = Ids(ws) \union {w.id} /\ NoRepeats(WaiterIds(Park(ws, w)))
  <1>1. ToSet(Park(ws, w)) = ToSet(ws) \union {w}
    BY ParkFacts
  <1>2. \A v \in ToSet(ws) : v.id # w.id
    BY DEF Ids
  <1>3. NoRepeats(WaiterIds(Park(ws, w)))
    BY <1>2, ParkFacts
  <1> QED BY <1>1, <1>3 DEF Ids

\* Unparking takes the thread out of the set.
LEMMA UnparkIds ==
  ASSUME NEW S, NEW ws \in Seq(S), NEW t, NoRepeats(WaiterIds(ws))
  PROVE  Ids(Unpark(ws, t)) = Ids(ws) \ {t} /\ NoRepeats(WaiterIds(Unpark(ws, t)))
  <1>1. ToSet(Unpark(ws, t)) = {w \in ToSet(ws) : w.id # t} /\ NoRepeats(WaiterIds(Unpark(ws, t)))
    BY UnparkFacts
  <1> QED BY <1>1 DEF Ids

\* Serving the first waiter takes it out of the set.
LEMMA TailIds ==
  ASSUME NEW S, NEW ws \in Seq(S), ws # <<>>, NoRepeats(WaiterIds(ws))
  PROVE  /\ Head(ws).id \in Ids(ws)
         /\ Ids(Tail(ws)) = Ids(ws) \ {Head(ws).id}
         /\ NoRepeats(WaiterIds(Tail(ws)))
  <1>1. NoRepeats(ws) /\ \A v, w \in ToSet(ws) : v.id = w.id => v = w
    BY DistinctWaiters
  <1>2. /\ Head(ws) \in ToSet(ws) /\ Tail(ws) \in Seq(S)
        /\ ToSet(ws) = ToSet(Tail(ws)) \union {Head(ws)}
        /\ NoRepeats(Tail(ws)) /\ Head(ws) \notin ToSet(Tail(ws))
    BY <1>1, TailFacts
  <1>3. NoRepeats(WaiterIds(Tail(ws)))
    <2> DEFINE r == Tail(ws)
    <2>1. r \in Seq(S) /\ NoRepeats(r) /\ \A v, w \in ToSet(r) : v.id = w.id => v = w
      BY <1>1, <1>2
    <2> HIDE DEF r
    <2>2. NoRepeats(WaiterIds(r))
      BY <2>1, DistinctWaiters
    <2> QED BY <2>2 DEF r
  <1>4. ToSet(Tail(ws)) = {w \in ToSet(ws) : w.id # Head(ws).id}
    BY <1>1, <1>2
  <1> QED BY <1>2, <1>3, <1>4 DEF Ids

\* One more element, at either end.
LEMMA OneMoreElems ==
  ASSUME NEW S, NEW q \in Seq(S), NEW m \in S
  PROVE  /\ ToSet(Append(q, m)) = ToSet(q) \union {m} /\ ToSet(<<m>> \o q) = ToSet(q) \union {m}
         /\ NoRepeats(q) /\ m \notin ToSet(q) => NoRepeats(Append(q, m)) /\ NoRepeats(<<m>> \o q)
  <1>1. /\ Len(q) \in Nat /\ DOMAIN q = 1..Len(q)
        /\ \A y : y \in ToSet(q) <=> \E j \in 1..Len(q) : q[j] = y
    BY ToSetFacts
  <1>2. /\ Append(q, m) \in Seq(S) /\ Len(Append(q, m)) = Len(q) + 1
        /\ \A i \in 1..(Len(q) + 1) : Append(q, m)[i] = IF i = Len(q) + 1 THEN m ELSE q[i]
    OBVIOUS
  <1>3. <<m>> \in Seq(S) /\ Len(<<m>>) = 1 /\ <<m>>[1] = m
    OBVIOUS
  <1>4. /\ <<m>> \o q \in Seq(S) /\ Len(<<m>> \o q) = Len(q) + 1
        /\ \A i \in 1..(Len(q) + 1) : (<<m>> \o q)[i] = IF i = 1 THEN m ELSE q[i - 1]
    <2>1. /\ <<m>> \o q \in Seq(S) /\ Len(<<m>> \o q) = 1 + Len(q)
          /\ \A i \in 1..(1 + Len(q)) : (<<m>> \o q)[i] = IF i <= 1 THEN <<m>>[i] ELSE q[i - 1]
      BY <1>3, ConcatProperties
    <2> QED
      BY <1>1, <1>3, <2>1
  <1>5. ASSUME NEW s \in Seq(S), Len(s) = Len(q) + 1,
               NEW k \in 1..(Len(q) + 1), s[k] = m,
               \A i \in 1..(Len(q) + 1) : i # k => \E j \in 1..Len(q) : s[i] = q[j],
               \A j \in 1..Len(q) : \E i \in 1..(Len(q) + 1) : s[i] = q[j]
        PROVE  ToSet(s) = ToSet(q) \union {m}
    <2>1. \A y : y \in ToSet(s) <=> \E i \in 1..(Len(q) + 1) : s[i] = y
      BY <1>5, ToSetFacts
    <2> QED
      BY <1>1, <1>5, <2>1
  <1>6. ToSet(Append(q, m)) = ToSet(q) \union {m}
    <2>1. \A j \in 1..Len(q) : j \in 1..(Len(q) + 1) /\ Append(q, m)[j] = q[j]
      BY <1>1, <1>2
    <2>2. \A i \in 1..(Len(q) + 1) : i # Len(q) + 1 => i \in 1..Len(q) /\ Append(q, m)[i] = q[i]
      BY <1>1, <1>2
    <2>3. Len(q) + 1 \in 1..(Len(q) + 1) /\ Append(q, m)[Len(q) + 1] = m
      BY <1>1, <1>2
    <2> QED
      BY <1>2, <1>5, <2>1, <2>2, <2>3
  <1>7. ToSet(<<m>> \o q) = ToSet(q) \union {m}
    <2>1. \A j \in 1..Len(q) : j + 1 \in 1..(Len(q) + 1) /\ (<<m>> \o q)[j + 1] = q[j]
      BY <1>1, <1>4
    <2>2. \A i \in 1..(Len(q) + 1) : i # 1 => i - 1 \in 1..Len(q) /\ (<<m>> \o q)[i] = q[i - 1]
      BY <1>1, <1>4
    <2>3. 1 \in 1..(Len(q) + 1) /\ (<<m>> \o q)[1] = m
      BY <1>1, <1>4
    <2> QED
      BY <1>4, <1>5, <2>1, <2>2, <2>3
  <1>8. ASSUME NoRepeats(q), m \notin ToSet(q) PROVE NoRepeats(Append(q, m)) /\ NoRepeats(<<m>> \o q)
    <2>1. NoRepeats(Append(q, m))
      <3>1. DOMAIN Append(q, m) = 1..(Len(q) + 1)
        BY <1>2, LenProperties
      <3> QED
        BY <1>1, <1>2, <1>8, <3>1 DEF NoRepeats
    <2>2. NoRepeats(<<m>> \o q)
      <3>1. DOMAIN (<<m>> \o q) = 1..(Len(q) + 1)
        BY <1>4, LenProperties
      <3>2. \A i \in 1..(Len(q) + 1) : i # 1 => i - 1 \in 1..Len(q) /\ (<<m>> \o q)[i] = q[i - 1]
        BY <1>1, <1>4
      <3>3. (<<m>> \o q)[1] = m
        BY <1>1, <1>4
      <3> QED
        BY <1>1, <1>8, <3>1, <3>2, <3>3 DEF NoRepeats
    <2> QED
      BY <2>1, <2>2
  <1> QED
    BY <1>6, <1>7, <1>8

=============================================================================
