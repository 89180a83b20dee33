-------------------------- MODULE ConformanceProofs --------------------------
(***************************************************************************)
(* That _mark_overlaps finds every overlap, for every number of sessions.  *)
(***************************************************************************)
EXTENDS SessionHooksProofs

-----------------------------------------------------------------------------
(* Sessions with two ends *)

\* Both ends of a bounded session are records, with a time, and no two
\* sessions share one.
LEMMA BoundedOnRecord ==
    ASSUME TypeOK, NEW r, NEW s \in Bounded(r)
    PROVE  /\ StartedAt(s) \in 0..CLOCK
           /\ EndedAt(s) \in 0..CLOCK
           /\ Ended(s) \in 1..Len(journal)
           /\ journal[Ended(s)].session = s
<1> DEFINE A == At(journal, End, s, {"session_open"})
           Z == At(journal, End, s, ENDS)
<1>1. journal \in Seq(Entries) /\ Len(journal) \in Nat
  BY DEF TypeOK
<1>2. A \in SUBSET (Nat \ {0}) /\ Z \in SUBSET (Nat \ {0})
  BY <1>1 DEF At
<1>3. Opened(s) = First(A) /\ Ended(s) = Last1(Z) /\ Opened(s) > 0 /\ Ended(s) > 0
  BY DEF Bounded, Opened, Ended, OpenAt, EndAt
<1>4. Opened(s) \in A
  <2> HIDE DEF A
  <2> QED BY <1>2, <1>3, FirstIsLeast
<1>5. Ended(s) \in Z
  <2>1. \A i \in Z : i <= Len(journal)
    BY <1>1 DEF At
  <2> HIDE DEF Z
  <2>2. Z = {} => Last1(Z) = 0
    BY DEF Last1
  <2>3. Z # {} => Last1(Z) \in Z
    BY <1>1, <1>2, <2>1, LastIsGreatest
  <2>4. QED
    BY <1>3, <2>2, <2>3
<1>6. /\ Opened(s) \in 1..Len(journal) /\ Ended(s) \in 1..Len(journal)
      /\ journal[Ended(s)].session = s
  BY <1>1, <1>4, <1>5 DEF At
<1>7. \A i \in 1..Len(journal) : journal[i].ts \in 0..CLOCK
  <2>1. \A i \in 1..Len(journal) : journal[i] \in Entries
    BY <1>1
  <2>2. \A e \in Entries : e.ts \in 0..CLOCK
    BY DEF Entries
  <2>3. QED
    BY <2>1, <2>2
<1>8. QED
  BY <1>6, <1>7 DEF StartedAt, EndedAt

LEMMA BoundedFinite ==
    ASSUME TypeOK, NEW r
    PROVE  IsFiniteSet(Bounded(r)) /\ Cardinality(Bounded(r)) \in Nat
<1> DEFINE B == Bounded(r)
           T == 1..Len(journal)
           f == [s \in B |-> Ended(s)]
<1>1. f \in Injection(B, T)
  <2>1. f \in [B -> T]
    BY BoundedOnRecord
  <2>2. ASSUME NEW s \in B, NEW t \in B, f[s] = f[t] PROVE s = t
    BY <2>2, BoundedOnRecord
  <2> HIDE DEF f, B, T
  <2>3. QED
    BY <2>1, <2>2 DEF Injection, IsInjective
<1>2. IsFiniteSet(T)
  <2>1. Len(journal) \in Nat
    BY DEF TypeOK
  <2>2. QED
    BY <2>1, FS_Interval
<1>3. QED
  BY <1>1, <1>2, FS_Injection, FS_CardinalityType

-----------------------------------------------------------------------------
(* Sorting *)

\* A sequence of distinct members that is as long as the set has them all.
LEMMA SeqsExhaust ==
    ASSUME NEW S, IsFiniteSet(S), Cardinality(S) \in Nat, NEW q \in SetToSeqs(S)
    PROVE  /\ q \in [1..Cardinality(S) -> S]
           /\ \A i, j \in 1..Cardinality(S) : i # j => q[i] # q[j]
           /\ \A s \in S : \E i \in 1..Cardinality(S) : q[i] = s
<1> DEFINE D == 1..Cardinality(S)
<1>1. q \in [D -> S] /\ \A i, j \in D : i # j => q[i] # q[j]
  BY DEF SetToSeqs
<1>2. q \in Injection(D, S)
  <2> HIDE DEF D
  <2> QED BY <1>1 DEF Injection, IsInjective
<1>3. IsFiniteSet(D) /\ Cardinality(D) = Cardinality(S)
  BY FS_Interval
<1>4. q \in Surjection(D, S)
  BY <1>2, <1>3, FS_Injection
<1>5. QED
  BY <1>1, <1>4 DEF Surjection

\* What is known of a sorted sequence of the sessions of a repository.
LEMMA SortedSeq ==
    ASSUME TypeOK, NEW r, NEW q \in Orders(Bounded(r))
    PROVE  \E n \in Nat :
             /\ DOMAIN q = 1..n
             /\ \A i \in 1..n : /\ q[i] \in Bounded(r)
                                /\ StartedAt(q[i]) \in Nat
                                /\ EndedAt(q[i]) \in 0..CLOCK
             /\ \A i, j \in 1..n : i # j => q[i] # q[j]
             /\ \A i, j \in 1..n : i < j => StartedAt(q[i]) <= StartedAt(q[j])
             /\ \A s \in Bounded(r) : \E i \in 1..n : q[i] = s
<1> DEFINE B == Bounded(r)
           n == Cardinality(B)
<1>1. IsFiniteSet(B) /\ n \in Nat
  BY BoundedFinite
<1>2. q \in SetToSeqs(B)
  BY DEF Orders
<1>3. /\ q \in [1..n -> B]
      /\ \A i, j \in 1..n : i # j => q[i] # q[j]
      /\ \A s \in B : \E i \in 1..n : q[i] = s
  <2> HIDE DEF B
  <2> QED BY <1>1, <1>2, SeqsExhaust
<1>4. \A i \in 1..n : q[i] \in B
  BY <1>3
<1>5. \A i \in 1..n : StartedAt(q[i]) \in 0..CLOCK /\ EndedAt(q[i]) \in 0..CLOCK
  BY <1>4, BoundedOnRecord
<1>6. DOMAIN q = 1..n
  BY <1>3
<1>7. \A i, j \in 1..n : i < j => StartedAt(q[i]) <= StartedAt(q[j])
  <2>1. \A i, j \in 1..n : i < j =>
          StartedAt(q[i]) < StartedAt(q[j]) \/ StartedAt(q[i]) = StartedAt(q[j])
    BY <1>6 DEF Orders
  <2> HIDE DEF n
  <2>2. QED
    BY <1>5, <2>1
<1>8. \A i \in 1..n : StartedAt(q[i]) \in Nat
  BY <1>5
<1>9. QED
  BY <1>1, <1>3, <1>4, <1>5, <1>6, <1>7, <1>8

-----------------------------------------------------------------------------
(* Bisection *)

\* What counts upward from a sorted list is an initial segment of it.
LEMMA InitialSegment ==
    ASSUME NEW n \in Nat, NEW C \in SUBSET (1..n),
           \A j \in C : \A i \in 1..n : i < j => i \in C
    PROVE  C = 1..Cardinality(C)
<1>1. CASE C = {}
  <2>1. Cardinality(C) = 0
    BY <1>1, FS_EmptySet
  <2>2. QED
    BY <1>1, <2>1
<1>2. CASE C # {}
  <2>1. PICK m \in C : \A j \in C : j <= m
    <3>1. C \in SUBSET Nat /\ \A j \in C : j <= n
      OBVIOUS
    <3>2. QED
      BY <1>2, <3>1, GreatestExists
  <2>2. C = 1..m
    <3>1. ASSUME NEW i \in C PROVE i \in 1..m
      BY <2>1
    <3>2. ASSUME NEW i \in 1..m PROVE i \in C
      <4>1. i \in 1..n /\ (i = m \/ i < m)
        OBVIOUS
      <4>2. QED
        BY <2>1, <4>1
    <3>3. QED
      BY <3>1, <3>2
  <2>3. m \in Nat /\ m >= 1
    OBVIOUS
  <2>4. Cardinality(1..m) = m
    BY <2>3, FS_Interval
  <2>5. QED
    BY <2>2, <2>4
<1>3. QED
  BY <1>1, <1>2

\* bisect_right: the prefix holds exactly those that start in time.
LEMMA PrefixStartsInTime ==
    ASSUME TypeOK, NEW r, NEW q \in Orders(Bounded(r)), NEW i \in DOMAIN q
    PROVE  Prefix(q, i) = {j \in DOMAIN q : StartedAt(q[j]) <= EndedAt(q[i])}
<1> DEFINE C == {j \in DOMAIN q : StartedAt(q[j]) <= EndedAt(q[i])}
<1>1. PICK n \in Nat :
        /\ DOMAIN q = 1..n
        /\ \A j \in 1..n : StartedAt(q[j]) \in Nat /\ EndedAt(q[j]) \in 0..CLOCK
        /\ \A j, k \in 1..n : j < k => StartedAt(q[j]) <= StartedAt(q[k])
  BY SortedSeq
<1>2. EndedAt(q[i]) \in Int
  BY <1>1
<1>3. ASSUME NEW k \in C, NEW j \in 1..n, j < k PROVE j \in C
  <2>1. k \in 1..n /\ StartedAt(q[k]) <= EndedAt(q[i])
    BY <1>1
  <2>2. StartedAt(q[j]) <= StartedAt(q[k]) /\ StartedAt(q[j]) \in Nat /\ StartedAt(q[k]) \in Nat
    BY <1>1, <1>3, <2>1
  <2>3. StartedAt(q[j]) <= EndedAt(q[i])
    BY <1>2, <2>1, <2>2
  <2>4. QED
    BY <1>1, <2>3
<1>4. C \in SUBSET (1..n)
  BY <1>1
<1>5. C = 1..Cardinality(C)
  <2> HIDE DEF C
  <2> QED BY <1>3, <1>4, InitialSegment
<1>6. QED
  BY <1>5 DEF Prefix

-----------------------------------------------------------------------------
(* The furthest of a prefix *)

LEMMA FurthestReaches ==
    ASSUME TypeOK, NEW r, NEW q \in Orders(Bounded(r)),
           NEW S \in SUBSET (DOMAIN q), S # {}
    PROVE  Furthest(q, S) \in S /\ \A k \in S : EndedAt(q[k]) <= EndedAt(q[Furthest(q, S)])
<1>1. PICK n \in Nat :
        DOMAIN q = 1..n /\ \A j \in 1..n : EndedAt(q[j]) \in 0..CLOCK
  BY SortedSeq
<1>2. \A j \in S : j \in 1..n /\ EndedAt(q[j]) \in 0..CLOCK
  BY <1>1
<1> DEFINE E == {m \in 0..CLOCK : \E j \in S : EndedAt(q[j]) = m}
<1>3. PICK m \in E : \A e \in E : e <= m
  <2>1. CLOCK \in Nat
    BY SessionsAssumption
  <2>2. E \in SUBSET Nat /\ E # {} /\ \A e \in E : e <= CLOCK
    BY <1>2, <2>1
  <2> HIDE DEF E
  <2>3. QED
    BY <2>1, <2>2, GreatestExists
<1> DEFINE L == {j \in S : EndedAt(q[j]) = m}
<1>4. PICK f \in L : \A j \in L : j <= f
  <2>1. L \in SUBSET Nat /\ L # {} /\ \A j \in L : j <= n
    BY <1>2
  <2> HIDE DEF L
  <2>2. QED
    BY <2>1, GreatestExists
<1>5. ASSUME NEW k \in S \ {f} PROVE Reaches(q, f, k)
  <2>1. EndedAt(q[f]) = m /\ EndedAt(q[k]) <= m /\ EndedAt(q[k]) \in 0..CLOCK /\ m \in 0..CLOCK
    BY <1>2, <1>3
  <2>2. CASE EndedAt(q[k]) = m
    <3>1. k <= f /\ k # f /\ k \in Nat /\ f \in Nat
      BY <1>2, <1>4, <2>2
    <3>2. QED
      BY <2>1, <2>2, <3>1 DEF Reaches
  <2>3. CASE EndedAt(q[k]) < m
    BY <2>1, <2>3 DEF Reaches
  <2>4. QED
    BY <2>1, <2>2, <2>3
<1>6. \E j \in S : \A k \in S \ {j} : Reaches(q, j, k)
  BY <1>5
<1> DEFINE x == Furthest(q, S)
<1>7. x \in S /\ \A k \in S \ {x} : Reaches(q, x, k)
  BY <1>6 DEF Furthest
<1>8. ASSUME NEW k \in S PROVE EndedAt(q[k]) <= EndedAt(q[x])
  <2>1. EndedAt(q[k]) \in Nat /\ EndedAt(q[x]) \in Nat
    BY <1>2, <1>7
  <2> HIDE DEF x
  <2>2. CASE k = x
    BY <2>1, <2>2
  <2>3. CASE k # x
    <3>1. Reaches(q, x, k)
      BY <1>7, <2>3
    <3>2. QED
      BY <2>1, <3>1 DEF Reaches
  <2>4. QED
    BY <2>2, <2>3
<1>9. QED
  BY <1>7, <1>8

\* The one that is compared is the furthest-reaching of the others.
LEMMA ChosenIsFurthestOther ==
    ASSUME TypeOK, NEW r, NEW q \in Orders(Bounded(r)), NEW i \in DOMAIN q
    PROVE  LET P == Prefix(q, i) \ {i}
           IN  /\ P = {} => Chosen(q, i) = 0
               /\ P # {} => /\ Chosen(q, i) \in P
                            /\ \A k \in P : EndedAt(q[k]) <= EndedAt(q[Chosen(q, i)])
<1> DEFINE P == Prefix(q, i) \ {i}
           best == Furthest(q, Prefix(q, i))
<1>1. Prefix(q, i) \in SUBSET (DOMAIN q) /\ P \in SUBSET (DOMAIN q)
  BY PrefixStartsInTime
<1>2. Furthest(q, {}) = 0
  BY DEF Furthest
<1>3. i # 0
  BY SortedSeq
<1>4. CASE Prefix(q, i) = {}
  BY <1>2, <1>3, <1>4 DEF Chosen
<1>5. CASE Prefix(q, i) # {}
  <2>1. best \in Prefix(q, i) /\ \A k \in Prefix(q, i) : EndedAt(q[k]) <= EndedAt(q[best])
    BY <1>1, <1>5, FurthestReaches
  <2>2. CASE best # i
    <3>1. Chosen(q, i) = best
      BY <2>2 DEF Chosen
    <3>2. QED
      BY <2>1, <2>2, <3>1
  <2>3. CASE best = i
    <3>1. Chosen(q, i) = Furthest(q, P)
      BY <2>3 DEF Chosen
    <3>2. CASE P = {}
      BY <1>2, <3>1, <3>2
    <3>3. CASE P # {}
      <4>1. Furthest(q, P) \in P /\ \A k \in P : EndedAt(q[k]) <= EndedAt(q[Furthest(q, P)])
        <5> HIDE DEF P
        <5> QED BY <1>1, <3>3, FurthestReaches
      <4>2. QED
        BY <3>1, <3>3, <4>1
    <3>4. QED
      BY <3>2, <3>3
  <2>4. QED
    BY <2>2, <2>3
<1>6. QED
  BY <1>4, <1>5

-----------------------------------------------------------------------------
(* One comparison decides *)

LEMMA MarkedIffOverlapping ==
    ASSUME TypeOK, NEW r, NEW q \in Orders(Bounded(r)), NEW i \in DOMAIN q
    PROVE  (Chosen(q, i) # 0 /\ Overlaps(q[i], q[Chosen(q, i)]))
             <=> \E t \in Bounded(r) \ {q[i]} : Overlaps(q[i], t)
<1> DEFINE c == Chosen(q, i)
           P == Prefix(q, i) \ {i}
<1>1. PICK n \in Nat :
        /\ DOMAIN q = 1..n
        /\ \A j \in 1..n : /\ q[j] \in Bounded(r)
                           /\ StartedAt(q[j]) \in Nat
                           /\ EndedAt(q[j]) \in 0..CLOCK
        /\ \A j, k \in 1..n : j # k => q[j] # q[k]
        /\ \A j, k \in 1..n : j < k => StartedAt(q[j]) <= StartedAt(q[k])
        /\ \A s \in Bounded(r) : \E j \in 1..n : q[j] = s
  BY SortedSeq
<1>2. P = {j \in 1..n : StartedAt(q[j]) <= EndedAt(q[i])} \ {i}
  <2>1. Prefix(q, i) = {j \in DOMAIN q : StartedAt(q[j]) <= EndedAt(q[i])}
    BY PrefixStartsInTime
  <2>2. DOMAIN q = 1..n
    BY <1>1
  <2>3. QED
    BY <2>1, <2>2
<1>3. P = {} => c = 0
  BY ChosenIsFurthestOther
<1>4. P # {} => c \in P /\ \A k \in P : EndedAt(q[k]) <= EndedAt(q[c])
  BY ChosenIsFurthestOther
<1>5. ASSUME c # 0, Overlaps(q[i], q[c])
      PROVE  \E t \in Bounded(r) \ {q[i]} : Overlaps(q[i], t)
  <2>1. c \in P
    BY <1>3, <1>4, <1>5
  <2>2. c \in 1..n /\ c # i /\ i \in 1..n
    BY <1>1, <1>2, <2>1
  <2>3. q[c] \in Bounded(r) \ {q[i]}
    BY <1>1, <2>2
  <2>4. QED
    BY <1>5, <2>3
<1>6. ASSUME NEW t \in Bounded(r) \ {q[i]}, Overlaps(q[i], t)
      PROVE  c # 0 /\ Overlaps(q[i], q[c])
  <2>1. PICK j \in 1..n : q[j] = t
    BY <1>1
  <2>2. j # i /\ StartedAt(q[j]) <= EndedAt(q[i]) /\ StartedAt(q[i]) <= EndedAt(q[j])
    BY <1>6, <2>1 DEF Overlaps
  <2>3. j \in P
    BY <1>2, <2>2
  <2>4. c \in P /\ EndedAt(q[j]) <= EndedAt(q[c])
    BY <1>4, <2>3
  <2>5. c \in 1..n /\ StartedAt(q[c]) <= EndedAt(q[i]) /\ i \in 1..n
    BY <1>1, <1>2, <2>4
  <2>6. /\ StartedAt(q[i]) \in Nat /\ EndedAt(q[j]) \in Int /\ EndedAt(q[c]) \in Int
    BY <1>1, <2>5
  <2> HIDE DEF c
  <2>7. StartedAt(q[i]) <= EndedAt(q[c])
    BY <2>2, <2>4, <2>6
  <2>8. QED
    BY <2>5, <2>7 DEF Overlaps
<1>7. QED
  BY <1>5, <1>6

LEMMA MarkedExact ==
    ASSUME TypeOK, NEW r, NEW q \in Orders(Bounded(r))
    PROVE  Marked(q) = {s \in Bounded(r) : \E t \in Bounded(r) \ {s} : Overlaps(s, t)}
<1>1. /\ \A i \in DOMAIN q : q[i] \in Bounded(r)
      /\ \A s \in Bounded(r) : \E i \in DOMAIN q : q[i] = s
  <2>1. PICK n \in Nat :
          /\ DOMAIN q = 1..n
          /\ \A i \in 1..n : q[i] \in Bounded(r)
          /\ \A s \in Bounded(r) : \E i \in 1..n : q[i] = s
    BY SortedSeq
  <2>2. QED
    BY <2>1
<1>2. ASSUME NEW i \in DOMAIN q
      PROVE  (Chosen(q, i) # 0 /\ Overlaps(q[i], q[Chosen(q, i)]))
               <=> \E t \in Bounded(r) \ {q[i]} : Overlaps(q[i], t)
  BY MarkedIffOverlapping, Zenon
<1> DEFINE M(i) == Chosen(q, i) # 0 /\ Overlaps(q[i], q[Chosen(q, i)])
           O(s) == \E t \in Bounded(r) \ {s} : Overlaps(s, t)
<1>3. \A i \in DOMAIN q : M(i) <=> O(q[i])
  BY <1>2
<1>4. Marked(q) = {q[i] : i \in {j \in DOMAIN q : M(j)}}
  BY DEF Marked
<1> HIDE DEF M, O
<1>5. ASSUME NEW s \in Marked(q) PROVE s \in Bounded(r) /\ O(s)
  BY <1>1, <1>3, <1>4
<1>6. ASSUME NEW s \in Bounded(r), O(s) PROVE s \in Marked(q)
  <2>1. PICK i \in DOMAIN q : q[i] = s
    BY <1>1
  <2>2. M(i)
    BY <1>3, <1>6, <2>1
  <2>3. QED
    BY <1>4, <2>1, <2>2
<1>7. Marked(q) = {s \in Bounded(r) : O(s)}
  BY <1>5, <1>6
<1>8. QED
  BY <1>7 DEF O

-----------------------------------------------------------------------------
(* ContestedExact: for any number of sessions and any order that sorting    *)
(* leaves ties in, the one comparison that _mark_overlaps makes per session *)
(* flags exactly the sessions that overlap another of their repository.     *)
THEOREM OverlapsFound == Spec => []ContestedExact
<1>1. TypeOK => ContestedExact
  BY MarkedExact DEF ContestedExact
<1>2. QED
  BY <1>1, SessionsTypeCorrect, PTL
=============================================================================
