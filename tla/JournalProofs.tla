---------------------------- MODULE JournalProofs ----------------------------
(***************************************************************************)
(* Theorems about Journal, for every set of writers and entries and every  *)
(* bound.  First what the reader's loop and the concatenation of months    *)
(* return, by induction on the set of lengths they return it for; then     *)
(* what one write does to a file; then the invariants.                     *)
(***************************************************************************)
EXTENDS Journal, FiniteSetTheorems, FunctionTheorems, WellFoundedInduction, TLAPS

-----------------------------------------------------------------------------
(* Induction with a set in the place of the predicate *)

LEMMA Induction ==
    ASSUME NEW S, 0 \in S, \A n \in Nat : n \in S => n + 1 \in S
    PROVE  Nat \subseteq S
<1> DEFINE R == OpToRel(<, Nat)
<1> SUFFICES ASSUME Nat \ S # {} PROVE FALSE
    OBVIOUS
<1>1. IsWellFoundedOn(R, Nat)
  BY NatLessThanWellFounded
<1> DEFINE T == Nat \ S
<1>2. PICK x \in T : \A y \in T : <<y, x>> \notin R
  <2>1. T \subseteq Nat /\ T # {}
    OBVIOUS
  <2> HIDE DEF R, T
  <2> QED  BY <1>1, <2>1, WFMin
<1>3. x \in Nat /\ x # 0 /\ x - 1 \in Nat
  OBVIOUS
<1>4. <<x - 1, x>> \in R
  BY <1>3 DEF OpToRel
<1>5. x - 1 \in S
  BY <1>2, <1>3, <1>4
<1>6. (x - 1) + 1 \in S
  BY <1>3, <1>5
<1> QED  BY <1>3, <1>6

LEMMA SequenceInduction ==
    ASSUME NEW T, NEW S, <<>> \in S,
           \A s \in Seq(T), x \in T : s \in S => Append(s, x) \in S
    PROVE  Seq(T) \subseteq S
<1> DEFINE N == {n \in Nat : \A s \in Seq(T) : Len(s) = n => s \in S}
<1>1. 0 \in N
  <2>1. \A s \in Seq(T) : Len(s) = 0 => s = <<>>
    OBVIOUS
  <2> QED  BY <2>1
<1>2. ASSUME NEW n \in Nat, n \in N PROVE n + 1 \in N
  <2>1. SUFFICES ASSUME NEW s \in Seq(T), Len(s) = n + 1 PROVE s \in S
    OBVIOUS
  <2> DEFINE front == SubSeq(s, 1, n)
             last == s[n + 1]
  <2>2. front \in Seq(T) /\ Len(front) = n /\ last \in T
    BY <2>1
  <2>3. s = Append(front, last)
    BY <2>1
  <2>4. front \in S
    BY <1>2, <2>2
  <2> QED  BY <2>2, <2>3, <2>4
<1> HIDE DEF N
<1>3. Nat \subseteq N
  BY <1>1, <1>2, Induction
<1> QED  BY <1>3 DEF N

-----------------------------------------------------------------------------
(* The reader's loop *)

\* What the loop of Readable has gathered of the lines ls after n of them.
Gathers(f, ls, k) ==
    f = [n \in 0..k |-> IF n = 0 THEN <<>>
                        ELSE IF Parses(ls[n]) THEN Append(f[n - 1], ls[n][1].id)
                        ELSE f[n - 1]]

Gathered(ls) == (CHOOSE f : Gathers(f, ls, Len(ls)))[Len(ls)]

LEMMA ReadableGathers == \A file : Readable(file) = Gathered(Lines(file))
BY DEF Readable, Gathered, Gathers

LEMMA GathersExists ==
    ASSUME NEW ls, NEW k \in Nat
    PROVE  \E f : Gathers(f, ls, k)
<1> DEFINE S == {n \in Nat : \E f : Gathers(f, ls, n)}
<1>1. 0 \in S
  <2>1. Gathers([n \in 0..0 |-> <<>>], ls, 0)
    BY DEF Gathers
  <2> QED  BY <2>1
<1>2. ASSUME NEW n \in Nat, n \in S PROVE n + 1 \in S
  <2>1. PICK f : Gathers(f, ls, n)
    BY <1>2
  <2> DEFINE last == IF Parses(ls[n + 1]) THEN Append(f[n], ls[n + 1][1].id) ELSE f[n]
             g == [i \in 0..(n + 1) |-> IF i = n + 1 THEN last ELSE f[i]]
  <2>2. ASSUME NEW i \in 0..(n + 1)
        PROVE  g[i] = IF i = 0 THEN <<>>
                      ELSE IF Parses(ls[i]) THEN Append(g[i - 1], ls[i][1].id)
                      ELSE g[i - 1]
    <3>1. CASE i = n + 1
      <4>1. g[i] = last /\ g[i - 1] = f[n]
        BY <3>1
      <4> QED  BY <3>1, <4>1
    <3>2. CASE i # n + 1
      <4>1. i \in 0..n /\ g[i] = f[i] /\ (i # 0 => g[i - 1] = f[i - 1])
        BY <3>2
      <4>2. f[i] = IF i = 0 THEN <<>>
                   ELSE IF Parses(ls[i]) THEN Append(f[i - 1], ls[i][1].id)
                   ELSE f[i - 1]
        BY <2>1, <4>1 DEF Gathers
      <4> QED  BY <4>1, <4>2
    <3> QED  BY <3>1, <3>2
  <2>3. Gathers(g, ls, n + 1)
    <3>1. g = [i \in 0..(n + 1) |-> g[i]]
      OBVIOUS
    <3> HIDE DEF g
    <3> QED  BY <2>2, <3>1 DEF Gathers
  <2> HIDE DEF g
  <2> QED  BY <2>3
<1> HIDE DEF S
<1>3. Nat \subseteq S
  BY <1>1, <1>2, Induction
<1> QED  BY <1>3 DEF S

\* The loop's steps.
LEMMA GathersStep ==
    ASSUME NEW f, NEW ls, NEW k \in Nat, Gathers(f, ls, k), NEW n \in Nat, n + 1 <= k
    PROVE  f[n + 1] = IF Parses(ls[n + 1]) THEN Append(f[n], ls[n + 1][1].id) ELSE f[n]
<1> DEFINE i == n + 1
<1>1. i \in 0..k /\ i # 0 /\ i - 1 = n
  OBVIOUS
<1> HIDE DEF i
<1>2. f[i] = IF Parses(ls[i]) THEN Append(f[i - 1], ls[i][1].id) ELSE f[i - 1]
  BY <1>1 DEF Gathers
<1> QED  BY <1>1, <1>2 DEF i

\* What was gathered of the lines two files begin with is the same.
LEMMA GathersAgree ==
    ASSUME NEW ls, NEW ms, NEW j \in Nat, NEW k \in Nat, j <= k,
           NEW f, NEW g, Gathers(f, ls, j), Gathers(g, ms, k),
           \A i \in 1..j : ls[i] = ms[i]
    PROVE  \A n \in 0..j : f[n] = g[n]
<1> DEFINE S == {n \in Nat : n <= j => f[n] = g[n]}
<1>1. 0 \in S
  BY DEF Gathers
<1>2. ASSUME NEW n \in Nat, n \in S PROVE n + 1 \in S
  <2>1. SUFFICES ASSUME n + 1 <= j PROVE f[n + 1] = g[n + 1]
    OBVIOUS
  <2>2. f[n] = g[n] /\ ls[n + 1] = ms[n + 1]
    BY <1>2, <2>1
  <2>3. f[n + 1] = IF Parses(ls[n + 1]) THEN Append(f[n], ls[n + 1][1].id) ELSE f[n]
    BY <2>1, GathersStep
  <2>4. g[n + 1] = IF Parses(ms[n + 1]) THEN Append(g[n], ms[n + 1][1].id) ELSE g[n]
    BY <2>1, GathersStep
  <2> QED  BY <2>2, <2>3, <2>4
<1> HIDE DEF S
<1>3. Nat \subseteq S
  BY <1>1, <1>2, Induction
<1> QED  BY <1>3 DEF S

LEMMA GatheredEmpty == Gathered(<<>>) = <<>>
<1>1. PICK k \in Nat : k = 0 /\ k = Len(<<>>)
  OBVIOUS
<1>2. \E f : Gathers(f, <<>>, k)
  BY GathersExists
<1>3. PICK f : Gathers(f, <<>>, k) /\ Gathered(<<>>) = f[k]
  BY <1>1, <1>2 DEF Gathered
<1> QED  BY <1>1, <1>3 DEF Gathers

\* One line more, and the one record in it if it parses.
LEMMA GatheredOneMore ==
    ASSUME NEW ls, NEW ms, NEW k \in Nat, Len(ls) = k, Len(ms) = k + 1,
           \A i \in 1..k : ls[i] = ms[i]
    PROVE  Gathered(ms) = IF Parses(ms[k + 1]) THEN Append(Gathered(ls), ms[k + 1][1].id)
                          ELSE Gathered(ls)
<1>1. PICK l \in Nat : l = k + 1 /\ k <= l
  OBVIOUS
<1>2. PICK f : Gathers(f, ls, k) /\ Gathered(ls) = f[k]
  <2>1. \E f : Gathers(f, ls, k)
    BY GathersExists
  <2> QED  BY <2>1 DEF Gathered
<1>3. PICK g : Gathers(g, ms, l) /\ Gathered(ms) = g[l]
  <2>1. \E g : Gathers(g, ms, l)
    BY GathersExists
  <2> QED  BY <1>1, <2>1 DEF Gathered
<1>4. \A n \in 0..k : f[n] = g[n]
  BY <1>1, <1>2, <1>3, GathersAgree
<1>5. f[k] = g[k]
  BY <1>4
<1>6. g[k + 1] = IF Parses(ms[k + 1]) THEN Append(g[k], ms[k + 1][1].id) ELSE g[k]
  BY <1>1, <1>3, GathersStep
<1> QED  BY <1>1, <1>2, <1>3, <1>5, <1>6

LEMMA GatheredAppend ==
    ASSUME NEW T, NEW ls \in Seq(T), NEW x \in T
    PROVE  Gathered(Append(ls, x)) =
             IF Parses(x) THEN Append(Gathered(ls), x[1].id) ELSE Gathered(ls)
<1> DEFINE ms == Append(ls, x)
           k == Len(ls)
<1>1. k \in Nat /\ Len(ls) = k /\ Len(ms) = k + 1 /\ ms[k + 1] = x
      /\ \A i \in 1..k : ls[i] = ms[i]
  OBVIOUS
<1> HIDE DEF ms, k
<1>2. Gathered(ms) = IF Parses(ms[k + 1]) THEN Append(Gathered(ls), ms[k + 1][1].id)
                     ELSE Gathered(ls)
  BY <1>1, GatheredOneMore
<1> QED  BY <1>1, <1>2 DEF ms

LEMMA GatheredType ==
    ASSUME NEW T, NEW R, \A x \in T : Parses(x) => x[1].id \in R,
           NEW ls \in Seq(T)
    PROVE  Gathered(ls) \in Seq(R)
<1> DEFINE S == {s \in Seq(T) : Gathered(s) \in Seq(R)}
<1>1. <<>> \in S
  <2>1. <<>> \in Seq(T) /\ <<>> \in Seq(R)
    OBVIOUS
  <2> QED  BY <2>1, GatheredEmpty
<1>2. ASSUME NEW s \in Seq(T), NEW x \in T, s \in S PROVE Append(s, x) \in S
  <2>1. Gathered(Append(s, x)) = IF Parses(x) THEN Append(Gathered(s), x[1].id)
                                 ELSE Gathered(s)
    BY GatheredAppend
  <2>2. Parses(x) => x[1].id \in R
    OBVIOUS
  <2>3. Gathered(s) \in Seq(R) /\ Append(s, x) \in Seq(T)
    BY <1>2
  <2>4. Gathered(Append(s, x)) \in Seq(R)
    <3>1. CASE Parses(x)
      BY <2>1, <2>2, <2>3, <3>1
    <3>2. CASE ~Parses(x)
      BY <2>1, <2>3, <3>2
    <3> QED  BY <3>1, <3>2
  <2> QED  BY <2>3, <2>4
<1> HIDE DEF S
<1>3. Seq(T) \subseteq S
  BY <1>1, <1>2, SequenceInduction
<1> QED  BY <1>3 DEF S

\* What is read stands in the lines in the same order.
Origins(ls, got) ==
    /\ \A i \in DOMAIN got : \E a \in DOMAIN ls :
         Parses(ls[a]) /\ got[i] = ls[a][1].id
    /\ \A i, j \in DOMAIN got : i < j =>
         \E a, b \in DOMAIN ls : /\ a < b /\ Parses(ls[a]) /\ Parses(ls[b])
                                /\ got[i] = ls[a][1].id /\ got[j] = ls[b][1].id

LEMMA GatheredOrigins ==
    ASSUME NEW T, NEW R, \A x \in T : Parses(x) => x[1].id \in R,
           NEW ls \in Seq(T)
    PROVE  Origins(ls, Gathered(ls))
<1> DEFINE S == {s \in Seq(T) : Origins(s, Gathered(s))}
<1>1. <<>> \in S
  BY GatheredEmpty DEF Origins
<1>2. ASSUME NEW s \in Seq(T), NEW x \in T, s \in S PROVE Append(s, x) \in S
  <2> DEFINE got == Gathered(s)
             t == Append(s, x)
             new == Gathered(t)
             n == Len(s) + 1
  <2>1. got \in Seq(R) /\ Origins(s, got)
    BY <1>2, GatheredType
  <2>2. /\ t \in Seq(T) /\ n \in DOMAIN t /\ t[n] = x
        /\ \A a \in DOMAIN s : a \in DOMAIN t /\ t[a] = s[a] /\ a < n
    OBVIOUS
  <2>3. new = IF Parses(x) THEN Append(got, x[1].id) ELSE got
    BY GatheredAppend
  <2> HIDE DEF got, t, new, n
  <2>4. CASE ~Parses(x)
    <3>1. Origins(t, got)
      <4>1. ASSUME NEW i \in DOMAIN got
            PROVE  \E a \in DOMAIN t : Parses(t[a]) /\ got[i] = t[a][1].id
        BY <2>1, <2>2 DEF Origins
      <4>2. ASSUME NEW i \in DOMAIN got, NEW j \in DOMAIN got, i < j
            PROVE  \E a, b \in DOMAIN t : /\ a < b /\ Parses(t[a]) /\ Parses(t[b])
                                         /\ got[i] = t[a][1].id /\ got[j] = t[b][1].id
        <5>1. PICK a \in DOMAIN s, b \in DOMAIN s :
                /\ a < b /\ Parses(s[a]) /\ Parses(s[b])
                /\ got[i] = s[a][1].id /\ got[j] = s[b][1].id
          BY <2>1, <4>2 DEF Origins
        <5> QED  BY <2>2, <5>1
      <4> QED  BY <4>1, <4>2 DEF Origins
    <3> QED  BY <2>2, <2>3, <2>4, <3>1 DEF S, new, t
  <2>5. CASE Parses(x)
    <3> DEFINE k == Len(got) + 1
    <3>1. /\ k \in DOMAIN new /\ new[k] = t[n][1].id
          /\ \A i \in DOMAIN new : i = k \/ (i \in DOMAIN got /\ new[i] = got[i] /\ i < k)
          /\ \A i \in DOMAIN new : i <= k
      BY <2>1, <2>2, <2>3, <2>5
    <3> HIDE DEF k
    <3>2. ASSUME NEW i \in DOMAIN new
          PROVE  \E a \in DOMAIN t : Parses(t[a]) /\ new[i] = t[a][1].id
      <4>1. CASE i = k
        BY <2>2, <2>5, <3>1, <4>1
      <4>2. CASE i # k
        <5>1. i \in DOMAIN got /\ new[i] = got[i]
          BY <3>1, <4>2
        <5>2. PICK a \in DOMAIN s : Parses(s[a]) /\ got[i] = s[a][1].id
          BY <2>1, <5>1 DEF Origins
        <5> QED  BY <2>2, <5>1, <5>2
      <4> QED  BY <4>1, <4>2
    <3>3. ASSUME NEW i \in DOMAIN new, NEW j \in DOMAIN new, i < j
          PROVE  \E a, b \in DOMAIN t : /\ a < b /\ Parses(t[a]) /\ Parses(t[b])
                                       /\ new[i] = t[a][1].id /\ new[j] = t[b][1].id
      <4>0. new \in Seq(R) /\ i \in Nat /\ j \in Nat /\ k \in Nat
        BY <2>1, <2>2, <2>3, <2>5 DEF k
      <4>1. i \in DOMAIN got /\ new[i] = got[i]
        BY <3>1, <3>3, <4>0
      <4>2. CASE j = k
        <5>1. PICK a \in DOMAIN s : Parses(s[a]) /\ got[i] = s[a][1].id
          BY <2>1, <4>1 DEF Origins
        <5> QED  BY <2>2, <2>5, <3>1, <4>1, <4>2, <5>1
      <4>3. CASE j # k
        <5>1. j \in DOMAIN got /\ new[j] = got[j]
          BY <3>1, <4>3
        <5>2. PICK a \in DOMAIN s, b \in DOMAIN s :
                /\ a < b /\ Parses(s[a]) /\ Parses(s[b])
                /\ got[i] = s[a][1].id /\ got[j] = s[b][1].id
          BY <2>1, <3>3, <4>1, <5>1 DEF Origins
        <5> QED  BY <2>2, <4>1, <5>1, <5>2
      <4> QED  BY <4>2, <4>3
    <3>4. Origins(t, new)
      BY <3>2, <3>3 DEF Origins
    <3> QED  BY <2>2, <3>4 DEF S, new, t
  <2> QED  BY <2>4, <2>5 DEF t
<1> HIDE DEF S
<1>3. Seq(T) \subseteq S
  BY <1>1, <1>2, SequenceInduction
<1> QED  BY <1>3 DEF S

-----------------------------------------------------------------------------
(* One month after the other *)

\* What FlattenSeq has joined of the sequences ss after n of them.
Joins(f, ss, k) ==
    f = [n \in 1..k |-> IF n = 1 THEN ss[n] ELSE f[n - 1] \o ss[n]]

LEMMA JoinsExists ==
    ASSUME NEW ss, NEW k \in Nat
    PROVE  \E f : Joins(f, ss, k)
<1> DEFINE S == {n \in Nat : \E f : Joins(f, ss, n)}
<1>1. 0 \in S
  <2>1. Joins([n \in 1..0 |-> <<>>], ss, 0)
    BY DEF Joins
  <2> QED  BY <2>1
<1>2. ASSUME NEW n \in Nat, n \in S PROVE n + 1 \in S
  <2>1. PICK f : Joins(f, ss, n)
    BY <1>2
  <2> DEFINE last == IF n = 0 THEN ss[1] ELSE f[n] \o ss[n + 1]
             g == [i \in 1..(n + 1) |-> IF i = n + 1 THEN last ELSE f[i]]
  <2>2. ASSUME NEW i \in 1..(n + 1)
        PROVE  g[i] = IF i = 1 THEN ss[i] ELSE g[i - 1] \o ss[i]
    <3>1. CASE i = n + 1
      <4>1. g[i] = last /\ (n # 0 => g[i - 1] = f[n]) /\ (i = 1 <=> n = 0)
        BY <3>1
      <4> QED  BY <3>1, <4>1
    <3>2. CASE i # n + 1
      <4>1. i \in 1..n /\ g[i] = f[i] /\ (i # 1 => g[i - 1] = f[i - 1])
        BY <3>2
      <4>2. f[i] = IF i = 1 THEN ss[i] ELSE f[i - 1] \o ss[i]
        BY <2>1, <4>1 DEF Joins
      <4> QED  BY <4>1, <4>2
    <3> QED  BY <3>1, <3>2
  <2>3. Joins(g, ss, n + 1)
    <3>1. g = [i \in 1..(n + 1) |-> g[i]]
      OBVIOUS
    <3> HIDE DEF g
    <3> QED  BY <2>2, <3>1 DEF Joins
  <2> HIDE DEF g
  <2> QED  BY <2>3
<1> HIDE DEF S
<1>3. Nat \subseteq S
  BY <1>1, <1>2, Induction
<1> QED  BY <1>3 DEF S

\* What is joined has the elements of the first k sequences, in their order.
Joined(flat, ss, k) ==
    /\ \A a \in 1..k : \A x \in DOMAIN ss[a] : \E i \in DOMAIN flat : flat[i] = ss[a][x]
    /\ \A i \in DOMAIN flat : \E a \in 1..k : \E x \in DOMAIN ss[a] : flat[i] = ss[a][x]
    /\ \A i, j \in DOMAIN flat : i < j =>
         \E a, b \in 1..k : \E x \in DOMAIN ss[a], y \in DOMAIN ss[b] :
           /\ a < b \/ (a = b /\ x < y)
           /\ flat[i] = ss[a][x] /\ flat[j] = ss[b][y]

LEMMA JoinedOneMore ==
    ASSUME NEW R, NEW k \in Nat, NEW ss, \A a \in 1..(k + 1) : ss[a] \in Seq(R),
           NEW flat \in Seq(R), Joined(flat, ss, k)
    PROVE  Joined(flat \o ss[k + 1], ss, k + 1)
<1>1. PICK l \in Nat, t \in Seq(R) : l = k + 1 /\ t = ss[l]
  OBVIOUS
<1>2. PICK new : new = flat \o t
  OBVIOUS
<1> DEFINE n == Len(flat)
<1>3. /\ n \in Nat
      /\ \A i \in DOMAIN flat : i \in DOMAIN new /\ new[i] = flat[i] /\ i <= n /\ i \in Nat
      /\ \A y \in DOMAIN t : n + y \in DOMAIN new /\ new[n + y] = t[y] /\ y \in Nat
      /\ \A i \in DOMAIN new : i \in Nat
      /\ \A i \in DOMAIN new : i <= n => i \in DOMAIN flat
      /\ \A i \in DOMAIN new : ~(i <= n) => i - n \in DOMAIN t /\ new[i] = t[i - n]
  BY <1>2
<1> HIDE DEF n
<1>4. 1..k \subseteq 1..l /\ l \in 1..l /\ \A a \in 1..l : a # l => a \in 1..k
  BY <1>1
<1>5. ASSUME NEW a \in 1..l, NEW x \in DOMAIN ss[a]
      PROVE  \E i \in DOMAIN new : new[i] = ss[a][x]
  <2>1. CASE a = l
    BY <1>1, <1>3, <2>1
  <2>2. CASE a # l
    <3>1. PICK i \in DOMAIN flat : flat[i] = ss[a][x]
      BY <1>4, <2>2 DEF Joined
    <3> QED  BY <1>3, <3>1
  <2> QED  BY <2>1, <2>2
<1>6. ASSUME NEW i \in DOMAIN new
      PROVE  \E a \in 1..l : \E x \in DOMAIN ss[a] : new[i] = ss[a][x]
  <2>1. CASE i <= n
    <3>1. i \in DOMAIN flat /\ new[i] = flat[i]
      BY <1>3, <2>1
    <3>2. PICK a \in 1..k : \E x \in DOMAIN ss[a] : flat[i] = ss[a][x]
      BY <3>1 DEF Joined
    <3> QED  BY <1>4, <3>1, <3>2
  <2>2. CASE ~(i <= n)
    BY <1>1, <1>3, <1>4, <2>2
  <2> QED  BY <2>1, <2>2
<1>7. ASSUME NEW i \in DOMAIN new, NEW j \in DOMAIN new, i < j
      PROVE  \E a, b \in 1..l : \E x \in DOMAIN ss[a], y \in DOMAIN ss[b] :
               /\ a < b \/ (a = b /\ x < y)
               /\ new[i] = ss[a][x] /\ new[j] = ss[b][y]
  <2>0. i \in Nat /\ j \in Nat
    BY <1>3
  <2>1. CASE j <= n
    <3>1. i <= n
      BY <1>3, <1>7, <2>0, <2>1
    <3>2. i \in DOMAIN flat /\ new[i] = flat[i] /\ j \in DOMAIN flat /\ new[j] = flat[j]
      BY <1>3, <2>1, <3>1
    <3>3. PICK a \in 1..k, b \in 1..k : \E x \in DOMAIN ss[a], y \in DOMAIN ss[b] :
            /\ a < b \/ (a = b /\ x < y)
            /\ flat[i] = ss[a][x] /\ flat[j] = ss[b][y]
      BY <1>7, <3>2 DEF Joined
    <3> QED  BY <1>4, <3>2, <3>3
  <2>2. CASE ~(j <= n)
    <3>1. j - n \in DOMAIN ss[l] /\ new[j] = ss[l][j - n]
      BY <1>1, <1>3, <2>2
    <3>2. CASE i <= n
      <4>1. i \in DOMAIN flat /\ new[i] = flat[i]
        BY <1>3, <3>2
      <4>2. PICK a \in 1..k : \E x \in DOMAIN ss[a] : flat[i] = ss[a][x]
        BY <4>1 DEF Joined
      <4>3. a < l /\ a \in 1..l
        BY <1>1
      <4> QED  BY <1>4, <3>1, <4>1, <4>2, <4>3
    <3>3. CASE ~(i <= n)
      <4>1. i - n \in DOMAIN ss[l] /\ new[i] = ss[l][i - n]
        BY <1>1, <1>3, <3>3
      <4>2. i - n < j - n
        BY <1>3, <1>7, <2>0
      <4> QED  BY <1>4, <3>1, <4>1, <4>2
    <3> QED  BY <3>2, <3>3
  <2> QED  BY <2>1, <2>2
<1>8. Joined(new, ss, l)
  BY <1>5, <1>6, <1>7 DEF Joined
<1> QED  BY <1>1, <1>2, <1>8

LEMMA FlattenJoined ==
    ASSUME NEW R, NEW k \in Nat \ {0}, NEW ss, Len(ss) = k, \A a \in 1..k : ss[a] \in Seq(R)
    PROVE  FlattenSeq(ss) \in Seq(R) /\ Joined(FlattenSeq(ss), ss, k)
<1>1. PICK f : Joins(f, ss, k) /\ FlattenSeq(ss) = f[k]
  <2>1. \E f : Joins(f, ss, k)
    BY JoinsExists
  <2> QED  BY <2>1 DEF FlattenSeq, Joins
<1> DEFINE S == {n \in Nat : n # 0 /\ n <= k => f[n] \in Seq(R) /\ Joined(f[n], ss, n)}
<1>2. 0 \in S
  OBVIOUS
<1>3. ASSUME NEW n \in Nat, n \in S PROVE n + 1 \in S
  <2>1. SUFFICES ASSUME n + 1 <= k PROVE f[n + 1] \in Seq(R) /\ Joined(f[n + 1], ss, n + 1)
    OBVIOUS
  <2>2. PICK l \in Nat : l = n + 1 /\ l \in 1..k /\ l - 1 = n
    BY <2>1
  <2>3. f[l] = IF l = 1 THEN ss[l] ELSE f[l - 1] \o ss[l]
    BY <1>1, <2>2 DEF Joins
  <2>4. CASE n = 0
    <3>1. f[l] = ss[1] /\ ss[1] \in Seq(R) /\ l = 1
      BY <2>2, <2>3, <2>4
    <3>2. Joined(ss[1], ss, 1)
      BY <3>1 DEF Joined
    <3> QED  BY <2>2, <3>1, <3>2
  <2>5. CASE n # 0
    <3>1. f[n] \in Seq(R) /\ Joined(f[n], ss, n)
      BY <1>3, <2>1, <2>5
    <3>2. \A a \in 1..(n + 1) : ss[a] \in Seq(R)
      BY <2>1
    <3>3. f[l] = f[n] \o ss[n + 1]
      <4>1. l # 1 /\ l - 1 = n /\ l = n + 1
        BY <2>2, <2>5
      <4>2. f[l] = f[l - 1] \o ss[l]
        BY <2>3, <4>1
      <4> QED  BY <4>1, <4>2, Zenon
    <3>4. Joined(f[n] \o ss[n + 1], ss, n + 1)
      BY <3>1, <3>2, JoinedOneMore
    <3>5. f[n] \o ss[n + 1] \in Seq(R)
      <4>1. ss[n + 1] \in Seq(R)
        BY <3>2
      <4> QED  BY <3>1, <4>1
    <3> QED  BY <2>2, <3>3, <3>4, <3>5
  <2> QED  BY <2>4, <2>5
<1> HIDE DEF S
<1>4. Nat \subseteq S
  BY <1>2, <1>3, Induction
<1> QED  BY <1>1, <1>4 DEF S

-----------------------------------------------------------------------------
(* The rendered line *)

\* The bytes Size has added up after the first i sheddable fields.
Adds(f, e, k, n) ==
    f = [i \in 0..n |->
           IF i = 0 THEN e.identity
           ELSE f[i - 1] + (IF SHEDDABLE_FIELDS[i] \notin DOMAIN e.fields THEN 0
                            ELSE IF i <= k THEN SHED_MARK
                            ELSE e.fields[SHEDDABLE_FIELDS[i]])]

LEMMA AddsExists ==
    ASSUME NEW e, NEW k, NEW m \in Nat
    PROVE  \E f : Adds(f, e, k, m)
<1> DEFINE S == {n \in Nat : \E f : Adds(f, e, k, n)}
           cost(i) == IF SHEDDABLE_FIELDS[i] \notin DOMAIN e.fields THEN 0
                      ELSE IF i <= k THEN SHED_MARK
                      ELSE e.fields[SHEDDABLE_FIELDS[i]]
<1> HIDE DEF cost
<1>1. 0 \in S
  <2>1. Adds([i \in 0..0 |-> e.identity], e, k, 0)
    BY DEF Adds
  <2> QED  BY <2>1
<1>2. ASSUME NEW n \in Nat, n \in S PROVE n + 1 \in S
  <2>1. PICK f : Adds(f, e, k, n)
    BY <1>2
  <2> DEFINE g == [i \in 0..(n + 1) |-> IF i = n + 1 THEN f[n] + cost(n + 1) ELSE f[i]]
  <2>2. ASSUME NEW i \in 0..(n + 1)
        PROVE  g[i] = IF i = 0 THEN e.identity ELSE g[i - 1] + cost(i)
    <3>1. CASE i = n + 1
      <4>1. g[i] = f[n] + cost(i) /\ g[i - 1] = f[n] /\ i # 0
        BY <3>1
      <4> QED  BY <4>1
    <3>2. CASE i # n + 1
      <4>1. i \in 0..n /\ g[i] = f[i] /\ (i # 0 => g[i - 1] = f[i - 1])
        BY <3>2
      <4>2. f[i] = IF i = 0 THEN e.identity ELSE f[i - 1] + cost(i)
        BY <2>1, <4>1 DEF Adds, cost
      <4> QED  BY <4>1, <4>2
    <3> QED  BY <3>1, <3>2
  <2>3. Adds(g, e, k, n + 1)
    <3>1. g = [i \in 0..(n + 1) |-> g[i]]
      OBVIOUS
    <3> HIDE DEF g
    <3> QED  BY <2>2, <3>1 DEF Adds, cost
  <2> HIDE DEF g
  <2> QED  BY <2>3
<1> HIDE DEF S
<1>3. Nat \subseteq S
  BY <1>1, <1>2, Induction
<1> QED  BY <1>3 DEF S

LEMMA SizeType ==
    ASSUME NEW e \in Entries, NEW k \in Nat
    PROVE  Size(e, k) \in Nat \ {0}
<1>1. PICK f : Adds(f, e, k, 5) /\ Size(e, k) = f[5]
  <2>1. \E f : Adds(f, e, k, 5)
    BY AddsExists
  <2> QED  BY <2>1 DEF Size, Adds
<1> DEFINE cost(i) == IF SHEDDABLE_FIELDS[i] \notin DOMAIN e.fields THEN 0
                      ELSE IF i <= k THEN SHED_MARK
                      ELSE e.fields[SHEDDABLE_FIELDS[i]]
<1>2. \A i \in 1..5 : cost(i) \in Nat
  BY EntriesAssumption
<1>3. \A i \in 0..5 : f[i] = IF i = 0 THEN e.identity ELSE f[i - 1] + cost(i)
  BY <1>1 DEF Adds
<1> HIDE DEF cost
<1>4. f[0] \in Nat \ {0}
  BY <1>3, EntriesAssumption
<1>5. /\ f[1] = f[0] + cost(1) /\ f[2] = f[1] + cost(2) /\ f[3] = f[2] + cost(3)
      /\ f[4] = f[3] + cost(4) /\ f[5] = f[4] + cost(5)
  BY <1>3
<1>6. /\ cost(1) \in Nat /\ cost(2) \in Nat /\ cost(3) \in Nat
      /\ cost(4) \in Nat /\ cost(5) \in Nat
  BY <1>2
<1>7. f[5] \in Nat \ {0}
  BY <1>4, <1>5, <1>6
<1> QED  BY <1>1, <1>7

\* What render returns fits the bound.
LEMMA RenderType ==
    ASSUME NEW e \in Entries, Render(e) # None
    PROVE  Render(e) \in 1..MAX_JOURNAL_LINE_BYTES
<1> DEFINE k == CHOOSE k \in Fitting(e) : \A j \in Fitting(e) : k <= j
<1>1. Fitting(e) # {}
  BY DEF Render
<1>2. \E i \in Fitting(e) : \A j \in Fitting(e) : i <= j
  <2>1. Fitting(e) \subseteq Nat
    BY DEF Fitting
  <2>2. IsWellFoundedOn(OpToRel(<, Nat), Nat)
    BY NatLessThanWellFounded
  <2>3. PICK i \in Fitting(e) : \A j \in Fitting(e) : <<j, i>> \notin OpToRel(<, Nat)
    BY <1>1, <2>1, <2>2, WFMin
  <2>4. \A j \in Fitting(e) : i <= j
    <3>1. SUFFICES ASSUME NEW j \in Fitting(e), ~(i <= j) PROVE FALSE
      OBVIOUS
    <3>2. i \in Nat /\ j \in Nat /\ j < i
      BY <2>1, <3>1
    <3>3. <<j, i>> \in OpToRel(<, Nat)
      BY <3>2 DEF OpToRel
    <3> QED  BY <2>3, <3>3
  <2> QED  BY <2>4
<1>3. k \in Fitting(e)
  BY <1>2
<1> HIDE DEF k
<1>4. Render(e) = Size(e, k)
  BY <1>1 DEF Render, k
<1>5. k \in Nat /\ Size(e, k) <= MAX_JOURNAL_LINE_BYTES
  BY <1>3 DEF Fitting
<1>6. Size(e, k) \in Nat \ {0}
  BY <1>5, SizeType
<1> QED  BY <1>4, <1>5, <1>6, EntriesAssumption

-----------------------------------------------------------------------------
(* What one write does to a file *)

PieceType == [id : 1..APPENDS, by : Writers, size : 1..MAX_JOURNAL_LINE_BYTES, whole : BOOLEAN]

FileType == [lines : Seq(Seq(PieceType)), tail : Seq(PieceType)]

\* The pieces of a file stay in their lines, and p comes after all of them.
Placed(c, f, p) ==
    /\ Pieces(c) \subseteq Pieces(f)
    /\ \E k \in Nat : /\ Len(Lines(c)) <= k
                      /\ \A i \in DOMAIN Lines(f) : \A q \in ToSet(Lines(f)[i]) :
                           \/ i \in DOMAIN Lines(c) /\ q \in ToSet(Lines(c)[i])
                           \/ q = p /\ i = k

\* The reader gets p's record at the end, or nothing new, or no longer the
\* record that was the unterminated tail.
ReadsOn(c, f, p) ==
    \/ Readable(f) = Readable(c)
    \/ Readable(f) = Append(Readable(c), p.id)
    \/ /\ Readable(c) = Append(Readable(f), c.tail[1].id)
       /\ Len(c.tail) = 1

Effect(c, f, p) ==
    /\ f \in FileType
    /\ ToSet(f.tail) \subseteq ToSet(c.tail) \cup {p}
    /\ Placed(c, f, p)
    /\ ReadsOn(c, f, p)

LEMMA LinesOf ==
    ASSUME NEW c \in FileType
    PROVE  /\ Lines(c) \in Seq(Seq(PieceType))
           /\ DOMAIN Lines(c) = 1..(Len(c.lines) + 1)
           /\ Len(Lines(c)) = Len(c.lines) + 1
           /\ Len(c.lines) \in Nat
           /\ \A i \in 1..Len(c.lines) : Lines(c)[i] = c.lines[i]
           /\ Lines(c)[Len(c.lines) + 1] = c.tail
BY DEF Lines, FileType

LEMMA ReadableIs ==
    ASSUME NEW c \in FileType
    PROVE  /\ Gathered(c.lines) \in Seq(1..APPENDS)
           /\ Readable(c) \in Seq(1..APPENDS)
           /\ Readable(c) = IF Parses(c.tail) THEN Append(Gathered(c.lines), c.tail[1].id)
                            ELSE Gathered(c.lines)
           /\ Parses(c.tail) => c.tail[1].id \in 1..APPENDS
<1> DEFINE T == Seq(PieceType)
<1>1. \A x \in T : Parses(x) => x[1].id \in 1..APPENDS
  <2>1. ASSUME NEW x \in T, Parses(x) PROVE x[1].id \in 1..APPENDS
    <3>1. x[1] \in PieceType
      BY <2>1 DEF Parses
    <3> QED  BY <3>1 DEF PieceType
  <2> QED  BY <2>1
<1>2. c.lines \in Seq(T) /\ c.tail \in T
  BY DEF FileType
<1> HIDE DEF T
<1>3. Gathered(c.lines) \in Seq(1..APPENDS)
  BY <1>1, <1>2, GatheredType
<1>4. Gathered(Append(c.lines, c.tail)) =
        IF Parses(c.tail) THEN Append(Gathered(c.lines), c.tail[1].id)
        ELSE Gathered(c.lines)
  BY <1>2, GatheredAppend
<1>5. Readable(c) = Gathered(Append(c.lines, c.tail))
  BY ReadableGathers DEF Lines
<1>6. Readable(c) \in Seq(1..APPENDS)
  <2>1. CASE Parses(c.tail)
    <3>1. c.tail[1].id \in 1..APPENDS
      BY <1>1, <1>2, <2>1
    <3>2. Readable(c) = Append(Gathered(c.lines), c.tail[1].id)
      BY <1>4, <1>5, <2>1
    <3> QED  BY <1>3, <3>1, <3>2
  <2>2. CASE ~Parses(c.tail)
    BY <1>3, <1>4, <1>5, <2>2
  <2> QED  BY <2>1, <2>2
<1> QED  BY <1>1, <1>2, <1>3, <1>4, <1>5, <1>6

\* What of the new piece the reader's test tells.
LEMMA ParsesFacts ==
    /\ ~Parses(<<>>)
    /\ \A p : Parses(<<p>>) <=> p.whole
    /\ \A t \in Seq(PieceType), p \in PieceType : t # <<>> => ~Parses(Append(t, p))
    /\ \A t \in Seq(PieceType) : Parses(t) => Len(t) = 1
<1>1. ~Parses(<<>>)
  BY DEF Parses
<1>2. ASSUME NEW p PROVE Parses(<<p>>) <=> p.whole
  BY DEF Parses
<1>3. ASSUME NEW t \in Seq(PieceType), NEW p \in PieceType, t # <<>> PROVE ~Parses(Append(t, p))
  <2>1. Len(Append(t, p)) # 1
    BY <1>3
  <2> QED  BY <2>1 DEF Parses
<1>4. ASSUME NEW t \in Seq(PieceType), Parses(t) PROVE Len(t) = 1
  BY <1>4 DEF Parses
<1> QED  BY <1>1, <1>2, <1>3, <1>4

LEMMA ToSetAppend ==
    ASSUME NEW T, NEW s \in Seq(T), NEW x \in T
    PROVE  ToSet(Append(s, x)) = ToSet(s) \cup {x}
<1> DEFINE n == Len(s)
           t == Append(s, x)
<1>1. /\ n \in Nat /\ t = Append(s, x)
      /\ DOMAIN s = 1..n /\ DOMAIN t = 1..(n + 1)
      /\ t[n + 1] = x /\ \A i \in 1..n : t[i] = s[i]
  OBVIOUS
<1> HIDE DEF n, t
<1>2. ASSUME NEW y \in ToSet(t) PROVE y \in ToSet(s) \cup {x}
  <2>1. PICK i \in 1..(n + 1) : y = t[i]
    BY <1>1 DEF ToSet
  <2>2. i = n + 1 \/ i \in 1..n
    BY <1>1
  <2> QED  BY <1>1, <2>1, <2>2 DEF ToSet
<1>3. ASSUME NEW y \in ToSet(s) PROVE y \in ToSet(t)
  <2>1. PICK i \in 1..n : y = s[i]
    BY <1>1 DEF ToSet
  <2>2. i \in 1..(n + 1)
    BY <1>1
  <2> QED  BY <1>1, <2>1, <2>2 DEF ToSet
<1>4. x \in ToSet(t)
  <2>1. n + 1 \in 1..(n + 1)
    BY <1>1
  <2> QED  BY <1>1, <2>1 DEF ToSet
<1> QED  BY <1>1, <1>2, <1>3, <1>4

\* The separator alone moves no piece and hides nothing from the reader.
LEMMA SeparatorEffect ==
    ASSUME NEW c \in FileType, NEW prefix \in BOOLEAN, NEW f, f = Repaired(c, prefix)
    PROVE  /\ f \in FileType
           /\ f.tail = <<>> \/ f.tail = c.tail
           /\ prefix => f.tail = <<>>
           /\ ~prefix => f = c
           /\ Pieces(c) \subseteq Pieces(f)
           /\ Len(Lines(c)) <= Len(Lines(f))
           /\ \A i \in DOMAIN Lines(f) : \A q \in ToSet(Lines(f)[i]) :
                i \in DOMAIN Lines(c) /\ q \in ToSet(Lines(c)[i])
           /\ Readable(f) = Readable(c)
<1>1. CASE ~prefix
  <2>1. f = c
    BY <1>1 DEF Repaired
  <2>2. Len(Lines(c)) \in Nat
    BY LinesOf
  <2> QED  BY <1>1, <2>1, <2>2
<1>2. CASE prefix
  <2> DEFINE n == Len(c.lines)
  <2>1. f = [lines |-> Append(c.lines, c.tail), tail |-> <<>>]
    BY <1>2 DEF Repaired
  <2>2. f \in FileType /\ f.lines = Lines(c) /\ f.tail = <<>> /\ Len(f.lines) = n + 1
    BY <2>1 DEF FileType, Lines
  <2>3. /\ DOMAIN Lines(c) = 1..(n + 1) /\ n \in Nat /\ Len(Lines(c)) = n + 1
        /\ DOMAIN Lines(f) = 1..(n + 1 + 1) /\ Len(Lines(f)) = n + 1 + 1
        /\ \A i \in 1..(n + 1) : Lines(f)[i] = Lines(c)[i]
        /\ Lines(f)[n + 1 + 1] = <<>>
    BY <2>2, LinesOf
  <2> HIDE DEF n
  <2>4. Pieces(c) \subseteq Pieces(f)
    BY <2>3 DEF Pieces
  <2>5. ASSUME NEW i \in DOMAIN Lines(f), NEW q \in ToSet(Lines(f)[i])
        PROVE  i \in DOMAIN Lines(c) /\ q \in ToSet(Lines(c)[i])
    BY <2>3 DEF ToSet
  <2>6. Readable(f) = Readable(c)
    <3>1. Readable(f) = Gathered(Lines(c))
      BY <2>2, ReadableIs, ParsesFacts
    <3> QED  BY <3>1, ReadableGathers
  <2>7. Len(Lines(c)) <= Len(Lines(f))
    BY <2>3
  <2> QED  BY <1>2, <2>2, <2>4, <2>5, <2>6, <2>7
<1> QED  BY <1>1, <1>2

\* A piece at the end of the tail, with its newline or without.
Ending(c, p, ends) ==
    IF ends THEN [lines |-> Append(c.lines, Append(c.tail, p)), tail |-> <<>>]
    ELSE [lines |-> c.lines, tail |-> Append(c.tail, p)]

LEMMA TailEffect ==
    ASSUME NEW c \in FileType, NEW p \in PieceType, NEW f,
           f \in {Ending(c, p, TRUE), Ending(c, p, FALSE)}
    PROVE  /\ Effect(c, f, p)
           /\ f = Ending(c, p, TRUE) => f.tail = <<>>
           /\ c.tail = <<>> /\ p.whole => Readable(f) = Append(Readable(c), p.id)
<1> DEFINE n == Len(c.lines)
           line == Append(c.tail, p)
           ends == f = Ending(c, p, TRUE)
<1>1. /\ f \in FileType
      /\ ends => f.lines = Append(c.lines, line) /\ f.tail = <<>>
      /\ ~ends => f.lines = c.lines /\ f.tail = line
  <2>1. c.lines \in Seq(Seq(PieceType)) /\ line \in Seq(PieceType)
    BY DEF FileType
  <2>2. /\ ends => f = [lines |-> Append(c.lines, line), tail |-> <<>>]
        /\ ~ends => f = [lines |-> c.lines, tail |-> line]
    BY DEF Ending
  <2> HIDE DEF line, ends
  <2>3. Append(c.lines, line) \in Seq(Seq(PieceType)) /\ <<>> \in Seq(PieceType)
    BY <2>1
  <2>4. CASE ends
    <3>1. f = [lines |-> Append(c.lines, line), tail |-> <<>>]
      BY <2>2, <2>4
    <3>2. f \in FileType
      BY <2>3, <3>1 DEF FileType
    <3>3. f.lines = Append(c.lines, line) /\ f.tail = <<>>
      BY <3>1
    <3> QED  BY <2>4, <3>2, <3>3, Zenon
  <2>5. CASE ~ends
    BY <2>1, <2>2, <2>5 DEF FileType
  <2> QED  BY <2>4, <2>5
<1>2. /\ line \in Seq(PieceType) /\ c.tail \in Seq(PieceType) /\ c.lines \in Seq(Seq(PieceType))
      /\ ToSet(line) = ToSet(c.tail) \cup {p}
  BY ToSetAppend DEF FileType
<1> HIDE DEF line, ends
<1>3. /\ n \in Nat /\ Len(Lines(c)) = n + 1
      /\ DOMAIN Lines(c) = 1..(n + 1) /\ Lines(c)[n + 1] = c.tail
      /\ \A i \in DOMAIN Lines(c) : i = n + 1 \/ i \in 1..n
  BY LinesOf
<1>4. /\ 1..(n + 1) \subseteq DOMAIN Lines(f)
      /\ \A i \in 1..n : Lines(f)[i] = Lines(c)[i]
      /\ Lines(f)[n + 1] = line
      /\ \A i \in DOMAIN Lines(f) : i \in 1..n \/ i = n + 1 \/ Lines(f)[i] = <<>>
  <2>1. CASE ends
    <3>1. /\ Len(f.lines) = n + 1 /\ f.lines[n + 1] = line
          /\ \A i \in 1..n : f.lines[i] = c.lines[i]
      <4>1. f.lines = Append(c.lines, line)
        BY <1>1, <2>1
      <4> QED  BY <1>2, <4>1
    <3>2. DOMAIN Lines(f) = 1..(n + 1 + 1) /\ Lines(f)[n + 1 + 1] = <<>>
      BY <1>1, <2>1, <3>1, LinesOf
    <3>3. \A i \in 1..(n + 1) : Lines(f)[i] = f.lines[i]
      BY <1>1, <3>1, LinesOf
    <3>4. \A i \in 1..n : Lines(c)[i] = c.lines[i]
      BY LinesOf
    <3>5. n + 1 \in 1..(n + 1) /\ 1..n \subseteq 1..(n + 1) /\ 1..(n + 1) \subseteq DOMAIN Lines(f)
      BY <1>3, <3>2
    <3>6. \A i \in 1..n : Lines(f)[i] = Lines(c)[i]
      BY <3>1, <3>3, <3>4, <3>5
    <3>7. Lines(f)[n + 1] = line
      BY <3>1, <3>3, <3>5
    <3>8. \A i \in DOMAIN Lines(f) : i \in 1..n \/ i = n + 1 \/ Lines(f)[i] = <<>>
      <4>1. \A i \in 1..(n + 1 + 1) : i \in 1..n \/ i = n + 1 \/ i = n + 1 + 1
        BY <1>3
      <4> QED  BY <3>2, <4>1
    <3> QED  BY <3>5, <3>6, <3>7, <3>8
  <2>2. CASE ~ends
    BY <1>1, <1>2, <1>3, <2>2, LinesOf
  <2> QED  BY <2>1, <2>2
<1> HIDE DEF n
<1>5. ToSet(Lines(f)[n + 1]) = ToSet(Lines(c)[n + 1]) \cup {p}
  <2>1. Lines(c)[n + 1] = c.tail /\ Lines(f)[n + 1] = line
    BY <1>3, <1>4
  <2>2. ToSet(line) = ToSet(c.tail) \cup {p}
    BY <1>2
  <2> QED  BY <2>1, <2>2, Zenon
<1>6. \A i \in DOMAIN Lines(f) : i \in 1..n \/ i = n + 1 \/ Lines(f)[i] = <<>>
  BY <1>4
<1>7. Placed(c, f, p)
  <2>1. ASSUME NEW i \in DOMAIN Lines(c)
        PROVE  i \in DOMAIN Lines(f) /\ ToSet(Lines(c)[i]) \subseteq ToSet(Lines(f)[i])
    <3>1. i \in DOMAIN Lines(f)
      BY <1>3, <1>4
    <3>2. CASE i = n + 1
      <4>1. ToSet(Lines(f)[i]) = ToSet(Lines(c)[i]) \cup {p}
        BY <1>5, <3>2
      <4> QED  BY <3>1, <4>1
    <3>3. CASE i \in 1..n
      BY <1>4, <3>1, <3>3
    <3> QED  BY <1>3, <3>2, <3>3
  <2>2. Pieces(c) \subseteq Pieces(f)
    BY <2>1 DEF Pieces
  <2>3. ASSUME NEW i \in DOMAIN Lines(f), NEW q \in ToSet(Lines(f)[i])
        PROVE  \/ i \in DOMAIN Lines(c) /\ q \in ToSet(Lines(c)[i])
               \/ q = p /\ i = n + 1
    <3>1. CASE i \in 1..n
      <4>1. i \in DOMAIN Lines(c)
        BY <1>3, <3>1
      <4> QED  BY <1>4, <2>3, <3>1, <4>1
    <3>2. CASE i = n + 1
      <4>1. i \in DOMAIN Lines(c)
        BY <1>3, <3>2
      <4>2. ToSet(Lines(f)[i]) = ToSet(Lines(c)[i]) \cup {p}
        BY <1>5, <3>2
      <4> QED  BY <2>3, <3>2, <4>1, <4>2
    <3>3. CASE Lines(f)[i] = <<>>
      <4>1. ToSet(<<>>) = {}
        BY DEF ToSet
      <4> QED  BY <2>3, <3>3, <4>1
    <3>4. i \in 1..n \/ i = n + 1 \/ Lines(f)[i] = <<>>
      BY <1>6, Zenon
    <3> QED  BY <3>1, <3>2, <3>3, <3>4
  <2>4. n + 1 \in Nat /\ Len(Lines(c)) <= n + 1
    BY <1>3
  <2> QED  BY <2>2, <2>3, <2>4 DEF Placed
<1> DEFINE G == Gathered(c.lines)
<1>8. Readable(f) = IF Parses(line) THEN Append(G, line[1].id) ELSE G
  <2>1. CASE ends
    <3>1. Readable(f) = Gathered(f.lines)
      BY <1>1, <2>1, ReadableIs, ParsesFacts
    <3>2. Gathered(Append(c.lines, line)) = IF Parses(line) THEN Append(G, line[1].id) ELSE G
      BY <1>2, GatheredAppend
    <3> QED  BY <1>1, <2>1, <3>1, <3>2
  <2>2. CASE ~ends
    BY <1>1, <2>2, ReadableIs
  <2> QED  BY <2>1, <2>2
<1>9. Readable(c) = IF Parses(c.tail) THEN Append(G, c.tail[1].id) ELSE G
  BY ReadableIs
<1> HIDE DEF G
<1>10. CASE c.tail = <<>>
  <2>1. Readable(c) = G /\ line = <<p>> /\ line[1] = p /\ (Parses(line) <=> p.whole)
    BY <1>9, <1>10, ParsesFacts DEF line
  <2>2. Readable(f) = IF p.whole THEN Append(Readable(c), p.id) ELSE Readable(c)
    BY <1>8, <2>1
  <2>3. ReadsOn(c, f, p)
    BY <2>2 DEF ReadsOn
  <2>4. ToSet(f.tail) \subseteq ToSet(c.tail) \cup {p}
    <3>1. CASE ends
      <4>1. f.tail = <<>>
        BY <1>1, <3>1
      <4> QED  BY <4>1 DEF ToSet
    <3>2. CASE ~ends
      BY <1>1, <1>2, <3>2
    <3> QED  BY <3>1, <3>2
  <2> QED  BY <1>1, <1>7, <2>2, <2>3, <2>4 DEF Effect, ends
<1>11. CASE c.tail # <<>>
  <2>1. Readable(f) = G
    BY <1>2, <1>8, <1>11, ParsesFacts DEF line
  <2>2. ReadsOn(c, f, p)
    <3>1. CASE Parses(c.tail)
      <4>1. Len(c.tail) = 1
        BY <1>2, <3>1, ParsesFacts
      <4> QED  BY <1>9, <2>1, <3>1, <4>1 DEF ReadsOn
    <3>2. CASE ~Parses(c.tail)
      BY <1>9, <2>1, <3>2 DEF ReadsOn
    <3> QED  BY <3>1, <3>2
  <2>3. ToSet(f.tail) \subseteq ToSet(c.tail) \cup {p}
    <3>1. CASE ends
      <4>1. f.tail = <<>>
        BY <1>1, <3>1
      <4> QED  BY <4>1 DEF ToSet
    <3>2. CASE ~ends
      BY <1>1, <1>2, <3>2
    <3> QED  BY <3>1, <3>2
  <2> QED  BY <1>1, <1>7, <1>11, <2>2, <2>3 DEF Effect, ends
<1> QED  BY <1>10, <1>11 DEF ends

LEMMA EndingIs ==
    ASSUME NEW c \in FileType, NEW p
    PROVE  [c EXCEPT !.tail = Append(@, p)] = Ending(c, p, FALSE)
<1>1. PICK l, t : c = [lines |-> l, tail |-> t]
  BY DEF FileType
<1> QED  BY <1>1 DEF Ending

\* What is written with or without the separator.
LEMMA PieceEffect ==
    ASSUME NEW c \in FileType, NEW p \in PieceType, NEW prefix \in BOOLEAN,
           NEW at, at = Repaired(c, prefix), NEW f,
           f \in {Ending(at, p, TRUE), Ending(at, p, FALSE)}
    PROVE  /\ Effect(c, f, p)
           /\ f = Ending(at, p, TRUE) => f.tail = <<>>
           /\ p.whole /\ (prefix \/ c.tail = <<>>) => Readable(f) = Append(Readable(c), p.id)
<1>1. /\ at \in FileType
      /\ at.tail = <<>> \/ at.tail = c.tail
      /\ prefix => at.tail = <<>>
      /\ ~prefix => at = c
      /\ Pieces(c) \subseteq Pieces(at)
      /\ Len(Lines(c)) <= Len(Lines(at))
      /\ \A i \in DOMAIN Lines(at) : \A q \in ToSet(Lines(at)[i]) :
           i \in DOMAIN Lines(c) /\ q \in ToSet(Lines(c)[i])
      /\ Readable(at) = Readable(c)
  BY SeparatorEffect
<1>2. /\ Effect(at, f, p)
      /\ f = Ending(at, p, TRUE) => f.tail = <<>>
      /\ at.tail = <<>> /\ p.whole => Readable(f) = Append(Readable(at), p.id)
  <2>1. at \in FileType
    BY <1>1
  <2> QED  BY <2>1, TailEffect
<1>3. CASE ~prefix
  BY <1>1, <1>2, <1>3
<1>4. CASE prefix
  <2>1. Placed(c, f, p)
    <3>1. PICK k \in Nat : /\ Len(Lines(at)) <= k
                           /\ \A i \in DOMAIN Lines(f) : \A q \in ToSet(Lines(f)[i]) :
                                \/ i \in DOMAIN Lines(at) /\ q \in ToSet(Lines(at)[i])
                                \/ q = p /\ i = k
      BY <1>2 DEF Effect, Placed
    <3>2. Len(Lines(c)) <= k
      BY <1>1, <3>1, LinesOf
    <3>3. Pieces(at) \subseteq Pieces(f)
      BY <1>2 DEF Effect, Placed
    <3>4. \A i \in DOMAIN Lines(f) : \A q \in ToSet(Lines(f)[i]) :
             \/ i \in DOMAIN Lines(c) /\ q \in ToSet(Lines(c)[i])
             \/ q = p /\ i = k
      BY <1>1, <3>1
    <3> QED  BY <1>1, <3>2, <3>3, <3>4 DEF Placed
  <2>2. ReadsOn(c, f, p)
    <3>1. Len(at.tail) # 1
      <4>1. at.tail = <<>>
        BY <1>1, <1>4
      <4> QED  BY <4>1
    <3> QED  BY <1>1, <1>2, <3>1 DEF Effect, ReadsOn
  <2>3. ToSet(f.tail) \subseteq ToSet(c.tail) \cup {p}
    <3>1. ToSet(f.tail) \subseteq ToSet(at.tail) \cup {p}
      BY <1>2 DEF Effect
    <3>2. ToSet(at.tail) = {}
      <4>1. at.tail = <<>>
        BY <1>1, <1>4
      <4> QED  BY <4>1 DEF ToSet
    <3> QED  BY <3>1, <3>2
  <2>4. f \in FileType
    BY <1>2 DEF Effect
  <2> QED  BY <1>1, <1>2, <1>4, <2>1, <2>2, <2>3, <2>4 DEF Effect
<1> QED  BY <1>3, <1>4

LEMMA WholeEffect ==
    ASSUME NEW c \in FileType, NEW p \in PieceType, p.whole, NEW prefix \in BOOLEAN, NEW f,
           f = Ending(Repaired(c, prefix), p, TRUE)
    PROVE  /\ Effect(c, f, p)
           /\ f.tail = <<>>
           /\ prefix \/ c.tail = <<>> => Readable(f) = Append(Readable(c), p.id)
BY PieceEffect

LEMMA SeparatorIsEffect ==
    ASSUME NEW c \in FileType, NEW p, NEW prefix \in BOOLEAN, NEW f, f = Repaired(c, prefix)
    PROVE  Effect(c, f, p)
<1>1. /\ f \in FileType
      /\ f.tail = <<>> \/ f.tail = c.tail
      /\ Pieces(c) \subseteq Pieces(f)
      /\ \A i \in DOMAIN Lines(f) : \A q \in ToSet(Lines(f)[i]) :
           i \in DOMAIN Lines(c) /\ q \in ToSet(Lines(c)[i])
      /\ Readable(f) = Readable(c)
  BY SeparatorEffect
<1>2. Placed(c, f, p)
  <2>1. Len(Lines(c)) \in Nat /\ Len(Lines(c)) <= Len(Lines(c))
    BY LinesOf
  <2> QED  BY <1>1, <2>1 DEF Placed
<1>3. ToSet(f.tail) \subseteq ToSet(c.tail) \cup {p}
  <2>1. ToSet(<<>>) = {}
    BY DEF ToSet
  <2> QED  BY <1>1, <2>1
<1> QED  BY <1>1, <1>2, <1>3 DEF Effect, ReadsOn

\* The reader loses at most what was in the tail.
LEMMA EffectReads ==
    ASSUME NEW c \in FileType, NEW f, NEW p, p.id \in 1..APPENDS, Effect(c, f, p)
    PROVE  /\ ToSet(Readable(f)) \subseteq ToSet(Readable(c)) \cup {p.id}
           /\ \A r \in ToSet(Readable(c)) :
                r \in ToSet(Readable(f)) \/ \E q \in ToSet(c.tail) : q.id = r
<1> DEFINE R == 1..APPENDS
<1>1. Readable(c) \in Seq(R) /\ Readable(f) \in Seq(R) /\ p.id \in R
  BY ReadableIs DEF Effect
<1>2. \A t \in Seq(PieceType) : Len(t) = 1 => t[1] \in ToSet(t) /\ t[1].id \in R
  <2>1. ASSUME NEW t \in Seq(PieceType), Len(t) = 1 PROVE t[1] \in ToSet(t) /\ t[1].id \in R
    <3>1. t[1] \in PieceType /\ 1 \in DOMAIN t
      BY <2>1
    <3> QED  BY <3>1 DEF ToSet, PieceType
  <2> QED  BY <2>1
<1> HIDE DEF R
<1>3. CASE Readable(f) = Readable(c)
  BY <1>3
<1>4. CASE Readable(f) = Append(Readable(c), p.id)
  <2>1. ToSet(Readable(f)) = ToSet(Readable(c)) \cup {p.id}
    <3>1. \A s \in Seq(R), x \in R : ToSet(Append(s, x)) = ToSet(s) \cup {x}
      BY ToSetAppend
    <3> QED  BY <1>1, <1>4, <3>1
  <2> QED  BY <2>1
<1>5. CASE Readable(c) = Append(Readable(f), c.tail[1].id) /\ Len(c.tail) = 1
  <2>1. c.tail \in Seq(PieceType)
    BY DEF FileType
  <2>2. c.tail[1] \in ToSet(c.tail) /\ c.tail[1].id \in R
    BY <1>2, <1>5, <2>1
  <2>3. ToSet(Readable(c)) = ToSet(Readable(f)) \cup {c.tail[1].id}
    <3>1. \A s \in Seq(R), x \in R : ToSet(Append(s, x)) = ToSet(s) \cup {x}
      BY ToSetAppend
    <3> QED  BY <1>1, <1>5, <2>2, <3>1
  <2> QED  BY <2>2, <2>3
<1> QED  BY <1>3, <1>4, <1>5 DEF Effect, ReadsOn

\* What is read of a file was written into it, in that order.
LEMMA ReadableOrigins ==
    ASSUME NEW c \in FileType
    PROVE  /\ \A i \in DOMAIN Readable(c) : \E a \in DOMAIN Lines(c) :
                \E p \in ToSet(Lines(c)[a]) : p.id = Readable(c)[i]
           /\ \A i, j \in DOMAIN Readable(c) : i < j =>
                \E a, b \in DOMAIN Lines(c) :
                  /\ a < b
                  /\ \E p \in ToSet(Lines(c)[a]) : p.id = Readable(c)[i]
                  /\ \E p \in ToSet(Lines(c)[b]) : p.id = Readable(c)[j]
<1> DEFINE T == Seq(PieceType)
           ls == Lines(c)
<1>1. \A x \in T : Parses(x) => x[1].id \in 1..APPENDS /\ x[1] \in ToSet(x)
  <2>1. ASSUME NEW x \in T, Parses(x) PROVE x[1].id \in 1..APPENDS /\ x[1] \in ToSet(x)
    <3>1. x[1] \in PieceType /\ 1 \in DOMAIN x
      BY <2>1 DEF Parses
    <3> QED  BY <3>1 DEF PieceType, ToSet
  <2> QED  BY <2>1
<1>2. ls \in Seq(T)
  BY LinesOf
<1>3. \A a \in DOMAIN ls : ls[a] \in T
  BY <1>2
<1> HIDE DEF T, ls
<1>4. Origins(ls, Gathered(ls))
  BY <1>1, <1>2, GatheredOrigins
<1>5. Readable(c) = Gathered(ls)
  BY ReadableGathers DEF ls
<1>6. ASSUME NEW i \in DOMAIN Readable(c)
      PROVE  \E a \in DOMAIN ls : \E p \in ToSet(ls[a]) : p.id = Readable(c)[i]
  <2>1. PICK a \in DOMAIN ls : Parses(ls[a]) /\ Readable(c)[i] = ls[a][1].id
    BY <1>4, <1>5, <1>6 DEF Origins
  <2> QED  BY <1>1, <1>3, <2>1
<1>7. ASSUME NEW i \in DOMAIN Readable(c), NEW j \in DOMAIN Readable(c), i < j
      PROVE  \E a, b \in DOMAIN ls :
               /\ a < b
               /\ \E p \in ToSet(ls[a]) : p.id = Readable(c)[i]
               /\ \E p \in ToSet(ls[b]) : p.id = Readable(c)[j]
  <2>1. PICK a \in DOMAIN ls, b \in DOMAIN ls :
          /\ a < b /\ Parses(ls[a]) /\ Parses(ls[b])
          /\ Readable(c)[i] = ls[a][1].id /\ Readable(c)[j] = ls[b][1].id
    BY <1>4, <1>5, <1>7 DEF Origins
  <2> QED  BY <1>1, <1>3, <2>1
<1> QED  BY <1>6, <1>7 DEF ls

-----------------------------------------------------------------------------
(* The inductive invariant *)

Live(w) == pc[w] \in {"rendered", "opened"}

CallType == [id : 0..APPENDS, month : Months, size : Nat, seen : Nat,
             prefix : BOOLEAN, orphan : BOOLEAN]

Typed ==
    /\ DOMAIN files \subseteq Months /\ files \in [DOMAIN files -> FileType]
    /\ month \in Months
    /\ pc \in [Writers -> {"idle", "rendered", "opened", "dead"}]
    /\ call \in [Writers -> CallType]
    /\ \A w \in Writers : Live(w) => /\ call[w].id \in 1..APPENDS
                                     /\ call[w].size \in 1..MAX_JOURNAL_LINE_BYTES
    /\ lock \in [Months -> {None} \cup Writers]
    /\ windows \in BOOLEAN
    /\ taken \in 0..APPENDS /\ tears \in 0..TEARS
    /\ owed \subseteq [id : 1..APPENDS, whole : BOOLEAN]

\* Only a file that was opened can be pruned under its writer.
Unpruned == \A w \in Writers : pc[w] = "rendered" => ~call[w].orphan

\* The file a writer found is there until it is pruned under it; and on
\* Windows the lock keeps it as the writer found it.
Serial ==
    \A w \in Writers : pc[w] = "opened" =>
      /\ ~call[w].orphan => call[w].month \in DOMAIN files
      /\ windows => LET now == Content(call[w].month)
                    IN  /\ lock[call[w].month] = w
                        /\ ~call[w].orphan
                        /\ call[w].seen = Len(now.lines)
                        /\ call[w].prefix = (now.tail # <<>>)

\* Who wrote what: one writer to an identity, identities already given out,
\* months already begun.
Known ==
    /\ \A m, n \in Months : \A p \in Pieces(Content(m)), q \in Pieces(Content(n)) :
         p.id = q.id => p.by = q.by
    /\ \A m \in Months : \A p \in Pieces(Content(m)) : m <= month /\ p.id <= taken
    /\ \A r \in owed : r.id <= taken

\* A call in progress: its identity is nobody else's and nowhere yet, and is
\* beyond all that its writer has written before.
Fresh ==
    \A w \in Writers : Live(w) =>
      /\ call[w].id <= taken /\ call[w].month <= month
      /\ \A v \in Writers : Live(v) /\ v # w => call[v].id # call[w].id
      /\ \A r \in owed : r.id # call[w].id
      /\ \A m \in Months : \A p \in Pieces(Content(m)) :
           /\ p.id # call[w].id
           /\ p.by = w => p.id < call[w].id /\ m <= call[w].month

\* The lines of the months, in order, hold each writer's records in order.
InOrder ==
    \A m, n \in Months :
      \A i \in DOMAIN Lines(Content(m)), j \in DOMAIN Lines(Content(n)) :
        m < n \/ (m = n /\ i < j) =>
          \A p \in ToSet(Lines(Content(m))[i]), q \in ToSet(Lines(Content(n))[j]) :
            p.by = q.by => p.id < q.id

\* Nothing acknowledged whole is in a line without its newline.
TailNotOwed ==
    \A m \in Months : \A p \in ToSet(Content(m).tail) : [id |-> p.id, whole |-> TRUE] \notin owed

\* Every interrupted write may still cost a record as long as the tail it
\* left is there.
TornMonths == {m \in Months : Content(m).tail # <<>>}

Losses ==
    /\ ~windows => Cardinality(Lost) + Cardinality(TornMonths) <= tears
    /\ windows => Lost = {}

IInv == Typed /\ Unpruned /\ Serial /\ Known /\ Fresh /\ InOrder /\ TailNotOwed /\ Losses

-----------------------------------------------------------------------------
(* What a step does: the facts every invariant is proved from *)

\* w's write, all of it or the beginning, reaches the file it opened.
Wrote(w, m) ==
    /\ pc[w] = "opened" /\ ~call[w].orphan /\ m = call[w].month /\ ~Live(w)'
    /\ \A k \in Months \ {m} : Content(k)' = Content(k)
    /\ \E b \in BOOLEAN : Effect(Content(m), Content(m)', Piece(w, b))

\* The files stay as they are; or no writer reaches one.
Same == \A m \in Months : Content(m)' = Content(m)

Quiet == \A m \in Months : Content(m)' = Content(m) \/ Content(m)' = EmptyFile

\* w is in the call it was in.
Stays(w) == Live(w) /\ call'[w].id = call[w].id /\ call'[w].month = call[w].month

\* w has just been given the next identity, and nobody does anything else.
Begins(w) ==
    /\ Quiet /\ owed' = owed /\ month' = month
    /\ taken' = taken + 1 /\ call'[w].id = taken + 1 /\ call'[w].month = month
    /\ \A v \in Writers \ {w} : Live(v)' => Stays(v)

StepFacts ==
    /\ taken <= taken' /\ month <= month'
    /\ \/ Same
       \/ Quiet /\ \E keep \in Months : Prune(keep)
       \/ \E w \in Writers, m \in Months : Wrote(w, m)
    /\ (\A w \in Writers : Live(w)' => Stays(w)) \/ \E w \in Writers : Begins(w)
    /\ \A r \in owed' : \/ r \in owed
                        \/ \E w \in Writers, m \in Months :
                             /\ Wrote(w, m) /\ r.id = call[w].id
                             /\ r.whole => Content(m)'.tail = <<>>

LEMMA ContentType ==
    Typed => \A m \in Months : Content(m) \in FileType
BY DEF Typed, Content, EmptyFile, FileType

\* What a writer puts into the file it found.
LEMMA WriteEffect ==
    ASSUME Typed, Serial, NEW w \in Writers, pc[w] = "opened", ~call[w].orphan,
           NEW c, c = Content(call[w].month)
    PROVE  /\ \A b \in BOOLEAN : /\ Piece(w, b) \in PieceType /\ Piece(w, b).id = call[w].id
                                 /\ Piece(w, b).by = w
           /\ Effect(c, WholeLine(w), Piece(w, TRUE))
           /\ WholeLine(w).tail = <<>>
           /\ call[w].prefix \/ c.tail = <<>> =>
                Readable(WholeLine(w)) = Append(Readable(c), call[w].id)
           /\ \A f \in Torn(w) : \E b \in BOOLEAN : Effect(c, f, Piece(w, b))
<1>1. c \in FileType /\ call[w].prefix \in BOOLEAN
  BY ContentType DEF Typed, CallType
<1>2. Target(w) = c
  BY DEF Target, Serial, Typed
<1>3. ASSUME NEW b \in BOOLEAN
      PROVE  Piece(w, b) \in PieceType /\ Piece(w, b).id = call[w].id /\ Piece(w, b).by = w
             /\ Piece(w, b).whole = b
  BY DEF Piece, PieceType, Typed, Live
<1> DEFINE at == Repaired(c, call[w].prefix)
<1>4. WholeLine(w) = Ending(at, Piece(w, TRUE), TRUE)
  BY <1>2 DEF WholeLine, Ending
<1>5. at \in FileType
  BY <1>1, SeparatorEffect
<1>6. ASSUME NEW f \in Torn(w)
      PROVE  \E b \in BOOLEAN : Effect(c, f, Piece(w, b))
  <2>1. f = at \/ \E b \in BOOLEAN : f = [at EXCEPT !.tail = Append(@, Piece(w, b))]
    BY <1>2 DEF Torn
  <2>2. CASE f = at
    BY <1>1, <2>2, SeparatorIsEffect
  <2>3. CASE \E b \in BOOLEAN : f = [at EXCEPT !.tail = Append(@, Piece(w, b))]
    <3>1. PICK b \in BOOLEAN : f = [at EXCEPT !.tail = Append(@, Piece(w, b))]
      BY <2>3
    <3>2. f = Ending(at, Piece(w, b), FALSE)
      BY <1>5, <3>1, EndingIs
    <3>3. Piece(w, b) \in PieceType
      BY <1>3
    <3> HIDE DEF at
    <3>4. Effect(c, f, Piece(w, b))
      BY <1>1, <3>2, <3>3, PieceEffect DEF at
    <3> QED  BY <3>4
  <2> QED  BY <2>1, <2>2, <2>3
<1>7. Piece(w, TRUE) \in PieceType /\ Piece(w, TRUE).whole /\ Piece(w, TRUE).id = call[w].id
  BY <1>3
<1>8. /\ Effect(c, WholeLine(w), Piece(w, TRUE))
      /\ WholeLine(w).tail = <<>>
      /\ call[w].prefix \/ c.tail = <<>> =>
           Readable(WholeLine(w)) = Append(Readable(c), call[w].id)
  <2>1. /\ Effect(c, WholeLine(w), Piece(w, TRUE))
        /\ WholeLine(w).tail = <<>>
        /\ call[w].prefix \/ c.tail = <<>> =>
             Readable(WholeLine(w)) = Append(Readable(c), Piece(w, TRUE).id)
    BY <1>1, <1>4, <1>7, WholeEffect, Zenon
  <2> QED  BY <1>7, <2>1
<1> QED  BY <1>3, <1>6, <1>8

\* The files after a step that touches none, and after w has written f.
LEMMA SameFiles ==
    ASSUME files' = files
    PROVE  \A m \in Months : Content(m)' = Content(m)
BY DEF Content

LEMMA FileWritten ==
    ASSUME Typed, Serial, NEW w \in Writers, pc[w] = "opened", ~call[w].orphan,
           NEW m, m = call[w].month, NEW f, files' = [files EXCEPT ![m] = f]
    PROVE  /\ Content(m)' = f
           /\ \A k \in Months \ {m} : Content(k)' = Content(k)
           /\ DOMAIN files' = DOMAIN files
<1>1. m \in DOMAIN files
  BY DEF Serial
<1> QED  BY <1>1 DEF Content

-----------------------------------------------------------------------------
(* Types *)

LEMMA TypedInit == Init => Typed
<1>1. 1 \in Months
  BY JournalAssumption DEF Months
<1> QED  BY <1>1, JournalAssumption DEF Init, Typed, NoCall, CallType, Live

\* The fields of the calls and the locks when a writer returns.
LEMMA ReturnTyped ==
    ASSUME Typed, NEW w \in Writers, Return(w)
    PROVE  /\ pc' \in [Writers -> {"idle", "rendered", "opened", "dead"}]
           /\ call' \in [Writers -> CallType]
           /\ \A v \in Writers : Live(v)' => v # w /\ Live(v) /\ call'[v] = call[v] /\ pc'[v] = pc[v]
           /\ lock' \in [Months -> {None} \cup Writers]
<1>1. NoCall \in CallType
  <2>1. 1 \in Months
    BY JournalAssumption DEF Months
  <2> QED  BY <2>1, JournalAssumption DEF NoCall, CallType
<1>2. call' \in [Writers -> CallType] /\ \A v \in Writers : v # w => call'[v] = call[v]
  BY <1>1 DEF Return, Typed
<1>3. /\ pc' \in [Writers -> {"idle", "rendered", "opened", "dead"}]
      /\ pc'[w] = "idle" /\ \A v \in Writers : v # w => pc'[v] = pc[v]
  BY DEF Return, Typed
<1>4. lock' \in [Months -> {None} \cup Writers]
  BY DEF Return, Typed
<1> QED  BY <1>2, <1>3, <1>4 DEF Live

LEMMA TypedStep ==
    ASSUME Typed, Serial, [Next]_vars
    PROVE  Typed'
<1>0. \A w \in Writers : pc[w] = "opened" /\ ~call[w].orphan =>
         WholeLine(w) \in FileType /\ Torn(w) \subseteq FileType
  <2>1. SUFFICES ASSUME NEW w \in Writers, pc[w] = "opened", ~call[w].orphan
                 PROVE  WholeLine(w) \in FileType /\ Torn(w) \subseteq FileType
    OBVIOUS
  <2> QED  BY <2>1, WriteEffect DEF Effect
<1>1. ASSUME NEW w \in Writers, NEW e \in Entries, Call(w, e) PROVE Typed'
  <2>1. CASE Render(e) = None
    BY <1>1, <2>1, JournalAssumption DEF Call, Typed, Live
  <2>2. CASE Render(e) # None
    <3>1. Render(e) \in 1..MAX_JOURNAL_LINE_BYTES /\ MAX_JOURNAL_LINE_BYTES \in Nat
      BY <2>2, RenderType, EntriesAssumption
    <3>2. taken + 1 \in 1..APPENDS
      BY <1>1, JournalAssumption DEF Call, Typed
    <3> DEFINE new == [NoCall EXCEPT !.id = taken + 1, !.month = month, !.size = Render(e)]
    <3>3. new \in CallType /\ new.id = taken + 1 /\ new.size = Render(e)
      <4>1. Render(e) \in Nat /\ taken + 1 \in 0..APPENDS /\ month \in Months
        BY <3>1, <3>2 DEF Typed
      <4> QED  BY <4>1 DEF NoCall, CallType
    <3>4. call' = [call EXCEPT ![w] = new] /\ pc' = [pc EXCEPT ![w] = "rendered"]
      BY <1>1, <2>2 DEF Call
    <3> HIDE DEF new
    <3>5. call' \in [Writers -> CallType] /\ call'[w] = new
          /\ \A v \in Writers : v # w => call'[v] = call[v]
      BY <3>3, <3>4 DEF Typed
    <3>6. /\ pc' \in [Writers -> {"idle", "rendered", "opened", "dead"}]
          /\ \A v \in Writers : v # w => pc'[v] = pc[v]
      BY <3>4 DEF Typed
    <3>7. \A v \in Writers : Live(v)' => /\ call'[v].id \in 1..APPENDS
                                       /\ call'[v].size \in 1..MAX_JOURNAL_LINE_BYTES
      BY <3>1, <3>2, <3>3, <3>5, <3>6 DEF Typed, Live
    <3> QED  BY <1>1, <3>2, <3>5, <3>6, <3>7 DEF Call, Typed
  <2> QED  BY <2>1, <2>2
<1>2. ASSUME NEW w \in Writers, Open(w) PROVE Typed'
  <2> DEFINE m == call[w].month
  <2>1. m \in Months
    BY DEF Typed, CallType
  <2>2. \A k \in DOMAIN files \cup {m} : Content(k) \in FileType
    BY <2>1, ContentType DEF Typed
  <2>3. files' \in [DOMAIN files \cup {m} -> FileType] /\ DOMAIN files' = DOMAIN files \cup {m}
    BY <1>2, <2>2 DEF Open
  <2>4. (Content(m).tail # <<>>) \in BOOLEAN /\ Len(Content(m).lines) \in Nat
    BY <2>2 DEF FileType
  <2>5. /\ call' \in [Writers -> CallType]
        /\ \A v \in Writers : call'[v].id = call[v].id /\ call'[v].size = call[v].size
    <3>1. call' = [call EXCEPT ![w] = [call[w] EXCEPT !.prefix = Content(m).tail # <<>>,
                                                       !.seen = Len(Content(m).lines)]]
      BY <1>2 DEF Open
    <3> DEFINE found == Content(m).tail # <<>>
               count == Len(Content(m).lines)
               new == [call[w] EXCEPT !.prefix = found, !.seen = count]
    <3>2. new \in CallType /\ new.id = call[w].id /\ new.size = call[w].size
      <4>1. found \in BOOLEAN /\ count \in Nat /\ call[w] \in CallType
        BY <2>4 DEF Typed
      <4> HIDE DEF found, count
      <4> QED  BY <4>1 DEF CallType
    <3> HIDE DEF new
    <3> QED  BY <3>1, <3>2 DEF Typed, new
  <2>6. /\ pc' \in [Writers -> {"idle", "rendered", "opened", "dead"}]
        /\ \A v \in Writers : Live(v)' => Live(v)
    BY <1>2 DEF Open, Typed, Live
  <2>7. lock' \in [Months -> {None} \cup Writers]
    BY <1>2 DEF Open, Typed
  <2>8. \A v \in Writers : Live(v)' => /\ call'[v].id \in 1..APPENDS
                                     /\ call'[v].size \in 1..MAX_JOURNAL_LINE_BYTES
    BY <2>5, <2>6 DEF Typed
  <2>9. DOMAIN files' \subseteq Months /\ files' \in [DOMAIN files' -> FileType]
    BY <2>1, <2>3 DEF Typed
  <2> QED  BY <1>2, <2>5, <2>6, <2>7, <2>8, <2>9 DEF Open, Typed
<1>3. ASSUME NEW w \in Writers, Refused(w) PROVE Typed'
  <2>1. Return(w)
    BY <1>3 DEF Refused
  <2> QED  BY <1>3, <2>1, ReturnTyped DEF Refused, Typed
<1>4. ASSUME NEW w \in Writers, Write(w) PROVE Typed'
  <2>1. Return(w) /\ pc[w] = "opened"
    BY <1>4 DEF Write
  <2>2. owed' \subseteq [id : 1..APPENDS, whole : BOOLEAN]
    <3>1. call[w].id \in 1..APPENDS /\ owed \subseteq [id : 1..APPENDS, whole : BOOLEAN]
      BY <2>1 DEF Typed, Live
    <3>2. owed' \subseteq owed \cup {[id |-> call[w].id, whole |-> TRUE]}
      BY <1>4 DEF Write
    <3>3. [id |-> call[w].id, whole |-> TRUE] \in [id : 1..APPENDS, whole : BOOLEAN]
      BY <3>1
    <3> QED  BY <3>1, <3>2, <3>3, Zenon
  <2>3. DOMAIN files' \subseteq Months /\ files' \in [DOMAIN files' -> FileType]
    <3>1. CASE call[w].orphan
      BY <1>4, <3>1 DEF Write, Typed
    <3>2. CASE ~call[w].orphan
      <4>1. WholeLine(w) \in FileType
        BY <1>0, <2>1, <3>2
      <4>2. files' = [files EXCEPT ![call[w].month] = WholeLine(w)]
        BY <1>4, <3>2 DEF Write
      <4> QED  BY <4>1, <4>2 DEF Typed
    <3> QED  BY <3>1, <3>2
  <2> QED  BY <1>4, <2>1, <2>2, <2>3, ReturnTyped DEF Write, Typed
<1>5. ASSUME NEW w \in Writers, WriteShort(w) PROVE Typed'
  <2>1. Return(w) /\ pc[w] = "opened" /\ ~call[w].orphan
    BY <1>5 DEF WriteShort
  <2>2. owed' \subseteq [id : 1..APPENDS, whole : BOOLEAN]
    <3>1. call[w].id \in 1..APPENDS /\ owed \subseteq [id : 1..APPENDS, whole : BOOLEAN]
      BY <2>1 DEF Typed, Live
    <3>2. owed' \subseteq owed \cup {[id |-> call[w].id, whole |-> FALSE]}
      BY <1>5 DEF WriteShort
    <3>3. [id |-> call[w].id, whole |-> FALSE] \in [id : 1..APPENDS, whole : BOOLEAN]
      BY <3>1
    <3> QED  BY <3>1, <3>2, <3>3, Zenon
  <2>3. DOMAIN files' \subseteq Months /\ files' \in [DOMAIN files' -> FileType]
    <3>1. PICK f \in Torn(w) : files' = [files EXCEPT ![call[w].month] = f]
      BY <1>5 DEF WriteShort
    <3>2. f \in FileType
      BY <1>0, <2>1
    <3> QED  BY <3>1, <3>2 DEF Typed
  <2>4. tears' \in 0..TEARS
    BY <1>5, JournalAssumption DEF WriteShort, Typed
  <2> QED  BY <1>5, <2>1, <2>2, <2>3, <2>4, ReturnTyped DEF WriteShort, Typed
<1>6. ASSUME NEW w \in Writers, Die(w) PROVE Typed'
  <2>1. /\ pc' \in [Writers -> {"idle", "rendered", "opened", "dead"}]
        /\ \A v \in Writers : Live(v)' => Live(v)
    BY <1>6 DEF Die, Typed, Live
  <2>2. DOMAIN files' \subseteq Months /\ files' \in [DOMAIN files' -> FileType] /\ tears' \in 0..TEARS
    <3>1. CASE UNCHANGED <<files, tears>>
      BY <3>1 DEF Typed
    <3>2. CASE /\ pc[w] = "opened" /\ tears < TEARS /\ ~call[w].orphan
               /\ \E f \in Torn(w) : files' = [files EXCEPT ![call[w].month] = f]
               /\ tears' = tears + 1
      <4>1. PICK f \in Torn(w) : files' = [files EXCEPT ![call[w].month] = f]
        BY <3>2
      <4>2. f \in FileType
        BY <1>0, <3>2
      <4>3. DOMAIN files' \subseteq Months /\ files' \in [DOMAIN files' -> FileType]
        BY <4>1, <4>2 DEF Typed
      <4>4. tears' \in 0..TEARS
        BY <3>2, JournalAssumption DEF Typed
      <4> QED  BY <4>3, <4>4
    <3> QED  BY <1>6, <3>1, <3>2 DEF Die
  <2> QED  BY <1>6, <2>1, <2>2 DEF Die, Typed
<1>7. CASE NextMonth
  BY <1>7, JournalAssumption DEF NextMonth, Typed, Months, Live
<1>8. ASSUME NEW keep \in Months, Prune(keep) PROVE Typed'
  <2>1. PICK gone \in SUBSET DOMAIN files :
          /\ files' = [m \in DOMAIN files \ gone |-> files[m]]
          /\ call' = [w \in Writers |->
                        IF pc[w] = "opened" /\ call[w].month \in gone
                        THEN [call[w] EXCEPT !.orphan = TRUE] ELSE call[w]]
          /\ owed' = {r \in owed : \A m \in gone : r.id \notin Ids(files[m])}
    BY <1>8 DEF Prune
  <2>2. DOMAIN files' \subseteq Months /\ files' \in [DOMAIN files' -> FileType]
    BY <2>1 DEF Typed
  <2>3. /\ call' \in [Writers -> CallType]
        /\ \A v \in Writers : call'[v].id = call[v].id /\ call'[v].size = call[v].size
    <3>1. \A c \in CallType : LET d == [c EXCEPT !.orphan = TRUE]
                              IN  d \in CallType /\ d.id = c.id /\ d.size = c.size
      BY DEF CallType
    <3>2. call \in [Writers -> CallType]
      BY DEF Typed
    <3> QED  BY <2>1, <3>1, <3>2
  <2>4. owed' \subseteq owed
    BY <2>1
  <2>5. UNCHANGED <<month, pc, lock, windows, taken, tears>>
    BY <1>8 DEF Prune
  <2> QED  BY <2>2, <2>3, <2>4, <2>5 DEF Typed, Live
<1>9. CASE RemoveLock
  BY <1>9 DEF RemoveLock, Typed, Live
<1>10. CASE UNCHANGED vars
  BY <1>10 DEF vars, Typed, Live
<1> QED  BY <1>1, <1>2, <1>3, <1>4, <1>5, <1>6, <1>7, <1>8, <1>9, <1>10 DEF Next

-----------------------------------------------------------------------------
(* Where appends are serialized *)

\* Nothing marks a call that has not opened its file.
LEMMA UnprunedStep ==
    ASSUME Typed, Unpruned, [Next]_vars
    PROVE  Unpruned'
<1>1. ASSUME NEW w \in Writers, NEW e \in Entries, Call(w, e) PROVE Unpruned'
  <2>1. CASE Render(e) = None
    BY <1>1, <2>1 DEF Call, Unpruned
  <2>2. CASE Render(e) # None
    <3> DEFINE new == [NoCall EXCEPT !.id = taken + 1, !.month = month, !.size = Render(e)]
    <3>1. ~new.orphan
      BY DEF NoCall
    <3>2. call' = [call EXCEPT ![w] = new] /\ pc' = [pc EXCEPT ![w] = "rendered"]
      BY <1>1, <2>2 DEF Call
    <3> HIDE DEF new
    <3> QED  BY <3>1, <3>2 DEF Unpruned, Typed
  <2> QED  BY <2>1, <2>2
<1>2. ASSUME NEW w \in Writers, Open(w) PROVE Unpruned'
  BY <1>2 DEF Open, Unpruned, Typed
<1>3. ASSUME NEW w \in Writers, Return(w) PROVE Unpruned'
  BY <1>3 DEF Return, Unpruned, Typed
<1>4. ASSUME NEW w \in Writers, Refused(w) \/ Write(w) \/ WriteShort(w) PROVE Unpruned'
  BY <1>3, <1>4 DEF Refused, Write, WriteShort
<1>5. ASSUME NEW w \in Writers, Die(w) PROVE Unpruned'
  BY <1>5 DEF Die, Unpruned, Typed
<1>6. ASSUME NEW keep \in Months, Prune(keep) PROVE Unpruned'
  BY <1>6 DEF Prune, Unpruned
<1>7. CASE NextMonth \/ RemoveLock \/ UNCHANGED vars
  BY <1>7 DEF NextMonth, RemoveLock, vars, Unpruned
<1> QED  BY <1>1, <1>2, <1>4, <1>5, <1>6, <1>7 DEF Next

LEMMA SerialStep ==
    ASSUME Typed, Unpruned, Serial, [Next]_vars
    PROVE  Serial'
<1> DEFINE Holds(v) ==
      /\ ~call[v].orphan => call[v].month \in DOMAIN files
      /\ windows => LET now == Content(call[v].month)
                    IN  /\ lock[call[v].month] = v
                        /\ ~call[v].orphan
                        /\ call[v].seen = Len(now.lines)
                        /\ call[v].prefix = (now.tail # <<>>)
<1>0. (\A v \in Writers : pc'[v] = "opened" => Holds(v)') => Serial'
  BY DEF Serial
<1>1. \A v \in Writers : pc[v] = "opened" => Holds(v)
  BY DEF Serial
<1>2. \A v \in Writers : \A m \in Months :
        /\ pc[v] = "opened" /\ m = call[v].month
        /\ pc'[v] = "opened" /\ call'[v] = call[v] /\ windows' = windows
        /\ m \in DOMAIN files => m \in DOMAIN files'
        /\ windows => lock'[m] = lock[m] /\ Content(m)' = Content(m)
        => Holds(v)'
  <2>1. SUFFICES ASSUME NEW v \in Writers, NEW m \in Months,
                        pc[v] = "opened", m = call[v].month,
                        pc'[v] = "opened", call'[v] = call[v], windows' = windows,
                        m \in DOMAIN files => m \in DOMAIN files',
                        windows => lock'[m] = lock[m] /\ Content(m)' = Content(m)
                 PROVE  Holds(v)'
    OBVIOUS
  <2>2. ~call[v].orphan => m \in DOMAIN files
    BY <1>1, <2>1
  <2>3. ~call'[v].orphan => call'[v].month \in DOMAIN files'
    BY <2>1, <2>2
  <2>4. ASSUME windows
        PROVE  /\ lock'[m] = v /\ ~call'[v].orphan
               /\ call'[v].seen = Len(Content(m)'.lines)
               /\ call'[v].prefix = (Content(m)'.tail # <<>>)
    BY <1>1, <2>1, <2>4
  <2>5. m = call'[v].month
    BY <2>1
  <2> QED  BY <2>1, <2>3, <2>4, <2>5 DEF Content
<1> HIDE DEF Holds
<1>3. SUFFICES ASSUME NEW v \in Writers, pc'[v] = "opened"
               PROVE  Holds(v)'
  BY <1>0
<1>4. PICK m \in Months : m = call[v].month
  BY DEF Typed, CallType
<1>5. pc[v] = "opened" /\ windows => lock[m] = v /\ ~call[v].orphan
  BY <1>1, <1>3, <1>4 DEF Holds
\* What another writer wrote is in another month where there are locks.
<1>6. ASSUME NEW w \in Writers, v # w, pc[w] = "opened", ~call[w].orphan,
             pc[v] = "opened", call'[v] = call[v], windows' = windows,
             windows => lock'[m] = lock[m],
             NEW f, files' = [files EXCEPT ![call[w].month] = f]
      PROVE  Holds(v)'
  <2>1. windows => lock[call[w].month] = w
    BY <1>1, <1>6 DEF Holds
  <2>2. windows => call[w].month # m
    BY <1>5, <1>6, <2>1
  <2>3. windows => Content(m)' = Content(m)
    BY <1>4, <1>6, <2>2 DEF Content
  <2> QED  BY <1>2, <1>3, <1>4, <1>6, <2>3
<1>7. ASSUME NEW w \in Writers, Return(w)
      PROVE  /\ v # w /\ pc[v] = "opened" /\ call'[v] = call[v]
             /\ lock[m] = v => lock'[m] = lock[m]
  <2>1. pc'[w] = "idle" /\ \A u \in Writers : u # w => pc'[u] = pc[u] /\ call'[u] = call[u]
    BY <1>7 DEF Return, Typed
  <2>2. lock[m] = v /\ v # w => lock'[m] = lock[m]
    BY <1>4, <1>7 DEF Return
  <2> QED  BY <1>3, <2>1, <2>2
<1>8. ASSUME pc[v] = "opened", call'[v] = call[v], windows' = windows,
             files' = files, windows => lock'[m] = lock[m]
      PROVE  Holds(v)'
  BY <1>2, <1>3, <1>4, <1>8, SameFiles
<1>11. ASSUME NEW w \in Writers, NEW e \in Entries, Call(w, e) PROVE Holds(v)'
  <2>1. pc[v] = "opened" /\ call'[v] = call[v]
    BY <1>3, <1>11 DEF Call, Typed
  <2> QED  BY <1>8, <1>11, <2>1 DEF Call
<1>12. ASSUME NEW w \in Writers, Open(w) PROVE Holds(v)'
  <2>1. \A k \in DOMAIN files : files'[k] = files[k] /\ k \in DOMAIN files'
    BY <1>12 DEF Open, Content
  <2>2. CASE v = w
    <3>1. m \in DOMAIN files' /\ Content(m)' = Content(m)
      BY <1>12, <2>2, <1>4 DEF Open, Content
    <3>2. /\ call'[v].month = m
          /\ call'[v].prefix = (Content(m).tail # <<>>)
          /\ call'[v].seen = Len(Content(m).lines)
      BY <1>12, <2>2, <1>4 DEF Open, Typed, CallType
    <3>3. windows' => lock'[m] = v
      BY <1>4, <1>12, <2>2 DEF Open, Typed
    <3>4. ~call'[v].orphan
      BY <1>12, <2>2 DEF Open, Typed, CallType, Unpruned
    <3> QED  BY <3>1, <3>2, <3>3, <3>4 DEF Holds, Content
  <2>3. CASE v # w
    <3>1. pc[v] = "opened" /\ call'[v] = call[v]
      BY <1>3, <1>12, <2>3 DEF Open, Typed
    <3>2. windows => lock'[m] = lock[m]
      <4>1. windows => m # call[w].month
        BY <1>5, <1>12, <3>1, JournalAssumption DEF Open
      <4> QED  BY <1>4, <1>12, <4>1 DEF Open, Typed
    <3>3. windows => Content(m)' = Content(m)
      <4>1. ~call[v].orphan => m \in DOMAIN files
        BY <1>1, <3>1, <1>4 DEF Holds
      <4> QED  BY <1>5, <2>1, <3>1, <4>1 DEF Content
    <3> QED  BY <1>2, <1>3, <1>4, <1>12, <2>1, <3>1, <3>2, <3>3 DEF Open
  <2> QED  BY <2>2, <2>3
<1>13. ASSUME NEW w \in Writers, Refused(w) PROVE Holds(v)'
  <2>1. Return(w) /\ files' = files /\ windows' = windows
    BY <1>13 DEF Refused
  <2>2. pc[v] = "opened" /\ call'[v] = call[v] /\ (windows => lock'[m] = lock[m])
    BY <1>5, <1>7, <2>1
  <2> QED  BY <1>8, <2>1, <2>2
<1>14. ASSUME NEW w \in Writers, Write(w) PROVE Holds(v)'
  <2>1. Return(w) /\ windows' = windows /\ pc[w] = "opened"
    BY <1>14 DEF Write
  <2>2. v # w /\ pc[v] = "opened" /\ call'[v] = call[v] /\ (windows => lock'[m] = lock[m])
    BY <1>5, <1>7, <2>1
  <2>3. CASE call[w].orphan
    BY <1>8, <1>14, <2>1, <2>2, <2>3 DEF Write
  <2>4. CASE ~call[w].orphan
    <3>1. files' = [files EXCEPT ![call[w].month] = WholeLine(w)]
      BY <1>14, <2>4 DEF Write
    <3> QED  BY <1>6, <2>1, <2>2, <2>4, <3>1
  <2> QED  BY <2>3, <2>4
<1>15. ASSUME NEW w \in Writers, WriteShort(w) PROVE Holds(v)'
  <2>1. Return(w) /\ windows' = windows /\ pc[w] = "opened" /\ ~call[w].orphan
    BY <1>15 DEF WriteShort
  <2>2. v # w /\ pc[v] = "opened" /\ call'[v] = call[v] /\ (windows => lock'[m] = lock[m])
    BY <1>5, <1>7, <2>1
  <2>3. PICK f \in Torn(w) : files' = [files EXCEPT ![call[w].month] = f]
    BY <1>15 DEF WriteShort
  <2> QED  BY <1>6, <2>1, <2>2, <2>3
<1>16. ASSUME NEW w \in Writers, Die(w) PROVE Holds(v)'
  <2>1. /\ v # w /\ pc[v] = "opened" /\ call'[v] = call[v]
        /\ windows' = windows /\ lock' = lock
    BY <1>3, <1>16 DEF Die, Typed
  <2>2. CASE files' = files
    BY <1>8, <2>1, <2>2
  <2>3. CASE /\ pc[w] = "opened" /\ ~call[w].orphan
             /\ \E f \in Torn(w) : files' = [files EXCEPT ![call[w].month] = f]
    <3>1. PICK f \in Torn(w) : files' = [files EXCEPT ![call[w].month] = f]
      BY <2>3
    <3> QED  BY <1>6, <2>1, <2>3, <3>1
  <2> QED  BY <1>16, <2>2, <2>3 DEF Die
<1>17. CASE NextMonth
  BY <1>3, <1>8, <1>17 DEF NextMonth
<1>18. ASSUME NEW keep \in Months, Prune(keep) PROVE Holds(v)'
  <2>1. PICK gone \in SUBSET DOMAIN files :
          /\ windows => gone \cap {call[w].month : w \in {u \in Writers : pc[u] = "opened"}} = {}
          /\ files' = [k \in DOMAIN files \ gone |-> files[k]]
          /\ call' = [w \in Writers |->
                        IF pc[w] = "opened" /\ call[w].month \in gone
                        THEN [call[w] EXCEPT !.orphan = TRUE] ELSE call[w]]
    BY <1>18 DEF Prune
  <2>2. UNCHANGED <<pc, lock, windows>>
    BY <1>18 DEF Prune
  <2>3. pc[v] = "opened"
    BY <1>3, <2>2
  <2>4. windows => m \notin gone
    BY <2>1, <2>3, <1>4
  <2>5. CASE m \in gone
    <3>1. call'[v].orphan
      BY <2>1, <2>3, <2>5, <1>4 DEF Typed, CallType
    <3>2. ~windows'
      BY <2>2, <2>4, <2>5
    <3> QED  BY <3>1, <3>2 DEF Holds
  <2>6. CASE m \notin gone
    <3>1. call'[v] = call[v]
      BY <2>1, <2>6, <1>4
    <3>2. m \in DOMAIN files => m \in DOMAIN files'
      BY <2>1, <2>6
    <3>3. Content(m)' = Content(m)
      BY <2>1, <2>6 DEF Content
    <3> QED  BY <1>2, <1>3, <1>4, <2>2, <2>3, <3>1, <3>2, <3>3
  <2> QED  BY <2>5, <2>6
<1>19. CASE RemoveLock
  <2>1. PICK k \in Months : /\ lock[k] # None /\ pc[lock[k]] = "dead"
                            /\ lock' = [lock EXCEPT ![k] = None]
    BY <1>19 DEF RemoveLock
  <2>2. UNCHANGED <<files, pc, call, windows>>
    BY <1>19 DEF RemoveLock
  <2>3. pc[v] = "opened"
    BY <1>3, <2>2
  <2>4. windows => lock'[m] = lock[m]
    BY <1>4, <1>5, <2>1, <2>3 DEF Typed
  <2> QED  BY <1>8, <2>2, <2>3, <2>4
<1>20. CASE UNCHANGED vars
  BY <1>3, <1>8, <1>20 DEF vars
<1> QED  BY <1>11, <1>12, <1>13, <1>14, <1>15, <1>16, <1>17, <1>18, <1>19, <1>20 DEF Next

-----------------------------------------------------------------------------
(* The facts of every step *)

LEMMA QuietSame ==
    ASSUME files' = files
    PROVE  Same /\ Quiet
BY SameFiles DEF Quiet, Same

LEMMA WroteWhenWritten ==
    ASSUME Typed, Serial, NEW w \in Writers, NEW m, m = call[w].month,
           pc[w] = "opened", ~call[w].orphan, ~Live(w)',
           NEW f, f = WholeLine(w) \/ f \in Torn(w), files' = [files EXCEPT ![m] = f]
    PROVE  Wrote(w, m)
<1>1. Content(m)' = f /\ \A k \in Months \ {m} : Content(k)' = Content(k)
  BY FileWritten
<1>2. \E b \in BOOLEAN : Effect(Content(m), f, Piece(w, b))
  <2>1. CASE f = WholeLine(w)
    <3>1. Effect(Content(m), WholeLine(w), Piece(w, TRUE))
      BY WriteEffect
    <3> QED  BY <2>1, <3>1
  <2>2. CASE f \in Torn(w)
    BY <2>2, WriteEffect
  <2> QED  BY <2>1, <2>2
<1> QED  BY <1>1, <1>2 DEF Wrote

LEMMA StepFactsStep ==
    ASSUME Typed, Serial, [Next]_vars
    PROVE  StepFacts
<1> USE DEF StepFacts
<1>0. taken \in Nat /\ month \in Nat
  BY JournalAssumption DEF Typed, Months
<1>1. ASSUME NEW w \in Writers, Return(w)
      PROVE  ~Live(w)' /\ \A v \in Writers : Live(v)' => Stays(v)
  <2>1. ~Live(w)'
    BY <1>1 DEF Return, Typed, Live
  <2> QED  BY <1>1, <2>1, ReturnTyped DEF Stays
<1>2. ASSUME NEW w \in Writers, NEW e \in Entries, Call(w, e) PROVE StepFacts
  <2>1. Same /\ Quiet /\ owed' = owed /\ month' = month /\ taken' = taken + 1
    BY <1>2, QuietSame DEF Call
  <2>2. \A v \in Writers \ {w} : Live(v)' => Stays(v)
    BY <1>2 DEF Call, Typed, Live, Stays
  <2>3. CASE Render(e) = None
    BY <1>0, <1>2, <2>1, <2>3 DEF Call, Live, Stays
  <2>4. CASE Render(e) # None
    <3> DEFINE new == [NoCall EXCEPT !.id = taken + 1, !.month = month, !.size = Render(e)]
    <3>1. new.id = taken + 1 /\ new.month = month
      BY DEF NoCall
    <3>2. call'[w] = new
      BY <1>2, <2>4 DEF Call, Typed
    <3> HIDE DEF new
    <3>3. Begins(w)
      BY <2>1, <2>2, <3>1, <3>2 DEF Begins
    <3> QED  BY <1>0, <2>1, <3>3
  <2> QED  BY <2>3, <2>4
<1>3. ASSUME NEW w \in Writers, Open(w) PROVE StepFacts
  <2>1. \A m \in Months : Content(m)' = Content(m)
    BY <1>3 DEF Open, Content
  <2>2. \A v \in Writers : Live(v)' => Stays(v)
    <3>1. \A v \in Writers : Live(v)' => Live(v)
      BY <1>3 DEF Open, Typed, Live
    <3>2. \A v \in Writers : call'[v].id = call[v].id /\ call'[v].month = call[v].month
      BY <1>3 DEF Open, Typed, CallType
    <3> QED  BY <3>1, <3>2 DEF Stays
  <2> QED  BY <1>0, <1>3, <2>1, <2>2 DEF Open, Same
<1>4. ASSUME NEW w \in Writers, Refused(w) PROVE StepFacts
  BY <1>0, <1>1, <1>4, QuietSame DEF Refused
<1>5. ASSUME NEW w \in Writers, Write(w) PROVE StepFacts
  <2>1. Return(w) /\ pc[w] = "opened" /\ taken' = taken /\ month' = month
    BY <1>5 DEF Write
  <2>2. CASE call[w].orphan
    BY <1>0, <1>1, <1>5, <2>1, <2>2, QuietSame DEF Write
  <2>3. CASE ~call[w].orphan
    <3>1. PICK m \in Months : m = call[w].month
      BY DEF Typed, CallType
    <3>2. files' = [files EXCEPT ![m] = WholeLine(w)]
      BY <1>5, <2>3, <3>1 DEF Write
    <3>3. Wrote(w, m)
      BY <1>1, <2>1, <2>3, <3>1, <3>2, WroteWhenWritten
    <3>4. Content(m)'.tail = <<>>
      <4>1. Content(m)' = WholeLine(w)
        BY <2>1, <2>3, <3>1, <3>2, FileWritten
      <4>2. WholeLine(w).tail = <<>>
        BY <2>1, <2>3, WriteEffect
      <4> QED  BY <4>1, <4>2
    <3>5. owed' = owed \cup {[id |-> call[w].id, whole |-> TRUE]}
      BY <1>5, <2>3 DEF Write
    <3> QED  BY <1>0, <1>1, <2>1, <3>3, <3>4, <3>5
  <2> QED  BY <2>2, <2>3
<1>6. ASSUME NEW w \in Writers, WriteShort(w) PROVE StepFacts
  <2>1. /\ Return(w) /\ pc[w] = "opened" /\ ~call[w].orphan
        /\ taken' = taken /\ month' = month
    BY <1>6 DEF WriteShort
  <2>2. PICK m \in Months : m = call[w].month
    BY DEF Typed, CallType
  <2>3. PICK f \in Torn(w) : files' = [files EXCEPT ![m] = f]
    BY <1>6, <2>2 DEF WriteShort
  <2>4. Wrote(w, m)
    BY <1>1, <2>1, <2>2, <2>3, WroteWhenWritten
  <2>5. owed' = owed \cup {[id |-> call[w].id, whole |-> FALSE]}
    BY <1>6 DEF WriteShort
  <2> QED  BY <1>0, <1>1, <2>1, <2>4, <2>5
<1>7. ASSUME NEW w \in Writers, Die(w) PROVE StepFacts
  <2>1. taken' = taken /\ month' = month /\ owed' = owed /\ ~Live(w)'
    BY <1>7 DEF Die, Typed, Live
  <2>2. \A v \in Writers : Live(v)' => Stays(v)
    BY <1>7 DEF Die, Typed, Live, Stays
  <2>3. Same \/ \E m \in Months : Wrote(w, m)
    <3>1. CASE files' = files
      BY <3>1, QuietSame
    <3>2. CASE /\ pc[w] = "opened" /\ ~call[w].orphan
               /\ \E f \in Torn(w) : files' = [files EXCEPT ![call[w].month] = f]
      <4>1. PICK m \in Months : m = call[w].month
        BY DEF Typed, CallType
      <4>2. PICK f \in Torn(w) : files' = [files EXCEPT ![m] = f]
        BY <3>2, <4>1
      <4>3. Wrote(w, m)
        BY <2>1, <3>2, <4>1, <4>2, WroteWhenWritten
      <4> QED  BY <4>3
    <3> QED  BY <1>7, <3>1, <3>2 DEF Die
  <2> QED  BY <1>0, <2>1, <2>2, <2>3
<1>8. CASE NextMonth
  BY <1>0, <1>8, QuietSame DEF NextMonth, Live, Stays
<1>9. ASSUME NEW keep \in Months, Prune(keep) PROVE StepFacts
  <2>1. PICK gone \in SUBSET DOMAIN files :
          /\ files' = [m \in DOMAIN files \ gone |-> files[m]]
          /\ call' = [w \in Writers |->
                        IF pc[w] = "opened" /\ call[w].month \in gone
                        THEN [call[w] EXCEPT !.orphan = TRUE] ELSE call[w]]
          /\ owed' = {r \in owed : \A m \in gone : r.id \notin Ids(files[m])}
    BY <1>9 DEF Prune
  <2>2. pc' = pc /\ taken' = taken /\ month' = month
    BY <1>9 DEF Prune
  <2>3. \A v \in Writers : Live(v)' => Stays(v)
    BY <2>1, <2>2 DEF Live, Stays, Typed, CallType
  <2>4. Quiet
    BY <2>1 DEF Quiet, Content
  <2> QED  BY <1>0, <1>9, <2>1, <2>2, <2>3, <2>4
<1>10. CASE RemoveLock
  BY <1>0, <1>10, QuietSame DEF RemoveLock, Live, Stays
<1>11. CASE UNCHANGED vars
  BY <1>0, <1>11, QuietSame DEF vars, Live, Stays
<1> QED  BY <1>2, <1>3, <1>4, <1>5, <1>6, <1>7, <1>8, <1>9, <1>10, <1>11 DEF Next

-----------------------------------------------------------------------------
(* Identities and their order *)

\* p is what a write of this step puts into month m.
NewIn(p, m) == \E w \in Writers : Wrote(w, m) /\ p.id = call[w].id /\ p.by = w

LEMMA EmptyFileFacts ==
    /\ EmptyFile \in FileType /\ Pieces(EmptyFile) = {}
    /\ \A i \in DOMAIN Lines(EmptyFile) : ToSet(Lines(EmptyFile)[i]) = {}
    /\ EmptyFile.tail = <<>> /\ ToSet(EmptyFile.tail) = {}
<1>1. EmptyFile \in FileType /\ EmptyFile.tail = <<>> /\ EmptyFile.lines = <<>>
  BY DEF EmptyFile, FileType
<1>2. ToSet(<<>>) = {}
  BY DEF ToSet
<1>3. DOMAIN Lines(EmptyFile) = 1..1 /\ Lines(EmptyFile)[1] = <<>>
  <2>1. Lines(EmptyFile) = <<EmptyFile.tail>>
    BY <1>1 DEF Lines
  <2> HIDE DEF EmptyFile
  <2> QED  BY <1>1, <2>1
<1> QED  BY <1>1, <1>2, <1>3 DEF Pieces

LEMMA NewPieces ==
    ASSUME Typed, StepFacts, NEW m \in Months, NEW c, c = Content(m), NEW d, d = Content(m)'
    PROVE  /\ \E k \in Nat : /\ Len(Lines(c)) <= k
                             /\ \A i \in DOMAIN Lines(d) : \A q \in ToSet(Lines(d)[i]) :
                                  \/ i \in DOMAIN Lines(c) /\ q \in ToSet(Lines(c)[i])
                                  \/ NewIn(q, m) /\ i = k
           /\ \A q \in Pieces(d) : q \in Pieces(c) \/ NewIn(q, m)
           /\ \A q \in ToSet(d.tail) : \/ q \in ToSet(c.tail)
                                       \/ NewIn(q, m)
           /\ ToSet(d.tail) \subseteq Pieces(d)
<1>1. c \in FileType
  BY ContentType
<1>2. Len(Lines(c)) \in Nat
  BY <1>1, LinesOf
<1> DEFINE Told == \E k \in Nat : /\ Len(Lines(c)) <= k
                             /\ \A i \in DOMAIN Lines(d) : \A q \in ToSet(Lines(d)[i]) :
                                  \/ i \in DOMAIN Lines(c) /\ q \in ToSet(Lines(c)[i])
                                  \/ NewIn(q, m) /\ i = k
           TailTold == \A q \in ToSet(d.tail) : q \in ToSet(c.tail) \/ NewIn(q, m)
<1>3. d \in FileType /\ Told /\ TailTold
  <2>1. CASE d = c
    BY <1>1, <1>2, <2>1
  <2>2. CASE d = EmptyFile
    BY <1>2, <2>2, EmptyFileFacts
  <2>3. ASSUME NEW w \in Writers, Wrote(w, m)
        PROVE  d \in FileType /\ Told /\ TailTold
    <3>1. PICK b \in BOOLEAN : Effect(c, d, Piece(w, b))
      BY <2>3 DEF Wrote
    <3> DEFINE p == Piece(w, b)
    <3>2. NewIn(p, m)
      BY <2>3 DEF NewIn, Piece
    <3> HIDE DEF p
    <3>3. Effect(c, d, p)
      BY <3>1 DEF p
    <3> QED  BY <3>2, <3>3 DEF Effect, Placed
  <2>4. \/ d = c \/ d = EmptyFile
        \/ \E w \in Writers : Wrote(w, m)
    BY DEF StepFacts, Same, Quiet, Wrote
  <2> QED  BY <2>1, <2>2, <2>3, <2>4
<1>4. \A q \in Pieces(d) : q \in Pieces(c) \/ NewIn(q, m)
  BY <1>3 DEF Pieces
<1>5. ToSet(d.tail) \subseteq Pieces(d)
  <2>1. Len(d.lines) + 1 \in DOMAIN Lines(d) /\ Lines(d)[Len(d.lines) + 1] = d.tail
    BY <1>3, LinesOf
  <2> QED  BY <2>1 DEF Pieces
<1> QED  BY <1>3, <1>4, <1>5

LEMMA KnownStep ==
    ASSUME Typed, Typed', Known, Fresh, StepFacts
    PROVE  Known'
<1>1. \A m \in Months : \A q \in Pieces(Content(m)') : q \in Pieces(Content(m)) \/ NewIn(q, m)
  BY NewPieces
<1>2. \A m \in Months : \A q : NewIn(q, m) =>
        \E w \in Writers : /\ Live(w) /\ q.id = call[w].id /\ q.by = w
                           /\ m = call[w].month
  BY DEF NewIn, Wrote, Live
<1>3. taken \in Nat /\ month \in Nat /\ Months \subseteq Nat
  BY JournalAssumption DEF Typed, Months
<1>4. \A w \in Writers : Live(w) => call[w].id \in Nat /\ call[w].month \in Nat
  BY <1>3, JournalAssumption DEF Typed, CallType
<1>5. ASSUME NEW m \in Months, NEW n \in Months,
             NEW p \in Pieces(Content(m)'), NEW q \in Pieces(Content(n)'), p.id = q.id
      PROVE  p.by = q.by
  <2>1. p \in Pieces(Content(m)) /\ q \in Pieces(Content(n)) => p.by = q.by
    BY <1>5 DEF Known
  <2>2. ~(p \in Pieces(Content(m)) /\ NewIn(q, n))
    BY <1>2, <1>5 DEF Fresh
  <2>3. ~(NewIn(p, m) /\ q \in Pieces(Content(n)))
    BY <1>2, <1>5 DEF Fresh
  <2>4. NewIn(p, m) /\ NewIn(q, n) => p.by = q.by
    BY <1>2, <1>5 DEF Fresh
  <2> QED  BY <1>1, <2>1, <2>2, <2>3, <2>4
<1> HIDE DEF NewIn
<1>8. taken' \in Nat /\ month' \in Nat
  BY JournalAssumption DEF Typed, Months
<1>6. ASSUME NEW m \in Months, NEW p \in Pieces(Content(m)')
      PROVE  m <= month' /\ p.id <= taken'
  <2>1. m <= month /\ p.id <= taken
    BY <1>1, <1>2 DEF Known, Fresh
  <2>2. p.id \in Nat
    <3>1. CASE NewIn(p, m)
      BY <1>2, <1>4, <3>1
    <3>2. CASE p \in Pieces(Content(m))
      <4>1. Content(m) \in FileType
        BY ContentType
      <4>2. p \in PieceType
        BY <3>2, <4>1, LinesOf DEF Pieces, ToSet
      <4> QED  BY <4>2, JournalAssumption DEF PieceType
    <3> QED  BY <1>1, <3>1, <3>2
  <2>3. taken' \in Nat /\ month' \in Nat
    BY <1>8
  <2> QED  BY <1>3, <2>1, <2>2, <2>3 DEF StepFacts
<1>7. ASSUME NEW r \in owed'
      PROVE  r.id <= taken'
  <2>1. r.id <= taken
    <3>1. CASE r \in owed
      BY <3>1 DEF Known
    <3>2. CASE r \notin owed
      <4>1. PICK w \in Writers, m \in Months : Wrote(w, m) /\ r.id = call[w].id
        BY <3>2 DEF StepFacts
      <4> QED  BY <4>1 DEF Wrote, Fresh, Live
    <3> QED  BY <3>1, <3>2
  <2>2. r.id \in Nat
    BY <1>7, JournalAssumption DEF Typed
  <2> QED  BY <1>3, <1>8, <2>1, <2>2 DEF StepFacts
<1> QED  BY <1>5, <1>6, <1>7 DEF Known

\* Whoever wrote in this step was in a call, and is not in it any more.
LEMMA NewInFacts ==
    ASSUME NEW q, NEW m, NewIn(q, m)
    PROVE  \E w \in Writers : /\ Live(w) /\ ~Live(w)' /\ q.id = call[w].id /\ q.by = w
                              /\ m = call[w].month
BY DEF NewIn, Wrote, Live

LEMMA FreshStep ==
    ASSUME Typed, Typed', Known, Fresh, StepFacts
    PROVE  Fresh'
<1>1. SUFFICES ASSUME NEW w \in Writers, Live(w)'
               PROVE  /\ call'[w].id <= taken' /\ call'[w].month <= month'
                      /\ \A v \in Writers : Live(v)' /\ v # w => call'[v].id # call'[w].id
                      /\ \A r \in owed' : r.id # call'[w].id
                      /\ \A m \in Months : \A p \in Pieces(Content(m)') :
                           /\ p.id # call'[w].id
                           /\ p.by = w => p.id < call'[w].id /\ m <= call'[w].month
  BY DEF Fresh
<1>2. /\ taken \in Nat /\ month \in Nat /\ Months \subseteq Nat
      /\ taken' \in Nat /\ month' \in Nat
  BY JournalAssumption DEF Typed, Months
<1>3. \A v \in Writers : call[v].id \in Nat /\ call[v].month \in Nat
  BY <1>2, JournalAssumption DEF Typed, CallType
<1>4. \A m \in Months : \A q \in Pieces(Content(m)') : q \in Pieces(Content(m)) \/ NewIn(q, m)
  BY NewPieces
<1>5. CASE \A v \in Writers : Live(v)' => Stays(v)
  <2>1. Live(w) /\ call'[w].id = call[w].id /\ call'[w].month = call[w].month
    BY <1>1, <1>5 DEF Stays
  <2>2. call'[w].id <= taken' /\ call'[w].month <= month'
    <3>1. call[w].id <= taken /\ call[w].month <= month
      BY <2>1 DEF Fresh
    <3>2. taken <= taken' /\ month <= month'
      BY DEF StepFacts
    <3> QED  BY <1>2, <1>3, <2>1, <3>1, <3>2
  <2>3. \A v \in Writers : Live(v)' /\ v # w => call'[v].id # call'[w].id
    BY <1>5, <2>1 DEF Stays, Fresh
  <2>4. ASSUME NEW r \in owed'
        PROVE  r.id # call'[w].id
    <3>1. CASE r \in owed
      BY <2>1, <3>1 DEF Fresh
    <3>2. CASE r \notin owed
      <4>1. PICK v \in Writers, m \in Months : Wrote(v, m) /\ r.id = call[v].id
        BY <3>2 DEF StepFacts
      <4>2. Live(v) /\ v # w
        BY <1>1, <4>1 DEF Wrote, Live
      <4> QED  BY <2>1, <4>1, <4>2 DEF Fresh
    <3> QED  BY <3>1, <3>2
  <2>5. ASSUME NEW m \in Months, NEW p \in Pieces(Content(m)')
        PROVE  /\ p.id # call'[w].id
               /\ p.by = w => p.id < call'[w].id /\ m <= call'[w].month
    <3>1. CASE p \in Pieces(Content(m))
      BY <2>1, <3>1 DEF Fresh
    <3>2. CASE NewIn(p, m)
      <4>1. PICK v \in Writers : Live(v) /\ ~Live(v)' /\ p.id = call[v].id /\ p.by = v
        BY <3>2, NewInFacts
      <4>2. v # w
        BY <1>1, <4>1
      <4> QED  BY <2>1, <4>1, <4>2 DEF Fresh
    <3> QED  BY <1>4, <3>1, <3>2
  <2> QED  BY <2>2, <2>3, <2>4, <2>5
<1>6. ASSUME NEW u \in Writers, Begins(u), ~Stays(w)
      PROVE  /\ call'[w].id <= taken' /\ call'[w].month <= month'
             /\ \A v \in Writers : Live(v)' /\ v # w => call'[v].id # call'[w].id
             /\ \A r \in owed' : r.id # call'[w].id
             /\ \A m \in Months : \A p \in Pieces(Content(m)') :
                  /\ p.id # call'[w].id
                  /\ p.by = w => p.id < call'[w].id /\ m <= call'[w].month
  <2>1. u = w
    BY <1>1, <1>6 DEF Begins
  <2>2. /\ taken' = taken + 1 /\ call'[w].id = taken + 1 /\ call'[w].month = month
        /\ month' = month /\ owed' = owed /\ Quiet
        /\ \A v \in Writers \ {w} : Live(v)' => Stays(v)
    BY <1>6, <2>1 DEF Begins
  <2>3. \A v \in Writers : Live(v)' /\ v # w => call'[v].id # call'[w].id
    <3>1. SUFFICES ASSUME NEW v \in Writers, Live(v)', v # w
                   PROVE  call'[v].id # call'[w].id
      OBVIOUS
    <3>2. call'[v].id = call[v].id /\ call[v].id <= taken
      BY <2>2, <3>1 DEF Stays, Fresh
    <3> QED  BY <1>2, <1>3, <2>2, <3>2
  <2>4. ASSUME NEW r \in owed' PROVE r.id # call'[w].id
    <3>1. r.id <= taken /\ r.id \in Nat
      BY <2>2, JournalAssumption DEF Known, Typed
    <3> QED  BY <1>2, <2>2, <3>1
  <2>5. ASSUME NEW m \in Months, NEW p \in Pieces(Content(m)')
        PROVE  /\ p.id # call'[w].id
               /\ p.by = w => p.id < call'[w].id /\ m <= call'[w].month
    <3>1. p \in Pieces(Content(m))
      <4>1. Content(m)' = Content(m) \/ Content(m)' = EmptyFile
        BY <2>2 DEF Quiet
      <4> QED  BY <2>5, <4>1, EmptyFileFacts
    <3>2. p.id \in Nat
      <4>1. Content(m) \in FileType
        BY ContentType
      <4>2. p \in PieceType
        BY <3>1, <4>1, LinesOf DEF Pieces, ToSet
      <4> QED  BY <4>2, JournalAssumption DEF PieceType
    <3>3. p.id <= taken /\ m <= month
      BY <3>1 DEF Known
    <3> QED  BY <1>2, <2>2, <3>2, <3>3
  <2>6. call'[w].id <= taken' /\ call'[w].month <= month'
    BY <1>2, <2>2
  <2> QED  BY <2>3, <2>4, <2>5, <2>6
<1>7. CASE \E u \in Writers : Begins(u)
  <2>1. CASE ~Stays(w)
    BY <1>6, <1>7, <2>1
  <2>2. CASE Stays(w)
    <3>1. PICK u \in Writers : Begins(u)
      BY <1>7
    <3>2. /\ taken' = taken + 1 /\ call'[u].id = taken + 1 /\ month' = month
          /\ owed' = owed /\ Quiet
          /\ \A v \in Writers \ {u} : Live(v)' => Stays(v)
      BY <3>1 DEF Begins
    <3>3. Live(w) /\ call'[w].id = call[w].id /\ call'[w].month = call[w].month
      BY <2>2 DEF Stays
    <3>4. call[w].id <= taken /\ call[w].month <= month
      BY <3>3 DEF Fresh
    <3>5. ASSUME NEW v \in Writers, Live(v)', v # w
          PROVE  call'[v].id # call'[w].id
      <4>1. CASE v = u
        BY <1>2, <1>3, <3>2, <3>3, <3>4, <4>1
      <4>2. CASE v # u
        BY <3>2, <3>3, <3>5, <4>2 DEF Stays, Fresh
      <4> QED  BY <4>1, <4>2
    <3>6. \A m \in Months : \A p \in Pieces(Content(m)') : p \in Pieces(Content(m))
      BY <3>2, EmptyFileFacts DEF Quiet
    <3>7. call'[w].id <= taken' /\ call'[w].month <= month'
      BY <1>2, <1>3, <3>2, <3>3, <3>4
    <3> QED  BY <3>2, <3>3, <3>5, <3>6, <3>7 DEF Fresh
  <2> QED  BY <2>1, <2>2
<1> QED  BY <1>5, <1>7 DEF StepFacts

LEMMA InOrderStep ==
    ASSUME Typed, Fresh, InOrder, StepFacts
    PROVE  InOrder'
<1>1. SUFFICES ASSUME NEW m \in Months, NEW n \in Months, NEW d, d = Content(m)',
                      NEW e, e = Content(n)', NEW i \in DOMAIN Lines(d), NEW j \in DOMAIN Lines(e),
                      m < n \/ (m = n /\ i < j),
                      NEW p \in ToSet(Lines(d)[i]), NEW q \in ToSet(Lines(e)[j]), p.by = q.by
               PROVE  p.id < q.id
  BY DEF InOrder
<1> DEFINE c == Content(m)
           b == Content(n)
<1>2. PICK k \in Nat : /\ Len(Lines(c)) <= k
                       /\ \A a \in DOMAIN Lines(d) : \A x \in ToSet(Lines(d)[a]) :
                            \/ a \in DOMAIN Lines(c) /\ x \in ToSet(Lines(c)[a])
                            \/ NewIn(x, m) /\ a = k
  BY <1>1, NewPieces
<1>3. PICK l \in Nat : /\ Len(Lines(b)) <= l
                       /\ \A a \in DOMAIN Lines(e) : \A x \in ToSet(Lines(e)[a]) :
                            \/ a \in DOMAIN Lines(b) /\ x \in ToSet(Lines(b)[a])
                            \/ NewIn(x, n) /\ a = l
  BY <1>1, NewPieces
<1>4. \/ i \in DOMAIN Lines(c) /\ p \in ToSet(Lines(c)[i])
      \/ NewIn(p, m) /\ i = k
  BY <1>1, <1>2
<1>5. \/ j \in DOMAIN Lines(b) /\ q \in ToSet(Lines(b)[j])
      \/ NewIn(q, n) /\ j = l
  BY <1>1, <1>3
<1>6. CASE /\ i \in DOMAIN Lines(c) /\ p \in ToSet(Lines(c)[i])
           /\ j \in DOMAIN Lines(b) /\ q \in ToSet(Lines(b)[j])
  BY <1>1, <1>6 DEF InOrder
\* What is old comes before what is new.
<1>7. CASE /\ i \in DOMAIN Lines(c) /\ p \in ToSet(Lines(c)[i])
           /\ NewIn(q, n)
  <2>1. PICK w \in Writers : Live(w) /\ q.id = call[w].id /\ q.by = w
    BY <1>7, NewInFacts
  <2>2. p \in Pieces(Content(m))
    BY <1>7 DEF Pieces
  <2> QED  BY <1>1, <2>1, <2>2 DEF Fresh
<1>8. CASE /\ NewIn(p, m) /\ i = k
           /\ j \in DOMAIN Lines(b) /\ q \in ToSet(Lines(b)[j])
  <2>1. PICK w \in Writers : Live(w) /\ p.by = w /\ m = call[w].month
    BY <1>8, NewInFacts
  <2>2. q \in Pieces(Content(n))
    BY <1>8 DEF Pieces
  <2>3. n <= m
    BY <1>1, <2>1, <2>2 DEF Fresh
  <2>4. ~(m < n)
    BY <2>3 DEF Months
  <2>5. m = n /\ i < j
    BY <1>1, <2>4
  <2>6. c \in FileType
    BY ContentType
  <2>7. j <= Len(Lines(c)) /\ j \in Nat /\ Len(Lines(c)) \in Nat
    BY <1>8, <2>5, <2>6, LinesOf
  <2> HIDE DEF c
  <2> QED  BY <1>2, <1>8, <2>5, <2>7
<1>9. CASE NewIn(p, m) /\ i = k /\ NewIn(q, n) /\ j = l
  <2>1. PICK w \in Writers : p.by = w /\ m = call[w].month
    BY <1>9, NewInFacts
  <2>2. PICK v \in Writers : q.by = v /\ n = call[v].month
    BY <1>9, NewInFacts
  <2>3. m = n
    BY <1>1, <2>1, <2>2
  <2>4. i < j
    BY <1>1, <2>3 DEF Months
  <2>5. d = e /\ c = b
    BY <1>1, <2>3
  <2>6. p \notin Pieces(Content(m))
    BY <1>9, NewInFacts DEF Fresh
  <2>7. ~(i \in DOMAIN Lines(c) /\ p \in ToSet(Lines(c)[i]))
    BY <2>6 DEF Pieces
  <2>8. i = l
    BY <1>1, <1>3, <2>5, <2>7
  <2>9. i = j
    BY <1>9, <2>8
  <2> QED  BY <1>2, <1>9, <2>4, <2>9
<1> QED  BY <1>4, <1>5, <1>6, <1>7, <1>8, <1>9

LEMMA TailNotOwedStep ==
    ASSUME Typed, Fresh, TailNotOwed, StepFacts
    PROVE  TailNotOwed'
<1>1. SUFFICES ASSUME NEW m \in Months, NEW d, d = Content(m)', NEW p \in ToSet(d.tail),
                      [id |-> p.id, whole |-> TRUE] \in owed'
               PROVE  FALSE
  BY DEF TailNotOwed
<1> DEFINE r == [id |-> p.id, whole |-> TRUE]
<1>2. r.id = p.id /\ r.whole
  OBVIOUS
<1> HIDE DEF r
<1>3. (p \in ToSet(Content(m).tail) /\ p \in Pieces(Content(m))) \/ NewIn(p, m)
  <2>1. p \in Pieces(d) /\ (p \in ToSet(Content(m).tail) \/ NewIn(p, m))
    BY <1>1, NewPieces
  <2>2. p \in Pieces(Content(m)) \/ NewIn(p, m)
    BY <1>1, <2>1, NewPieces
  <2> QED  BY <2>1, <2>2
<1>4. CASE r \in owed
  <2>1. ~NewIn(p, m)
    BY <1>2, <1>4, NewInFacts DEF Fresh
  <2> QED  BY <1>3, <1>4, <2>1 DEF TailNotOwed, r
<1>5. CASE r \notin owed
  <2>1. PICK w \in Writers, n \in Months :
          /\ Wrote(w, n) /\ r.id = call[w].id
          /\ r.whole => Content(n)'.tail = <<>>
    BY <1>1, <1>5 DEF StepFacts, r
  <2>2. Live(w) /\ n = call[w].month /\ p.id = call[w].id
    BY <1>2, <2>1 DEF Wrote, Live
  <2>3. ~(p \in Pieces(Content(m)))
    BY <2>2 DEF Fresh
  <2>4. NewIn(p, m)
    BY <1>3, <2>3
  <2>5. PICK v \in Writers : Live(v) /\ p.id = call[v].id /\ m = call[v].month
    BY <2>4, NewInFacts
  <2>6. m = n
    BY <2>2, <2>5 DEF Fresh
  <2>7. d.tail = <<>>
    BY <1>1, <1>2, <2>1, <2>6
  <2> QED  BY <2>7, EmptyFileFacts
<1> QED  BY <1>4, <1>5

-----------------------------------------------------------------------------
(* What is lost *)

\* A reader gets what is readable of one of the months.
LEMMA ReadHas ==
    Typed => /\ Read \in Seq(1..APPENDS)
             /\ Joined(Read, [m \in Months |-> Readable(Content(m))], MONTHS)
             /\ \A r : r \in ToSet(Read) <=> \E m \in Months : r \in ToSet(Readable(Content(m)))
<1> SUFFICES ASSUME Typed
             PROVE  /\ Read \in Seq(1..APPENDS)
                    /\ Joined(Read, [m \in Months |-> Readable(Content(m))], MONTHS)
                    /\ \A r : r \in ToSet(Read) <=>
                                \E m \in Months : r \in ToSet(Readable(Content(m)))
  OBVIOUS
<1> DEFINE ss == [m \in Months |-> Readable(Content(m))]
           R == 1..APPENDS
<1>1. MONTHS \in Nat \ {0} /\ Months = 1..MONTHS
  BY JournalAssumption DEF Months
<1>2. \A a \in 1..MONTHS : ss[a] = Readable(Content(a))
  BY <1>1
<1>3. \A a \in 1..MONTHS : ss[a] \in Seq(R)
  BY <1>1, <1>2, ContentType, ReadableIs
<1>4. Len(ss) = MONTHS
  BY <1>1
<1> HIDE DEF ss, R
<1>5. FlattenSeq(ss) \in Seq(R) /\ Joined(FlattenSeq(ss), ss, MONTHS)
  BY <1>1, <1>3, <1>4, FlattenJoined
<1>6. Read = FlattenSeq(ss)
  BY DEF Read, ss
<1>7. Read \in Seq(R) /\ Joined(Read, ss, MONTHS)
  BY <1>5, <1>6
<1>8. ASSUME NEW r, r \in ToSet(Read)
      PROVE  \E m \in Months : r \in ToSet(Readable(Content(m)))
  <2>1. PICK i \in DOMAIN Read : r = Read[i]
    BY <1>8 DEF ToSet
  <2>2. PICK a \in 1..MONTHS : \E x \in DOMAIN ss[a] : Read[i] = ss[a][x]
    BY <1>7 DEF Joined
  <2>3. r \in ToSet(ss[a])
    BY <2>1, <2>2 DEF ToSet
  <2> QED  BY <1>1, <1>2, <2>3
<1>9. ASSUME NEW r, NEW m \in Months, r \in ToSet(Readable(Content(m)))
      PROVE  r \in ToSet(Read)
  <2>1. m \in 1..MONTHS /\ r \in ToSet(ss[m])
    BY <1>1, <1>2, <1>9
  <2>2. PICK x \in DOMAIN ss[m] : r = ss[m][x]
    BY <2>1 DEF ToSet
  <2>3. \E i \in DOMAIN Read : Read[i] = ss[m][x]
    BY <1>7, <2>1, <2>2 DEF Joined
  <2> QED  BY <2>2, <2>3 DEF ToSet
<1> QED  BY <1>7, <1>8, <1>9 DEF ss, R

LEMMA ReadHasNext ==
    (Typed => /\ Read \in Seq(1..APPENDS)
              /\ Joined(Read, [m \in Months |-> Readable(Content(m))], MONTHS)
              /\ \A r : r \in ToSet(Read) <=> \E m \in Months : r \in ToSet(Readable(Content(m))))'
BY ReadHas, PTL

\* The records in question are finitely many.
Whole == {r \in [id : 1..APPENDS, whole : BOOLEAN] : r.whole}

LEMMA WholeFinite ==
    /\ IsFiniteSet(Whole) /\ IsFiniteSet(Months)
    /\ \A r \in Whole : r = [id |-> r.id, whole |-> TRUE]
<1>1. \A r \in Whole : r = [id |-> r.id, whole |-> TRUE]
  BY DEF Whole
<1> DEFINE f == [r \in Whole |-> r.id]
<1>2. f \in [Whole -> 1..APPENDS]
  BY DEF Whole
<1>3. \A r, q \in Whole : f[r] = f[q] => r = q
  <2>1. \A r, q \in Whole : r.id = q.id => r = q
    BY <1>1
  <2> QED  BY <2>1
<1>4. f \in Injection(Whole, 1..APPENDS)
  BY <1>2, <1>3 DEF Injection, IsInjective
<1>5. IsFiniteSet(1..APPENDS) /\ IsFiniteSet(Months)
  BY JournalAssumption, FS_Interval DEF Months
<1> HIDE DEF f
<1>6. IsFiniteSet(Whole)
  BY <1>4, <1>5, FS_Injection
<1> QED  BY <1>1, <1>5, <1>6

\* A write spoils nothing acknowledged that a reader had.
LEMMA WriteKeeps ==
    ASSUME Typed, Typed', TailNotOwed, NEW w \in Writers, NEW m \in Months, Wrote(w, m),
           NEW r \in owed, r.whole, r.id \in ToSet(Read)
    PROVE  r.id \in ToSet(Read)'
<1>1. PICK k \in Months : r.id \in ToSet(Readable(Content(k)))
  BY ReadHas
<1>2. r.id \in ToSet(Readable(Content(k)'))
  <2>1. CASE k # m
    BY <1>1, <2>1 DEF Wrote
  <2>2. CASE k = m
    <3>1. PICK b \in BOOLEAN : Effect(Content(m), Content(m)', Piece(w, b))
      BY DEF Wrote
    <3>2. Content(m) \in FileType
      BY ContentType
    <3>3. Piece(w, b).id \in 1..APPENDS
      BY DEF Wrote, Typed, Live, Piece
    <3>4. PICK d : d = Content(m)'
      OBVIOUS
    <3>5. Effect(Content(m), d, Piece(w, b))
      BY <3>1, <3>4
    <3>6. \/ r.id \in ToSet(Readable(d))
          \/ \E q \in ToSet(Content(m).tail) : q.id = r.id
      BY <1>1, <2>2, <3>2, <3>3, <3>5, EffectReads
    <3>7. r \in Whole
      BY DEF Whole, Typed
    <3>8. r = [id |-> r.id, whole |-> TRUE]
      BY <3>7, WholeFinite
    <3>9. ~ \E q \in ToSet(Content(m).tail) : q.id = r.id
      BY <3>8 DEF TailNotOwed
    <3> QED  BY <2>2, <3>4, <3>6, <3>9
  <2> QED  BY <2>1, <2>2
<1> QED  BY <1>2, ReadHasNext

\* From one state to the next, in sets: what is lost and the tails that are
\* left; a write may trade one tail for one record.
LEMMA LossesFrom ==
    ASSUME Typed, Typed', Losses, windows' = windows,
           \/ Lost' \subseteq Lost /\ TornMonths' \subseteq TornMonths /\ tears' = tears
           \/ /\ Lost' \subseteq Lost /\ tears' = tears + 1
              /\ \E m : TornMonths' \subseteq TornMonths \cup {m}
           \/ /\ ~windows /\ tears' = tears
              /\ \E r : Lost' \subseteq Lost \cup {r}
              /\ \E m \in TornMonths : TornMonths' \subseteq TornMonths \ {m}
    PROVE  Losses'
<1>1. /\ Lost \subseteq Whole /\ TornMonths \subseteq Months
      /\ Lost' \subseteq Whole /\ TornMonths' \subseteq Months
  BY DEF Lost, Whole, TornMonths, Typed
<1>2. PICK L, M, U, V : L = Lost /\ M = Lost' /\ U = TornMonths /\ V = TornMonths'
  OBVIOUS
<1>3. IsFiniteSet(L) /\ IsFiniteSet(M) /\ IsFiniteSet(U) /\ IsFiniteSet(V)
  BY <1>1, <1>2, WholeFinite, FS_Subset
<1>4. /\ Cardinality(L) \in Nat /\ Cardinality(M) \in Nat
      /\ Cardinality(U) \in Nat /\ Cardinality(V) \in Nat
  BY <1>3, FS_CardinalityType
<1>5. tears \in Nat /\ tears' \in Nat
  BY JournalAssumption DEF Typed
<1>6. /\ ~windows => Cardinality(L) + Cardinality(U) <= tears
      /\ windows => L = {}
  BY <1>2 DEF Losses
<1>7. SUFFICES /\ ~windows => Cardinality(M) + Cardinality(V) <= tears'
               /\ windows => M = {}
  BY <1>2 DEF Losses
<1>8. CASE M \subseteq L /\ V \subseteq U /\ tears' = tears
  <2>1. Cardinality(M) <= Cardinality(L) /\ Cardinality(V) <= Cardinality(U)
    BY <1>3, <1>8, FS_Subset
  <2> QED  BY <1>4, <1>5, <1>6, <1>8, <2>1
<1>9. ASSUME M \subseteq L, tears' = tears + 1, NEW m, V \subseteq U \cup {m}
      PROVE  /\ ~windows => Cardinality(M) + Cardinality(V) <= tears'
             /\ windows => M = {}
  <2>1. Cardinality(M) <= Cardinality(L)
    BY <1>3, <1>9, FS_Subset
  <2>2. IsFiniteSet(U \cup {m}) /\ Cardinality(U \cup {m}) <= Cardinality(U) + 1
    <3>1. /\ IsFiniteSet(U \cup {m})
          /\ Cardinality(U \cup {m}) =
               IF m \in U THEN Cardinality(U) ELSE Cardinality(U) + 1
      BY <1>3, FS_AddElement, Zenon
    <3> QED  BY <1>4, <3>1
  <2>3. Cardinality(V) <= Cardinality(U \cup {m}) /\ Cardinality(U \cup {m}) \in Nat
    BY <1>9, <2>2, FS_Subset, FS_CardinalityType
  <2> QED  BY <1>4, <1>5, <1>6, <1>9, <2>1, <2>2, <2>3
<1>10. ASSUME ~windows, tears' = tears, NEW r, M \subseteq L \cup {r},
              NEW m \in U, V \subseteq U \ {m}
       PROVE  /\ ~windows => Cardinality(M) + Cardinality(V) <= tears'
              /\ windows => M = {}
  <2>1. IsFiniteSet(L \cup {r}) /\ Cardinality(L \cup {r}) <= Cardinality(L) + 1
    <3>1. /\ IsFiniteSet(L \cup {r})
          /\ Cardinality(L \cup {r}) =
               IF r \in L THEN Cardinality(L) ELSE Cardinality(L) + 1
      BY <1>3, FS_AddElement, Zenon
    <3> QED  BY <1>4, <3>1
  <2>2. Cardinality(M) <= Cardinality(L \cup {r}) /\ Cardinality(L \cup {r}) \in Nat
    BY <1>10, <2>1, FS_Subset, FS_CardinalityType
  <2>3. IsFiniteSet(U \ {m}) /\ Cardinality(U \ {m}) = Cardinality(U) - 1
    BY <1>3, <1>10, FS_RemoveElement
  <2>4. Cardinality(V) <= Cardinality(U \ {m}) /\ Cardinality(U \ {m}) \in Nat
    BY <1>10, <2>3, FS_Subset, FS_CardinalityType
  <2> QED  BY <1>4, <1>5, <1>6, <1>10, <2>1, <2>2, <2>3, <2>4
<1>11. \/ M \subseteq L /\ V \subseteq U /\ tears' = tears
       \/ M \subseteq L /\ tears' = tears + 1 /\ \E m : V \subseteq U \cup {m}
       \/ /\ ~windows /\ tears' = tears
          /\ \E r : M \subseteq L \cup {r}
          /\ \E m \in U : V \subseteq U \ {m}
  BY <1>2
<1> QED  BY <1>8, <1>9, <1>10, <1>11

\* A step that leaves the files alone, and the receipts.
LEMMA LossesSame ==
    ASSUME Typed, Typed', Losses, windows' = windows, tears' = tears, owed' = owed,
           \A m \in Months : Content(m)' = Content(m)
    PROVE  Losses'
<1>1. \A r : r \in ToSet(Read) => r \in ToSet(Read)'
  BY ReadHas, ReadHasNext
<1>2. Lost' \subseteq Lost /\ TornMonths' \subseteq TornMonths
  BY <1>1 DEF Lost, TornMonths
<1> QED  BY <1>2, LossesFrom

\* A write cut short: the tail it leaves is counted, and nothing that was
\* acknowledged goes.
LEMMA LossesTorn ==
    ASSUME Typed, Typed', Losses, TailNotOwed, windows' = windows, tears' = tears + 1,
           \A r \in owed' : r \in owed \/ ~r.whole,
           NEW w \in Writers, NEW m \in Months, Wrote(w, m)
    PROVE  Losses'
<1>1. \A r \in owed : r.whole /\ r.id \in ToSet(Read) => r.id \in ToSet(Read)'
  BY WriteKeeps
<1>2. Lost' \subseteq Lost
  BY <1>1 DEF Lost
<1>3. TornMonths' \subseteq TornMonths \cup {m}
  BY DEF TornMonths, Wrote
<1> QED  BY <1>2, <1>3, LossesFrom

LEMMA LossesStep ==
    ASSUME Typed, Typed', Serial, TailNotOwed, Losses, [Next]_vars
    PROVE  Losses'
<1>1. ASSUME NEW w \in Writers, NEW e \in Entries, Call(w, e) PROVE Losses'
  BY <1>1, SameFiles, LossesSame DEF Call
<1>2. ASSUME NEW w \in Writers, Open(w) PROVE Losses'
  <2>1. \A m \in Months : Content(m)' = Content(m)
    BY <1>2 DEF Open, Content
  <2> QED  BY <1>2, <2>1, LossesSame DEF Open
<1>3. ASSUME NEW w \in Writers, Refused(w) PROVE Losses'
  BY <1>3, SameFiles, LossesSame DEF Refused
<1>4. ASSUME NEW w \in Writers, Write(w) PROVE Losses'
  <2>1. Return(w) /\ pc[w] = "opened" /\ windows' = windows /\ tears' = tears
    BY <1>4 DEF Write
  <2>2. CASE call[w].orphan
    BY <1>4, <2>1, <2>2, SameFiles, LossesSame DEF Write
  <2>3. CASE ~call[w].orphan
    <3>1. PICK m \in Months : m = call[w].month
      BY DEF Typed, CallType
    <3>2. files' = [files EXCEPT ![m] = WholeLine(w)]
      BY <1>4, <2>3, <3>1 DEF Write
    <3>3. ~Live(w)'
      BY <2>1 DEF Return, Typed, Live
    <3>4. Wrote(w, m)
      BY <2>1, <2>3, <3>1, <3>2, <3>3, WroteWhenWritten
    <3>5. Content(m)' = WholeLine(w) /\ \A k \in Months \ {m} : Content(k)' = Content(k)
      BY <2>1, <2>3, <3>1, <3>2, FileWritten
    <3>6. /\ WholeLine(w).tail = <<>>
          /\ call[w].prefix \/ Content(m).tail = <<>> =>
               Readable(WholeLine(w)) = Append(Readable(Content(m)), call[w].id)
      BY <2>1, <2>3, <3>1, WriteEffect
    <3>7. owed' = owed \cup {[id |-> call[w].id, whole |-> TRUE]}
      BY <1>4, <2>3 DEF Write
    <3>8. \A r \in owed : r.whole /\ r.id \in ToSet(Read) => r.id \in ToSet(Read)'
      BY <3>4, WriteKeeps
    <3>9. Lost' \subseteq Lost \cup {[id |-> call[w].id, whole |-> TRUE]}
      BY <3>7, <3>8 DEF Lost
    <3>10. TornMonths' \subseteq TornMonths \ {m}
      BY <3>5, <3>6 DEF TornMonths
    <3>11. CASE call[w].prefix \/ Content(m).tail = <<>>
      <4>1. call[w].id \in ToSet(Readable(Content(m)'))
        <5>1. Readable(Content(m)) \in Seq(1..APPENDS)
          BY ContentType, ReadableIs
        <5>2. call[w].id \in 1..APPENDS
          BY <2>1 DEF Typed, Live
        <5>3. \A s \in Seq(1..APPENDS), x \in 1..APPENDS : ToSet(Append(s, x)) = ToSet(s) \cup {x}
          BY ToSetAppend
        <5>4. Readable(WholeLine(w)) = Append(Readable(Content(m)), call[w].id)
          BY <3>6, <3>11
        <5>5. call[w].id \in ToSet(Readable(WholeLine(w)))
          BY <5>1, <5>2, <5>3, <5>4
        <5> QED  BY <3>5, <5>5
      <4>2. call[w].id \in ToSet(Read)'
        BY <4>1, ReadHasNext
      <4>3. [id |-> call[w].id, whole |-> TRUE] \notin Lost'
        BY <4>2 DEF Lost
      <4>4. Lost' \subseteq Lost
        BY <3>9, <4>3
      <4>5. TornMonths' \subseteq TornMonths
        BY <3>10
      <4> QED  BY <2>1, <4>4, <4>5, LossesFrom
    <3>12. CASE ~call[w].prefix /\ Content(m).tail # <<>>
      <4>1. ~windows
        BY <2>1, <3>1, <3>12 DEF Serial, Typed
      <4>2. m \in TornMonths
        BY <3>12 DEF TornMonths
      <4> QED  BY <2>1, <3>9, <3>10, <4>1, <4>2, LossesFrom
    <3> QED  BY <3>11, <3>12
  <2> QED  BY <2>2, <2>3
<1>5. ASSUME NEW w \in Writers, WriteShort(w) PROVE Losses'
  <2>1. /\ Return(w) /\ pc[w] = "opened" /\ ~call[w].orphan
        /\ windows' = windows /\ tears' = tears + 1
        /\ owed' = owed \cup {[id |-> call[w].id, whole |-> FALSE]}
    BY <1>5 DEF WriteShort
  <2>2. PICK m \in Months : m = call[w].month
    BY DEF Typed, CallType
  <2>3. PICK f \in Torn(w) : files' = [files EXCEPT ![m] = f]
    BY <1>5, <2>2 DEF WriteShort
  <2>4. ~Live(w)'
    BY <2>1 DEF Return, Typed, Live
  <2>5. Wrote(w, m)
    BY <2>1, <2>2, <2>3, <2>4, WroteWhenWritten
  <2>6. \A r \in owed' : r \in owed \/ ~r.whole
    BY <2>1
  <2> QED  BY <2>1, <2>5, <2>6, LossesTorn
<1>6. ASSUME NEW w \in Writers, Die(w) PROVE Losses'
  <2>1. windows' = windows /\ owed' = owed /\ ~Live(w)'
    BY <1>6 DEF Die, Typed, Live
  <2>2. CASE UNCHANGED <<files, tears>>
    BY <2>1, <2>2, SameFiles, LossesSame
  <2>3. CASE /\ pc[w] = "opened" /\ ~call[w].orphan /\ tears' = tears + 1
             /\ \E f \in Torn(w) : files' = [files EXCEPT ![call[w].month] = f]
    <3>1. PICK m \in Months : m = call[w].month
      BY DEF Typed, CallType
    <3>2. PICK f \in Torn(w) : files' = [files EXCEPT ![m] = f]
      BY <2>3, <3>1
    <3>3. Wrote(w, m)
      BY <2>1, <2>3, <3>1, <3>2, WroteWhenWritten
    <3> QED  BY <2>1, <2>3, <3>3, LossesTorn
  <2> QED  BY <1>6, <2>2, <2>3 DEF Die
<1>7. CASE NextMonth
  BY <1>7, SameFiles, LossesSame DEF NextMonth
<1>8. ASSUME NEW keep \in Months, Prune(keep) PROVE Losses'
  <2>1. PICK gone \in SUBSET DOMAIN files :
          /\ files' = [m \in DOMAIN files \ gone |-> files[m]]
          /\ owed' = {r \in owed : \A m \in gone : r.id \notin Ids(files[m])}
    BY <1>8 DEF Prune
  <2>2. windows' = windows /\ tears' = tears
    BY <1>8 DEF Prune
  <2>3. \A m \in Months : /\ m \in gone => Content(m)' = EmptyFile /\ Content(m) = files[m]
                          /\ m \notin gone => Content(m)' = Content(m)
    BY <2>1 DEF Content
  <2>4. ASSUME NEW r \in owed', r.whole, r.id \in ToSet(Read)
        PROVE  r.id \in ToSet(Read)'
    <3>1. PICK m \in Months : r.id \in ToSet(Readable(Content(m)))
      BY <2>4, ReadHas
    <3>2. Content(m) \in FileType
      BY ContentType
    <3>3. r.id \in Ids(Content(m))
      <4>1. PICK i \in DOMAIN Readable(Content(m)) : r.id = Readable(Content(m))[i]
        BY <3>1 DEF ToSet
      <4>2. \E a \in DOMAIN Lines(Content(m)) :
              \E p \in ToSet(Lines(Content(m))[a]) : p.id = Readable(Content(m))[i]
        BY <3>2, ReadableOrigins
      <4> QED  BY <4>1, <4>2 DEF Ids, Pieces
    <3>4. m \notin gone
      BY <2>1, <2>3, <2>4, <3>3
    <3>5. r.id \in ToSet(Readable(Content(m)'))
      BY <2>3, <3>1, <3>4
    <3> QED  BY <3>5, ReadHasNext
  <2>5. Lost' \subseteq Lost
    BY <2>1, <2>4 DEF Lost
  <2>6. TornMonths' \subseteq TornMonths
    BY <2>3, EmptyFileFacts DEF TornMonths
  <2> QED  BY <2>2, <2>5, <2>6, LossesFrom
<1>9. CASE RemoveLock
  BY <1>9, SameFiles, LossesSame DEF RemoveLock
<1>10. CASE UNCHANGED vars
  BY <1>10, SameFiles, LossesSame DEF vars
<1> QED  BY <1>1, <1>2, <1>3, <1>4, <1>5, <1>6, <1>7, <1>8, <1>9, <1>10 DEF Next

-----------------------------------------------------------------------------
(* The theorems *)

LEMMA InvariantInit == Init => IInv
<1> SUFFICES ASSUME Init PROVE IInv
  OBVIOUS
<1>1. Typed
  BY TypedInit
<1>2. \A m \in Months : Content(m) = EmptyFile
  BY DEF Init, Content
<1>3. \A w \in Writers : pc[w] = "idle"
  BY DEF Init
<1>4. owed = {} /\ tears = 0
  BY DEF Init
<1>5. Unpruned /\ Serial /\ Fresh
  BY <1>3 DEF Unpruned, Serial, Fresh, Live
<1>6. Known /\ InOrder /\ TailNotOwed
  BY <1>2, <1>4, EmptyFileFacts DEF Known, InOrder, TailNotOwed
<1>7. Losses
  <2>1. Lost = {} /\ TornMonths = {}
    BY <1>2, <1>4, EmptyFileFacts DEF Lost, TornMonths
  <2> QED  BY <1>4, <2>1, FS_EmptySet DEF Losses
<1> QED  BY <1>1, <1>5, <1>6, <1>7 DEF IInv

LEMMA InvariantStep == IInv /\ [Next]_vars => IInv'
<1> SUFFICES ASSUME IInv, [Next]_vars PROVE IInv'
  OBVIOUS
<1>1. Typed /\ Unpruned /\ Serial /\ Known /\ Fresh /\ InOrder /\ TailNotOwed /\ Losses
  BY DEF IInv
<1>2. Typed' /\ Unpruned' /\ Serial'
  BY <1>1, TypedStep, UnprunedStep, SerialStep
<1>3. StepFacts
  BY <1>1, StepFactsStep
<1>4. Known' /\ Fresh'
  BY <1>1, <1>2, <1>3, KnownStep, FreshStep
<1>5. InOrder' /\ TailNotOwed'
  BY <1>1, <1>3, InOrderStep, TailNotOwedStep
<1>6. Losses'
  BY <1>1, <1>2, LossesStep
<1> QED  BY <1>2, <1>4, <1>5, <1>6 DEF IInv

\* The inductive invariant.
THEOREM JournalInvariant == Spec => []IInv
BY InvariantInit, InvariantStep, PTL DEF Spec

\* Types: what is in the files was put there by a writer with a rendered
\* line that fits, and the receipts are of appended records.
THEOREM JournalTypes == Spec => []TypeOK
<1>1. IInv => TypeOK
  <2> SUFFICES ASSUME Typed PROVE TypeOK
    BY DEF IInv
  <2>1. ASSUME NEW m \in DOMAIN files PROVE Pieces(files[m]) \subseteq PieceType
    <3>1. files[m] \in FileType
      BY DEF Typed
    <3> QED  BY <3>1, LinesOf DEF Pieces, ToSet
  <2> QED  BY <2>1 DEF Typed, TypeOK, CallType, PieceType
<1> QED  BY <1>1, JournalInvariant, PTL

\* An interrupted write costs at most one acknowledged record besides itself,
\* and none where appends are serialized.
THEOREM JournalLosses == Spec => []OneLossPerTear
<1>1. IInv => OneLossPerTear
  <2> SUFFICES ASSUME Typed, Losses PROVE OneLossPerTear
    BY DEF IInv
  <2>1. TornMonths \subseteq Months /\ Lost \subseteq Whole
    BY DEF TornMonths, Lost, Whole, Typed
  <2>2. Cardinality(TornMonths) \in Nat /\ Cardinality(Lost) \in Nat /\ tears \in Nat
    BY <2>1, WholeFinite, FS_Subset, FS_CardinalityType, JournalAssumption DEF Typed
  <2>3. CASE windows
    BY <2>3, FS_EmptySet DEF Losses, OneLossPerTear
  <2>4. CASE ~windows
    BY <2>2, <2>4 DEF Losses, OneLossPerTear
  <2> QED  BY <2>3, <2>4
<1> QED  BY <1>1, JournalInvariant, PTL

\* A reader gets one writer's records in the order they were appended, each
\* once.
THEOREM JournalWriterOrder == Spec => []WriterOrder
<1>1. IInv => WriterOrder
  <2> SUFFICES ASSUME Typed, Known, InOrder PROVE WriterOrder
    BY DEF IInv
  <2> DEFINE author(id) == CHOOSE w \in Writers : \E m \in DOMAIN files :
                             \E p \in Pieces(files[m]) : p.id = id /\ p.by = w
             ss == [m \in Months |-> Readable(Content(m))]
  <2>1. SUFFICES ASSUME NEW i \in DOMAIN Read, NEW j \in DOMAIN Read, i < j,
                        author(Read[i]) = author(Read[j])
                 PROVE  Read[i] < Read[j]
    BY DEF WriterOrder
  \* The author is who signed the piece.
  <2>2. ASSUME NEW m \in Months, NEW p \in Pieces(Content(m)) PROVE author(p.id) = p.by
    <3>1. m \in DOMAIN files /\ Content(m) = files[m]
      BY <2>2, EmptyFileFacts DEF Content
    <3>2. p.by \in Writers
      <4>1. Content(m) \in FileType
        BY ContentType
      <4>2. p \in PieceType
        BY <2>2, <4>1, LinesOf DEF Pieces, ToSet
      <4> QED  BY <4>2 DEF PieceType
    <3>3. \E w \in Writers : \E k \in DOMAIN files : \E q \in Pieces(files[k]) :
            q.id = p.id /\ q.by = w
      BY <2>2, <3>1, <3>2
    <3>4. \A k \in DOMAIN files : k \in Months /\ Content(k) = files[k]
      BY DEF Typed, Content
    <3>5. \A w \in Writers : \A k \in DOMAIN files : \A q \in Pieces(files[k]) :
            q.id = p.id /\ q.by = w => w = p.by
      BY <2>2, <3>4 DEF Known
    <3> QED  BY <3>3, <3>5
  <2> HIDE DEF author
  <2>3. PICK a \in 1..MONTHS, b \in 1..MONTHS : \E x \in DOMAIN ss[a], y \in DOMAIN ss[b] :
          /\ a < b \/ (a = b /\ x < y)
          /\ Read[i] = ss[a][x] /\ Read[j] = ss[b][y]
    BY <2>1, ReadHas DEF Joined
  <2>4. PICK x \in DOMAIN ss[a], y \in DOMAIN ss[b] :
          /\ a < b \/ (a = b /\ x < y)
          /\ Read[i] = ss[a][x] /\ Read[j] = ss[b][y]
    BY <2>3
  <2>5. /\ a \in Months /\ b \in Months
        /\ ss[a] = Readable(Content(a)) /\ ss[b] = Readable(Content(b))
        /\ Content(a) \in FileType /\ Content(b) \in FileType
    BY ContentType DEF Months
  <2> HIDE DEF ss
  <2>6. \E l \in DOMAIN Lines(Content(a)), k \in DOMAIN Lines(Content(b)) :
          /\ a < b \/ (a = b /\ l < k)
          /\ \E p \in ToSet(Lines(Content(a))[l]) : p.id = Read[i]
          /\ \E q \in ToSet(Lines(Content(b))[k]) : q.id = Read[j]
    <3>1. CASE a < b
      BY <2>4, <2>5, <3>1, ReadableOrigins
    <3>2. CASE a = b /\ x < y
      <4>1. \E l, k \in DOMAIN Lines(Content(a)) :
              /\ l < k
              /\ \E p \in ToSet(Lines(Content(a))[l]) : p.id = Readable(Content(a))[x]
              /\ \E q \in ToSet(Lines(Content(a))[k]) : q.id = Readable(Content(a))[y]
        BY <2>4, <2>5, <3>2, ReadableOrigins
      <4> QED  BY <2>4, <2>5, <3>2, <4>1
    <3> QED  BY <2>4, <3>1, <3>2
  <2>7. PICK l \in DOMAIN Lines(Content(a)), k \in DOMAIN Lines(Content(b)) :
          /\ a < b \/ (a = b /\ l < k)
          /\ \E p \in ToSet(Lines(Content(a))[l]) : p.id = Read[i]
          /\ \E q \in ToSet(Lines(Content(b))[k]) : q.id = Read[j]
    BY <2>6
  <2>8. PICK p \in ToSet(Lines(Content(a))[l]), q \in ToSet(Lines(Content(b))[k]) :
          p.id = Read[i] /\ q.id = Read[j]
    BY <2>7
  <2>9. p \in Pieces(Content(a)) /\ q \in Pieces(Content(b))
    BY DEF Pieces
  <2>10. p.by = q.by
    BY <2>1, <2>2, <2>5, <2>8, <2>9
  <2>11. p.id < q.id
    BY <2>5, <2>7, <2>10 DEF InOrder
  <2> QED  BY <2>8, <2>11
<1> QED  BY <1>1, JournalInvariant, PTL

-----------------------------------------------------------------------------
(* What readers are promised: RecordLog *)

\* The log that RecordLog speaks of.
monthly == [m \in Months |-> Readable(Content(m))]

\* What a write does to the month it reaches.
LEMMA WroteInLog ==
    ASSUME Typed, Fresh, NEW w \in Writers, NEW m \in Months, Wrote(w, m)
    PROVE  Log!Gain(m, call[w].id) \/ Log!Spoil(m) \/ monthly' = monthly
<1>1. PICK b \in BOOLEAN : Effect(Content(m), Content(m)', Piece(w, b))
  BY DEF Wrote
<1>2. PICK c, d, r, id : c = Readable(Content(m)) /\ d = Readable(Content(m)') /\ id = call[w].id
                         /\ r = Content(m).tail[1].id
  OBVIOUS
<1>3. d = c \/ d = Append(c, id) \/ (c = Append(d, r) /\ Len(Content(m).tail) = 1)
  BY <1>1, <1>2 DEF Effect, ReadsOn, Piece
<1>4. Content(m) \in FileType /\ Content(m)' \in FileType
  BY <1>1, ContentType DEF Effect
<1>5. c \in Seq(1..APPENDS) /\ d \in Seq(1..APPENDS)
  BY <1>2, <1>4, ReadableIs
<1>6. monthly[m] = c
  BY <1>2 DEF monthly
<1>7. monthly' = [monthly EXCEPT ![m] = d]
  <2>1. \A k \in Months : k # m => Content(k)' = Content(k)
    BY DEF Wrote
  <2> QED  BY <1>2, <2>1 DEF monthly
<1>8. CASE d = c
  BY <1>6, <1>7, <1>8 DEF monthly
<1>9. CASE d = Append(c, id)
  <2>1. ASSUME NEW k \in Months PROVE id \notin ToSet(monthly[k])
    <3>1. Content(k) \in FileType
      BY ContentType
    <3>2. SUFFICES ASSUME NEW x \in DOMAIN Readable(Content(k)), id = Readable(Content(k))[x]
                   PROVE  FALSE
      BY DEF monthly, ToSet
    <3>3. \E a \in DOMAIN Lines(Content(k)) : \E p \in ToSet(Lines(Content(k))[a]) : p.id = id
      BY <3>1, <3>2, ReadableOrigins
    <3>4. \E p \in Pieces(Content(k)) : p.id = id
      BY <3>3 DEF Pieces
    <3> QED  BY <1>2, <3>4 DEF Fresh, Wrote, Live
  <2>2. monthly' = [monthly EXCEPT ![m] = Append(monthly[m], id)]
    BY <1>6, <1>7, <1>9
  <2> HIDE DEF monthly
  <2>3. Log!Gain(m, id)
    BY <2>1, <2>2 DEF Log!Gain, Log!ToSet, ToSet, monthly
  <2> QED  BY <1>2, <2>3
<1>10. CASE c = Append(d, r) /\ Len(Content(m).tail) = 1
  <2>1. r \in 1..APPENDS
    <3>1. Content(m).tail \in Seq(PieceType)
      BY <1>4 DEF FileType
    <3>2. Content(m).tail[1] \in PieceType
      BY <1>10, <3>1
    <3> QED  BY <1>2, <3>2 DEF PieceType
  <2>2. c # <<>> /\ Front(c) = d
    <3> DEFINE R == 1..APPENDS
    <3>1. d \in Seq(R) /\ r \in R
      BY <1>5, <2>1
    <3> HIDE DEF R
    <3>2. Append(d, r) # <<>> /\ SubSeq(Append(d, r), 1, Len(Append(d, r)) - 1) = d
      BY <3>1
    <3> QED  BY <1>10, <3>2 DEF Front
  <2>3. monthly[m] # <<>> /\ monthly' = [monthly EXCEPT ![m] = Front(monthly[m])]
    BY <1>6, <1>7, <2>2
  <2>4. Log!Spoil(m)
    BY <2>3 DEF Log!Spoil, Log!Front, Front, monthly
  <2> QED  BY <2>4
<1> QED  BY <1>3, <1>8, <1>9, <1>10

\* prune leaves a month that is newer than all it takes.
LEMMA PruneInLog ==
    ASSUME Typed, NEW keep \in Months, Prune(keep)
    PROVE  \E S \in SUBSET Months : Log!Forget(S)
<1> DEFINE newer(m) == {k \in DOMAIN files : k > m}
           old == {m \in DOMAIN files : Cardinality(newer(m)) >= keep}
<1>0. PICK gone \in (SUBSET old) \ {{}} : files' = [m \in DOMAIN files \ gone |-> files[m]]
  BY DEF Prune
<1>1. /\ gone \in SUBSET DOMAIN files
      /\ gone # {} /\ \A m \in gone : Cardinality(newer(m)) >= keep
      /\ files' = [m \in DOMAIN files \ gone |-> files[m]]
  <2> HIDE DEF newer
  <2> QED  BY <1>0
<1> HIDE DEF old
<1>2. MONTHS \in Nat /\ Months = 1..MONTHS /\ DOMAIN files \subseteq Months /\ keep \in Nat \ {0}
  BY JournalAssumption DEF Months, Typed
<1>3. \E m \in DOMAIN files : \A k \in DOMAIN files : k <= m
  <2> DEFINE D == {MONTHS - k : k \in DOMAIN files}
  <2>1. D \subseteq Nat /\ D # {}
    BY <1>1, <1>2
  <2>2. IsWellFoundedOn(OpToRel(<, Nat), Nat)
    BY NatLessThanWellFounded
  <2>3. PICK x \in D : \A y \in D : <<y, x>> \notin OpToRel(<, Nat)
    BY <2>1, <2>2, WFMin
  <2>4. PICK m \in DOMAIN files : x = MONTHS - m
    OBVIOUS
  <2>5. ASSUME NEW k \in DOMAIN files PROVE k <= m
    <3>1. SUFFICES ASSUME ~(k <= m) PROVE FALSE
      OBVIOUS
    <3>2. MONTHS - k \in D /\ MONTHS - k \in Nat /\ x \in Nat
      BY <2>1
    <3>3. MONTHS - k < x
      BY <1>2, <2>4, <3>1
    <3>4. <<MONTHS - k, x>> \in OpToRel(<, Nat)
      BY <3>2, <3>3 DEF OpToRel
    <3> QED  BY <2>3, <3>2, <3>4
  <2> QED  BY <2>5
<1>4. PICK m \in DOMAIN files : \A k \in DOMAIN files : k <= m
  BY <1>3
<1>5. newer(m) = {}
  BY <1>2, <1>4
<1>6. m \notin gone
  <2>1. Cardinality(newer(m)) = 0
    BY <1>5, FS_EmptySet
  <2> HIDE DEF newer
  <2> QED  BY <1>1, <1>2, <2>1
<1>7. \A s \in gone : s < m
  BY <1>1, <1>2, <1>4, <1>6
<1>8. Readable(EmptyFile) = <<>>
  <2>1. ~Parses(EmptyFile.tail)
    BY EmptyFileFacts DEF Parses
  <2>2. Readable(EmptyFile) = Gathered(EmptyFile.lines)
    BY <2>1, EmptyFileFacts, ReadableIs
  <2> QED  BY <2>2, GatheredEmpty DEF EmptyFile
<1>9. \A k \in Months : Readable(Content(k)') = IF k \in gone THEN <<>> ELSE Readable(Content(k))
  BY <1>1, <1>8 DEF Content
<1>10. monthly' = [k \in Months |-> IF k \in gone THEN <<>> ELSE monthly[k]]
  BY <1>9 DEF monthly
<1>11. Log!Forget(gone)
  BY <1>1, <1>2, <1>6, <1>7, <1>10 DEF Log!Forget, monthly
<1> QED  BY <1>1, <1>2, <1>11

LEMMA LogStep ==
    ASSUME IInv, [Next]_vars
    PROVE  [Log!Next]_monthly
<1>1. Typed /\ Serial /\ Fresh
  BY DEF IInv
<1>2. StepFacts
  BY <1>1, StepFactsStep
<1>3. CASE Same
  BY <1>3 DEF Same, monthly
<1>4. CASE \E keep \in Months : Prune(keep)
  BY <1>1, <1>4, PruneInLog DEF Log!Next
<1>5. ASSUME NEW w \in Writers, NEW m \in Months, Wrote(w, m)
      PROVE  [Log!Next]_monthly
  <2>1. call[w].id \in 1..APPENDS
    BY <1>1, <1>5 DEF Wrote, Typed, Live
  <2>2. Log!Gain(m, call[w].id) \/ Log!Spoil(m) \/ monthly' = monthly
    BY <1>1, <1>5, WroteInLog
  <2> QED  BY <2>1, <2>2 DEF Log!Next
<1> QED  BY <1>2, <1>3, <1>4, <1>5 DEF StepFacts

\* What readers get of a month grows at its end, or loses its newest record,
\* or the whole month and all that are pruned with it, never the newest.
THEOREM JournalImplementsLog == Spec => LogSpec
<1>1. Init => Log!Init
  <2> SUFFICES ASSUME Init PROVE Log!Init
    OBVIOUS
  <2>1. \A m \in Months : Content(m) = EmptyFile
    BY DEF Init, Content
  <2>2. Readable(EmptyFile) = <<>>
    <3>1. ~Parses(EmptyFile.tail)
      BY EmptyFileFacts DEF Parses
    <3>2. Readable(EmptyFile) = Gathered(EmptyFile.lines)
      BY <3>1, EmptyFileFacts, ReadableIs
    <3> QED  BY <3>2, GatheredEmpty DEF EmptyFile
  <2> QED  BY <2>1, <2>2 DEF Log!Init
<1>2. IInv /\ [Next]_vars => [Log!Next]_[m \in Months |-> Readable(Content(m))]
  BY LogStep DEF monthly
<1> QED  BY <1>1, <1>2, JournalInvariant, PTL DEF Spec, LogSpec, Log!Spec
=============================================================================
