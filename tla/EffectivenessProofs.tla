------------------------- MODULE EffectivenessProofs -------------------------
(***************************************************************************)
(* Theorems about Effectiveness: what two copies of one graph, taken       *)
(* before and after any operation, add to the report.                      *)
(***************************************************************************)
EXTENDS Effectiveness, TaskGraphLedgerProofs, FiniteSetTheorems

-----------------------------------------------------------------------------
(* The record kept of a node *)

\* What one more copy makes of the records kept.
Merged(existing, node) ==
    [n \in DOMAIN existing \cup DOMAIN node |->
        IF \/ n \notin DOMAIN existing
           \/ n \in DOMAIN node /\ Prefer(node[n], existing[n])
        THEN node[n] ELSE existing[n]]

\* by_node of two copies: the better record of a node that both have.
LEMMA ByNodeOfTwo ==
    ASSUME NEW a, NEW b PROVE ByNode(<<a, b>>) = Merged(a, b)
<1> DEFINE two == <<a, b>>
           Step(f, i) == IF i = 0 THEN <<>> ELSE Merged(f[i - 1], two[i])
           Best(f) == f = [i \in 0..2 |-> Step(f, i)]
           one == Merged(<<>>, a)
           best == [i \in 0..2 |->
                      IF i = 0 THEN <<>> ELSE IF i = 1 THEN one ELSE Merged(one, b)]
<1>1. Len(two) = 2 /\ two[1] = a /\ two[2] = b
  OBVIOUS
<1>2. ByNode(two) = (CHOOSE f : Best(f))[2]
  BY <1>1 DEF ByNode, Merged
<1> HIDE DEF two
<1>3. Best(best)
  <2>1. \A i \in 0..2 : best[i] = Step(best, i)
    BY <1>1
  <2> HIDE DEF best, Step
  <2>2. best = [i \in 0..2 |-> best[i]]
    BY DEF best
  <2>3. QED
    BY <2>1, <2>2
<1>4. PICK f : Best(f) /\ ByNode(two) = f[2]
  BY <1>2, <1>3
<1>5. f[0] = <<>> /\ f[1] = Merged(f[0], a) /\ f[2] = Merged(f[1], b)
  BY <1>1, <1>4
<1>6. f[1] = [n \in DOMAIN a |-> a[n]]
  BY <1>5 DEF Merged
<1>7. DOMAIN f[1] = DOMAIN a /\ \A n \in DOMAIN a : f[1][n] = a[n]
  BY <1>6
<1>8. QED
  BY <1>4, <1>5, <1>7 DEF Merged, two

\* Of two records of one node that are not both settled differently, the same
\* one is kept in either order, or two that count alike.
LEMMA OrderOfTwo ==
    ASSUME NEW a, NEW b, NEW n \in DOMAIN a \cup DOMAIN b,
           n \in DOMAIN a => a[n].attempts \in Nat,
           n \in DOMAIN b => b[n].attempts \in Nat,
           /\ n \in DOMAIN a \cap DOMAIN b
           /\ a[n].status \in SETTLED
           /\ b[n].status \in SETTLED
           => a[n].status = b[n].status
    PROVE  LET one == ByNode(<<a, b>>)[n]
               other == ByNode(<<b, a>>)[n]
           IN  /\ one.attempts = other.attempts
               /\ \A s \in SETTLED : one.status = s <=> other.status = s
<1> DEFINE one == ByNode(<<a, b>>)[n]
           other == ByNode(<<b, a>>)[n]
<1>0. ByNode(<<a, b>>) = Merged(a, b) /\ ByNode(<<b, a>>) = Merged(b, a)
  BY ByNodeOfTwo
<1>1. /\ one = IF n \notin DOMAIN a \/ (n \in DOMAIN b /\ Prefer(b[n], a[n]))
               THEN b[n] ELSE a[n]
      /\ other = IF n \notin DOMAIN b \/ (n \in DOMAIN a /\ Prefer(a[n], b[n]))
                 THEN a[n] ELSE b[n]
  BY <1>0 DEF Merged
<1> HIDE DEF one, other
<1>2. CASE n \notin DOMAIN a \cap DOMAIN b
  <2>1. one = other
    BY <1>1, <1>2
  <2>2. QED
    BY <2>1 DEF one, other
<1>3. CASE n \in DOMAIN a \cap DOMAIN b
  <2>1. /\ one = IF Prefer(b[n], a[n]) THEN b[n] ELSE a[n]
        /\ other = IF Prefer(a[n], b[n]) THEN a[n] ELSE b[n]
    BY <1>1, <1>3
  <2>2. CASE Prefer(a[n], b[n]) \/ Prefer(b[n], a[n])
    <3>1. ~ (Prefer(a[n], b[n]) /\ Prefer(b[n], a[n]))
      BY <1>3 DEF Prefer
    <3>2. one = other
      BY <2>1, <2>2, <3>1
    <3>3. QED
      BY <3>2 DEF one, other
  <2>3. CASE ~ Prefer(a[n], b[n]) /\ ~ Prefer(b[n], a[n])
    <3>1. a[n].status \in SETTLED <=> b[n].status \in SETTLED
      BY <2>3 DEF Prefer
    <3>2. a[n].attempts = b[n].attempts
      BY <1>3, <2>3, <3>1 DEF Prefer
    <3>3. \A s \in SETTLED : a[n].status = s <=> b[n].status = s
      BY <1>3, <3>1
    <3>4. QED
      BY <2>1, <2>3, <3>2, <3>3 DEF one, other
  <2>4. QED
    BY <2>2, <2>3
<1>4. QED
  BY <1>2, <1>3

-----------------------------------------------------------------------------
(* The reviews kept *)

\* The reviews of one copy; the failed ones among them; the keys of some.
ReviewsIn(document) ==
    UNION {{n} \X RecordedReviews(document[n]) : n \in DOMAIN document}
FailedOf(reviews) == {r \in reviews : r[2].verification.result = "fail"}
KeysOf(reviews) == {<<r[1], Key(r[2])>> : r \in reviews}

LEMMA ReviewedOfOne ==
    ASSUME NEW a PROVE Reviewed(<<a>>) = ReviewsIn(a)
<1>1. Range(<<a>>) = {a}
  BY DEF Range
<1>2. QED
  BY <1>1 DEF Reviewed, ReviewsIn

\* Every copy's reviews are kept, a review that both have once.
LEMMA ReviewedOfTwo ==
    ASSUME NEW a, NEW b
    PROVE  Reviewed(<<a, b>>) = ReviewsIn(a) \cup ReviewsIn(b)
<1>1. Range(<<a, b>>) = {a, b}
  BY DEF Range
<1>2. QED
  BY <1>1 DEF Reviewed, ReviewsIn

\* The counts of a report that come from the keys of reviews.
LEMMA ReportReviews ==
    ASSUME NEW documents
    PROVE  /\ ReportOf(documents).failed = Cardinality(KeysOf(FailedOf(Reviewed(documents))))
           /\ ReportOf(documents).passed =
                 Cardinality({k \in Keys(documents) : k[2][1] = "pass"})
<1>1. {k \in Keys(documents) : k[2][1] = "fail"} = KeysOf(FailedOf(Reviewed(documents)))
  <2>1. \A r : Key(r)[1] = r.verification.result
    BY DEF Key
  <2>2. \A r : <<r[1], Key(r[2])>>[2][1] = r[2].verification.result
    BY <2>1
  <2>3. QED
    BY <2>2 DEF Keys, KeysOf, FailedOf
<1>2. QED
  BY <1>1 DEF ReportOf

\* So what is free of the order is the same in either order.
LEMMA ReportOfTwo ==
    ASSUME NEW a, NEW b,
           \A n \in DOMAIN a : a[n].attempts \in Nat,
           \A n \in DOMAIN b : b[n].attempts \in Nat,
           \A n \in DOMAIN a \cap DOMAIN b :
              a[n].status \in SETTLED /\ b[n].status \in SETTLED => a[n].status = b[n].status
    PROVE  \A field \in OrderFree : ReportOf(<<a, b>>)[field] = ReportOf(<<b, a>>)[field]
<1> DEFINE one == ByNode(<<a, b>>)
           other == ByNode(<<b, a>>)
<1>0. one = Merged(a, b) /\ other = Merged(b, a)
  BY ByNodeOfTwo
<1>1. DOMAIN one = DOMAIN a \cup DOMAIN b /\ DOMAIN other = DOMAIN a \cup DOMAIN b
  BY <1>0 DEF Merged
<1>2. \A n \in DOMAIN one :
         /\ one[n].attempts = other[n].attempts
         /\ one[n].status = "verified" <=> other[n].status = "verified"
         /\ one[n].status = "superseded" <=> other[n].status = "superseded"
  BY <1>1, OrderOfTwo DEF SETTLED
<1>3. Reviewed(<<a, b>>) = Reviewed(<<b, a>>) /\ Keys(<<a, b>>) = Keys(<<b, a>>)
  BY ReviewedOfTwo DEF Keys
<1> HIDE DEF one, other
<1>4. /\ {n \in DOMAIN one : one[n].status = "verified"}
           = {n \in DOMAIN other : other[n].status = "verified"}
      /\ {n \in DOMAIN one : one[n].status = "superseded"}
           = {n \in DOMAIN other : other[n].status = "superseded"}
      /\ {n \in {x \in DOMAIN one : one[x].status = "verified"} : one[n].attempts = 1}
           = {n \in {x \in DOMAIN other : other[x].status = "verified"} : other[n].attempts = 1}
      /\ [n \in DOMAIN one |-> one[n].attempts] = [n \in DOMAIN other |-> other[n].attempts]
  BY <1>1, <1>2
<1> DEFINE R == ReportOf(<<a, b>>)
           S == ReportOf(<<b, a>>)
<1>5. /\ R.total = Cardinality(DOMAIN one) /\ S.total = Cardinality(DOMAIN other)
      /\ R.verified = Cardinality({n \in DOMAIN one : one[n].status = "verified"})
      /\ S.verified = Cardinality({n \in DOMAIN other : other[n].status = "verified"})
      /\ R.superseded = Cardinality({n \in DOMAIN one : one[n].status = "superseded"})
      /\ S.superseded = Cardinality({n \in DOMAIN other : other[n].status = "superseded"})
  BY DEF ReportOf, one, other
<1>6. /\ R.verified_first_attempt =
            Cardinality({n \in {x \in DOMAIN one : one[x].status = "verified"} :
                           one[n].attempts = 1})
      /\ S.verified_first_attempt =
            Cardinality({n \in {x \in DOMAIN other : other[x].status = "verified"} :
                           other[n].attempts = 1})
      /\ R.attempts = [n \in DOMAIN one |-> one[n].attempts]
      /\ S.attempts = [n \in DOMAIN other |-> other[n].attempts]
  BY DEF ReportOf, one, other
<1>7. R.failed = S.failed /\ R.passed = S.passed
  BY <1>3, ReportReviews
<1> HIDE DEF R, S
<1>8. R.total = S.total /\ R.verified = S.verified /\ R.superseded = S.superseded
  BY <1>1, <1>4, <1>5
<1>9. R.verified_first_attempt = S.verified_first_attempt /\ R.attempts = S.attempts
  BY <1>4, <1>6
<1>10. \A field \in OrderFree : R[field] = S[field]
  BY <1>7, <1>8, <1>9 DEF OrderFree
<1>11. QED
  BY <1>10 DEF R, S

-----------------------------------------------------------------------------
(* The failed reviews on a node *)

\* The failed reviews that node x holds, the archived ones included.
Current(x) == [verification |-> verification[x], evidence |-> evidence[x]]
Failures(x) ==
    {r \in {Current(x)} \cup Range(attempt_history[x]) : r.verification.result = "fail"}

\* A node that is not planned has none: nothing is lost when a document leaves
\* it out.
Unfailed == \A x \in Nodes : status[x] = "absent" => Failures(x) = {}

AllFailures == UNION {{x} \X Failures(x) : x \in Nodes}
FailedKeys == KeysOf(AllFailures)

LEMMA RangeOfAppend ==
    ASSUME NEW T, NEW seq \in Seq(T), NEW e
    PROVE  Range(Append(seq, e)) = {e} \cup Range(seq)
<1> DEFINE q == Append(seq, e)
<1>1. /\ DOMAIN q = 1..(Len(seq) + 1) /\ DOMAIN seq = 1..Len(seq) /\ Len(seq) \in Nat
      /\ \A i \in 1..Len(seq) : q[i] = seq[i]
      /\ q[Len(seq) + 1] = e
  OBVIOUS
<1> HIDE DEF q
<1>2. \A i \in 1..(Len(seq) + 1) : i = Len(seq) + 1 \/ i \in 1..Len(seq)
  BY <1>1
<1>3. Len(seq) + 1 \in 1..(Len(seq) + 1) /\ 1..Len(seq) \subseteq 1..(Len(seq) + 1)
  BY <1>1
<1>4. Range(q) = {e} \cup Range(seq)
  BY <1>1, <1>2, <1>3 DEF Range
<1>5. QED
  BY <1>4 DEF q

LEMMA ArchiveSeq == TypeOK => \A x \in Nodes : attempt_history[x] \in Seq(Archives)
BY DEF TypeOK

\* They are the failed reviews in the document.
LEMMA DocumentFailures ==
    TypeOK /\ Unfailed => FailedOf(ReviewsIn(Document)) = AllFailures
<1> SUFFICES ASSUME TypeOK, Unfailed
             PROVE  FailedOf(ReviewsIn(Document)) = AllFailures
  OBVIOUS
<1>1. DOMAIN Document = planned
  BY DEF Document
<1>2. ASSUME NEW x \in planned
      PROVE  {k \in RecordedReviews(Document[x]) : k.verification.result = "fail"} = Failures(x)
  <2>1. Written(Document[x]) = Append(attempt_history[x], Current(x))
    BY DEF Document, Written, Current
  <2>2. Range(Written(Document[x])) = {Current(x)} \cup Range(attempt_history[x])
    BY <2>1, ArchiveSeq, RangeOfAppend DEF planned
  <2>3. \A k : k.verification.result = "fail" => k.verification # NoReview
    BY DEF NoReview, Review
  <2>4. QED
    BY <2>2, <2>3 DEF RecordedReviews, Failures
<1>3. ASSUME NEW r
      PROVE  r \in FailedOf(ReviewsIn(Document)) <=>
               \E x \in planned : \E k \in Failures(x) : r = <<x, k>>
  <2>1. r \in ReviewsIn(Document) <=>
          \E x \in planned : \E k \in RecordedReviews(Document[x]) : r = <<x, k>>
    BY <1>1 DEF ReviewsIn
  <2>2. QED
    BY <1>2, <2>1 DEF FailedOf
<1>4. ASSUME NEW r
      PROVE  r \in AllFailures <=> \E x \in Nodes : \E k \in Failures(x) : r = <<x, k>>
  BY DEF AllFailures
<1>5. \A x \in Nodes \ planned : Failures(x) = {}
  BY DEF Unfailed, planned
<1>6. planned \subseteq Nodes
  BY DEF planned
<1>7. QED
  BY <1>3, <1>4, <1>5, <1>6

\* A node whose record an operation leaves alone holds the same ones, and so
\* does one that had no failed verdict and is given none.
LEMMA FailuresFrame ==
    ASSUME NEW x \in Nodes, attempt_history'[x] = attempt_history[x],
           \/ verification'[x] = verification[x] /\ evidence'[x] = evidence[x]
           \/ verification[x].result # "fail" /\ verification'[x].result # "fail"
    PROVE  Failures(x)' = Failures(x)
<1> DEFINE Old == Range(attempt_history[x])
<1>1. Failures(x) = {r \in {Current(x)} \cup Old : r.verification.result = "fail"}
  BY DEF Failures
<1>2. Failures(x)' = {r \in {Current(x)'} \cup Old : r.verification.result = "fail"}
  BY DEF Failures
<1> HIDE DEF Old
<1>3. /\ Current(x).verification = verification[x]
      /\ Current(x)'.verification = verification'[x]
      /\ verification'[x] = verification[x] /\ evidence'[x] = evidence[x]
           => Current(x)' = Current(x)
  BY DEF Current
<1>4. QED
  BY <1>1, <1>2, <1>3

\* What a trimmed archive holds was in it.
LEMMA NewestRange ==
    ASSUME NEW T, NEW seq \in Seq(T), NEW e \in T, NEW keep \in Nat
    PROVE  Range(Newest(Append(seq, e), keep)) \subseteq Range(seq) \cup {e}
<1> DEFINE s == Append(seq, e)
<1>1. s \in Seq(T) /\ Len(s) = Len(seq) + 1 /\ Len(seq) \in Nat
  OBVIOUS
<1>2. \A i \in 1..Len(s) : s[i] \in Range(seq) \cup {e}
  BY DEF Range
<1> HIDE DEF s
<1>3. CASE Len(s) <= keep
  <2>1. Newest(s, keep) = s /\ DOMAIN s = 1..Len(s)
    BY <1>1, <1>3 DEF Newest
  <2>2. QED
    BY <1>2, <2>1 DEF Range, s
<1>4. CASE ~ (Len(s) <= keep)
  <2> DEFINE a == Len(s) - keep + 1
             q == SubSeq(s, a, Len(s))
  <2>1. a \in 1..(Len(s) + 1) /\ Len(s) \in (a - 1)..Len(s) /\ Len(s) - a + 1 = keep
    BY <1>1, <1>4
  <2>2. q \in Seq(T) /\ Len(q) = keep /\ \A i \in 1..keep : q[i] = s[a + i - 1]
    <3>1. /\ q \in Seq(T)
          /\ Len(q) = Len(s) - a + 1
          /\ \A i \in 1..(Len(s) - a + 1) : q[i] = s[a + i - 1]
      BY <1>1, <2>1, SubSeqProperties
    <3>2. QED
      BY <2>1, <3>1
  <2>3. \A i \in 1..keep : a + i - 1 \in 1..Len(s)
    BY <1>1, <1>4
  <2> HIDE DEF q
  <2>4. Newest(s, keep) = q /\ DOMAIN q = 1..keep
    BY <1>4, <2>2 DEF Newest, q
  <2>5. \A i \in 1..keep : q[i] \in Range(seq) \cup {e}
    BY <1>2, <2>2, <2>3
  <2>6. Range(q) = {q[i] : i \in 1..keep}
    BY <2>4 DEF Range
  <2>7. QED
    BY <2>4, <2>5, <2>6 DEF s
<1>5. QED
  BY <1>3, <1>4

\* Retry moves the verdict on n to its archive: no failed review is added, and
\* none is lost while the archive keeps what it had and something at all.
LEMMA RetryFailures ==
    ASSUME TypeOK, NEW n \in Nodes, Retry(n)
    PROVE  /\ Failures(n)' \subseteq Failures(n)
           /\ RETRY_LOG # 0 /\ IsPrefix(attempt_history[n], attempt_history'[n])
                => Failures(n) \subseteq Failures(n)'
<1> DEFINE old == attempt_history[n]
           new == attempt_history'[n]
           now == Archived(n)
<1>1. /\ new = Newest(Append(old, Archived(n)), RETRY_LOG)
      /\ verification'[n] = NoReview
  BY DEF Retry, TypeOK
<1>2. /\ old \in Seq(Archives) /\ now \in Archives /\ RETRY_LOG \in Nat
      /\ now = Current(n)
  BY BoundsAssumption DEF TypeOK, Archived, Archives, Current
<1>3. Failures(n) = {r \in {now} \cup Range(old) : r.verification.result = "fail"}
  BY <1>2 DEF Failures
<1>4. Failures(n)' = {r \in Range(new) : r.verification.result = "fail"}
  <2>1. Failures(n)' = {r \in {Current(n)'} \cup Range(new) : r.verification.result = "fail"}
    BY DEF Failures
  <2>2. Current(n)'.verification.result # "fail"
    BY <1>1 DEF Current, NoReview, Review
  <2>3. QED
    BY <2>1, <2>2
<1>5. Range(new) \subseteq Range(old) \cup {now}
  BY <1>1, <1>2, NewestRange
<1>6. ASSUME RETRY_LOG # 0, IsPrefix(old, new)
      PROVE  Range(old) \cup {now} \subseteq Range(new)
  <2>1. new # <<>> /\ new[Len(new)] = now /\ new \in Seq(Archives)
    <3>1. RETRY_LOG \in Nat \ {0}
      BY <1>2, <1>6
    <3>2. EndsWith(new, Archived(n))
      BY <1>1, <1>2, <3>1, NewestLast
    <3>3. new \in Seq(Archives)
      <4>1. Append(old, Archived(n)) \in Seq(Archives)
        BY <1>2
      <4>2. QED
        BY <1>1, <1>2, <4>1, NewestType
    <3>4. QED
      BY <3>2, <3>3 DEF EndsWith
  <2>2. now \in Range(new)
    BY <2>1 DEF Range
  <2>3. Range(old) \subseteq Range(new)
    <3>1. /\ Len(old) \in Nat /\ Len(new) \in Nat /\ Len(old) <= Len(new)
          /\ SubSeq(old, 1, Len(old)) = SubSeq(new, 1, Len(old))
      BY <1>2, <1>6, <2>1 DEF IsPrefix
    <3>2. \A i \in 1..Len(old) : old[i] = SubSeq(old, 1, Len(old))[i]
      BY <1>2
    <3>3. \A i \in 1..Len(old) : new[i] = SubSeq(new, 1, Len(old))[i]
      BY <2>1, <3>1
    <3>4. \A i \in 1..Len(old) : old[i] = new[i] /\ i \in 1..Len(new)
      BY <3>1, <3>2, <3>3
    <3>5. DOMAIN old = 1..Len(old) /\ DOMAIN new = 1..Len(new)
      BY <1>2, <2>1
    <3>6. QED
      BY <3>4, <3>5 DEF Range
  <2>4. QED
    BY <2>2, <2>3
<1> HIDE DEF old, new, now
<1>7. QED
  BY <1>3, <1>4, <1>5, <1>6 DEF old, new

Gains(n, k) ==
    \A x \in Nodes : Failures(x)' = Failures(x) \cup (IF x = n THEN {k} ELSE {})

\* What an operation does to the failed reviews on every node: nothing, unless
\* it is a failed review, which adds one, or a retry.
LEMMA FailuresStep ==
    ASSUME TypeOK, VerdictInv, PassInv, [Next]_vars
    PROVE  \/ \A x \in Nodes : Failures(x)' = Failures(x)
           \/ FailedReview /\ \E n \in Nodes : \E k : status[n] # "absent" /\ Gains(n, k)
           \/ \E n \in Nodes : Retry(n) /\ \A x \in Nodes \ {n} : Failures(x)' = Failures(x)
<1> DEFINE Same == \A x \in Nodes : Failures(x)' = Failures(x)
           Gained == FailedReview /\
                       \E n \in Nodes : \E k : status[n] # "absent" /\ Gains(n, k)
           Retried == \E n \in Nodes :
                        Retry(n) /\ \A x \in Nodes \ {n} : Failures(x)' = Failures(x)
<1>a. \A x \in Nodes : VerdictFits(x) /\ PassedIndependently(x)
  BY DEF VerdictInv, PassInv
<1>b. \A x \in Nodes : status[x] \in {"absent", "ready", "running", "awaiting_verification",
                                      "verified"}
         => verification[x].result # "fail"
  BY <1>a DEF VerdictFits, PassedIndependently
<1>c. ASSUME attempt_history' = attempt_history,
             \A x \in Nodes :
                \/ verification'[x] = verification[x] /\ evidence'[x] = evidence[x]
                \/ verification[x].result # "fail" /\ verification'[x].result # "fail"
      PROVE  Same
  BY <1>c, FailuresFrame
<1>1. ASSUME NEW n \in Nodes, NEW deps \in SUBSET Nodes, NEW limit \in 1..MAX_ATTEMPTS,
             AddNode(n, deps, limit)
      PROVE  Same
  BY <1>1, <1>c DEF AddNode, reviewVars
<1>2. ASSUME NEW n \in Nodes, NEW executor \in Labels, Start(n, executor)
      PROVE  Same
  BY <1>2, <1>b, <1>c DEF Start, TypeOK, NoReview, Review
<1>3. ASSUME NEW n \in Nodes, NEW actor \in Labels \cup {None},
             NEW items \in SUBSET Items, NEW files \in SUBSET Paths,
             Submit(n, actor, items, files)
      PROVE  Same
  BY <1>3, <1>b, <1>c DEF Submit, TypeOK
<1>4. ASSUME NEW n \in Nodes, NEW reviewer \in Labels,
             NEW checked \in SUBSET Criteria, NEW covered \in SUBSET Criteria,
             Pass(n, reviewer, checked, covered)
      PROVE  Same
  BY <1>4, <1>b, <1>c DEF Pass, Reviewable, TypeOK, Review
<1>5. ASSUME NEW n \in Nodes, NEW reviewer \in Labels, Uncertain(n, reviewer)
      PROVE  Same
  BY <1>5, <1>b, <1>c DEF Uncertain, Reviewable, TypeOK, Review
<1>6. ASSUME NEW n \in Nodes, NEW faulty \in Nodes, NEW reviewer \in Labels,
             Fail(n, reviewer, faulty)
      PROVE  Gained
  <2> DEFINE k == [verification |-> Review("fail", reviewer, {}, {}), evidence |-> evidence[n]]
  <2>1. /\ status[n] = "awaiting_verification"
        /\ verification' = [m \in Nodes |->
              IF m = n THEN Review("fail", reviewer, {}, {})
              ELSE IF m = faulty THEN NoReview ELSE verification[m]]
        /\ evidence' = evidence /\ attempt_history' = attempt_history
        /\ faulty # n => status[faulty] = "verified"
    BY <1>6 DEF Fail, Reviewable
  <2>2. Failures(n)' = Failures(n) \cup {k}
    <3> DEFINE Old == Range(attempt_history[n])
    <3>1. /\ Failures(n) = {q \in {Current(n)} \cup Old : q.verification.result = "fail"}
          /\ Failures(n)' = {q \in {k} \cup Old : q.verification.result = "fail"}
      BY <2>1 DEF Failures, Current
    <3>2. /\ Current(n).verification.result # "fail"
          /\ k.verification.result = "fail"
      BY <1>b, <2>1 DEF Current, Review
    <3> HIDE DEF Old, k
    <3>3. QED
      BY <3>1, <3>2
  <2>3. ASSUME NEW x \in Nodes, x # n
        PROVE  Failures(x)' = Failures(x)
    <3>1. CASE x = faulty
      <4>1. verification[x].result # "fail" /\ verification'[x].result # "fail"
        BY <1>b, <2>1, <2>3, <3>1 DEF NoReview, Review
      <4>2. QED
        BY <2>1, <4>1, FailuresFrame
    <3>2. CASE x # faulty
      BY <2>1, <2>3, <3>2, FailuresFrame
    <3>3. QED
      BY <3>1, <3>2
  <2>4. Gains(n, k)
    BY <2>2, <2>3 DEF Gains
  <2>5. FailedReview
    <3>1. failure_history'[faulty] = Append(failure_history[faulty], attempts[faulty])
      BY <1>6 DEF Fail, TypeOK
    <3>2. failure_history[faulty] \in Seq(Nat) /\ attempts[faulty] \in Nat
      BY DEF TypeOK
    <3>3. Len(failure_history'[faulty]) = Len(failure_history[faulty]) + 1
          /\ Len(failure_history[faulty]) \in Nat
      BY <3>1, <3>2
    <3>4. QED
      BY <3>3 DEF FailedReview
  <2>6. QED
    BY <2>1, <2>4, <2>5
<1>7. ASSUME NEW n \in Nodes, NEW actor \in Labels, Withdraw(n, actor)
      PROVE  Same
  BY <1>7, <1>b, <1>c DEF Withdraw, TypeOK, NoReview, Review
<1>8. ASSUME NEW n \in Nodes, Retry(n)
      PROVE  Retried
  <2>1. ASSUME NEW x \in Nodes, x # n
        PROVE  Failures(x)' = Failures(x)
    <3>1. /\ attempt_history'[x] = attempt_history[x]
          /\ verification'[x] = verification[x] /\ evidence'[x] = evidence[x]
      BY <1>8, <2>1 DEF Retry, TypeOK
    <3>2. QED
      BY <3>1, FailuresFrame
  <2>2. QED
    BY <1>8, <2>1
<1>9. ASSUME NEW n \in Nodes, GrantAttempt(n)
      PROVE  Same
  BY <1>9, <1>c DEF GrantAttempt, reviewVars
<1>10. ASSUME NEW n \in Nodes, Supersede(n)
       PROVE  Same
  BY <1>10, <1>c DEF Supersede, reviewVars
<1>11. CASE UNCHANGED vars
  BY <1>11, <1>c DEF vars
<1>12. QED
  BY <1>1, <1>2, <1>3, <1>4, <1>5, <1>6, <1>7, <1>8, <1>9, <1>10, <1>11 DEF Next

-----------------------------------------------------------------------------
(* What a step adds to the document *)

\* No operation takes a node out of the plan.
LEMMA PlanGrows ==
    ASSUME TypeOK, PlanInv, [Next]_vars
    PROVE  planned \subseteq planned'
<1>1. ASSUME NEW n \in Nodes, NEW deps \in SUBSET Nodes, NEW limit \in 1..MAX_ATTEMPTS,
             AddNode(n, deps, limit)
      PROVE  planned \subseteq planned'
  BY <1>1 DEF AddNode, planned, TypeOK
<1>2. QED
  BY <1>1, PlanFixed

\* A node that stays finished with stays so in the same way.
LEMMA SettledAlike ==
    ASSUME TypeOK, [Next]_vars, NEW x \in Nodes, status[x] \in SETTLED, status'[x] \in SETTLED
    PROVE  status'[x] = status[x]
<1>1. ASSUME NEW n \in Nodes, NEW v \in STATUSES, status[n] \notin SETTLED,
             status' = Promote([status EXCEPT ![n] = v])
      PROVE  status'[x] = status[x]
  <2>1. x # n
    BY <1>1
  <2>2. QED
    BY <1>1, <2>1, MoveLeavesOthers DEF Statuses, SETTLED
<1>2. ASSUME status' = Promote(status)
      PROVE  status'[x] = status[x]
  BY <1>2, StayLeaves DEF SETTLED
<1> USE DEF STATUSES, SETTLED
<1>3. ASSUME NEW n \in Nodes, NEW deps \in SUBSET Nodes, NEW limit \in 1..MAX_ATTEMPTS,
             AddNode(n, deps, limit)
      PROVE  status'[x] = status[x]
  BY <1>3 DEF AddNode, planned, TypeOK
<1>4. ASSUME NEW n \in Nodes, NEW executor \in Labels, Start(n, executor)
      PROVE  status'[x] = status[x]
  BY <1>1, <1>4 DEF Start
<1>5. ASSUME NEW n \in Nodes, NEW actor \in Labels \cup {None},
             NEW items \in SUBSET Items, NEW files \in SUBSET Paths,
             Submit(n, actor, items, files)
      PROVE  status'[x] = status[x]
  BY <1>1, <1>5 DEF Submit
<1>6. ASSUME NEW n \in Nodes, NEW reviewer \in Labels,
             NEW checked \in SUBSET Criteria, NEW covered \in SUBSET Criteria,
             Pass(n, reviewer, checked, covered)
      PROVE  status'[x] = status[x]
  BY <1>1, <1>6 DEF Pass, Reviewable
<1>7. ASSUME NEW n \in Nodes, NEW reviewer \in Labels, Uncertain(n, reviewer)
      PROVE  status'[x] = status[x]
  BY <1>2, <1>7 DEF Uncertain
<1>8. ASSUME NEW n \in Nodes, NEW faulty \in Nodes, NEW reviewer \in Labels,
             Fail(n, reviewer, faulty)
      PROVE  status'[x] = status[x]
  BY <1>8, FailLeaves
<1>9. ASSUME NEW n \in Nodes, NEW actor \in Labels, Withdraw(n, actor)
      PROVE  status'[x] = status[x]
  BY <1>1, <1>9 DEF Withdraw
<1>10. ASSUME NEW n \in Nodes, Retry(n)
       PROVE  status'[x] = status[x]
  BY <1>1, <1>10 DEF Retry, RetryAccepts
<1>11. ASSUME NEW n \in Nodes, GrantAttempt(n)
       PROVE  status'[x] = status[x]
  BY <1>2, <1>11 DEF GrantAttempt
<1>12. ASSUME NEW n \in Nodes, Supersede(n)
       PROVE  status'[x] = status[x]
  BY <1>1, <1>12 DEF Supersede
<1>13. CASE UNCHANGED vars
  BY <1>13 DEF vars
<1>14. QED
  BY <1>3, <1>4, <1>5, <1>6, <1>7, <1>8, <1>9, <1>10, <1>11, <1>12, <1>13 DEF Next

\* The failed reviews on record grow by one in a failed review, and in no
\* other step; a retry that archives the verdict loses none.
LEMMA AllFailuresStep ==
    ASSUME TypeOK, VerdictInv, PassInv, [Next]_vars
    PROVE  /\ \E r : AllFailures' \subseteq AllFailures \cup {r}
           /\ ~ FailedReview => AllFailures' \subseteq AllFailures
           /\ RETRY_LOG # 0 /\ (\A n \in Nodes : IsPrefix(attempt_history[n], attempt_history'[n]))
                => AllFailures \subseteq AllFailures'
<1>1. /\ \A r : r \in AllFailures <=> \E x \in Nodes : \E k \in Failures(x) : r = <<x, k>>
      /\ \A r : r \in AllFailures' <=> \E x \in Nodes : \E k \in Failures(x)' : r = <<x, k>>
  BY DEF AllFailures
<1>2. CASE \A x \in Nodes : Failures(x)' = Failures(x)
  BY <1>1, <1>2
<1>3. ASSUME FailedReview, NEW n \in Nodes, NEW k, Gains(n, k)
      PROVE  /\ \E r : AllFailures' \subseteq AllFailures \cup {r}
             /\ AllFailures \subseteq AllFailures'
  <2>1. \A x \in Nodes : Failures(x)' = Failures(x) \cup (IF x = n THEN {k} ELSE {})
    BY <1>3 DEF Gains
  <2>2. AllFailures' \subseteq AllFailures \cup {<<n, k>>}
    BY <1>1, <2>1
  <2>3. AllFailures \subseteq AllFailures'
    BY <1>1, <2>1
  <2>4. QED
    BY <2>2, <2>3
<1>4. ASSUME NEW n \in Nodes, Retry(n), \A x \in Nodes \ {n} : Failures(x)' = Failures(x)
      PROVE  /\ AllFailures' \subseteq AllFailures
             /\ RETRY_LOG # 0 /\ IsPrefix(attempt_history[n], attempt_history'[n])
                  => AllFailures \subseteq AllFailures'
  <2>1. /\ Failures(n)' \subseteq Failures(n)
        /\ RETRY_LOG # 0 /\ IsPrefix(attempt_history[n], attempt_history'[n])
             => Failures(n) \subseteq Failures(n)'
    BY <1>4, RetryFailures
  <2>2. \A x \in Nodes : Failures(x)' \subseteq Failures(x)
    BY <1>4, <2>1
  <2>3. RETRY_LOG # 0 /\ IsPrefix(attempt_history[n], attempt_history'[n])
          => \A x \in Nodes : Failures(x) \subseteq Failures(x)'
    BY <1>4, <2>1
  <2>4. QED
    BY <1>1, <2>2, <2>3
<1>5. CASE \E n \in Nodes : Retry(n) /\ \A x \in Nodes \ {n} : Failures(x)' = Failures(x)
  BY <1>4, <1>5
<1>6. CASE FailedReview /\ \E n \in Nodes : \E k : status[n] # "absent" /\ Gains(n, k)
  BY <1>3, <1>6
<1>7. QED
  BY <1>2, <1>5, <1>6, FailuresStep

\* So do their keys.
LEMMA FailedKeysStep ==
    ASSUME TypeOK, VerdictInv, PassInv, [Next]_vars
    PROVE  /\ \E k : FailedKeys' \subseteq FailedKeys \cup {k}
           /\ ~ FailedReview => FailedKeys' \subseteq FailedKeys
           /\ RETRY_LOG # 0 /\ ArchivesKeptWhole => FailedKeys \subseteq FailedKeys'
<1>1. PICK r : AllFailures' \subseteq AllFailures \cup {r}
  BY AllFailuresStep
<1>2. /\ FailedKeys = {<<q[1], Key(q[2])>> : q \in AllFailures}
      /\ FailedKeys' = {<<q[1], Key(q[2])>> : q \in AllFailures'}
  BY DEF FailedKeys, KeysOf
<1>3. FailedKeys' \subseteq FailedKeys \cup {<<r[1], Key(r[2])>>}
  BY <1>1, <1>2
<1>4. ~ FailedReview => FailedKeys' \subseteq FailedKeys
  BY <1>2, AllFailuresStep
<1>5. RETRY_LOG # 0 /\ ArchivesKeptWhole => FailedKeys \subseteq FailedKeys'
  BY <1>2, AllFailuresStep DEF ArchivesKeptWhole
<1>6. QED
  BY <1>3, <1>4, <1>5

-----------------------------------------------------------------------------
(* The invariant behind both theorems *)

ReportInv == TypeOK /\ VerdictInv /\ PassInv /\ PlanInv /\ Unfailed /\ IsFiniteSet(FailedKeys)

LEMMA ReportInit == Init => ReportInv
<1> SUFFICES ASSUME Init PROVE ReportInv
  OBVIOUS
<1>1. \A x \in Nodes : Failures(x) = {}
  BY DEF Init, Failures, Current, NoReview, Review, Range
<1>2. AllFailures = {}
  BY <1>1 DEF AllFailures
<1>3. FailedKeys = {}
  BY <1>2 DEF FailedKeys, KeysOf
<1>4. QED
  BY <1>1, <1>2, <1>3, FS_EmptySet, InitTypeOK, VerdictInit, PassInit, PlanInit
     DEF ReportInv, Unfailed

LEMMA ReportStep == ReportInv /\ [Next]_vars => ReportInv'
<1> SUFFICES ASSUME ReportInv, [Next]_vars PROVE ReportInv'
  OBVIOUS
<1>1. TypeOK /\ VerdictInv /\ PassInv /\ PlanInv /\ Unfailed /\ IsFiniteSet(FailedKeys)
  BY DEF ReportInv
<1>2. TypeOK' /\ VerdictInv' /\ PassInv' /\ PlanInv'
  BY <1>1, NextTypeOK, VerdictStep, PassStep, PlanStep
<1>3. Unfailed'
  <2>1. ASSUME NEW x \in Nodes, status'[x] = "absent"
        PROVE  Failures(x)' = {}
    <3>1. status[x] = "absent"
      BY <1>1, <2>1, PlanGrows DEF planned
    <3>2. Failures(x) = {}
      BY <1>1, <3>1 DEF Unfailed
    <3>3. ~ Retry(x)
      BY <3>1 DEF Retry, RetryAccepts
    <3>4. Failures(x)' = Failures(x)
      BY <1>1, <3>1, <3>3, FailuresStep DEF Gains
    <3>5. QED
      BY <3>2, <3>4
  <2>2. QED
    BY <2>1 DEF Unfailed
<1>4. IsFiniteSet(FailedKeys')
  <2>1. PICK k : FailedKeys' \subseteq FailedKeys \cup {k}
    BY <1>1, FailedKeysStep
  <2>2. IsFiniteSet(FailedKeys \cup {k})
    BY <1>1, FS_AddElement
  <2>3. QED
    BY <2>1, <2>2, FS_Subset
<1>5. QED
  BY <1>2, <1>3, <1>4 DEF ReportInv

\* The failed reviews in the documents before and after a step.
LEMMA DocumentsOfStep ==
    ASSUME ReportInv, [Next]_vars
    PROVE  /\ FailedOf(ReviewsIn(Document)) = AllFailures
           /\ FailedOf(ReviewsIn(Document')) = AllFailures'
<1>1. ReportInv' /\ TypeOK /\ TypeOK' /\ Unfailed /\ Unfailed'
  BY ReportStep DEF ReportInv
<1>2. (TypeOK /\ Unfailed => FailedOf(ReviewsIn(Document)) = AllFailures)'
  BY DocumentFailures, PTL
<1>3. FailedOf(ReviewsIn(Document))' = FailedOf(ReviewsIn(Document'))
  BY DEF FailedOf, ReviewsIn, RecordedReviews, Written
<1>4. QED
  BY <1>1, <1>2, <1>3, DocumentFailures

-----------------------------------------------------------------------------
(* Theorems *)

\* What report_from_documents says of the documents before and after one step.
LEMMA CopiesStep ==
    ASSUME ReportInv, [Next]_vars
    PROVE  /\ \A field \in OrderFree :
                 ReportOf(<<Document, Document'>>)[field] = ReportOf(<<Document', Document>>)[field]
           /\ ReportOf(<<Document, Document'>>).total = Cardinality(planned')
           /\ ReportOf(<<Document, Document'>>).failed
                <= ReportOf(<<Document>>).failed + (IF FailedReview THEN 1 ELSE 0)
<1> DEFINE a == Document
           b == Document'
<1>0. /\ TypeOK /\ VerdictInv /\ PassInv /\ PlanInv /\ IsFiniteSet(FailedKeys)
      /\ TypeOK'
  BY ReportStep DEF ReportInv
<1>1. /\ DOMAIN a = planned /\ DOMAIN b = planned'
      /\ \A n \in planned : a[n].attempts = attempts[n] /\ a[n].status = status[n]
      /\ \A n \in planned' : b[n].attempts = attempts'[n] /\ b[n].status = status'[n]
  BY DEF Document
<1>2. planned \subseteq planned' /\ planned' \subseteq Nodes
  BY <1>0, PlanGrows DEF planned
<1>3. FailedOf(ReviewsIn(a)) = AllFailures /\ FailedOf(ReviewsIn(b)) = AllFailures'
  BY DocumentsOfStep
<1> HIDE DEF a, b
<1>4. \A field \in OrderFree : ReportOf(<<a, b>>)[field] = ReportOf(<<b, a>>)[field]
  <2>1. \A n \in planned : attempts[n] \in Nat
    BY <1>0, <1>2 DEF TypeOK
  <2>2. \A n \in planned' : attempts'[n] \in Nat
    BY <1>0, <1>2 DEF TypeOK
  <2>3. \A n \in planned : status[n] \in SETTLED /\ status'[n] \in SETTLED
                             => status[n] = status'[n]
    BY <1>0, <1>2, SettledAlike
  <2>4. QED
    BY <1>1, <1>2, <2>1, <2>2, <2>3, ReportOfTwo
<1>5. ReportOf(<<a, b>>).total = Cardinality(planned')
  <2>1. DOMAIN ByNode(<<a, b>>) = DOMAIN a \cup DOMAIN b
    <3>1. ByNode(<<a, b>>) = Merged(a, b)
      BY ByNodeOfTwo
    <3>2. QED
      BY <3>1 DEF Merged
  <2>2. DOMAIN ByNode(<<a, b>>) = planned'
    BY <1>1, <1>2, <2>1
  <2>3. QED
    BY <2>2 DEF ReportOf
<1>6. ReportOf(<<a, b>>).failed <= ReportOf(<<a>>).failed + (IF FailedReview THEN 1 ELSE 0)
  <2> DEFINE both == FailedKeys \cup FailedKeys'
  <2>1. /\ ReportOf(<<a>>).failed = Cardinality(FailedKeys)
        /\ ReportOf(<<a, b>>).failed = Cardinality(both)
    <3>1. FailedOf(Reviewed(<<a>>)) = AllFailures
      BY <1>3, ReviewedOfOne
    <3>2. FailedOf(Reviewed(<<a, b>>)) = AllFailures \cup AllFailures'
      <4>1. FailedOf(ReviewsIn(a) \cup ReviewsIn(b))
              = FailedOf(ReviewsIn(a)) \cup FailedOf(ReviewsIn(b))
        BY DEF FailedOf
      <4>2. QED
        BY <1>3, <4>1, ReviewedOfTwo
    <3>3. KeysOf(AllFailures \cup AllFailures') = both
      BY DEF KeysOf, FailedKeys
    <3>4. QED
      BY <3>1, <3>2, <3>3, ReportReviews DEF FailedKeys
  <2>2. CASE ~ FailedReview
    <3>1. both = FailedKeys
      BY <1>0, <2>2, FailedKeysStep
    <3>2. Cardinality(FailedKeys) \in Nat
      BY <1>0, FS_CardinalityType
    <3>3. ReportOf(<<a, b>>).failed = ReportOf(<<a>>).failed
      BY <2>1, <3>1
    <3>4. ReportOf(<<a>>).failed \in Nat
      BY <2>1, <3>2
    <3>5. QED
      BY <2>2, <3>3, <3>4
  <2>3. CASE FailedReview
    <3>1. PICK k : FailedKeys' \subseteq FailedKeys \cup {k}
      BY <1>0, FailedKeysStep
    <3>2. /\ IsFiniteSet(FailedKeys \cup {k})
          /\ Cardinality(FailedKeys \cup {k}) <= Cardinality(FailedKeys) + 1
          /\ Cardinality(FailedKeys) \in Nat
      BY <1>0, FS_AddElement, FS_CardinalityType
    <3>3. both \in SUBSET (FailedKeys \cup {k})
      BY <3>1
    <3>4. /\ IsFiniteSet(both)
          /\ Cardinality(both) <= Cardinality(FailedKeys \cup {k})
      BY <3>2, <3>3, FS_Subset
    <3>5. Cardinality(both) \in Nat /\ Cardinality(FailedKeys \cup {k}) \in Nat
      BY <3>2, <3>4, FS_CardinalityType
    <3>6. QED
      BY <2>1, <2>3, <3>2, <3>4, <3>5
  <2>4. QED
    BY <2>2, <2>3
<1>7. QED
  BY <1>4, <1>5, <1>6 DEF a, b

\* Of any two copies taken before and after an operation, for any plan: the
\* totals are the same in either order, have every node once, and one failed
\* review more than the older copy alone only if the operation was one.
THEOREM ReportCountsCopiesOnce == Spec => CopiesCountOnce
<1>1. ReportInv /\ [Next]_vars =>
        [LET both == ReportOf(<<Document, Document'>>)
             swapped == ReportOf(<<Document', Document>>)
         IN  /\ \A field \in OrderFree : both[field] = swapped[field]
             /\ both.total = Cardinality(planned')
             /\ both.failed <= ReportOf(<<Document>>).failed + (IF FailedReview THEN 1 ELSE 0)]_vars
  BY CopiesStep
<1>2. QED
  BY ReportInit, ReportStep, <1>1, PTL DEF Spec, CopiesCountOnce

LEMMA KeptStep ==
    ASSUME ReportInv, [Next]_vars, RETRY_LOG # 0, ArchivesKeptWhole
    PROVE  ReportOf(<<Document'>>).failed >= ReportOf(<<Document>>).failed
<1> DEFINE a == Document
           b == Document'
<1>1. /\ TypeOK /\ VerdictInv /\ PassInv
      /\ IsFiniteSet(FailedKeys) /\ IsFiniteSet(FailedKeys')
  BY ReportStep DEF ReportInv
<1>2. FailedOf(ReviewsIn(a)) = AllFailures /\ FailedOf(ReviewsIn(b)) = AllFailures'
  BY DocumentsOfStep
<1> HIDE DEF a, b
<1>3. /\ ReportOf(<<a>>).failed = Cardinality(FailedKeys)
      /\ ReportOf(<<b>>).failed = Cardinality(FailedKeys')
  BY <1>2, ReviewedOfOne, ReportReviews DEF FailedKeys, KeysOf
<1>4. FailedKeys \subseteq FailedKeys'
  BY <1>1, FailedKeysStep
<1>5. /\ Cardinality(FailedKeys) <= Cardinality(FailedKeys')
      /\ Cardinality(FailedKeys) \in Nat /\ Cardinality(FailedKeys') \in Nat
  BY <1>1, <1>4, FS_Subset, FS_CardinalityType
<1>6. QED
  BY <1>3, <1>5 DEF a, b

\* While the archives of attempts lose nothing, the report of a graph never
\* counts fewer failed reviews than before: retry() archives a verdict with the
\* evidence it was on, so it keeps its key, and nothing else replaces a FAIL.
THEOREM ReportKeepsFailures ==
    ASSUME RETRY_LOG # 0
    PROVE  Spec => FailuresStayCounted
<1>1. ReportInv /\ [Next]_vars =>
        [ArchivesKeptWhole
           => ReportOf(<<Document'>>).failed >= ReportOf(<<Document>>).failed]_vars
  BY KeptStep
<1>2. QED
  BY ReportInit, ReportStep, <1>1, PTL DEF Spec, FailuresStayCounted

=============================================================================
