--------------------------- MODULE TaskGraphProofs ---------------------------
(***************************************************************************)
(* Theorems about TaskGraph, for any set of nodes, labels and criteria and *)
(* any ceilings.                                                           *)
(***************************************************************************)
EXTENDS TaskGraph, SequenceTheorems, TLAPS

Statuses == STATUSES \cup {"absent"}

-----------------------------------------------------------------------------
(* Operators *)

\* Trimming an archive to its newest entries leaves a sequence of such entries.
LEMMA NewestType ==
    ASSUME NEW T, NEW seq \in Seq(T), NEW keep \in Nat
    PROVE  Newest(seq, keep) \in Seq(T)
<1>1. CASE Len(seq) <= keep
  BY <1>1 DEF Newest
<1>2. CASE ~ (Len(seq) <= keep)
  <2>1. Len(seq) \in Nat
    OBVIOUS
  <2>2. /\ Len(seq) - keep + 1 \in 1..(Len(seq) + 1)
        /\ Len(seq) \in (Len(seq) - keep + 1 - 1)..Len(seq)
    BY <1>2, <2>1
  <2>3. SubSeq(seq, Len(seq) - keep + 1, Len(seq)) \in Seq(T)
    BY <2>1, <2>2, SubSeqProperties
  <2>4. QED
    BY <1>2, <2>3 DEF Newest
<1>3. QED
  BY <1>1, <1>2

\* Promotion yields statuses for all nodes.
LEMMA PromoteType ==
    ASSUME NEW st \in [Nodes -> Statuses]
    PROVE  Promote(st) \in [Nodes -> Statuses]
BY DEF Promote, Statuses, STATUSES

\* Archiving a doubt keeps the trail well formed.
LEMMA ArchiveDoubtType ==
    ASSUME TypeOK, NEW n \in Nodes, ArchiveDoubt(n)
    PROVE  review_history' \in [Nodes -> Seq(Labels \cup {None})]
<1>1. verification[n].reviewer_id \in Labels \cup {None}
  BY DEF TypeOK, Reviews
<1>2. Append(review_history[n], verification[n].reviewer_id) \in Seq(Labels \cup {None})
  BY <1>1 DEF TypeOK
<1>3. ASSUME NEW kept \in Nat
      PROVE  Newest(Append(review_history[n], verification[n].reviewer_id), kept)
               \in Seq(Labels \cup {None})
  BY <1>2, NewestType
<1>4. CASE verification[n].result = "uncertain"
  <2>1. (IF Trailed(n) \in Oversized THEN {0} ELSE 1..MAX_EVIDENCE) \subseteq Nat
    OBVIOUS
  <2>2. PICK kept \in Nat : review_history' = [review_history EXCEPT
           ![n] = Newest(Append(@, verification[n].reviewer_id), kept)]
    BY <1>4, <2>1 DEF ArchiveDoubt
  <2>3. QED
    BY <1>3, <2>2 DEF TypeOK
<1>5. CASE verification[n].result # "uncertain"
  BY <1>5 DEF ArchiveDoubt, TypeOK
<1>6. QED
  BY <1>4, <1>5

\* A refund never exceeds what was charged.
LEMMA RefundType ==
    ASSUME TypeOK, NEW m \in Nodes
    PROVE  Refund(m) \in {0, 1} /\ attempts[m] - Refund(m) \in Nat
BY DEF Refund, TypeOK

\* The reviews the operations attach.
LEMMA ReviewTypes ==
    /\ NoReview \in Reviews
    /\ \A r \in Labels :
          /\ Review("pass", r, Criteria, Criteria) \in Reviews
          /\ Review("uncertain", r, {}, {}) \in Reviews
          /\ Review("fail", r, {}, {}) \in Reviews
BY DEF NoReview, Review, Reviews

-----------------------------------------------------------------------------
(* Type correctness *)

LEMMA InitTypeOK == Init => TypeOK
<1> SUFFICES ASSUME Init PROVE TypeOK
  OBVIOUS
<1>1. /\ status \in [Nodes -> STATUSES \cup {"absent"}]
      /\ max_attempts \in [Nodes -> 1..MAX_ATTEMPTS]
  BY BoundsAssumption DEF Init, STATUSES
<1>2. verification \in [Nodes -> Reviews]
  BY ReviewTypes DEF Init
<1>3. QED
  BY <1>1, <1>2 DEF Init, TypeOK

LEMMA NextTypeOK == TypeOK /\ [Next]_vars => TypeOK'
<1> SUFFICES ASSUME TypeOK, [Next]_vars PROVE TypeOK'
  OBVIOUS
<1> USE BoundsAssumption
<1>1. ASSUME NEW n \in Nodes, NEW deps \in SUBSET Nodes, NEW limit \in 1..MAX_ATTEMPTS,
             AddNode(n, deps, limit)
      PROVE  TypeOK'
  BY <1>1 DEF AddNode, TypeOK, STATUSES, reviewVars
<1>2. ASSUME NEW n \in Nodes, NEW executor \in Labels, Start(n, executor)
      PROVE  TypeOK'
  <2>1. status' \in [Nodes -> Statuses]
    BY <1>2, PromoteType DEF Start, TypeOK, Statuses, STATUSES
  <2>2. verification' \in [Nodes -> Reviews]
    BY <1>2, ReviewTypes DEF Start, TypeOK
  <2>3. attempts' \in [Nodes -> Nat]
    BY <1>2 DEF Start, TypeOK
  <2>4. QED
    BY <1>2, <2>1, <2>2, <2>3 DEF Start, TypeOK, Statuses
<1>3. ASSUME NEW n \in Nodes, NEW actor \in Labels \cup {None},
             NEW items \in SUBSET Items, NEW files \in SUBSET Paths,
             Submit(n, actor, items, files)
      PROVE  TypeOK'
  <2>1. status' \in [Nodes -> Statuses]
    BY <1>3, PromoteType DEF Submit, TypeOK, Statuses, STATUSES
  <2>2. QED
    BY <1>3, <2>1 DEF Submit, TypeOK, Statuses
<1>4. ASSUME NEW n \in Nodes, NEW reviewer \in Labels,
             NEW checked \in SUBSET Criteria, NEW covered \in SUBSET Criteria,
             Pass(n, reviewer, checked, covered)
      PROVE  TypeOK'
  <2>1. status' \in [Nodes -> Statuses]
    BY <1>4, PromoteType DEF Pass, TypeOK, Statuses, STATUSES
  <2>2. review_history' \in [Nodes -> Seq(Labels \cup {None})]
    BY <1>4, ArchiveDoubtType DEF Pass
  <2>3. verification' \in [Nodes -> Reviews]
    BY <1>4, ReviewTypes DEF Pass, TypeOK
  <2>4. QED
    BY <1>4, <2>1, <2>2, <2>3 DEF Pass, TypeOK, Statuses
<1>5. ASSUME NEW n \in Nodes, NEW reviewer \in Labels, Uncertain(n, reviewer)
      PROVE  TypeOK'
  <2>1. status' \in [Nodes -> Statuses]
    BY <1>5, PromoteType DEF Uncertain, TypeOK, Statuses
  <2>2. review_history' \in [Nodes -> Seq(Labels \cup {None})]
    BY <1>5, ArchiveDoubtType DEF Uncertain
  <2>3. verification' \in [Nodes -> Reviews]
    BY <1>5, ReviewTypes DEF Uncertain, TypeOK
  <2>4. QED
    BY <1>5, <2>1, <2>2, <2>3 DEF Uncertain, TypeOK, Statuses
<1>6. ASSUME NEW n \in Nodes, NEW faulty \in Nodes, NEW reviewer \in Labels,
             Fail(n, reviewer, faulty)
      PROVE  TypeOK'
  <2>1. status' \in [Nodes -> Statuses]
    BY <1>6, PromoteType DEF Fail, TypeOK, Statuses, STATUSES
  <2>2. review_history' \in [Nodes -> Seq(Labels \cup {None})]
    BY <1>6, ArchiveDoubtType DEF Fail
  <2>3. verification' \in [Nodes -> Reviews]
    BY <1>6, ReviewTypes DEF Fail, TypeOK
  <2>4. attempts' \in [Nodes -> Nat]
    BY <1>6, RefundType DEF Fail, TypeOK
  <2>5. failure_history' \in [Nodes -> Seq(Nat)]
    BY <1>6 DEF Fail, TypeOK
  <2>6. QED
    BY <1>6, <2>1, <2>2, <2>3, <2>4, <2>5 DEF Fail, TypeOK, Statuses
<1>7. ASSUME NEW n \in Nodes, NEW actor \in Labels, Withdraw(n, actor)
      PROVE  TypeOK'
  <2>1. status' \in [Nodes -> Statuses]
    BY <1>7, PromoteType DEF Withdraw, TypeOK, Statuses, STATUSES
  <2>2. review_history' \in [Nodes -> Seq(Labels \cup {None})]
    BY <1>7, ArchiveDoubtType DEF Withdraw
  <2>3. QED
    BY <1>7, <2>1, <2>2, ReviewTypes DEF Withdraw, TypeOK, Statuses
<1>8. ASSUME NEW n \in Nodes, Retry(n)
      PROVE  TypeOK'
  <2>1. status' \in [Nodes -> Statuses]
    BY <1>8, PromoteType DEF Retry, TypeOK, Statuses, STATUSES
  <2>2. Newest(Append(attempt_history[n], Archived(n)), RETRY_LOG) \in Seq(Archives)
    <3>1. Archived(n) \in Archives
      BY DEF TypeOK, Archived, Archives
    <3>2. attempt_history[n] \in Seq(Archives)
      BY DEF TypeOK
    <3>3. Append(attempt_history[n], Archived(n)) \in Seq(Archives)
      BY <3>1, <3>2
    <3>4. QED
      BY <3>3, NewestType
  <2>3. attempt_history' \in [Nodes -> Seq(Archives)]
    BY <1>8, <2>2 DEF Retry, TypeOK
  <2>4. QED
    BY <1>8, <2>1, <2>3, ReviewTypes DEF Retry, TypeOK, Statuses
<1>9. ASSUME NEW n \in Nodes, GrantAttempt(n)
      PROVE  TypeOK'
  <2>1. status' \in [Nodes -> Statuses]
    BY <1>9, PromoteType DEF GrantAttempt, TypeOK, Statuses
  <2>2. max_attempts' \in [Nodes -> 1..MAX_ATTEMPTS]
    BY <1>9 DEF GrantAttempt, TypeOK
  <2>3. QED
    BY <1>9, <2>1, <2>2 DEF GrantAttempt, TypeOK, Statuses, reviewVars
<1>10. ASSUME NEW n \in Nodes, Supersede(n)
       PROVE  TypeOK'
  <2>1. status' \in [Nodes -> Statuses]
    BY <1>10, PromoteType DEF Supersede, TypeOK, Statuses, STATUSES
  <2>2. QED
    BY <1>10, <2>1 DEF Supersede, TypeOK, Statuses, reviewVars
<1>11. CASE UNCHANGED vars
  BY <1>11 DEF vars, TypeOK
<1>12. QED
  BY <1>1, <1>2, <1>3, <1>4, <1>5, <1>6, <1>7, <1>8, <1>9, <1>10, <1>11 DEF Next

\* Every document the operations build is well formed: attempts never drop
\* below zero, limits stay within the absolute ceiling.
THEOREM TypeCorrect == Spec => []TypeOK
BY InitTypeOK, NextTypeOK, PTL DEF Spec

-----------------------------------------------------------------------------
(* Work stands on settled dependencies *)

\* What descendants() returns holds the children, and is closed under them.
LEMMA DescendantsClosed ==
    ASSUME NEW n \in Nodes
    PROVE  /\ Children(n) \subseteq Descendants(n)
           /\ \A x \in Descendants(n) : Children(x) \subseteq Descendants(n)
BY DEF Children, Descendants

\* Statuses in which work is offered, under way or accepted rest on settled
\* dependencies; a blocked node has one that is not.
ReadyOnSettled(st) ==
    \A x \in Nodes : st[x] \in HOLDING \cup {"ready"} => DependenciesSettledIn(st, x)
BlockedOnOwed(st) ==
    \A x \in Nodes : st[x] = "blocked" => ~ DependenciesSettledIn(st, x)

\* Promotion changes neither what is settled nor what holds an attempt.
LEMMA PromoteKeeps ==
    ASSUME NEW st \in [Nodes -> Statuses], NEW x \in Nodes
    PROVE  /\ Promote(st)[x] \in SETTLED <=> st[x] \in SETTLED
           /\ Promote(st)[x] \in HOLDING <=> st[x] \in HOLDING
           /\ st[x] # "blocked" => Promote(st)[x] = st[x]
           /\ Promote(st)[x] \in {"blocked", "ready"} \/ Promote(st)[x] = st[x]
BY DEF Promote, SETTLED, HOLDING

\* The validation that ends an operation establishes both halves, from the
\* first half for the statuses the operation wrote.
LEMMA PromoteSettles ==
    ASSUME depends_on \in [Nodes -> SUBSET Nodes],
           NEW st \in [Nodes -> Statuses], ReadyOnSettled(st)
    PROVE  ReadyOnSettled(Promote(st)) /\ BlockedOnOwed(Promote(st))
<1>1. \A x \in Nodes : DependenciesSettledIn(Promote(st), x) <=> DependenciesSettledIn(st, x)
  BY PromoteKeeps DEF DependenciesSettledIn
<1>2. ASSUME NEW x \in Nodes, Promote(st)[x] \in HOLDING \cup {"ready"}
      PROVE  DependenciesSettledIn(st, x)
  BY <1>2 DEF Promote, ReadyOnSettled
<1>3. ASSUME NEW x \in Nodes, Promote(st)[x] = "blocked"
      PROVE  ~ DependenciesSettledIn(st, x)
  BY <1>3 DEF Promote
<1>4. QED
  BY <1>1, <1>2, <1>3 DEF ReadyOnSettled, BlockedOnOwed

\* An operation that moves one unsettled node keeps the first half, if the node
\* only becomes ready or active on settled dependencies: no active node
\* depends on it.
LEMMA MoveOne ==
    ASSUME TypeOK, ReadyOnSettled(status), NEW n \in Nodes, NEW v \in Statuses,
           status[n] \notin SETTLED,
           v \in HOLDING \cup {"ready"} => DependenciesSettledIn(status, n)
    PROVE  ReadyOnSettled([status EXCEPT ![n] = v])
<1> DEFINE st == [status EXCEPT ![n] = v]
<1>1. ASSUME NEW x \in Nodes, st[x] \in HOLDING \cup {"ready"}
      PROVE  DependenciesSettledIn(st, x)
  <2>1. DependenciesSettledIn(status, x)
    BY <1>1 DEF ReadyOnSettled, TypeOK
  <2>2. n \notin depends_on[x]
    BY <2>1 DEF DependenciesSettledIn
  <2>3. QED
    BY <2>1, <2>2 DEF DependenciesSettledIn, TypeOK
<1>2. QED
  BY <1>1 DEF ReadyOnSettled

\* The inductive invariant.
SettledInv == TypeOK /\ ReadyOnSettled(status) /\ BlockedOnOwed(status)

LEMMA SettledInit == Init => SettledInv
<1> SUFFICES ASSUME Init PROVE SettledInv
  OBVIOUS
<1>1. TypeOK
  BY InitTypeOK
<1>2. \A x \in Nodes : DependenciesSettledIn(status, x) /\ status[x] # "blocked"
  BY DEF Init, DependenciesSettledIn
<1>3. QED
  BY <1>1, <1>2 DEF SettledInv, ReadyOnSettled, BlockedOnOwed

\* An operation ending in Promote(st) keeps the invariant when st has the
\* first half.
LEMMA PromoteStep ==
    ASSUME TypeOK, UNCHANGED depends_on,
           NEW st \in [Nodes -> Statuses], ReadyOnSettled(st), status' = Promote(st)
    PROVE  ReadyOnSettled(status)' /\ BlockedOnOwed(status)'
<1>1. ReadyOnSettled(Promote(st)) /\ BlockedOnOwed(Promote(st))
  BY PromoteSettles DEF TypeOK
<1>2. \A x \in Nodes : DependenciesSettledIn(status, x)' <=> DependenciesSettledIn(Promote(st), x)
  BY DEF DependenciesSettledIn
<1>3. QED
  BY <1>1, <1>2 DEF ReadyOnSettled, BlockedOnOwed

LEMMA SettledStep == SettledInv /\ [Next]_vars => SettledInv'
<1> SUFFICES ASSUME SettledInv, [Next]_vars PROVE SettledInv'
  OBVIOUS
<1> USE DEF SettledInv
<1>0. TypeOK'
  BY NextTypeOK
<1> DEFINE Goal == ReadyOnSettled(status)' /\ BlockedOnOwed(status)'
<1>1. ASSUME NEW n \in Nodes, NEW deps \in SUBSET Nodes, NEW limit \in 1..MAX_ATTEMPTS,
             AddNode(n, deps, limit)
      PROVE  Goal
  <2>1. /\ status[n] = "absent" /\ n \notin deps
        /\ \A x \in Nodes \ {n} : status'[x] = status[x] /\ depends_on'[x] = depends_on[x]
        /\ depends_on'[n] = deps
        /\ status'[n] \in {"ready", "blocked"}
        /\ status'[n] = "ready" <=> \A d \in deps : status[d] \in SETTLED
    BY <1>1 DEF AddNode, planned, TypeOK
  <2>2. ASSUME NEW x \in Nodes \ {n}
        PROVE  DependenciesSettledIn(status, x)' <=> DependenciesSettledIn(status, x)
    BY <2>1 DEF DependenciesSettledIn, SETTLED, TypeOK
  <2>3. DependenciesSettledIn(status, n)' <=> \A d \in deps : status[d] \in SETTLED
    BY <2>1 DEF DependenciesSettledIn
  <2>4. ReadyOnSettled(status)'
    BY <2>1, <2>2, <2>3 DEF ReadyOnSettled, HOLDING
  <2>5. BlockedOnOwed(status)'
    BY <2>1, <2>2, <2>3 DEF BlockedOnOwed
  <2>6. QED
    BY <2>4, <2>5
<1>2. ASSUME NEW n \in Nodes, NEW v \in Statuses, status[n] \notin SETTLED,
             v \in HOLDING \cup {"ready"} => DependenciesSettledIn(status, n),
             UNCHANGED depends_on, status' = Promote([status EXCEPT ![n] = v])
      PROVE  Goal
  <2>1. [status EXCEPT ![n] = v] \in [Nodes -> Statuses]
    BY <1>2 DEF TypeOK, Statuses
  <2>2. ReadyOnSettled([status EXCEPT ![n] = v])
    BY <1>2, MoveOne
  <2>3. QED
    BY <1>2, <2>1, <2>2, PromoteStep
<1>3. ASSUME UNCHANGED depends_on, status' = Promote(status)
      PROVE  Goal
  BY <1>3, PromoteStep DEF TypeOK, Statuses
<1> USE DEF Statuses, STATUSES, SETTLED, HOLDING
<1>4. ASSUME NEW n \in Nodes, NEW executor \in Labels, Start(n, executor)
      PROVE  Goal
  BY <1>4, <1>2 DEF Start, ReadyOnSettled
<1>5. ASSUME NEW n \in Nodes, NEW actor \in Labels \cup {None},
             NEW items \in SUBSET Items, NEW files \in SUBSET Paths,
             Submit(n, actor, items, files)
      PROVE  Goal
  BY <1>5, <1>2 DEF Submit, ReadyOnSettled
<1>6. ASSUME NEW n \in Nodes, NEW reviewer \in Labels,
             NEW checked \in SUBSET Criteria, NEW covered \in SUBSET Criteria,
             Pass(n, reviewer, checked, covered)
      PROVE  Goal
  BY <1>6, <1>2 DEF Pass, Reviewable, ReadyOnSettled
<1>7. ASSUME NEW n \in Nodes, NEW reviewer \in Labels, Uncertain(n, reviewer)
      PROVE  Goal
  BY <1>7, <1>3 DEF Uncertain
<1>8. ASSUME NEW n \in Nodes, NEW faulty \in Nodes, NEW reviewer \in Labels,
             Fail(n, reviewer, faulty)
      PROVE  Goal
  <2> DEFINE st == [m \in Nodes |->
                      IF m \in Invalidated(faulty) THEN "invalidated"
                      ELSE IF m = faulty THEN "failed" ELSE status[m]]
  <2>1. st \in [Nodes -> Statuses]
    BY DEF TypeOK
  <2>2. ASSUME NEW x \in Nodes, st[x] \in HOLDING \cup {"ready"}
        PROVE  DependenciesSettledIn(st, x)
    <3>1. /\ status[x] = st[x] /\ x # faulty /\ x \notin Descendants(faulty)
          /\ DependenciesSettledIn(status, x)
      BY <2>2 DEF Invalidated, ReadyOnSettled
    <3>2. ASSUME NEW d \in depends_on[x]
          PROVE  d \in Nodes /\ d # faulty /\ d \notin Descendants(faulty)
      <4>1. d \in Nodes /\ x \in Children(d)
        BY DEF Children, TypeOK
      <4>2. QED
        BY <3>1, <4>1, DescendantsClosed
    <3>3. QED
      BY <3>1, <3>2 DEF DependenciesSettledIn, Invalidated
  <2>3. ReadyOnSettled(st)
    BY <2>2 DEF ReadyOnSettled
  <2>4. UNCHANGED depends_on /\ status' = Promote(st)
    BY <1>8 DEF Fail
  <2>5. QED
    BY <2>1, <2>3, <2>4, PromoteStep
<1>9. ASSUME NEW n \in Nodes, NEW actor \in Labels, Withdraw(n, actor)
      PROVE  Goal
  BY <1>9, <1>2 DEF Withdraw, ReadyOnSettled
<1>10. ASSUME NEW n \in Nodes, Retry(n)
       PROVE  Goal
  BY <1>10, <1>2 DEF Retry, RetryAccepts
<1>11. ASSUME NEW n \in Nodes, GrantAttempt(n)
       PROVE  Goal
  BY <1>11, <1>3 DEF GrantAttempt
<1>12. ASSUME NEW n \in Nodes, Supersede(n)
       PROVE  Goal
  BY <1>12, <1>2 DEF Supersede
<1>13. CASE UNCHANGED vars
  BY <1>0, <1>13 DEF vars, ReadyOnSettled, BlockedOnOwed, DependenciesSettledIn
<1>14. QED
  BY <1>0, <1>1, <1>4, <1>5, <1>6, <1>7, <1>8, <1>9, <1>10, <1>11, <1>12, <1>13 DEF Next

\* No operation, in whatever order, leaves work ready, under way or accepted on
\* a dependency that is owed.
THEOREM WorkStandsOnSettled == Spec => []DependenciesSettled
<1>1. SettledInv => DependenciesSettled
  BY DEF SettledInv, ReadyOnSettled, DependenciesSettled
<1>2. QED
  BY SettledInit, SettledStep, <1>1, PTL DEF Spec

-----------------------------------------------------------------------------
(* The plan never stalls *)

\* Dependencies are planned before what depends on them, so they form no cycle.
PlanInv ==
    /\ \A x \in Nodes : depends_on[x] \subseteq planned
    /\ \A x \in Nodes \ planned : depends_on[x] = {}
    /\ Acyclic

\* Promotion leaves the set of planned nodes alone.
LEMMA PromotePlanned ==
    ASSUME NEW st \in [Nodes -> Statuses], NEW x \in Nodes
    PROVE  Promote(st)[x] = "absent" <=> st[x] = "absent"
BY DEF Promote

\* Only nodes with dependencies are anybody's descendants.
LEMMA DescendantsDepend ==
    ASSUME NEW n \in Nodes, NEW x \in Descendants(n)
    PROVE  x \in Nodes /\ depends_on[x] # {}
<1> DEFINE T == {m \in Nodes : depends_on[m] # {}}
<1>1. T \in SUBSET Nodes /\ \A m \in Nodes : Children(m) \subseteq T
  BY DEF Children
<1>2. QED
  BY <1>1 DEF Descendants

\* Everything but add_node leaves the plan as it is.
LEMMA PlanFixed ==
    ASSUME TypeOK, PlanInv, [Next]_vars,
           ~ \E n \in Nodes, deps \in SUBSET Nodes, limit \in 1..MAX_ATTEMPTS :
                AddNode(n, deps, limit)
    PROVE  planned' = planned /\ depends_on' = depends_on
<1> USE DEF Statuses, STATUSES
<1>1. ASSUME NEW n \in Nodes, NEW v \in STATUSES, status[n] # "absent",
             status' = Promote([status EXCEPT ![n] = v])
      PROVE  planned' = planned
  <2>1. [status EXCEPT ![n] = v] \in [Nodes -> Statuses]
    BY DEF TypeOK
  <2>2. QED
    BY <1>1, <2>1, PromotePlanned DEF planned, TypeOK
<1>2. ASSUME status' = Promote(status)
      PROVE  planned' = planned
  BY <1>2, PromotePlanned DEF planned, TypeOK
<1>3. ASSUME NEW n \in Nodes, NEW executor \in Labels, Start(n, executor)
      PROVE  planned' = planned /\ depends_on' = depends_on
  BY <1>3, <1>1 DEF Start
<1>4. ASSUME NEW n \in Nodes, NEW actor \in Labels \cup {None},
             NEW items \in SUBSET Items, NEW files \in SUBSET Paths,
             Submit(n, actor, items, files)
      PROVE  planned' = planned /\ depends_on' = depends_on
  BY <1>4, <1>1 DEF Submit
<1>5. ASSUME NEW n \in Nodes, NEW reviewer \in Labels,
             NEW checked \in SUBSET Criteria, NEW covered \in SUBSET Criteria,
             Pass(n, reviewer, checked, covered)
      PROVE  planned' = planned /\ depends_on' = depends_on
  BY <1>5, <1>1 DEF Pass, Reviewable
<1>6. ASSUME NEW n \in Nodes, NEW reviewer \in Labels, Uncertain(n, reviewer)
      PROVE  planned' = planned /\ depends_on' = depends_on
  BY <1>6, <1>2 DEF Uncertain
<1>7. ASSUME NEW n \in Nodes, NEW faulty \in Nodes, NEW reviewer \in Labels,
             Fail(n, reviewer, faulty)
      PROVE  planned' = planned /\ depends_on' = depends_on
  <2> DEFINE st == [m \in Nodes |->
                      IF m \in Invalidated(faulty) THEN "invalidated"
                      ELSE IF m = faulty THEN "failed" ELSE status[m]]
  <2>1. st \in [Nodes -> Statuses] /\ status' = Promote(st) /\ depends_on' = depends_on
    BY <1>7 DEF TypeOK, Fail
  <2>2. \A m \in Invalidated(faulty) : m \in Nodes /\ status[m] # "absent"
    BY DescendantsDepend DEF Invalidated, PlanInv, planned
  <2>3. status[faulty] # "absent"
    BY <1>7 DEF Fail, Reviewable
  <2>4. QED
    BY <2>1, <2>2, <2>3, PromotePlanned DEF planned
<1>8. ASSUME NEW n \in Nodes, NEW actor \in Labels, Withdraw(n, actor)
      PROVE  planned' = planned /\ depends_on' = depends_on
  BY <1>8, <1>1 DEF Withdraw
<1>9. ASSUME NEW n \in Nodes, Retry(n)
      PROVE  planned' = planned /\ depends_on' = depends_on
  BY <1>9, <1>1 DEF Retry, RetryAccepts
<1>10. ASSUME NEW n \in Nodes, GrantAttempt(n)
       PROVE  planned' = planned /\ depends_on' = depends_on
  BY <1>10, <1>2 DEF GrantAttempt
<1>11. ASSUME NEW n \in Nodes, Supersede(n)
       PROVE  planned' = planned /\ depends_on' = depends_on
  BY <1>11, <1>1 DEF Supersede
<1>12. CASE UNCHANGED vars
  BY <1>12 DEF vars, planned
<1>13. QED
  BY <1>3, <1>4, <1>5, <1>6, <1>7, <1>8, <1>9, <1>10, <1>11, <1>12 DEF Next

LEMMA PlanInit == Init => PlanInv
<1> SUFFICES ASSUME Init PROVE PlanInv
  OBVIOUS
<1>1. \A x \in Nodes : depends_on[x] = {}
  BY DEF Init
<1>2. Acyclic
  BY <1>1 DEF Acyclic
<1>3. QED
  BY <1>1, <1>2 DEF PlanInv

LEMMA PlanStep == TypeOK /\ PlanInv /\ [Next]_vars => PlanInv'
<1> SUFFICES ASSUME TypeOK, PlanInv, [Next]_vars PROVE PlanInv'
  OBVIOUS
<1>1. ASSUME NEW n \in Nodes, NEW deps \in SUBSET Nodes, NEW limit \in 1..MAX_ATTEMPTS,
             AddNode(n, deps, limit)
      PROVE  PlanInv'
  <2>1. /\ n \notin planned /\ deps \subseteq planned
        /\ planned' = planned \cup {n}
        /\ depends_on' = [depends_on EXCEPT ![n] = deps]
    BY <1>1 DEF AddNode, planned, TypeOK
  <2>2. \A x \in Nodes : depends_on'[x] \subseteq planned
    BY <2>1 DEF PlanInv, TypeOK
  <2>3. \A x \in Nodes \ planned' : depends_on'[x] = {}
    BY <2>1 DEF PlanInv, TypeOK
  <2>4. ASSUME NEW S \in (SUBSET Nodes) \ {{}}
        PROVE  \E x \in S : depends_on'[x] \cap S = {}
    <3>1. CASE S \subseteq {n}
      BY <2>1, <2>2, <3>1
    <3>2. CASE ~ (S \subseteq {n})
      <4>1. PICK x \in S \ {n} : depends_on[x] \cap (S \ {n}) = {}
        BY <3>2 DEF PlanInv, Acyclic
      <4>2. depends_on'[x] = depends_on[x] /\ n \notin depends_on[x]
        BY <2>1, <4>1 DEF PlanInv, TypeOK
      <4>3. QED
        BY <4>1, <4>2
    <3>3. QED
      BY <3>1, <3>2
  <2>5. QED
    BY <2>1, <2>2, <2>3, <2>4 DEF PlanInv, Acyclic
<1>2. CASE ~ \E n \in Nodes, deps \in SUBSET Nodes, limit \in 1..MAX_ATTEMPTS :
                AddNode(n, deps, limit)
  <2>1. planned' = planned /\ depends_on' = depends_on
    BY <1>2, PlanFixed
  <2>2. QED
    BY <2>1 DEF PlanInv, Acyclic
<1>3. QED
  BY <1>1, <1>2

\* Nothing waits for settled dependencies, and as long as a node is owed some
\* node can be worked on: the owed node that no owed node precedes.
THEOREM PlanNeverStalls == Spec => []SomebodyCanMove
<1>1. SettledInv /\ PlanInv => SomebodyCanMove
  <2> SUFFICES ASSUME SettledInv, PlanInv PROVE SomebodyCanMove
    OBVIOUS
  <2>1. ASSUME ~ Complete
        PROVE  \E n \in planned : status[n] \notin SETTLED \cup {"blocked"}
    <3> DEFINE owed == {n \in planned : status[n] \notin SETTLED}
    <3>1. owed \in (SUBSET Nodes) \ {{}}
      BY <2>1 DEF Complete, planned
    <3>2. PICK n \in owed : depends_on[n] \cap owed = {}
      BY <3>1 DEF PlanInv, Acyclic
    <3>3. DependenciesSettledIn(status, n)
      BY <3>1, <3>2 DEF DependenciesSettledIn, PlanInv
    <3>4. status[n] # "blocked"
      BY <3>1, <3>3 DEF SettledInv, BlockedOnOwed
    <3>5. QED
      BY <3>4
  <2>2. QED
    BY <2>1 DEF SomebodyCanMove, SettledInv, BlockedOnOwed
<1>2. QED
  BY SettledInit, SettledStep, PlanInit, PlanStep, <1>1, PTL DEF Spec, SettledInv

-----------------------------------------------------------------------------
(* The budget counts failed reviews *)

\* The attempt a node holds, and what it is charged for.
Held(st, x) == IF st[x] \in HOLDING THEN 1 ELSE 0

\* BudgetExact, with what it rests on for every node, retired or not: the
\* failures are numbered in order, below the attempt the node holds.
ChargedExactly(x) ==
    /\ \A i, j \in 1..Len(failure_history[x]) :
          i < j => failure_history[x][i] < failure_history[x][j]
    /\ \A i \in 1..Len(failure_history[x]) :
          failure_history[x][i] <= attempts[x] - Held(status, x)
    /\ Len(failure_history[x]) + Held(status, x) <= attempts[x]
    /\ ~ superseded_at[x] => attempts[x] = Len(failure_history[x]) + Held(status, x)

ChargeInv == \A x \in Nodes : ChargedExactly(x)

\* A node whose charges, failures and hold stay as they are stays in order.
LEMMA ChargeFrame ==
    ASSUME NEW x \in Nodes, ChargedExactly(x),
           attempts'[x] = attempts[x], failure_history'[x] = failure_history[x],
           Held(status, x)' = Held(status, x),
           superseded_at[x] => superseded_at'[x]
    PROVE  ChargedExactly(x)'
BY DEF ChargedExactly

LEMMA ChargeInit == Init => ChargeInv
BY DEF Init, ChargeInv, ChargedExactly, Held, HOLDING

LEMMA ChargeStep == TypeOK /\ ChargeInv /\ [Next]_vars => ChargeInv'
<1> SUFFICES ASSUME TypeOK, ChargeInv, [Next]_vars, NEW x \in Nodes
             PROVE  ChargedExactly(x)'
  BY DEF ChargeInv
<1>0. ChargedExactly(x) /\ attempts[x] \in Nat /\ failure_history[x] \in Seq(Nat)
  BY DEF ChargeInv, TypeOK
<1>types. /\ Held(status, x) \in {0, 1}
       /\ Len(failure_history[x]) \in Nat
       /\ Len(failure_history[x]) + Held(status, x) <= attempts[x]
       /\ \A i \in 1..Len(failure_history[x]) : failure_history[x][i] \in Nat
  <2>1. Held(status, x) \in {0, 1}
    BY DEF Held
  <2>2. /\ Len(failure_history[x]) \in Nat
        /\ \A i \in 1..Len(failure_history[x]) : failure_history[x][i] \in Nat
    BY <1>0
  <2>3. Len(failure_history[x]) + Held(status, x) <= attempts[x]
    BY <1>0 DEF ChargedExactly
  <2>4. QED
    BY <2>1, <2>2, <2>3
<1>1. ASSUME NEW st \in [Nodes -> Statuses], status' = Promote(st)
      PROVE  Held(status, x)' = Held(st, x)
  BY <1>1, PromoteKeeps DEF Held
<1>2. ASSUME NEW n \in Nodes, NEW v \in Statuses,
             status' = Promote([status EXCEPT ![n] = v])
      PROVE  Held(status, x)' = IF x = n THEN IF v \in HOLDING THEN 1 ELSE 0
                                         ELSE Held(status, x)
  <2>1. [status EXCEPT ![n] = v] \in [Nodes -> Statuses]
    BY DEF TypeOK, Statuses
  <2>2. QED
    BY <1>1, <1>2, <2>1 DEF Held, TypeOK
<1>3. ASSUME status' = Promote(status)
      PROVE  Held(status, x)' = Held(status, x)
  BY <1>1, <1>3 DEF TypeOK, Statuses
<1> USE DEF Statuses, STATUSES, HOLDING
<1>4. ASSUME NEW n \in Nodes, NEW deps \in SUBSET Nodes, NEW limit \in 1..MAX_ATTEMPTS,
             AddNode(n, deps, limit)
      PROVE  ChargedExactly(x)'
  <2>1. Held(status, x)' = Held(status, x)
    BY <1>4 DEF AddNode, planned, Held, TypeOK
  <2>2. QED
    BY <1>0, <1>4, <2>1, ChargeFrame DEF AddNode
<1>5. ASSUME NEW n \in Nodes, NEW executor \in Labels, Start(n, executor)
      PROVE  ChargedExactly(x)'
  <2>1. CASE x = n
    <3>1. Held(status, x) = 0 /\ Held(status, x)' = 1
      BY <1>2, <1>5, <2>1 DEF Start, Held
    <3>2. /\ attempts'[x] = attempts[x] + 1
          /\ failure_history'[x] = failure_history[x]
          /\ superseded_at'[x] = superseded_at[x]
      BY <1>5, <2>1 DEF Start, TypeOK
    <3>3. QED
      BY <1>0, <3>1, <3>2 DEF ChargedExactly
  <2>2. CASE x # n
    <3>1. Held(status, x)' = Held(status, x)
      BY <1>2, <1>5, <2>2 DEF Start
    <3>2. QED
      BY <1>0, <1>5, <2>2, <3>1, ChargeFrame DEF Start, TypeOK
  <2>3. QED
    BY <2>1, <2>2
<1>6. ASSUME NEW n \in Nodes, NEW actor \in Labels \cup {None},
             NEW items \in SUBSET Items, NEW files \in SUBSET Paths,
             Submit(n, actor, items, files)
      PROVE  ChargedExactly(x)'
  <2>1. Held(status, x)' = Held(status, x)
    BY <1>2, <1>6 DEF Submit, Held
  <2>2. QED
    BY <1>0, <1>6, <2>1, ChargeFrame DEF Submit
<1>7. ASSUME NEW n \in Nodes, NEW reviewer \in Labels,
             NEW checked \in SUBSET Criteria, NEW covered \in SUBSET Criteria,
             Pass(n, reviewer, checked, covered)
      PROVE  ChargedExactly(x)'
  <2>1. Held(status, x)' = Held(status, x)
    BY <1>2, <1>7 DEF Pass, Reviewable, Held
  <2>2. QED
    BY <1>0, <1>7, <2>1, ChargeFrame DEF Pass
<1>8. ASSUME NEW n \in Nodes, NEW reviewer \in Labels, Uncertain(n, reviewer)
      PROVE  ChargedExactly(x)'
  BY <1>0, <1>3, <1>8, ChargeFrame DEF Uncertain
<1>9. ASSUME NEW n \in Nodes, NEW faulty \in Nodes, NEW reviewer \in Labels,
             Fail(n, reviewer, faulty)
      PROVE  ChargedExactly(x)'
  <2> DEFINE st == [m \in Nodes |->
                      IF m \in Invalidated(faulty) THEN "invalidated"
                      ELSE IF m = faulty THEN "failed" ELSE status[m]]
  <2>1. st \in [Nodes -> Statuses] /\ status' = Promote(st)
    BY <1>9 DEF TypeOK, Fail
  <2>2. /\ Held(status, x)' = Held(st, x)
        /\ superseded_at' = superseded_at
    BY <1>1, <1>9, <2>1 DEF Fail
  <2>3. CASE x \in Invalidated(faulty)
    <3>1. Held(status, x)' = 0 /\ x # faulty
      BY <2>2, <2>3 DEF Held, Invalidated
    <3>2. attempts'[x] = attempts[x] - Refund(x) /\ failure_history'[x] = failure_history[x]
      BY <1>9, <2>3, <3>1 DEF Fail, TypeOK
    <3>3. Refund(x) = Held(status, x)
      <4>1. CASE status[x] \in HOLDING
        <5>1. Held(status, x) = 1
          BY <4>1 DEF Held
        <5>2. attempts[x] > 0
          BY <1>0, <1>types, <5>1
        <5>3. QED
          BY <4>1, <5>1, <5>2 DEF Refund
      <4>2. CASE status[x] \notin HOLDING
        BY <4>2 DEF Refund, Held
      <4>3. QED
        BY <4>1, <4>2
    <3>4. attempts'[x] = attempts[x] - Held(status, x)
      BY <3>2, <3>3
    <3>5. /\ attempts'[x] - Held(status, x)' = attempts[x] - Held(status, x)
          /\ Len(failure_history'[x]) + Held(status, x)' <= attempts'[x]
      BY <1>0, <1>types, <3>1, <3>2, <3>4
    <3>6. ~ superseded_at'[x] => attempts'[x] = Len(failure_history'[x]) + Held(status, x)'
      BY <1>0, <1>types, <2>2, <3>1, <3>2, <3>4 DEF ChargedExactly
    <3>7. QED
      BY <1>0, <3>2, <3>5, <3>6 DEF ChargedExactly
  <2>4. CASE x = faulty
    <3>1. x \notin Invalidated(faulty)
      BY <2>4 DEF Invalidated
    <3>2. Held(status, x) = 1 /\ Held(status, x)' = 0
      BY <1>9, <2>2, <2>4, <3>1 DEF Held, Fail, Reviewable
    <3>3. /\ attempts'[x] = attempts[x]
          /\ failure_history'[x] = Append(failure_history[x], attempts[x])
      BY <1>9, <2>4, <3>1 DEF Fail, TypeOK
    <3>4. /\ Len(failure_history'[x]) = Len(failure_history[x]) + 1
          /\ failure_history'[x][Len(failure_history[x]) + 1] = attempts[x]
          /\ \A i \in 1..Len(failure_history[x]) :
                failure_history'[x][i] = failure_history[x][i]
      BY <1>0, <3>3
    <3>5. \A i \in 1..Len(failure_history[x]) : failure_history[x][i] < attempts[x]
      BY <1>0, <1>types, <3>2 DEF ChargedExactly
    <3>6. ASSUME NEW i \in 1..Len(failure_history'[x]), NEW j \in 1..Len(failure_history'[x]),
                 i < j
          PROVE  failure_history'[x][i] < failure_history'[x][j]
      <4>1. i \in 1..Len(failure_history[x])
        BY <1>types, <3>4, <3>6
      <4>2. CASE j = Len(failure_history[x]) + 1
        BY <3>4, <3>5, <4>1, <4>2
      <4>3. CASE j \in 1..Len(failure_history[x])
        BY <1>0, <3>4, <3>6, <4>1, <4>3 DEF ChargedExactly
      <4>4. QED
        BY <1>types, <3>4, <4>2, <4>3
    <3>7. ASSUME NEW i \in 1..Len(failure_history'[x])
          PROVE  failure_history'[x][i] <= attempts[x]
      <4>1. CASE i = Len(failure_history[x]) + 1
        BY <1>0, <3>4, <4>1
      <4>2. CASE i \in 1..Len(failure_history[x])
        BY <1>0, <1>types, <3>4, <3>5, <4>2
      <4>3. QED
        BY <1>types, <3>4, <4>1, <4>2
    <3>8. /\ Len(failure_history'[x]) <= attempts[x]
          /\ ~ superseded_at[x] => attempts[x] = Len(failure_history'[x])
      BY <1>0, <1>types, <3>2, <3>4 DEF ChargedExactly
    <3>9. attempts'[x] - Held(status, x)' = attempts[x]
      BY <1>0, <3>2, <3>3
    <3>10. /\ Len(failure_history'[x]) + Held(status, x)' <= attempts'[x]
           /\ ~ superseded_at'[x] =>
                 attempts'[x] = Len(failure_history'[x]) + Held(status, x)'
      BY <1>0, <1>types, <2>2, <3>2, <3>3, <3>4, <3>8
    <3>11. QED
      BY <3>6, <3>7, <3>9, <3>10 DEF ChargedExactly
  <2>5. CASE x \notin Invalidated(faulty) /\ x # faulty
    <3>1. Held(status, x)' = Held(status, x)
      BY <2>2, <2>5 DEF Held
    <3>2. QED
      BY <1>0, <1>9, <2>5, <3>1, ChargeFrame DEF Fail, TypeOK
  <2>6. QED
    BY <2>3, <2>4, <2>5
<1>10. ASSUME NEW n \in Nodes, NEW actor \in Labels, Withdraw(n, actor)
       PROVE  ChargedExactly(x)'
  <2>1. Held(status, x)' = Held(status, x)
    BY <1>2, <1>10 DEF Withdraw, Held
  <2>2. QED
    BY <1>0, <1>10, <2>1, ChargeFrame DEF Withdraw
<1>11. ASSUME NEW n \in Nodes, Retry(n)
       PROVE  ChargedExactly(x)'
  <2>1. PICK v \in {"ready", "blocked"} : status' = Promote([status EXCEPT ![n] = v])
    BY <1>11 DEF Retry
  <2>2. Held(status, x)' = Held(status, x)
    BY <1>2, <1>11, <2>1 DEF Retry, RetryAccepts, Held
  <2>3. QED
    BY <1>0, <1>11, <2>2, ChargeFrame DEF Retry
<1>12. ASSUME NEW n \in Nodes, GrantAttempt(n)
       PROVE  ChargedExactly(x)'
  BY <1>0, <1>3, <1>12, ChargeFrame DEF GrantAttempt
<1>13. ASSUME NEW n \in Nodes, Supersede(n)
       PROVE  ChargedExactly(x)'
  <2>1. CASE x = n
    <3>1. Held(status, x)' = 0
      <4>1. PICK v \in {"superseded"} : status' = Promote([status EXCEPT ![n] = v])
        BY <1>13 DEF Supersede
      <4>2. QED
        BY <1>2, <2>1, <4>1
    <3>2. /\ attempts'[x] = attempts[x] /\ failure_history'[x] = failure_history[x]
          /\ superseded_at'[x]
      BY <1>13, <2>1 DEF Supersede, TypeOK
    <3>3. /\ Len(failure_history[x]) <= attempts[x]
          /\ \A i \in 1..Len(failure_history[x]) : failure_history[x][i] <= attempts[x]
      BY <1>0, <1>types DEF ChargedExactly
    <3>4. /\ attempts'[x] - Held(status, x)' = attempts[x]
          /\ Len(failure_history'[x]) + Held(status, x)' <= attempts'[x]
      BY <1>0, <1>types, <3>1, <3>2, <3>3
    <3>5. \A i, j \in 1..Len(failure_history'[x]) :
             i < j => failure_history'[x][i] < failure_history'[x][j]
      BY <1>0, <3>2 DEF ChargedExactly
    <3>6. \A i \in 1..Len(failure_history'[x]) : failure_history'[x][i] <= attempts[x]
      BY <3>2, <3>3
    <3>7. QED
      BY <3>2, <3>4, <3>5, <3>6 DEF ChargedExactly
  <2>2. CASE x # n
    <3>1. Held(status, x)' = Held(status, x)
      BY <1>2, <1>13, <2>2 DEF Supersede
    <3>2. QED
      BY <1>0, <1>13, <2>2, <3>1, ChargeFrame DEF Supersede, TypeOK
  <2>3. QED
    BY <2>1, <2>2
<1>14. CASE UNCHANGED vars
  BY <1>0, <1>14, ChargeFrame DEF vars, Held
<1>15. QED
  BY <1>4, <1>5, <1>6, <1>7, <1>8, <1>9, <1>10, <1>11, <1>12, <1>13, <1>14 DEF Next

\* A node that was never retired is charged exactly its own failed reviews and
\* the attempt it holds, however often work above it fails.
THEOREM BudgetCountsFailures == Spec => []BudgetExact
<1>1. ChargeInv => BudgetExact
  BY DEF ChargeInv, ChargedExactly, Held, BudgetExact
<1>2. QED
  BY InitTypeOK, NextTypeOK, ChargeInit, ChargeStep, <1>1, PTL DEF Spec

\* No two failures of a node share an event id, and none is ahead of the
\* node's attempt counter.
THEOREM EventIdsUnique == Spec => []FailureEventsUnique
<1>1. TypeOK /\ ChargeInv => FailureEventsUnique
  <2> SUFFICES ASSUME TypeOK, ChargeInv, NEW x \in Nodes,
                      NEW i \in 1..Len(failure_history[x])
               PROVE  failure_history[x][i] <= attempts[x]
    BY DEF ChargeInv, ChargedExactly, FailureEventsUnique
  <2>1. failure_history[x][i] \in Nat /\ attempts[x] \in Nat
    BY DEF TypeOK
  <2>2. failure_history[x][i] <= attempts[x] - Held(status, x)
    BY DEF ChargeInv, ChargedExactly
  <2>3. Held(status, x) \in {0, 1}
    BY DEF Held
  <2>4. QED
    BY <2>1, <2>2, <2>3
<1>2. QED
  BY InitTypeOK, NextTypeOK, ChargeInit, ChargeStep, <1>1, PTL DEF Spec

-----------------------------------------------------------------------------
(* Verified work was reviewed by somebody else *)

\* IndependentPass for one node, and the executor whom active work names.
PassedIndependently(x) ==
    /\ status[x] \in {"running", "awaiting_verification"} => executor_id[x] \in Labels
    /\ status[x] = "verified" =>
          /\ verification[x].result = "pass"
          /\ executor_id[x] # None
          /\ ~ SameActor(verification[x].reviewer_id, executor_id[x])
          /\ Covered(evidence[x]) = Criteria
          /\ verification[x].checked_criteria = Criteria
          /\ verification[x].evidence = Criteria

\* A step that leaves the record of a node alone keeps this, unless it makes
\* the node active or verified.
LEMMA PassFrame ==
    ASSUME NEW x \in Nodes, PassedIndependently(x),
           \/ status'[x] \notin HOLDING
           \/ /\ status'[x] = status[x]
              /\ verification'[x] = verification[x]
              /\ executor_id'[x] = executor_id[x]
              /\ evidence'[x] = evidence[x]
    PROVE  PassedIndependently(x)'
BY DEF PassedIndependently, HOLDING, SameActor

PassInv == \A x \in Nodes : PassedIndependently(x)

LEMMA PassInit == Init => PassInv
BY DEF Init, PassInv, PassedIndependently

LEMMA PassStep == TypeOK /\ PassInv /\ [Next]_vars => PassInv'
<1> SUFFICES ASSUME TypeOK, PassInv, [Next]_vars, NEW x \in Nodes
             PROVE  PassedIndependently(x)'
  BY DEF PassInv
<1>0. PassedIndependently(x)
  BY DEF PassInv
<1>1. ASSUME NEW st \in [Nodes -> Statuses], status' = Promote(st)
      PROVE  status'[x] = st[x] \/ status'[x] \notin HOLDING
  BY <1>1, PromoteKeeps DEF HOLDING
<1>2. ASSUME NEW n \in Nodes, NEW v \in Statuses,
             status' = Promote([status EXCEPT ![n] = v])
      PROVE  status'[x] = (IF x = n THEN v ELSE status[x]) \/ status'[x] \notin HOLDING
  <2>1. [status EXCEPT ![n] = v] \in [Nodes -> Statuses]
    BY DEF TypeOK, Statuses
  <2>2. QED
    BY <1>1, <1>2, <2>1 DEF TypeOK
<1>3. ASSUME status' = Promote(status)
      PROVE  status'[x] = status[x] \/ status'[x] \notin HOLDING
  BY <1>1, <1>3 DEF TypeOK, Statuses
<1> USE DEF Statuses, STATUSES, HOLDING
<1>4. ASSUME NEW n \in Nodes, NEW deps \in SUBSET Nodes, NEW limit \in 1..MAX_ATTEMPTS,
             AddNode(n, deps, limit)
      PROVE  PassedIndependently(x)'
  BY <1>0, <1>4, PassFrame DEF AddNode, TypeOK, reviewVars
<1>5. ASSUME NEW n \in Nodes, NEW executor \in Labels, Start(n, executor)
      PROVE  PassedIndependently(x)'
  <2>1. PICK v \in {"running"} : status' = Promote([status EXCEPT ![n] = v])
    BY <1>5 DEF Start
  <2>2. CASE x = n
    BY <1>2, <1>5, <2>1, <2>2 DEF Start, PassedIndependently, TypeOK
  <2>3. CASE x # n
    BY <1>0, <1>2, <1>5, <2>1, <2>3, PassFrame DEF Start, TypeOK
  <2>4. QED
    BY <2>2, <2>3
<1>6. ASSUME NEW n \in Nodes, NEW actor \in Labels \cup {None},
             NEW items \in SUBSET Items, NEW files \in SUBSET Paths,
             Submit(n, actor, items, files)
      PROVE  PassedIndependently(x)'
  <2>1. PICK v \in {"awaiting_verification"} : status' = Promote([status EXCEPT ![n] = v])
    BY <1>6 DEF Submit
  <2>2. CASE x = n
    BY <1>0, <1>2, <1>6, <2>1, <2>2 DEF Submit, PassedIndependently
  <2>3. CASE x # n
    BY <1>0, <1>2, <1>6, <2>1, <2>3, PassFrame DEF Submit, TypeOK
  <2>4. QED
    BY <2>2, <2>3
<1>7. ASSUME NEW n \in Nodes, NEW reviewer \in Labels,
             NEW checked \in SUBSET Criteria, NEW covered \in SUBSET Criteria,
             Pass(n, reviewer, checked, covered)
      PROVE  PassedIndependently(x)'
  <2>1. PICK v \in {"verified"} : status' = Promote([status EXCEPT ![n] = v])
    BY <1>7 DEF Pass
  <2>2. CASE x = n
    <3>1. /\ executor_id'[x] = executor_id[x] /\ executor_id[x] # None
          /\ ~ SameActor(reviewer, executor_id[x])
      BY <1>0, <1>7, <2>2, LabelsAssumption DEF Pass, Reviewable, PassedIndependently
    <3>2. verification'[x] = Review("pass", reviewer, Criteria, Criteria)
      BY <1>7, <2>2 DEF Pass, TypeOK
    <3>3. Covered(evidence[x])' = Criteria
      BY <1>7, <2>2 DEF Pass, Covered
    <3>4. status'[x] \notin {"running", "awaiting_verification"}
      BY <1>2, <2>1, <2>2
    <3>5. QED
      BY <3>1, <3>2, <3>3, <3>4 DEF PassedIndependently, Review, SameActor
  <2>3. CASE x # n
    BY <1>0, <1>2, <1>7, <2>1, <2>3, PassFrame DEF Pass, TypeOK
  <2>4. QED
    BY <2>2, <2>3
<1>8. ASSUME NEW n \in Nodes, NEW reviewer \in Labels, Uncertain(n, reviewer)
      PROVE  PassedIndependently(x)'
  <2>1. CASE x = n
    BY <1>0, <1>3, <1>8, <2>1 DEF Uncertain, Reviewable, PassedIndependently
  <2>2. CASE x # n
    BY <1>0, <1>3, <1>8, <2>2, PassFrame DEF Uncertain, TypeOK
  <2>3. QED
    BY <2>1, <2>2
<1>9. ASSUME NEW n \in Nodes, NEW faulty \in Nodes, NEW reviewer \in Labels,
             Fail(n, reviewer, faulty)
      PROVE  PassedIndependently(x)'
  <2> DEFINE st == [m \in Nodes |->
                      IF m \in Invalidated(faulty) THEN "invalidated"
                      ELSE IF m = faulty THEN "failed" ELSE status[m]]
  <2>1. st \in [Nodes -> Statuses] /\ status' = Promote(st)
    BY <1>9 DEF TypeOK, Fail
  <2>2. status'[x] = st[x] \/ status'[x] \notin HOLDING
    BY <1>1, <2>1
  <2>3. CASE x \in Invalidated(faulty) \/ x = faulty
    BY <1>0, <2>2, <2>3, PassFrame
  <2>4. CASE x \notin Invalidated(faulty) /\ x # faulty
    <3>1. x # n
      BY <1>9, <2>4 DEF Fail, Reviewable, Invalidated
    <3>2. /\ verification'[x] = verification[x]
          /\ executor_id'[x] = executor_id[x]
          /\ evidence'[x] = evidence[x]
      BY <1>9, <2>4, <3>1 DEF Fail
    <3>3. QED
      BY <1>0, <2>2, <2>4, <3>2, PassFrame
  <2>5. QED
    BY <2>3, <2>4
<1>10. ASSUME NEW n \in Nodes, NEW actor \in Labels, Withdraw(n, actor)
       PROVE  PassedIndependently(x)'
  <2>1. PICK v \in {"running"} : status' = Promote([status EXCEPT ![n] = v])
    BY <1>10 DEF Withdraw
  <2>2. CASE x = n
    BY <1>0, <1>2, <1>10, <2>1, <2>2 DEF Withdraw, PassedIndependently
  <2>3. CASE x # n
    BY <1>0, <1>2, <1>10, <2>1, <2>3, PassFrame DEF Withdraw, TypeOK
  <2>4. QED
    BY <2>2, <2>3
<1>11. ASSUME NEW n \in Nodes, Retry(n)
       PROVE  PassedIndependently(x)'
  <2>1. PICK v \in {"ready", "blocked"} : status' = Promote([status EXCEPT ![n] = v])
    BY <1>11 DEF Retry
  <2>2. CASE x = n
    BY <1>0, <1>2, <2>1, <2>2, PassFrame
  <2>3. CASE x # n
    BY <1>0, <1>2, <1>11, <2>1, <2>3, PassFrame DEF Retry, TypeOK
  <2>4. QED
    BY <2>2, <2>3
<1>12. ASSUME NEW n \in Nodes, GrantAttempt(n)
       PROVE  PassedIndependently(x)'
  BY <1>0, <1>3, <1>12, PassFrame DEF GrantAttempt, reviewVars
<1>13. ASSUME NEW n \in Nodes, Supersede(n)
       PROVE  PassedIndependently(x)'
  <2>1. PICK v \in {"superseded"} : status' = Promote([status EXCEPT ![n] = v])
    BY <1>13 DEF Supersede
  <2>2. QED
    BY <1>0, <1>2, <1>13, <2>1, PassFrame DEF Supersede, reviewVars
<1>14. CASE UNCHANGED vars
  BY <1>0, <1>14, PassFrame DEF vars
<1>15. QED
  BY <1>4, <1>5, <1>6, <1>7, <1>8, <1>9, <1>10, <1>11, <1>12, <1>13, <1>14 DEF Next

\* Whatever happens to a node between attempts, while it is verified it carries
\* a full PASS by an actor other than the executor it names.
THEOREM VerifiedIndependently == Spec => []IndependentPass
<1>1. PassInv => IndependentPass
  BY DEF PassInv, PassedIndependently, IndependentPass
<1>2. QED
  BY InitTypeOK, NextTypeOK, PassInit, PassStep, <1>1, PTL DEF Spec

=============================================================================
