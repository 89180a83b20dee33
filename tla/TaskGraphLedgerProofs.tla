------------------------ MODULE TaskGraphLedgerProofs ------------------------
(***************************************************************************)
(* Further theorems about TaskGraph: what a node shows and recommends, how *)
(* far a failure reaches, and that the graph implements WorkLedger.        *)
(***************************************************************************)
EXTENDS TaskGraphProofs

-----------------------------------------------------------------------------
(* Where an operation leaves a status *)

\* After validation a node has the status the operation wrote, unless it was
\* waiting and has become ready.
LEMMA PromoteMoves ==
    ASSUME NEW st \in [Nodes -> Statuses], status' = Promote(st), NEW x \in Nodes
    PROVE  status'[x] = st[x] \/ (st[x] = "blocked" /\ status'[x] = "ready")
BY DEF Promote

\* The same for an operation that writes the status of n: for n itself, and
\* for any other node.
LEMMA MoveLeaves ==
    ASSUME TypeOK, NEW n \in Nodes, NEW v \in Statuses,
           status' = Promote([status EXCEPT ![n] = v])
    PROVE  status'[n] = v \/ (v = "blocked" /\ status'[n] = "ready")
<1>1. [status EXCEPT ![n] = v] \in [Nodes -> Statuses] /\ [status EXCEPT ![n] = v][n] = v
  BY DEF TypeOK, Statuses
<1>2. QED
  BY <1>1, PromoteMoves

LEMMA MoveLeavesOthers ==
    ASSUME TypeOK, NEW n \in Nodes, NEW v \in Statuses, NEW x \in Nodes, x # n,
           status' = Promote([status EXCEPT ![n] = v])
    PROVE  \/ status'[x] = status[x]
           \/ status[x] = "blocked" /\ status'[x] = "ready"
<1>1. /\ [status EXCEPT ![n] = v] \in [Nodes -> Statuses]
      /\ [status EXCEPT ![n] = v][x] = status[x]
  BY DEF TypeOK, Statuses
<1>2. QED
  BY <1>1, PromoteMoves

\* And for one that writes none.
LEMMA StayLeaves ==
    ASSUME TypeOK, NEW x \in Nodes, status' = Promote(status)
    PROVE  status'[x] = status[x] \/ (status[x] = "blocked" /\ status'[x] = "ready")
BY PromoteMoves DEF TypeOK, Statuses

\* A failed review: the node it holds responsible has failed, the nodes it
\* reaches are invalidated, among them the reviewed one, the others stay.
LEMMA FailLeaves ==
    ASSUME TypeOK, NEW n \in Nodes, NEW faulty \in Nodes, NEW reviewer \in Labels,
           Fail(n, reviewer, faulty), NEW x \in Nodes
    PROVE  /\ x \in Invalidated(faulty) => status'[x] = "invalidated"
           /\ x = faulty => status'[x] = "failed"
           /\ x \notin Invalidated(faulty) /\ x # faulty =>
                 \/ status'[x] = status[x]
                 \/ status[x] = "blocked" /\ status'[x] = "ready"
           /\ faulty \notin Invalidated(faulty)
           /\ n = faulty \/ n \in Invalidated(faulty)
<1> DEFINE st == [m \in Nodes |->
                    IF m \in Invalidated(faulty) THEN "invalidated"
                    ELSE IF m = faulty THEN "failed" ELSE status[m]]
<1>1. st \in [Nodes -> Statuses] /\ status' = Promote(st)
  BY DEF TypeOK, Fail, Statuses, STATUSES
<1>2. status'[x] = st[x] \/ (st[x] = "blocked" /\ status'[x] = "ready")
  BY <1>1, PromoteMoves
<1>3. n = faulty \/ n \in Invalidated(faulty)
  BY DEF Fail, Reviewable, Invalidated
<1>4. faulty \notin Invalidated(faulty)
  BY DEF Invalidated
<1>5. QED
  BY <1>2, <1>3, <1>4

-----------------------------------------------------------------------------
(* The verdict a node shows *)

\* VerdictMatchesStatus for one node.
VerdictFits(x) ==
    /\ status[x] \in {"absent", "blocked", "ready", "running"} => verification[x].result = "none"
    /\ status[x] = "awaiting_verification" => verification[x].result \in {"none", "uncertain"}
    /\ status[x] = "failed" => verification[x].result \in {"none", "fail"}

VerdictInv == \A x \in Nodes : VerdictFits(x)

\* A verdict that stays fits where the status stays, where a waiting node
\* becomes ready, and where the status says nothing of it.
LEMMA VerdictFrame ==
    ASSUME NEW x \in Nodes, VerdictFits(x), verification'[x] = verification[x],
           \/ status'[x] = status[x]
           \/ status[x] \in {"absent", "blocked"} /\ status'[x] \in {"blocked", "ready"}
           \/ status'[x] \in {"verified", "invalidated", "superseded"}
    PROVE  VerdictFits(x)'
BY DEF VerdictFits

\* So it does when an operation moves another node.
LEMMA OtherFits ==
    ASSUME TypeOK, NEW n \in Nodes, NEW v \in Statuses, NEW x \in Nodes, x # n,
           status' = Promote([status EXCEPT ![n] = v]),
           VerdictFits(x), verification'[x] = verification[x]
    PROVE  VerdictFits(x)'
<1>1. \/ status'[x] = status[x]
      \/ status[x] = "blocked" /\ status'[x] = "ready"
  BY MoveLeavesOthers
<1>2. QED
  BY <1>1, VerdictFrame

\* A node without a verdict fits everywhere.
LEMMA UnjudgedFits ==
    ASSUME NEW x \in Nodes, verification'[x] = NoReview
    PROVE  VerdictFits(x)'
BY DEF VerdictFits, NoReview, Review

LEMMA VerdictInit == Init => VerdictInv
BY DEF Init, VerdictInv, VerdictFits, NoReview, Review

LEMMA VerdictStep == TypeOK /\ VerdictInv /\ [Next]_vars => VerdictInv'
<1> SUFFICES ASSUME TypeOK, VerdictInv, [Next]_vars, NEW x \in Nodes
             PROVE  VerdictFits(x)'
  BY DEF VerdictInv
<1>0. VerdictFits(x)
  BY DEF VerdictInv
<1> USE DEF Statuses, STATUSES
<1>1. ASSUME NEW n \in Nodes, NEW deps \in SUBSET Nodes, NEW limit \in 1..MAX_ATTEMPTS,
             AddNode(n, deps, limit)
      PROVE  VerdictFits(x)'
  BY <1>0, <1>1, VerdictFrame DEF AddNode, TypeOK, planned, reviewVars
<1>2. ASSUME NEW n \in Nodes, NEW executor \in Labels, Start(n, executor)
      PROVE  VerdictFits(x)'
  <2>1. PICK v \in {"running"} : status' = Promote([status EXCEPT ![n] = v])
    BY <1>2 DEF Start
  <2>2. CASE x = n
    BY <1>2, <2>2, UnjudgedFits DEF Start, TypeOK
  <2>3. CASE x # n
    <3>1. verification'[x] = verification[x]
      BY <1>2, <2>3 DEF Start, TypeOK
    <3>2. QED
      BY <1>0, <2>1, <2>3, <3>1, OtherFits
  <2>4. QED
    BY <2>2, <2>3
<1>3. ASSUME NEW n \in Nodes, NEW actor \in Labels \cup {None},
             NEW items \in SUBSET Items, NEW files \in SUBSET Paths,
             Submit(n, actor, items, files)
      PROVE  VerdictFits(x)'
  <2>1. PICK v \in {"awaiting_verification"} : status' = Promote([status EXCEPT ![n] = v])
    BY <1>3 DEF Submit
  <2>2. CASE x = n
    BY <1>0, <1>3, <2>1, <2>2, MoveLeaves DEF Submit, VerdictFits
  <2>3. CASE x # n
    <3>1. verification'[x] = verification[x]
      BY <1>3, <2>3 DEF Submit, TypeOK
    <3>2. QED
      BY <1>0, <2>1, <2>3, <3>1, OtherFits
  <2>4. QED
    BY <2>2, <2>3
<1>4. ASSUME NEW n \in Nodes, NEW reviewer \in Labels,
             NEW checked \in SUBSET Criteria, NEW covered \in SUBSET Criteria,
             Pass(n, reviewer, checked, covered)
      PROVE  VerdictFits(x)'
  <2>1. PICK v \in {"verified"} : status' = Promote([status EXCEPT ![n] = v])
    BY <1>4 DEF Pass
  <2>2. CASE x = n
    BY <2>1, <2>2, MoveLeaves DEF VerdictFits
  <2>3. CASE x # n
    <3>1. verification'[x] = verification[x]
      BY <1>4, <2>3 DEF Pass, TypeOK
    <3>2. QED
      BY <1>0, <2>1, <2>3, <3>1, OtherFits
  <2>4. QED
    BY <2>2, <2>3
<1>5. ASSUME NEW n \in Nodes, NEW reviewer \in Labels, Uncertain(n, reviewer)
      PROVE  VerdictFits(x)'
  <2>1. CASE x = n
    <3>1. status'[x] = "awaiting_verification"
      BY <1>5, <2>1, StayLeaves DEF Uncertain, Reviewable
    <3>2. verification'[x].result = "uncertain"
      BY <1>5, <2>1 DEF Uncertain, Review, TypeOK
    <3>3. QED
      BY <3>1, <3>2 DEF VerdictFits
  <2>2. CASE x # n
    BY <1>0, <1>5, <2>2, StayLeaves, VerdictFrame DEF Uncertain, TypeOK
  <2>3. QED
    BY <2>1, <2>2
<1>6. ASSUME NEW n \in Nodes, NEW faulty \in Nodes, NEW reviewer \in Labels,
             Fail(n, reviewer, faulty)
      PROVE  VerdictFits(x)'
  <2>1. CASE x \in Invalidated(faulty)
    BY <1>6, <2>1, FailLeaves DEF VerdictFits
  <2>2. CASE x = faulty
    <3>1. status'[x] = "failed"
      BY <1>6, <2>2, FailLeaves
    <3>2. verification'[x].result \in {"none", "fail"}
      BY <1>6, <2>2 DEF Fail, Review, NoReview
    <3>3. QED
      BY <3>1, <3>2 DEF VerdictFits
  <2>3. CASE x \notin Invalidated(faulty) /\ x # faulty
    <3>1. x # n
      BY <1>6, <2>3, FailLeaves
    <3>2. verification'[x] = verification[x]
      BY <1>6, <2>3, <3>1 DEF Fail
    <3>3. QED
      BY <1>0, <1>6, <2>3, <3>2, FailLeaves, VerdictFrame
  <2>4. QED
    BY <2>1, <2>2, <2>3
<1>7. ASSUME NEW n \in Nodes, NEW actor \in Labels, Withdraw(n, actor)
      PROVE  VerdictFits(x)'
  <2>1. PICK v \in {"running"} : status' = Promote([status EXCEPT ![n] = v])
    BY <1>7 DEF Withdraw
  <2>2. CASE x = n
    BY <1>7, <2>2, UnjudgedFits DEF Withdraw, TypeOK
  <2>3. CASE x # n
    <3>1. verification'[x] = verification[x]
      BY <1>7, <2>3 DEF Withdraw, TypeOK
    <3>2. QED
      BY <1>0, <2>1, <2>3, <3>1, OtherFits
  <2>4. QED
    BY <2>2, <2>3
<1>8. ASSUME NEW n \in Nodes, Retry(n)
      PROVE  VerdictFits(x)'
  <2>1. PICK v \in {"ready", "blocked"} : status' = Promote([status EXCEPT ![n] = v])
    BY <1>8 DEF Retry
  <2>2. CASE x = n
    BY <1>8, <2>2, UnjudgedFits DEF Retry, TypeOK
  <2>3. CASE x # n
    <3>1. verification'[x] = verification[x]
      BY <1>8, <2>3 DEF Retry, TypeOK
    <3>2. QED
      BY <1>0, <2>1, <2>3, <3>1, OtherFits
  <2>4. QED
    BY <2>2, <2>3
<1>9. ASSUME NEW n \in Nodes, GrantAttempt(n)
      PROVE  VerdictFits(x)'
  BY <1>0, <1>9, StayLeaves, VerdictFrame DEF GrantAttempt, reviewVars
<1>10. ASSUME NEW n \in Nodes, Supersede(n)
       PROVE  VerdictFits(x)'
  <2>1. PICK v \in {"superseded"} : status' = Promote([status EXCEPT ![n] = v])
    BY <1>10 DEF Supersede
  <2>2. verification'[x] = verification[x]
    BY <1>10 DEF Supersede, reviewVars
  <2>3. CASE x = n
    BY <2>1, <2>3, MoveLeaves DEF VerdictFits
  <2>4. CASE x # n
    BY <1>0, <2>1, <2>2, <2>4, OtherFits
  <2>5. QED
    BY <2>3, <2>4
<1>11. CASE UNCHANGED vars
  BY <1>0, <1>11, VerdictFrame DEF vars
<1>12. QED
  BY <1>1, <1>2, <1>3, <1>4, <1>5, <1>6, <1>7, <1>8, <1>9, <1>10, <1>11 DEF Next

\* No reopened, resubmitted or retried node shows the verdict of an earlier
\* attempt, in whatever order reviews, withdrawals and failures above it came.
THEOREM VerdictIsCurrent == Spec => []VerdictMatchesStatus
<1>1. VerdictInv => VerdictMatchesStatus
  BY DEF VerdictInv, VerdictFits, VerdictMatchesStatus
<1>2. QED
  BY InitTypeOK, NextTypeOK, VerdictInit, VerdictStep, <1>1, PTL DEF Spec

-----------------------------------------------------------------------------
(* What status_summary recommends is accepted *)

\* Nothing has been charged to an unplanned node; no node is charged more than
\* its limit, and one that is offered, or will be, less.
WithinLimit(x) ==
    /\ status[x] = "absent" => attempts[x] = 0
    /\ attempts[x] <= max_attempts[x]
    /\ status[x] \in {"ready", "blocked"} => attempts[x] < max_attempts[x]

LimitInv == \A x \in Nodes : WithinLimit(x)

\* Charges and limits that stay keep a node within its limit, unless the node
\* becomes available.
LEMMA LimitFrame ==
    ASSUME NEW x \in Nodes, WithinLimit(x),
           attempts'[x] = attempts[x], max_attempts'[x] = max_attempts[x],
           \/ status'[x] = status[x]
           \/ status[x] = "blocked" /\ status'[x] = "ready"
           \/ status'[x] \notin {"absent", "ready", "blocked"}
    PROVE  WithinLimit(x)'
BY DEF WithinLimit

LEMMA LimitMoved ==
    ASSUME TypeOK, NEW n \in Nodes, NEW v \in STATUSES, NEW x \in Nodes, WithinLimit(x),
           attempts'[x] = attempts[x], max_attempts'[x] = max_attempts[x],
           status' = Promote([status EXCEPT ![n] = v]),
           x = n => v \notin {"ready", "blocked"} \/ attempts[x] < max_attempts[x]
    PROVE  WithinLimit(x)'
<1>1. CASE x = n
  <2>1. status'[x] = v \/ (v = "blocked" /\ status'[x] = "ready")
    BY <1>1, MoveLeaves DEF Statuses
  <2>2. CASE v \in {"ready", "blocked"}
    BY <1>1, <2>1, <2>2 DEF WithinLimit
  <2>3. CASE v \notin {"ready", "blocked"}
    BY <2>1, <2>3, LimitFrame DEF STATUSES
  <2>4. QED
    BY <2>2, <2>3
<1>2. CASE x # n
  <2>1. \/ status'[x] = status[x]
        \/ status[x] = "blocked" /\ status'[x] = "ready"
    BY <1>2, MoveLeavesOthers DEF Statuses
  <2>2. QED
    BY <2>1, LimitFrame
<1>3. QED
  BY <1>1, <1>2

LEMMA LimitInit == Init => LimitInv
BY BoundsAssumption DEF Init, LimitInv, WithinLimit

LEMMA LimitStep == TypeOK /\ LimitInv /\ [Next]_vars => LimitInv'
<1> SUFFICES ASSUME TypeOK, LimitInv, [Next]_vars, NEW x \in Nodes
             PROVE  WithinLimit(x)'
  BY DEF LimitInv
<1>0. WithinLimit(x) /\ attempts[x] \in Nat /\ max_attempts[x] \in 1..MAX_ATTEMPTS
  BY DEF LimitInv, TypeOK
<1> USE DEF STATUSES
<1>1. ASSUME NEW n \in Nodes, NEW deps \in SUBSET Nodes, NEW limit \in 1..MAX_ATTEMPTS,
             AddNode(n, deps, limit)
      PROVE  WithinLimit(x)'
  <2>1. CASE x = n
    <3>1. attempts'[x] = 0 /\ max_attempts'[x] = limit /\ status'[x] # "absent"
      BY <1>0, <1>1, <2>1 DEF AddNode, planned, WithinLimit, TypeOK
    <3>2. limit \in Nat /\ limit > 0
      BY BoundsAssumption
    <3>3. QED
      BY <3>1, <3>2 DEF WithinLimit
  <2>2. CASE x # n
    BY <1>0, <1>1, <2>2, LimitFrame DEF AddNode, TypeOK
  <2>3. QED
    BY <2>1, <2>2
<1>2. ASSUME NEW n \in Nodes, NEW executor \in Labels, Start(n, executor)
      PROVE  WithinLimit(x)'
  <2>1. PICK v \in {"running"} : status' = Promote([status EXCEPT ![n] = v])
    BY <1>2 DEF Start
  <2>2. CASE x = n
    <3>1. status'[x] = "running"
      BY <2>1, <2>2, MoveLeaves DEF Statuses
    <3>2. /\ attempts[x] < max_attempts[x]
          /\ attempts'[x] = attempts[x] + 1 /\ max_attempts'[x] = max_attempts[x]
      BY <1>2, <2>2 DEF Start, TypeOK
    <3>3. attempts'[x] <= max_attempts'[x]
      BY <1>0, <3>2, BoundsAssumption
    <3>4. QED
      BY <3>1, <3>3 DEF WithinLimit
  <2>3. CASE x # n
    <3>1. attempts'[x] = attempts[x] /\ max_attempts'[x] = max_attempts[x]
      BY <1>2, <2>3 DEF Start, TypeOK
    <3>2. QED
      BY <1>0, <2>1, <2>3, <3>1, LimitMoved
  <2>4. QED
    BY <2>2, <2>3
<1>3. ASSUME NEW n \in Nodes, NEW actor \in Labels \cup {None},
             NEW items \in SUBSET Items, NEW files \in SUBSET Paths,
             Submit(n, actor, items, files)
      PROVE  WithinLimit(x)'
  BY <1>0, <1>3, LimitMoved DEF Submit
<1>4. ASSUME NEW n \in Nodes, NEW reviewer \in Labels,
             NEW checked \in SUBSET Criteria, NEW covered \in SUBSET Criteria,
             Pass(n, reviewer, checked, covered)
      PROVE  WithinLimit(x)'
  BY <1>0, <1>4, LimitMoved DEF Pass
<1>5. ASSUME NEW n \in Nodes, NEW reviewer \in Labels, Uncertain(n, reviewer)
      PROVE  WithinLimit(x)'
  BY <1>0, <1>5, StayLeaves, LimitFrame DEF Uncertain
<1>6. ASSUME NEW n \in Nodes, NEW faulty \in Nodes, NEW reviewer \in Labels,
             Fail(n, reviewer, faulty)
      PROVE  WithinLimit(x)'
  <2>1. max_attempts'[x] = max_attempts[x]
    BY <1>6 DEF Fail
  <2>2. CASE x \in Invalidated(faulty)
    <3>1. status'[x] = "invalidated"
      BY <1>6, <2>2, FailLeaves
    <3>2. attempts'[x] = attempts[x] - Refund(x) /\ Refund(x) \in {0, 1}
      BY <1>6, <2>2, RefundType DEF Fail
    <3>3. attempts'[x] <= max_attempts'[x]
      <4>1. attempts[x] <= max_attempts[x]
        BY <1>0 DEF WithinLimit
      <4>2. QED
        BY <1>0, <2>1, <3>2, <4>1, BoundsAssumption
    <3>4. QED
      BY <3>1, <3>3 DEF WithinLimit
  <2>3. CASE x \notin Invalidated(faulty)
    <3>1. attempts'[x] = attempts[x]
      BY <1>6, <2>3 DEF Fail
    <3>2. \/ status'[x] = status[x]
          \/ status[x] = "blocked" /\ status'[x] = "ready"
          \/ status'[x] = "failed"
      BY <1>6, <2>3, FailLeaves
    <3>3. QED
      BY <1>0, <2>1, <3>1, <3>2, LimitFrame
  <2>4. QED
    BY <2>2, <2>3
<1>7. ASSUME NEW n \in Nodes, NEW actor \in Labels, Withdraw(n, actor)
      PROVE  WithinLimit(x)'
  BY <1>0, <1>7, LimitMoved DEF Withdraw
<1>8. ASSUME NEW n \in Nodes, Retry(n)
      PROVE  WithinLimit(x)'
  <2>1. PICK v \in {"ready", "blocked"} : status' = Promote([status EXCEPT ![n] = v])
    BY <1>8 DEF Retry
  <2>2. QED
    BY <1>0, <1>8, <2>1, LimitMoved DEF Retry, RetryAccepts
<1>9. ASSUME NEW n \in Nodes, GrantAttempt(n)
      PROVE  WithinLimit(x)'
  <2>1. \/ status'[x] = status[x]
        \/ status[x] = "blocked" /\ status'[x] = "ready"
    BY <1>9, StayLeaves DEF GrantAttempt
  <2>2. CASE x = n
    <3>1. /\ attempts'[x] = attempts[x] /\ max_attempts'[x] = max_attempts[x] + 1
          /\ status'[x] \in {"failed", "invalidated"}
      BY <1>9, <2>1, <2>2 DEF GrantAttempt, TypeOK
    <3>2. attempts'[x] <= max_attempts'[x]
      <4>1. attempts[x] <= max_attempts[x]
        BY <1>0 DEF WithinLimit
      <4>2. QED
        BY <1>0, <3>1, <4>1, BoundsAssumption
    <3>3. QED
      BY <3>1, <3>2 DEF WithinLimit
  <2>3. CASE x # n
    BY <1>0, <1>9, <2>1, <2>3, LimitFrame DEF GrantAttempt, TypeOK
  <2>4. QED
    BY <2>2, <2>3
<1>10. ASSUME NEW n \in Nodes, Supersede(n)
       PROVE  WithinLimit(x)'
  BY <1>0, <1>10, LimitMoved DEF Supersede
<1>11. CASE UNCHANGED vars
  BY <1>0, <1>11, LimitFrame DEF vars
<1>12. QED
  BY <1>1, <1>2, <1>3, <1>4, <1>5, <1>6, <1>7, <1>8, <1>9, <1>10, <1>11 DEF Next

\* For every actor there is another one who could review.
TwoActors == \A l \in Labels : \E r \in Labels : Identity[r] # Identity[l]

\* Whoever follows status_summary is never refused: ready nodes have an attempt
\* left, active ones name their executor, blocked ones wait for something, and
\* where there are two actors there is a reviewer for every submission.
THEOREM SummaryIsAccepted ==
    ASSUME TwoActors
    PROVE  Spec => []NextActionsAccepted
<1>1. SettledInv /\ PassInv /\ LimitInv => NextActionsAccepted
  <2> SUFFICES ASSUME SettledInv, PassInv, LimitInv, NEW n \in planned
               PROVE  NextActionAccepted(n)
    BY DEF NextActionsAccepted
  <2>0. n \in Nodes /\ status[n] \in STATUSES
    BY DEF planned, SettledInv, TypeOK
  <2>1. CASE status[n] = "ready"
    BY <2>0, <2>1 DEF NextActionAccepted, LimitInv, WithinLimit
  <2>2. CASE status[n] = "running"
    BY <2>0, <2>2 DEF NextActionAccepted, PassInv, PassedIndependently
  <2>3. CASE status[n] = "awaiting_verification"
    <3>1. executor_id[n] \in Labels /\ executor_id[n] # None
      BY <2>0, <2>3, LabelsAssumption DEF PassInv, PassedIndependently
    <3>2. SameActor(executor_id[n], executor_id[n])
      BY <3>1 DEF SameActor
    <3>3. \E r \in Labels : ~ SameActor(r, executor_id[n])
      BY <3>1 DEF TwoActors, SameActor
    <3>4. QED
      BY <2>3, <3>1, <3>2, <3>3 DEF NextActionAccepted
  <2>4. CASE status[n] = "blocked"
    BY <2>0, <2>4 DEF NextActionAccepted, SettledInv, BlockedOnOwed, DependenciesSettledIn
  <2>5. CASE status[n] \notin {"ready", "running", "awaiting_verification", "blocked"}
    BY <2>5 DEF NextActionAccepted
  <2>6. QED
    BY <2>1, <2>2, <2>3, <2>4, <2>5
<1>2. SettledInv => TypeOK
  BY DEF SettledInv
<1>3. QED
  BY SettledInit, SettledStep, PassInit, PassStep, LimitInit, LimitStep, <1>1, <1>2,
     PTL DEF Spec

-----------------------------------------------------------------------------
(* A finished plan *)

\* In a plan that completion_check accepts no operation applies but planning
\* more: a start, review, retry or retirement elsewhere cannot undo it.
THEOREM CompletionHolds == Spec => CompletionStable
<1>1. TypeOK /\ [Next]_vars => [Complete /\ planned' = planned => Complete']_vars
  <2> SUFFICES ASSUME TypeOK, [Next]_vars, Complete, planned' = planned
               PROVE  Complete'
    OBVIOUS
  <2>1. \A n \in Nodes : status[n] \in {"absent", "verified", "superseded"}
    BY DEF Complete, planned, SETTLED
  <2>2. CASE UNCHANGED vars
    BY <2>2 DEF vars, Complete, planned
  <2>3. ASSUME NEW n \in Nodes, NEW deps \in SUBSET Nodes, NEW limit \in 1..MAX_ATTEMPTS,
               AddNode(n, deps, limit)
        PROVE  FALSE
    BY <2>3 DEF AddNode, planned, TypeOK
  <2>4. QED
    BY <2>1, <2>2, <2>3 DEF Next, Start, Submit, Pass, Uncertain, Fail, Reviewable,
       Withdraw, Retry, RetryAccepts, GrantAttempt, Supersede
<1>2. QED
  BY InitTypeOK, NextTypeOK, <1>1, PTL DEF Spec, CompletionStable

-----------------------------------------------------------------------------
(* How far a failure reaches *)

\* Every step but a failed review leaves each node where it is, or moves it
\* without failing, invalidating or taking it back.
LEMMA OthersKeep ==
    ASSUME TypeOK, [Next]_vars, NEW x \in Nodes,
           ~ \E n \in Nodes, faulty \in Nodes, reviewer \in Labels : Fail(n, reviewer, faulty)
    PROVE  \/ status'[x] = status[x]
           \/ status[x] # "verified" /\ status'[x] \notin {"failed", "invalidated"}
<1> DEFINE Kept == \/ status'[x] = status[x]
                   \/ status[x] # "verified" /\ status'[x] \notin {"failed", "invalidated"}
<1>1. ASSUME NEW n \in Nodes, NEW v \in STATUSES \ {"failed", "invalidated"},
             status' = Promote([status EXCEPT ![n] = v]), status[n] # "verified"
      PROVE  Kept
  <2>1. CASE x = n
    BY <1>1, <2>1, MoveLeaves DEF Statuses
  <2>2. CASE x # n
    BY <1>1, <2>2, MoveLeavesOthers DEF Statuses
  <2>3. QED
    BY <2>1, <2>2
<1>2. ASSUME status' = Promote(status)
      PROVE  Kept
  BY <1>2, StayLeaves
<1> USE DEF STATUSES
<1>3. ASSUME NEW n \in Nodes, NEW deps \in SUBSET Nodes, NEW limit \in 1..MAX_ATTEMPTS,
             AddNode(n, deps, limit)
      PROVE  Kept
  BY <1>3 DEF AddNode, planned, TypeOK
<1>4. ASSUME NEW n \in Nodes, NEW executor \in Labels, Start(n, executor)
      PROVE  Kept
  BY <1>1, <1>4 DEF Start
<1>5. ASSUME NEW n \in Nodes, NEW actor \in Labels \cup {None},
             NEW items \in SUBSET Items, NEW files \in SUBSET Paths,
             Submit(n, actor, items, files)
      PROVE  Kept
  BY <1>1, <1>5 DEF Submit
<1>6. ASSUME NEW n \in Nodes, NEW reviewer \in Labels,
             NEW checked \in SUBSET Criteria, NEW covered \in SUBSET Criteria,
             Pass(n, reviewer, checked, covered)
      PROVE  Kept
  BY <1>1, <1>6 DEF Pass, Reviewable
<1>7. ASSUME NEW n \in Nodes, NEW reviewer \in Labels, Uncertain(n, reviewer)
      PROVE  Kept
  BY <1>2, <1>7 DEF Uncertain
<1>8. ASSUME NEW n \in Nodes, NEW actor \in Labels, Withdraw(n, actor)
      PROVE  Kept
  BY <1>1, <1>8 DEF Withdraw
<1>9. ASSUME NEW n \in Nodes, Retry(n)
      PROVE  Kept
  BY <1>1, <1>9 DEF Retry, RetryAccepts
<1>10. ASSUME NEW n \in Nodes, GrantAttempt(n)
       PROVE  Kept
  BY <1>2, <1>10 DEF GrantAttempt
<1>11. ASSUME NEW n \in Nodes, Supersede(n)
       PROVE  Kept
  BY <1>1, <1>11 DEF Supersede
<1>12. CASE UNCHANGED vars
  BY <1>12 DEF vars
<1>13. QED
  BY <1>3, <1>4, <1>5, <1>6, <1>7, <1>8, <1>9, <1>10, <1>11, <1>12 DEF Next

\* A node that is not downstream of the failed one is not even made ready:
\* promotion follows settled dependencies, and a failure settles none.
LEMMA FailStaysBelow ==
    ASSUME SettledInv, NEW n \in Nodes, NEW faulty \in Nodes, NEW reviewer \in Labels,
           Fail(n, reviewer, faulty), NEW k \in Nodes \ ({faulty} \cup Descendants(faulty))
    PROVE  status'[k] = status[k] /\ attempts'[k] = attempts[k]
<1> DEFINE st == [m \in Nodes |->
                    IF m \in Invalidated(faulty) THEN "invalidated"
                    ELSE IF m = faulty THEN "failed" ELSE status[m]]
<1>1. st \in [Nodes -> Statuses] /\ status' = Promote(st) /\ st[k] = status[k]
  BY DEF TypeOK, SettledInv, Fail, Statuses, STATUSES, Invalidated
<1>2. \A m \in Nodes : st[m] \in SETTLED => status[m] \in SETTLED
  BY DEF SETTLED
<1>3. status[k] = "blocked" => ~ DependenciesSettledIn(st, k)
  <2>1. SUFFICES ASSUME status[k] = "blocked", DependenciesSettledIn(st, k) PROVE FALSE
    OBVIOUS
  <2>2. DependenciesSettledIn(status, k)
    BY <1>2, <2>1 DEF DependenciesSettledIn, SettledInv, TypeOK
  <2>3. QED
    BY <2>1, <2>2 DEF SettledInv, BlockedOnOwed
<1>4. status'[k] = status[k]
  BY <1>1, <1>3 DEF Promote
<1>5. attempts'[k] = attempts[k]
  BY DEF Fail, Invalidated, SettledInv, TypeOK
<1>6. QED
  BY <1>4, <1>5

\* Work is invalidated or taken back only by a failed review of one node that
\* it builds on, and nothing beside that node's descendants is touched.
THEOREM FailuresReachDownstream == Spec => FailureStaysDownstream
<1> DEFINE Hit(m) == \/ status'[m] \in {"failed", "invalidated"} /\ status[m] # status'[m]
                     \/ status[m] = "verified" /\ status'[m] # "verified"
           Blamed(m, f) == /\ Len(failure_history'[f]) = Len(failure_history[f]) + 1
                           /\ status'[f] = "failed"
                           /\ m \in {f} \cup Descendants(f)
                           /\ \A k \in Nodes \ ({f} \cup Descendants(f)) :
                                 /\ status'[k] = status[k]
                                 /\ attempts'[k] = attempts[k]
<1>1. ASSUME SettledInv, [Next]_vars, NEW m \in Nodes, Hit(m)
      PROVE  \E f \in Nodes : Blamed(m, f)
  <2>1. PICK n \in Nodes, faulty \in Nodes, reviewer \in Labels : Fail(n, reviewer, faulty)
    BY <1>1, OthersKeep DEF SettledInv
  <2>2. Len(failure_history'[faulty]) = Len(failure_history[faulty]) + 1
    <3>1. failure_history[faulty] \in Seq(Nat)
      BY <1>1 DEF SettledInv, TypeOK
    <3>2. failure_history'[faulty] = Append(failure_history[faulty], attempts[faulty])
      BY <1>1, <2>1 DEF Fail, SettledInv, TypeOK
    <3>3. QED
      BY <3>1, <3>2
  <2>3. status'[faulty] = "failed"
    BY <1>1, <2>1, FailLeaves DEF SettledInv
  <2>4. m \in {faulty} \cup Descendants(faulty)
    BY <1>1, <2>1, FailStaysBelow
  <2>5. \A k \in Nodes \ ({faulty} \cup Descendants(faulty)) :
           status'[k] = status[k] /\ attempts'[k] = attempts[k]
    BY <1>1, <2>1, FailStaysBelow
  <2>6. QED
    BY <2>2, <2>3, <2>4, <2>5
<1>2. SettledInv /\ [Next]_vars => [\A m \in Nodes : Hit(m) => \E f \in Nodes : Blamed(m, f)]_vars
  BY <1>1
<1>3. QED
  BY SettledInit, SettledStep, <1>2, PTL DEF Spec, FailureStaysDownstream

-----------------------------------------------------------------------------
(* Doubts stay on record *)

EndsWith(q, e) == q # <<>> /\ q[Len(q)] = e

\* What is appended to an archive that keeps anything is its newest entry.
LEMMA NewestLast ==
    ASSUME NEW T, NEW seq \in Seq(T), NEW e \in T, NEW keep \in Nat \ {0}
    PROVE  EndsWith(Newest(Append(seq, e), keep), e)
<1> DEFINE s == Append(seq, e)
<1>1. s \in Seq(T) /\ Len(s) = Len(seq) + 1 /\ s[Len(s)] = e /\ Len(seq) \in Nat
  OBVIOUS
<1> HIDE DEF s
<1>2. CASE Len(s) <= keep
  <2>1. s # <<>>
    BY <1>1
  <2>2. QED
    BY <1>1, <1>2, <2>1 DEF Newest, EndsWith, s
<1>3. CASE ~ (Len(s) <= keep)
  <2> DEFINE a == Len(s) - keep + 1
             q == SubSeq(s, a, Len(s))
  <2>1. a \in 1..(Len(s) + 1) /\ Len(s) \in (a - 1)..Len(s) /\ Len(s) - a + 1 = keep
    BY <1>1, <1>3
  <2>2. Len(q) = keep /\ \A i \in 1..keep : q[i] = s[a + i - 1]
    <3>1. Len(q) = Len(s) - a + 1 /\ \A i \in 1..(Len(s) - a + 1) : q[i] = s[a + i - 1]
      BY <1>1, <2>1, SubSeqProperties
    <3>2. QED
      BY <2>1, <3>1
  <2>3. a + keep - 1 = Len(s) /\ keep \in 1..keep
    BY <1>1
  <2> HIDE DEF q
  <2>4. q[Len(q)] = e
    BY <1>1, <2>2, <2>3
  <2>5. q # <<>>
    BY <2>2
  <2>6. Newest(s, keep) = q
    BY <1>3 DEF Newest, q
  <2>7. QED
    BY <2>4, <2>5, <2>6 DEF EndsWith, s
<1>4. QED
  BY <1>2, <1>3

\* A review or withdrawal of x leaves the doubt on x at the end of its trail,
\* unless it is too long for any trail.
LEMMA TrailKeepsDoubt ==
    ASSUME TypeOK, NEW x \in Nodes, verification[x].result = "uncertain", ArchiveDoubt(x)
    PROVE  \/ EndsWith(review_history'[x], verification[x].reviewer_id)
           \/ Trailed(x) \in Oversized /\ review_history'[x] = <<>>
<1> DEFINE s == Append(review_history[x], verification[x].reviewer_id)
<1>1. /\ verification[x].reviewer_id \in Labels \cup {None}
      /\ review_history[x] \in Seq(Labels \cup {None})
  BY DEF TypeOK, Reviews
<1>2. PICK kept \in IF Trailed(x) \in Oversized THEN {0} ELSE 1..MAX_EVIDENCE :
         review_history'[x] = Newest(s, kept)
  BY DEF ArchiveDoubt, TypeOK
<1>3. CASE Trailed(x) \in Oversized
  <2>1. kept = 0
    BY <1>3
  <2>2. s \in Seq(Labels \cup {None}) /\ Len(s) = Len(review_history[x]) + 1
    BY <1>1
  <2>3. Len(review_history[x]) \in Nat
    BY <1>1
  <2> HIDE DEF s
  <2>4. Newest(s, 0) = SubSeq(s, Len(s) + 1, Len(s))
    <3>1. ~ (Len(s) <= 0) /\ Len(s) - 0 + 1 = Len(s) + 1
      BY <2>2, <2>3
    <3>2. QED
      BY <3>1 DEF Newest
  <2>5. SubSeq(s, Len(s) + 1, Len(s)) = <<>>
    BY <2>2, <2>3
  <2>6. QED
    BY <1>2, <1>3, <2>1, <2>4, <2>5
<1>4. CASE Trailed(x) \notin Oversized
  <2>1. kept \in Nat \ {0}
    BY <1>4, BoundsAssumption
  <2>2. QED
    BY <1>1, <1>2, <2>1, NewestLast
<1>5. QED
  BY <1>3, <1>4

\* Where the archive of attempts keeps at least one entry, no UNCERTAIN verdict
\* disappears without being the newest thing on record, unless it is too long
\* for the trail on its own.
THEOREM DoubtsStayOnRecord ==
    ASSUME RETRY_LOG # 0
    PROVE  Spec => DoubtArchived
<1> DEFINE OnRecord(x) ==
             \/ EndsWith(review_history'[x], verification[x].reviewer_id)
             \/ /\ attempt_history'[x] # <<>>
                /\ attempt_history'[x][Len(attempt_history'[x])].verification = verification[x]
             \/ Trailed(x) \in Oversized /\ review_history'[x] = <<>>
<1>1. ASSUME TypeOK, VerdictInv, PassInv, [Next]_vars, NEW x \in Nodes,
             verification[x].result = "uncertain", verification'[x] # verification[x]
      PROVE  OnRecord(x)
  <2>0. /\ status[x] \notin {"absent", "blocked", "ready", "running", "verified"}
        /\ \A m \in Nodes : status[m] = "verified" => m # x
    BY <1>1 DEF VerdictInv, VerdictFits, PassInv, PassedIndependently
  <2>1. ASSUME NEW n \in Nodes, NEW deps \in SUBSET Nodes, NEW limit \in 1..MAX_ATTEMPTS,
               AddNode(n, deps, limit)
        PROVE  OnRecord(x)
    BY <1>1, <2>1 DEF AddNode, reviewVars
  <2>2. ASSUME NEW n \in Nodes, NEW executor \in Labels, Start(n, executor)
        PROVE  OnRecord(x)
    BY <1>1, <2>0, <2>2 DEF Start, TypeOK
  <2>3. ASSUME NEW n \in Nodes, NEW actor \in Labels \cup {None},
               NEW items \in SUBSET Items, NEW files \in SUBSET Paths,
               Submit(n, actor, items, files)
        PROVE  OnRecord(x)
    BY <1>1, <2>3 DEF Submit
  <2>4. ASSUME NEW n \in Nodes, NEW reviewer \in Labels,
               NEW checked \in SUBSET Criteria, NEW covered \in SUBSET Criteria,
               Pass(n, reviewer, checked, covered)
        PROVE  OnRecord(x)
    <3>1. n = x /\ ArchiveDoubt(n)
      BY <1>1, <2>4 DEF Pass, TypeOK
    <3>2. QED
      BY <1>1, <3>1, TrailKeepsDoubt
  <2>5. ASSUME NEW n \in Nodes, NEW reviewer \in Labels, Uncertain(n, reviewer)
        PROVE  OnRecord(x)
    <3>1. n = x /\ ArchiveDoubt(n)
      BY <1>1, <2>5 DEF Uncertain, TypeOK
    <3>2. QED
      BY <1>1, <3>1, TrailKeepsDoubt
  <2>6. ASSUME NEW n \in Nodes, NEW faulty \in Nodes, NEW reviewer \in Labels,
               Fail(n, reviewer, faulty)
        PROVE  OnRecord(x)
    <3>1. n = x /\ ArchiveDoubt(n)
      BY <1>1, <2>0, <2>6 DEF Fail, TypeOK
    <3>2. QED
      BY <1>1, <3>1, TrailKeepsDoubt
  <2>7. ASSUME NEW n \in Nodes, NEW actor \in Labels, Withdraw(n, actor)
        PROVE  OnRecord(x)
    <3>1. n = x /\ ArchiveDoubt(n)
      BY <1>1, <2>7 DEF Withdraw, TypeOK
    <3>2. QED
      BY <1>1, <3>1, TrailKeepsDoubt
  <2>8. ASSUME NEW n \in Nodes, Retry(n)
        PROVE  OnRecord(x)
    <3>1. n = x
      BY <1>1, <2>8 DEF Retry, TypeOK
    <3>2. attempt_history'[x] = Newest(Append(attempt_history[x], Archived(x)), RETRY_LOG)
      BY <1>1, <2>8, <3>1 DEF Retry, TypeOK
    <3>3. /\ Archived(x) \in Archives /\ attempt_history[x] \in Seq(Archives)
          /\ RETRY_LOG \in Nat \ {0}
      BY <1>1, BoundsAssumption DEF TypeOK, Archived, Archives
    <3>4. EndsWith(attempt_history'[x], Archived(x))
      BY <3>2, <3>3, NewestLast
    <3>5. QED
      BY <3>4 DEF EndsWith, Archived
  <2>9. ASSUME NEW n \in Nodes, GrantAttempt(n)
        PROVE  OnRecord(x)
    BY <1>1, <2>9 DEF GrantAttempt, reviewVars
  <2>10. ASSUME NEW n \in Nodes, Supersede(n)
         PROVE  OnRecord(x)
    BY <1>1, <2>10 DEF Supersede, reviewVars
  <2>11. CASE UNCHANGED vars
    BY <1>1, <2>11 DEF vars
  <2>12. QED
    BY <1>1, <2>1, <2>2, <2>3, <2>4, <2>5, <2>6, <2>7, <2>8, <2>9, <2>10, <2>11 DEF Next
<1>2. TypeOK /\ VerdictInv /\ PassInv /\ [Next]_vars =>
        [\A n \in Nodes :
           verification[n].result = "uncertain" /\ verification'[n] # verification[n]
           => \/ /\ review_history'[n] # <<>>
                 /\ review_history'[n][Len(review_history'[n])] = verification[n].reviewer_id
              \/ /\ attempt_history'[n] # <<>>
                 /\ attempt_history'[n][Len(attempt_history'[n])].verification = verification[n]
              \/ Trailed(n) \in Oversized /\ review_history'[n] = <<>>]_vars
  BY <1>1 DEF EndsWith
<1>3. QED
  BY InitTypeOK, NextTypeOK, VerdictInit, VerdictStep, PassInit, PassStep, <1>2,
     PTL DEF Spec, DoubtArchived

-----------------------------------------------------------------------------
(* Verified all the way up *)

\* Descendants of descendants are descendants.
LEMMA DescendantsTransitive ==
    ASSUME NEW a \in Nodes, NEW c \in Descendants(a)
    PROVE  Descendants(c) \subseteq Descendants(a)
<1>1. c \in Nodes /\ Descendants(a) \in SUBSET Nodes
  BY DEF Descendants
<1>2. Children(c) \subseteq Descendants(a) /\ \A x \in Descendants(a) : Children(x) \subseteq Descendants(a)
  BY DescendantsClosed
<1>3. QED
  BY <1>1, <1>2 DEF Descendants

\* Only a retired node carries the status and keeps the mark.
RetiredInv == \A x \in Nodes : status[x] = "superseded" => superseded_at[x]

LEMMA RetiredInit == Init => RetiredInv
BY DEF Init, RetiredInv

LEMMA RetiredStep == TypeOK /\ RetiredInv /\ [Next]_vars => RetiredInv'
<1> SUFFICES ASSUME TypeOK, RetiredInv, [Next]_vars, NEW x \in Nodes, status'[x] = "superseded"
             PROVE  superseded_at'[x]
  BY DEF RetiredInv
<1>0. status[x] = "superseded" => superseded_at[x]
  BY DEF RetiredInv
<1>1. ASSUME NEW n \in Nodes, NEW v \in STATUSES \ {"superseded"},
             status' = Promote([status EXCEPT ![n] = v])
      PROVE  status[x] = "superseded"
  <2>1. CASE x = n
    BY <1>1, <2>1, MoveLeaves DEF Statuses
  <2>2. CASE x # n
    BY <1>1, <2>2, MoveLeavesOthers DEF Statuses
  <2>3. QED
    BY <2>1, <2>2
<1>2. ASSUME status' = Promote(status)
      PROVE  status[x] = "superseded"
  BY <1>2, StayLeaves
<1> USE DEF STATUSES
<1>3. ASSUME NEW n \in Nodes, NEW deps \in SUBSET Nodes, NEW limit \in 1..MAX_ATTEMPTS,
             AddNode(n, deps, limit)
      PROVE  superseded_at'[x]
  BY <1>0, <1>3 DEF AddNode, TypeOK
<1>4. ASSUME NEW n \in Nodes, NEW executor \in Labels, Start(n, executor)
      PROVE  superseded_at'[x]
  BY <1>0, <1>1, <1>4 DEF Start
<1>5. ASSUME NEW n \in Nodes, NEW actor \in Labels \cup {None},
             NEW items \in SUBSET Items, NEW files \in SUBSET Paths,
             Submit(n, actor, items, files)
      PROVE  superseded_at'[x]
  BY <1>0, <1>1, <1>5 DEF Submit
<1>6. ASSUME NEW n \in Nodes, NEW reviewer \in Labels,
             NEW checked \in SUBSET Criteria, NEW covered \in SUBSET Criteria,
             Pass(n, reviewer, checked, covered)
      PROVE  superseded_at'[x]
  BY <1>0, <1>1, <1>6 DEF Pass
<1>7. ASSUME NEW n \in Nodes, NEW reviewer \in Labels, Uncertain(n, reviewer)
      PROVE  superseded_at'[x]
  BY <1>0, <1>2, <1>7 DEF Uncertain
<1>8. ASSUME NEW n \in Nodes, NEW faulty \in Nodes, NEW reviewer \in Labels,
             Fail(n, reviewer, faulty)
      PROVE  superseded_at'[x]
  <2>1. status[x] = "superseded"
    BY <1>8, FailLeaves
  <2>2. QED
    BY <1>0, <1>8, <2>1 DEF Fail
<1>9. ASSUME NEW n \in Nodes, NEW actor \in Labels, Withdraw(n, actor)
      PROVE  superseded_at'[x]
  BY <1>0, <1>1, <1>9 DEF Withdraw
<1>10. ASSUME NEW n \in Nodes, Retry(n)
       PROVE  superseded_at'[x]
  BY <1>0, <1>1, <1>10 DEF Retry
<1>11. ASSUME NEW n \in Nodes, GrantAttempt(n)
       PROVE  superseded_at'[x]
  BY <1>0, <1>2, <1>11 DEF GrantAttempt
<1>12. ASSUME NEW n \in Nodes, Supersede(n)
       PROVE  superseded_at'[x]
  <2>1. CASE x = n
    BY <1>12, <2>1 DEF Supersede, TypeOK
  <2>2. CASE x # n
    <3>1. PICK v \in {"superseded"} : status' = Promote([status EXCEPT ![n] = v])
      BY <1>12 DEF Supersede
    <3>2. status[x] = "superseded"
      BY <2>2, <3>1, MoveLeavesOthers DEF Statuses
    <3>3. QED
      BY <1>0, <1>12, <2>2, <3>2 DEF Supersede, TypeOK
  <2>3. QED
    BY <2>1, <2>2
<1>13. CASE UNCHANGED vars
  BY <1>0, <1>13 DEF vars
<1>14. QED
  BY <1>3, <1>4, <1>5, <1>6, <1>7, <1>8, <1>9, <1>10, <1>11, <1>12, <1>13 DEF Next

\* Settled dependencies reach all the way up: accepted and active work has only
\* verified ancestors, wherever none of them was ever retired.
THEOREM VerifiedAllTheWayUp == Spec => []AncestorsVerified
<1>1. ASSUME SettledInv, RetiredInv, NEW n \in Nodes, status[n] \in HOLDING,
             \A a \in Ancestors(n) : ~ superseded_at[a], NEW a \in Ancestors(n)
      PROVE  status[a] = "verified"
  <2> DEFINE U == {m \in Nodes : m = n \/ n \in Descendants(m)}
             S == Nodes \ {m \in U : status[m] \in HOLDING}
  <2>1. ASSUME NEW y \in Nodes, NEW c \in Children(y) \cap U, status[c] \in HOLDING
        PROVE  y \in Ancestors(n) /\ status[y] = "verified"
    <3>1. c \in Nodes /\ y \in depends_on[c] /\ c \in Descendants(y)
      BY DescendantsClosed DEF Children
    <3>2. n \in Descendants(y)
      BY <3>1, DescendantsTransitive
    <3>3. y \in Ancestors(n)
      BY <3>2 DEF Ancestors
    <3>4. status[y] \in SETTLED
      BY <1>1, <2>1, <3>1 DEF SettledInv, ReadyOnSettled, DependenciesSettledIn
    <3>5. QED
      BY <1>1, <3>3, <3>4 DEF SETTLED, RetiredInv
  <2>2. ASSUME status[a] # "verified"
        PROVE  FALSE
    <3>1. a \in Nodes /\ n \in Descendants(a)
      BY DEF Ancestors
    <3>2. Children(a) \subseteq S
      BY <2>1, <2>2, <3>1 DEF Children
    <3>3. ASSUME NEW y \in S PROVE Children(y) \subseteq S
      <4>1. ASSUME NEW c \in Children(y), c \notin S PROVE FALSE
        <5>1. c \in Children(y) \cap U /\ status[c] \in HOLDING
          BY <4>1 DEF Children
        <5>2. n \in Descendants(y) /\ status[y] \in HOLDING
          BY <2>1, <5>1 DEF Ancestors, HOLDING
        <5>3. QED
          BY <5>2
      <4>2. QED
        BY <4>1
    <3>4. S \in SUBSET Nodes
      OBVIOUS
    <3>5. n \in S
      BY <3>1, <3>2, <3>3, <3>4 DEF Descendants
    <3>6. QED
      BY <1>1, <3>5
  <2>3. QED
    BY <2>2
<1>2. SettledInv /\ RetiredInv => AncestorsVerified
  BY <1>1 DEF AncestorsVerified
<1>3. SettledInv => TypeOK
  BY DEF SettledInv
<1>4. QED
  BY SettledInit, SettledStep, RetiredInit, RetiredStep, <1>2, <1>3, PTL DEF Spec

-----------------------------------------------------------------------------
(* The graph implements the ledger *)

\* The ledger's view of the graph.
accepted == {n \in Nodes : status[n] = "verified"}
retired == {n \in Nodes : status[n] = "superseded"}
failures == [n \in Nodes |-> Len(failure_history[n])]

\* Both closures are the same.
LEMMA BelowIsDescendants == \A n \in Nodes : Ledger!Below(n) = Descendants(n)
BY DEF Ledger!Below, Ledger!Dependents, Descendants, Children

\* Moving a node between statuses that are neither settled nor unplanned, and
\* moving none, is nothing to the ledger.
LEMMA UnsettledStutters ==
    ASSUME TypeOK, NEW n \in Nodes, NEW v \in STATUSES \ SETTLED,
           status[n] \notin SETTLED \cup {"absent"},
           status' = Promote([status EXCEPT ![n] = v])
    PROVE  accepted' = accepted /\ retired' = retired /\ planned' = planned
<1>1. ASSUME NEW x \in Nodes
      PROVE  /\ status'[x] = "verified" <=> status[x] = "verified"
             /\ status'[x] = "superseded" <=> status[x] = "superseded"
             /\ status'[x] = "absent" <=> status[x] = "absent"
  <2>1. CASE x = n
    BY <2>1, MoveLeaves DEF Statuses, STATUSES, SETTLED
  <2>2. CASE x # n
    BY <2>2, MoveLeavesOthers DEF Statuses
  <2>3. QED
    BY <2>1, <2>2
<1>2. QED
  BY <1>1 DEF accepted, retired, planned

LEMMA PromotionStutters ==
    ASSUME TypeOK, status' = Promote(status)
    PROVE  accepted' = accepted /\ retired' = retired /\ planned' = planned
<1>1. ASSUME NEW x \in Nodes
      PROVE  /\ status'[x] = "verified" <=> status[x] = "verified"
             /\ status'[x] = "superseded" <=> status[x] = "superseded"
             /\ status'[x] = "absent" <=> status[x] = "absent"
  BY StayLeaves
<1>2. QED
  BY <1>1 DEF accepted, retired, planned

\* Settling a node changes the ledger at that node only.
LEMMA SettlingMoves ==
    ASSUME TypeOK, NEW n \in Nodes, NEW v \in SETTLED,
           status[n] \notin SETTLED \cup {"absent"},
           status' = Promote([status EXCEPT ![n] = v])
    PROVE  /\ n \in planned \ (accepted \cup retired) /\ planned' = planned
           /\ accepted' = IF v = "verified" THEN accepted \cup {n} ELSE accepted
           /\ retired' = IF v = "superseded" THEN retired \cup {n} ELSE retired
<1>1. status'[n] = v
  BY MoveLeaves DEF Statuses, STATUSES, SETTLED
<1>2. ASSUME NEW x \in Nodes, x # n
      PROVE  /\ status'[x] = "verified" <=> status[x] = "verified"
             /\ status'[x] = "superseded" <=> status[x] = "superseded"
             /\ status'[x] = "absent" <=> status[x] = "absent"
  BY <1>2, MoveLeavesOthers DEF Statuses, STATUSES, SETTLED
<1>3. QED
  BY <1>1, <1>2 DEF accepted, retired, planned, SETTLED

\* A failed review reopens what its faulty node carries.
LEMMA FailReopens ==
    ASSUME SettledInv, PlanInv, ChargeInv, LimitInv,
           NEW n \in Nodes, NEW faulty \in Nodes, NEW reviewer \in Labels,
           Fail(n, reviewer, faulty)
    PROVE  Ledger!Reopen(faulty)
<1>0. TypeOK /\ status[faulty] \in {"awaiting_verification", "verified"}
  BY DEF SettledInv, Fail, Reviewable
<1>1. faulty \in planned \ retired
  BY <1>0 DEF planned, retired
<1>2. depends_on[faulty] \subseteq accepted \cup retired
  BY <1>0 DEF SettledInv, ReadyOnSettled, HOLDING, DependenciesSettledIn, SETTLED,
     accepted, retired, TypeOK
<1>3. failures[faulty] < MAX_ATTEMPTS
  <2>1. Held(status, faulty) = 1
    BY <1>0 DEF Held, HOLDING
  <2>2. Len(failure_history[faulty]) + 1 <= attempts[faulty]
    BY <2>1 DEF ChargeInv, ChargedExactly
  <2>3. attempts[faulty] <= max_attempts[faulty]
    BY DEF LimitInv, WithinLimit
  <2>4. /\ Len(failure_history[faulty]) \in Nat /\ attempts[faulty] \in Nat
        /\ max_attempts[faulty] \in 1..MAX_ATTEMPTS
    BY <1>0 DEF TypeOK
  <2>5. QED
    BY <2>2, <2>3, <2>4, BoundsAssumption DEF failures
<1>4. failures' = [failures EXCEPT ![faulty] = @ + 1]
  <2>1. failure_history' = [failure_history EXCEPT ![faulty] = Append(@, attempts[faulty])]
    BY DEF Fail
  <2>2. Len(failure_history'[faulty]) = Len(failure_history[faulty]) + 1
    <3>1. failure_history[faulty] \in Seq(Nat)
      BY <1>0 DEF TypeOK
    <3>2. QED
      BY <1>0, <2>1, <3>1 DEF TypeOK
  <2>3. \A x \in Nodes \ {faulty} : failure_history'[x] = failure_history[x]
    BY <1>0, <2>1 DEF TypeOK
  <2>4. QED
    BY <2>2, <2>3 DEF failures
<1>5. ASSUME NEW x \in Nodes
      PROVE  /\ status'[x] = "verified" <=>
                   status[x] = "verified" /\ x \notin {faulty} \cup Descendants(faulty)
             /\ status'[x] = "superseded" <=>
                   status[x] = "superseded" /\ x \notin Descendants(faulty)
  <2>1. CASE x \in Invalidated(faulty)
    BY <1>0, <2>1, FailLeaves DEF Invalidated
  <2>2. CASE x = faulty
    BY <1>0, <2>2, FailLeaves
  <2>3. CASE x \notin Invalidated(faulty) /\ x # faulty
    <3>1. x \in Descendants(faulty) => status[x] = "failed"
      BY <2>3 DEF Invalidated
    <3>2. \/ status'[x] = status[x]
          \/ status[x] = "blocked" /\ status'[x] = "ready"
      BY <1>0, <2>3, FailLeaves
    <3>3. QED
      BY <2>3, <3>1, <3>2
  <2>4. QED
    BY <2>1, <2>2, <2>3
<1>6. /\ accepted' = accepted \ ({faulty} \cup Descendants(faulty))
      /\ retired' = retired \ Descendants(faulty)
  BY <1>5 DEF accepted, retired
<1>7. planned' = planned /\ depends_on' = depends_on
  <2>1. [Next]_vars
    BY DEF Next
  <2>2. ~ \E m \in Nodes, deps \in SUBSET Nodes, limit \in 1..MAX_ATTEMPTS :
             AddNode(m, deps, limit)
    <3>1. depends_on' = depends_on /\ max_attempts' = max_attempts
      BY DEF Fail
    <3>2. failure_history'[faulty] # failure_history[faulty]
      <4>1. failures'[faulty] = failures[faulty] + 1 /\ failures[faulty] \in Nat
        BY <1>0, <1>4 DEF failures, TypeOK
      <4>2. QED
        BY <4>1 DEF failures
    <3>3. QED
      BY <3>2 DEF AddNode
  <2>3. QED
    BY <1>0, <2>1, <2>2, PlanFixed
<1>8. QED
  BY <1>1, <1>2, <1>3, <1>4, <1>6, <1>7, BelowIsDescendants
  DEF Ledger!Reopen, Ledger!Settled, Ledger!MayFail, Ledger!Charge, accepted, retired, failures

LEMMA LedgerInit == Init => Ledger!Init
<1> SUFFICES ASSUME Init PROVE Ledger!Init
  OBVIOUS
<1>1. PICK root \in Nodes : status = [n \in Nodes |-> IF n = root THEN "ready" ELSE "absent"]
  BY DEF Init
<1>2. planned = {root} /\ accepted = {} /\ retired = {}
  BY <1>1 DEF planned, accepted, retired
<1>3. failures = [n \in Nodes |-> 0]
  BY DEF Init, failures
<1>4. depends_on = [n \in Nodes |-> {}]
  BY DEF Init
<1>5. QED
  BY <1>2, <1>3, <1>4 DEF Ledger!Init, accepted, retired, failures

LEMMA LedgerStep ==
    ASSUME SettledInv, PlanInv, ChargeInv, LimitInv, [Next]_vars
    PROVE  [Ledger!Next]_(Ledger!ledgerVars)
<1>0. TypeOK
  BY DEF SettledInv
<1> DEFINE Stutter == UNCHANGED <<planned, depends_on, accepted, retired, failures>>
<1>1. Stutter => [Ledger!Next]_(Ledger!ledgerVars)
  BY DEF Ledger!ledgerVars, accepted, retired, failures
<1>2. ASSUME NEW n \in Nodes, NEW v \in STATUSES \ SETTLED,
             status[n] \notin SETTLED \cup {"absent"},
             status' = Promote([status EXCEPT ![n] = v]),
             UNCHANGED <<depends_on, failure_history>>
      PROVE  Stutter
  BY <1>0, <1>2, UnsettledStutters DEF failures
<1>3. ASSUME status' = Promote(status), UNCHANGED <<depends_on, failure_history>>
      PROVE  Stutter
  BY <1>0, <1>3, PromotionStutters DEF failures
<1>4. ASSUME NEW n \in Nodes, NEW deps \in SUBSET Nodes, NEW limit \in 1..MAX_ATTEMPTS,
             AddNode(n, deps, limit)
      PROVE  Ledger!Plan(n, deps)
  <2>1. /\ n \notin planned /\ deps \subseteq planned /\ status[n] = "absent"
        /\ planned' = planned \cup {n}
        /\ depends_on' = [depends_on EXCEPT ![n] = deps]
    BY <1>0, <1>4 DEF AddNode, planned, TypeOK
  <2>2. accepted' = accepted /\ retired' = retired
    BY <1>0, <1>4, <2>1 DEF AddNode, accepted, retired, TypeOK
  <2>3. failures' = failures
    BY <1>4 DEF AddNode, failures
  <2>4. QED
    BY <2>1, <2>2, <2>3 DEF Ledger!Plan, accepted, retired, failures
<1> USE DEF STATUSES, SETTLED
<1>5. ASSUME NEW n \in Nodes, NEW executor \in Labels, Start(n, executor)
      PROVE  Stutter
  BY <1>2, <1>5 DEF Start
<1>6. ASSUME NEW n \in Nodes, NEW actor \in Labels \cup {None},
             NEW items \in SUBSET Items, NEW files \in SUBSET Paths,
             Submit(n, actor, items, files)
      PROVE  Stutter
  BY <1>2, <1>6 DEF Submit
<1>7. ASSUME NEW n \in Nodes, NEW reviewer \in Labels,
             NEW checked \in SUBSET Criteria, NEW covered \in SUBSET Criteria,
             Pass(n, reviewer, checked, covered)
      PROVE  Ledger!Accept(n)
  <2>1. PICK v \in {"verified"} : status' = Promote([status EXCEPT ![n] = v])
    BY <1>7 DEF Pass
  <2>2. status[n] = "awaiting_verification" /\ UNCHANGED <<depends_on, failure_history>>
    BY <1>7 DEF Pass, Reviewable
  <2>3. /\ n \in planned \ (accepted \cup retired) /\ planned' = planned
        /\ accepted' = accepted \cup {n} /\ retired' = retired
    BY <1>0, <2>1, <2>2, SettlingMoves
  <2>4. depends_on[n] \subseteq accepted \cup retired
    BY <1>0, <2>2 DEF SettledInv, ReadyOnSettled, HOLDING, DependenciesSettledIn,
       accepted, retired, TypeOK
  <2>5. failures' = failures
    BY <2>2 DEF failures
  <2>6. QED
    BY <2>2, <2>3, <2>4, <2>5 DEF Ledger!Accept, Ledger!Settled, accepted, retired, failures
<1>8. ASSUME NEW n \in Nodes, NEW reviewer \in Labels, Uncertain(n, reviewer)
      PROVE  Stutter
  BY <1>3, <1>8 DEF Uncertain
<1>9. ASSUME NEW n \in Nodes, NEW faulty \in Nodes, NEW reviewer \in Labels,
             Fail(n, reviewer, faulty)
      PROVE  Ledger!Reopen(faulty)
  BY <1>9, FailReopens
<1>10. ASSUME NEW n \in Nodes, NEW actor \in Labels, Withdraw(n, actor)
       PROVE  Stutter
  BY <1>2, <1>10 DEF Withdraw
<1>11. ASSUME NEW n \in Nodes, Retry(n)
       PROVE  Stutter
  BY <1>2, <1>11 DEF Retry, RetryAccepts
<1>12. ASSUME NEW n \in Nodes, GrantAttempt(n)
       PROVE  Stutter
  BY <1>3, <1>12 DEF GrantAttempt
<1>13. ASSUME NEW n \in Nodes, Supersede(n)
       PROVE  Ledger!Retire(n)
  <2>1. PICK v \in {"superseded"} : status' = Promote([status EXCEPT ![n] = v])
    BY <1>13 DEF Supersede
  <2>2. status[n] \notin SETTLED \cup {"absent"} /\ UNCHANGED <<depends_on, failure_history>>
    BY <1>13 DEF Supersede
  <2>3. /\ n \in planned \ (accepted \cup retired) /\ planned' = planned
        /\ accepted' = accepted /\ retired' = retired \cup {n}
    BY <1>0, <2>1, <2>2, SettlingMoves
  <2>4. failures' = failures
    BY <2>2 DEF failures
  <2>5. QED
    BY <2>2, <2>3, <2>4 DEF Ledger!Retire, Ledger!Settled, accepted, retired, failures
<1>14. ASSUME UNCHANGED vars
       PROVE  Stutter
  <2>1. status' = status /\ depends_on' = depends_on /\ failure_history' = failure_history
    BY <1>14 DEF vars
  <2>2. planned' = planned /\ accepted' = accepted /\ retired' = retired
    BY <2>1 DEF planned, accepted, retired
  <2>3. failures' = failures
    BY <2>1 DEF failures
  <2>4. QED
    BY <2>1, <2>2, <2>3
<1>15. CASE \E n \in Nodes, deps \in SUBSET Nodes, limit \in 1..MAX_ATTEMPTS :
               AddNode(n, deps, limit)
  BY <1>4, <1>15 DEF Ledger!Next
<1>16. CASE \E n \in Nodes, reviewer \in Labels,
               checked \in SUBSET Criteria, covered \in SUBSET Criteria :
               Pass(n, reviewer, checked, covered)
  BY <1>7, <1>16 DEF Ledger!Next
<1>17. CASE \E n \in Nodes, faulty \in Nodes, reviewer \in Labels : Fail(n, reviewer, faulty)
  BY <1>9, <1>17 DEF Ledger!Next
<1>18. CASE \E n \in Nodes : Supersede(n)
  BY <1>13, <1>18 DEF Ledger!Next
<1> HIDE DEF Stutter
<1>19. QED
  BY <1>1, <1>5, <1>6, <1>8, <1>10, <1>11, <1>12, <1>14, <1>15, <1>16, <1>17, <1>18 DEF Next

\* Accepted and retired work changes as the ledger says and in no other way,
\* whatever executors, reviewers and retries do in between: work is accepted on
\* settled dependencies, a failure takes back the node it names and all built
\* on it, and no node fails more than MAX_ATTEMPTS times.
THEOREM GraphImplementsLedger == Spec => LedgerSpec /\ LedgerSteps
<1>1. SettledInv => TypeOK
  BY DEF SettledInv
<1>2. SettledInv /\ PlanInv /\ ChargeInv /\ LimitInv /\ [Next]_vars
        => [Ledger!Next]_(Ledger!ledgerVars)
  BY LedgerStep
<1>3. QED
  BY SettledInit, SettledStep, PlanInit, PlanStep, ChargeInit, ChargeStep,
     LimitInit, LimitStep, LedgerInit, <1>1, <1>2,
     PTL DEF Spec, LedgerSpec, LedgerSteps, Ledger!Spec

=============================================================================
