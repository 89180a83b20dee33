------------------------------ MODULE TaskGraph ------------------------------
(***************************************************************************)
(* The task graph of agent_harness/graph.py: one action per named          *)
(* operation of class Graph.  A document is a set of nodes, each with its  *)
(* dependencies, its status, its attempt budget, the submission under      *)
(* review and the verdict on it.  Every operation is one atomic step,      *)
(* because the CLI runs it inside GraphStore.transaction.                  *)
(*                                                                         *)
(* A call the code refuses raises and saves nothing, so it is not a step.  *)
(* The checks of _validate_runtime_consistency are NOT guards here: they   *)
(* are the invariants DependenciesSettled, VerdictMatchesStatus and        *)
(* IndependentPass below, which say that no operation builds a document    *)
(* that its own closing validate() would refuse.                           *)
(***************************************************************************)
EXTENDS Integers, Sequences, FiniteSets

CONSTANTS
    Nodes,         \* the node ids a plan may use
    Labels,        \* spellings of actors, as --executor, --actor and --reviewer give them
    Identity,      \* Labels -> actor: strip().casefold(), see Graph._identity
    None,          \* Python's None where a label could be
    Criteria,      \* the acceptance criteria of a node
    Items,         \* what a submission may list as evidence, see ItemsAssumption
    Paths,         \* repository paths a submission may list as relevant files
    MAX_ATTEMPTS,  \* the absolute ceiling of max_attempts
    MAX_EVIDENCE,  \* how many archived reviews a node keeps
    Oversized,     \* the archived reviews that alone exceed MAX_REVIEW_HISTORY_BYTES
    RETRY_LOG      \* bound of the model: the newest entries kept of attempt_history

ASSUME LabelsAssumption ==
    /\ None \notin Labels
    /\ Identity \in [Labels -> Labels]
ASSUME CriteriaAssumption == Criteria # {}
ASSUME ItemsAssumption == \A i \in Items :
    {"criterion", "kind", "summary"} = DOMAIN i /\ i.criterion \in Criteria
ASSUME BoundsAssumption ==
    /\ MAX_ATTEMPTS \in Nat \ {0}
    /\ MAX_EVIDENCE \in Nat \ {0}
    /\ RETRY_LOG \in Nat

VARIABLES
    status,           \* node["status"]; "absent" until the node is planned
    depends_on,       \* node["depends_on"]
    attempts,         \* node["attempts"]
    max_attempts,     \* node["max_attempts"]
    executor_id,      \* node["executor_id"]
    evidence,         \* node["evidence"], without the order of its items
    review_context,   \* node["review_context"]["relevant_files"]
    verification,     \* node["verification"]
    failure_history,  \* attempt numbers of the node's own verification failures
    review_history,   \* reviewers of the archived UNCERTAIN reviews
    attempt_history,  \* the verdicts that retry() archived, and the evidence they were on
    superseded_at     \* whether node["superseded_at"] is set; nothing clears it

reviewVars == <<evidence, review_context, verification, review_history>>
vars == <<status, depends_on, attempts, max_attempts, executor_id, evidence,
          review_context, verification, failure_history, review_history,
          attempt_history, superseded_at>>

-----------------------------------------------------------------------------
(* Data *)

STATUSES == {"blocked", "ready", "running", "awaiting_verification",
             "verified", "failed", "invalidated", "superseded"}

\* What lets dependent work proceed: finished, or abandoned and not owed.
SETTLED == {"verified", "superseded"}

\* The states that hold an attempt no verdict has been given on, or that
\* a verdict has accepted: what an upstream failure refunds.
HOLDING == {"running", "awaiting_verification", "verified"}

\* A review, reduced to what later decisions read of it.  FAIL and UNCERTAIN
\* reviews carry criteria lists too; nothing in the graph reads them again.
Review(result, reviewer, checked, covered) ==
    [result |-> result, reviewer_id |-> reviewer,
     checked_criteria |-> checked, evidence |-> covered]

NoReview == Review("none", None, {}, {})

Reviews == [result : {"none", "pass", "fail", "uncertain"},
            reviewer_id : Labels \cup {None},
            checked_criteria : SUBSET Criteria,
            evidence : SUBSET Criteria]

Archives == [verification : Reviews, evidence : SUBSET Items]

\* The criteria that items of evidence speak to.
Covered(items) == {i.criterion : i \in items}

\* Two labels name the same actor; an absent label never matches.
SameActor(left, right) ==
    left # None /\ right # None /\ Identity[left] = Identity[right]

planned == {n \in Nodes : status[n] # "absent"}

Children(n) == {m \in Nodes : n \in depends_on[m]}

\* The breadth-first closure of descendants(): the least set that holds the
\* children of n and the children of its own members.
Descendants(n) ==
    {m \in Nodes : \A S \in SUBSET Nodes :
        (Children(n) \subseteq S /\ \A x \in S : Children(x) \subseteq S)
            => m \in S}

Ancestors(n) == {m \in Nodes : n \in Descendants(m)}

\* Kahn's algorithm in _topological_ids consumes every node exactly when no
\* set of nodes all wait for one another.
Acyclic == \A S \in (SUBSET Nodes) \ {{}} :
               \E n \in S : depends_on[n] \cap S = {}

DependenciesSettledIn(st, n) == \A d \in depends_on[n] : st[d] \in SETTLED

\* Slips in the promotion: a retired dependency forgotten, a submitted one
\* counted as done.
PromoteVerifiedOnly(st) ==
    [n \in Nodes |-> IF st[n] = "blocked" /\ \A d \in depends_on[n] : st[d] = "verified"
                     THEN "ready" ELSE st[n]]
PromoteEarly(st) ==
    [n \in Nodes |-> IF /\ st[n] = "blocked"
                        /\ \A d \in depends_on[n] :
                              st[d] \in SETTLED \cup {"awaiting_verification"}
                     THEN "ready" ELSE st[n]]

\* _promote_blocked_nodes, which validate() runs at the end of every operation.
\* A promoted node is ready, hence not settled, so promotions do not cascade.
Promote(st) ==
    [n \in Nodes |-> IF st[n] = "blocked" /\ DependenciesSettledIn(st, n)
                     THEN "ready" ELSE st[n]]

Newest(seq, keep) ==
    IF Len(seq) <= keep THEN seq ELSE SubSeq(seq, Len(seq) - keep + 1, Len(seq))

\* What _archive_review copies of the submission a doubt is on.
Trailed(n) == [verification |-> verification[n], submission_evidence |-> evidence[n],
               review_context |-> review_context[n]]

\* A slip: the verdict goes straight over the doubt.
DropDoubt(n) == UNCHANGED review_history

(* _record_verification and _archive_review: an UNCERTAIN verdict that another *)
(* verdict replaces, or that a withdrawal drops, joins the trail.  Its oldest  *)
(* records go until it fits both its bounds, a count and a number of bytes:    *)
(* how many more the bytes take depends on texts that are not modelled, and    *)
(* none are left when the new record alone is too long.                        *)
ArchiveDoubt(n) ==
    IF verification[n].result = "uncertain"
    THEN \E kept \in IF Trailed(n) \in Oversized THEN {0} ELSE 1..MAX_EVIDENCE :
            review_history' = [review_history EXCEPT
                ![n] = Newest(Append(@, verification[n].reviewer_id), kept)]
    ELSE UNCHANGED review_history

-----------------------------------------------------------------------------
(* Operations *)

\* `graphctl init` writes a document of one node without dependencies, which
\* validation promotes at once.  Unplanned ids hold a new node's defaults.
Init ==
    /\ \E root \in Nodes, limit \in 1..MAX_ATTEMPTS :
          /\ status = [n \in Nodes |-> IF n = root THEN "ready" ELSE "absent"]
          /\ max_attempts = [n \in Nodes |-> IF n = root THEN limit ELSE 1]
    /\ depends_on = [n \in Nodes |-> {}]
    /\ attempts = [n \in Nodes |-> 0]
    /\ executor_id = [n \in Nodes |-> None]
    /\ evidence = [n \in Nodes |-> {}]
    /\ review_context = [n \in Nodes |-> {}]
    /\ verification = [n \in Nodes |-> NoReview]
    /\ failure_history = [n \in Nodes |-> <<>>]
    /\ review_history = [n \in Nodes |-> <<>>]
    /\ attempt_history = [n \in Nodes |-> <<>>]
    /\ superseded_at = [n \in Nodes |-> FALSE]

\* add_node: planned as blocked, on nodes the document already has (an unknown
\* or own id is refused), and promoted by the validation of the candidate.
AddNode(n, deps, limit) ==
    /\ n \notin planned
    /\ deps \subseteq planned
    /\ depends_on' = [depends_on EXCEPT ![n] = deps]
    /\ status' = [status EXCEPT ![n] = IF \A d \in deps : status[d] \in SETTLED
                                       THEN "ready" ELSE "blocked"]
    /\ max_attempts' = [max_attempts EXCEPT ![n] = limit]
    /\ UNCHANGED <<attempts, executor_id, reviewVars, failure_history,
                   attempt_history, superseded_at>>

Start(n, executor) ==
    /\ status[n] = "ready"
    /\ attempts[n] < max_attempts[n]
    /\ status' = Promote([status EXCEPT ![n] = "running"])
    /\ attempts' = [attempts EXCEPT ![n] = @ + 1]
    /\ executor_id' = [executor_id EXCEPT ![n] = executor]
    /\ verification' = [verification EXCEPT ![n] = NoReview]
    /\ UNCHANGED <<depends_on, max_attempts, evidence, review_context,
                   failure_history, review_history, attempt_history, superseded_at>>

\* The actor is optional; a named one must be the executor.
Submit(n, actor, items, files) ==
    /\ status[n] = "running"
    /\ actor = None \/ SameActor(actor, executor_id[n])
    /\ evidence' = [evidence EXCEPT ![n] = items]
    /\ review_context' = [review_context EXCEPT ![n] = files]
    /\ status' = Promote([status EXCEPT ![n] = "awaiting_verification"])
    /\ UNCHANGED <<depends_on, attempts, max_attempts, executor_id, verification,
                   failure_history, review_history, attempt_history, superseded_at>>

\* Slips: labels compared as they are spelled; the status checked too loosely.
ReviewableBySpelling(n, reviewer) ==
    status[n] = "awaiting_verification" /\ reviewer # executor_id[n]
ReviewableEarly(n, reviewer) ==
    /\ status[n] \in {"running", "awaiting_verification"}
    /\ ~ SameActor(reviewer, executor_id[n])
ReviewableLate(n, reviewer) ==
    /\ status[n] \in {"awaiting_verification", "verified"}
    /\ ~ SameActor(reviewer, executor_id[n])

\* What verify() asks before it looks at the verdict.
Reviewable(n, reviewer) ==
    /\ status[n] = "awaiting_verification"
    /\ ~ SameActor(reviewer, executor_id[n])

\* verify --pass: submission, checked criteria and review evidence must each
\* cover every criterion.
Pass(n, reviewer, checked, covered) ==
    /\ Reviewable(n, reviewer)
    /\ checked = Criteria
    /\ Covered(evidence[n]) = Criteria
    /\ covered = Criteria
    /\ ArchiveDoubt(n)
    /\ verification' = [verification EXCEPT
                           ![n] = Review("pass", reviewer, checked, covered)]
    /\ status' = Promote([status EXCEPT ![n] = "verified"])
    /\ UNCHANGED <<depends_on, attempts, max_attempts, executor_id, evidence,
                   review_context, failure_history, attempt_history, superseded_at>>

\* verify --uncertain: the node keeps awaiting, with the doubt attached.
Uncertain(n, reviewer) ==
    /\ Reviewable(n, reviewer)
    /\ ArchiveDoubt(n)
    /\ verification' = [verification EXCEPT
                           ![n] = Review("uncertain", reviewer, {}, {})]
    /\ status' = Promote(status)
    /\ UNCHANGED <<depends_on, attempts, max_attempts, executor_id, evidence,
                   review_context, failure_history, attempt_history, superseded_at>>

\* Slips: direct dependents only; the whole plan.
InvalidatedChildren(faulty) == {m \in Children(faulty) : status[m] # "failed"}
InvalidatedAll(faulty) == {m \in planned \ {faulty} : status[m] # "failed"}

\* _invalidate_descendants passes over a descendant that has failed, and the
\* faulty node has by then.
Invalidated(faulty) == {m \in Descendants(faulty) \ {faulty} : status[m] # "failed"}

\* Slips: a node invalidated twice credited twice; the whole budget handed back;
\* a refund without a floor.
RefundAlways(m) == IF attempts[m] > 0 THEN 1 ELSE 0
RefundAll(m) == IF status[m] \in HOLDING THEN attempts[m] ELSE 0
RefundBlindly(m) == 1

\* The attempts an upstream failure hands back.
Refund(m) == IF status[m] \in HOLDING /\ attempts[m] > 0 THEN 1 ELSE 0

\* verify --fail: the reviewed node, or a verified ancestor the reviewer holds
\* responsible, fails; everything downstream of it is invalidated.
Fail(n, reviewer, faulty) ==
    /\ Reviewable(n, reviewer)
    /\ faulty # n => status[faulty] = "verified" /\ n \in Descendants(faulty)
    /\ ~ SameActor(reviewer, executor_id[faulty])
    /\ ArchiveDoubt(n)
    /\ verification' = [m \in Nodes |->
          IF m = n THEN Review("fail", reviewer, {}, {})
          ELSE IF m = faulty THEN NoReview ELSE verification[m]]
    /\ failure_history' = [failure_history EXCEPT ![faulty] = Append(@, attempts[faulty])]
    /\ attempts' = [m \in Nodes |->
          IF m \in Invalidated(faulty) THEN attempts[m] - Refund(m) ELSE attempts[m]]
    /\ status' = Promote([m \in Nodes |->
          IF m \in Invalidated(faulty) THEN "invalidated"
          ELSE IF m = faulty THEN "failed" ELSE status[m]])
    /\ UNCHANGED <<depends_on, max_attempts, executor_id, evidence, review_context,
                   attempt_history, superseded_at>>

\* withdraw_submission: only the executor, and only under a recorded doubt.
Withdraw(n, actor) ==
    /\ status[n] = "awaiting_verification"
    /\ verification[n].result = "uncertain"
    /\ SameActor(actor, executor_id[n])
    /\ ArchiveDoubt(n)
    /\ verification' = [verification EXCEPT ![n] = NoReview]
    /\ status' = Promote([status EXCEPT ![n] = "running"])
    /\ UNCHANGED <<depends_on, attempts, max_attempts, executor_id, evidence,
                   review_context, failure_history, attempt_history, superseded_at>>

\* A slip: the budget is left to start().
RetryUnbudgeted(n) == status[n] \in {"failed", "invalidated"}

\* retry(n) does not refuse.
RetryAccepts(n) ==
    status[n] \in {"failed", "invalidated"} /\ attempts[n] < max_attempts[n]

\* What retry() keeps of the attempt it discards.
Archived(n) == [verification |-> verification[n], evidence |-> evidence[n]]

\* review_context stays: retry() archives the evidence and the verdict only.
Retry(n) ==
    /\ RetryAccepts(n)
    /\ attempt_history' = [attempt_history EXCEPT
                              ![n] = Newest(Append(@, Archived(n)), RETRY_LOG)]
    /\ evidence' = [evidence EXCEPT ![n] = {}]
    /\ verification' = [verification EXCEPT ![n] = NoReview]
    /\ executor_id' = [executor_id EXCEPT ![n] = None]
    /\ status' = Promote([status EXCEPT ![n] = IF DependenciesSettledIn(status, n)
                                               THEN "ready" ELSE "blocked"])
    /\ UNCHANGED <<depends_on, attempts, max_attempts, review_context,
                   failure_history, review_history, superseded_at>>

\* A person raises the ceiling by one; the attempts spent stay counted.
GrantAttempt(n) ==
    /\ status[n] \in {"failed", "invalidated"}
    /\ max_attempts[n] < MAX_ATTEMPTS
    /\ max_attempts' = [max_attempts EXCEPT ![n] = @ + 1]
    /\ status' = Promote(status)
    /\ UNCHANGED <<depends_on, attempts, executor_id, reviewVars, failure_history,
                   attempt_history, superseded_at>>

\* A person retires the node.  Everything it holds stays as it is.
Supersede(n) ==
    /\ status[n] \notin {"absent", "verified", "superseded"}
    /\ status' = Promote([status EXCEPT ![n] = "superseded"])
    /\ superseded_at' = [superseded_at EXCEPT ![n] = TRUE]
    /\ UNCHANGED <<depends_on, attempts, max_attempts, executor_id, reviewVars,
                   failure_history, attempt_history>>

Next ==
    \/ \E n \in Nodes, deps \in SUBSET Nodes, limit \in 1..MAX_ATTEMPTS :
          AddNode(n, deps, limit)
    \/ \E n \in Nodes, executor \in Labels : Start(n, executor)
    \/ \E n \in Nodes, actor \in Labels \cup {None},
          items \in SUBSET Items, files \in SUBSET Paths :
          Submit(n, actor, items, files)
    \/ \E n \in Nodes, reviewer \in Labels,
          checked \in SUBSET Criteria, covered \in SUBSET Criteria :
          Pass(n, reviewer, checked, covered)
    \/ \E n \in Nodes, reviewer \in Labels : Uncertain(n, reviewer)
    \/ \E n \in Nodes, faulty \in Nodes, reviewer \in Labels : Fail(n, reviewer, faulty)
    \/ \E n \in Nodes, actor \in Labels : Withdraw(n, actor)
    \/ \E n \in Nodes : Retry(n)
    \/ \E n \in Nodes : GrantAttempt(n)
    \/ \E n \in Nodes : Supersede(n)

Spec == Init /\ [][Next]_vars

Judge(n) ==
    \/ \E reviewer \in Labels : Pass(n, reviewer, Criteria, Criteria)
    \/ \E reviewer \in Labels, faulty \in Nodes : Fail(n, reviewer, faulty)

Exhausted(n) ==
    status[n] \in {"failed", "invalidated"} /\ attempts[n] >= max_attempts[n]

\* The program runs nothing by itself, so fairness is about the people and
\* agents that follow status_summary's next_action: executors start and submit
\* what they are told to, a reviewer who may hesitate (UNCERTAIN) for as long
\* as the executor keeps withdrawing does decide in the end, failed work is
\* retried, and a person answers an escalation.
Fairness ==
    \A n \in Nodes :
        /\ WF_vars(\E executor \in Labels : Start(n, executor))
        /\ WF_vars(\E items \in SUBSET Items, files \in SUBSET Paths :
                      Submit(n, None, items, files))
        /\ SF_vars(Judge(n))
        /\ WF_vars(Retry(n))
        /\ WF_vars(Exhausted(n) /\ (GrantAttempt(n) \/ Supersede(n)))

FairSpec == Spec /\ Fairness

-----------------------------------------------------------------------------
(* What callers read *)

\* completion_check
Complete == \A n \in planned : status[n] \in SETTLED

\* The operation _next_action names for n is one the graph accepts.
NextActionAccepted(n) ==
    CASE status[n] = "ready" -> attempts[n] < max_attempts[n]
      [] status[n] = "running" -> executor_id[n] \in Labels
      [] status[n] = "awaiting_verification" ->
            IF verification[n].result = "uncertain"
            THEN \E actor \in Labels : SameActor(actor, executor_id[n])
            ELSE \E reviewer \in Labels : ~ SameActor(reviewer, executor_id[n])
      [] status[n] = "blocked" -> \E d \in depends_on[n] : status[d] \notin SETTLED
      [] OTHER -> TRUE

-----------------------------------------------------------------------------
(* Invariants *)

\* Type invariant of the document.
TypeOK ==
    /\ status \in [Nodes -> STATUSES \cup {"absent"}]
    /\ depends_on \in [Nodes -> SUBSET Nodes]
    /\ attempts \in [Nodes -> Nat]
    /\ max_attempts \in [Nodes -> 1..MAX_ATTEMPTS]
    /\ executor_id \in [Nodes -> Labels \cup {None}]
    /\ evidence \in [Nodes -> SUBSET Items]
    /\ review_context \in [Nodes -> SUBSET Paths]
    /\ verification \in [Nodes -> Reviews]
    /\ failure_history \in [Nodes -> Seq(Nat)]
    /\ review_history \in [Nodes -> Seq(Labels \cup {None})]
    /\ attempt_history \in [Nodes -> Seq(Archives)]
    /\ superseded_at \in [Nodes -> BOOLEAN]

\* Work is only ready, under way or accepted on dependencies that are all
\* settled, whatever failed or was retired upstream in the meantime: the check
\* of _validate_runtime_consistency never refuses what an operation built.
DependenciesSettled ==
    \A n \in Nodes : status[n] \in HOLDING \cup {"ready"}
                        => DependenciesSettledIn(status, n)

\* The plan never stalls: nothing waits for dependencies that are settled, and
\* while a node is owed, some node is not waiting (_promote_blocked_nodes,
\* _topological_ids).
SomebodyCanMove ==
    /\ \A n \in Nodes : status[n] = "blocked" => ~ DependenciesSettledIn(status, n)
    /\ ~ Complete => \E n \in planned : status[n] \notin SETTLED \cup {"blocked"}

\* A node is verified only under a PASS by somebody other than the executor
\* that holds it, covering every criterion with submission and review.
IndependentPass ==
    \A n \in Nodes : status[n] = "verified" =>
        /\ verification[n].result = "pass"
        /\ executor_id[n] # None
        /\ ~ SameActor(verification[n].reviewer_id, executor_id[n])
        /\ Covered(evidence[n]) = Criteria
        /\ verification[n].checked_criteria = Criteria
        /\ verification[n].evidence = Criteria

\* The verdict shown on a node is one its status can have: a running node
\* shows none, an awaiting one at most a doubt, a failed one never a PASS.
VerdictMatchesStatus ==
    \A n \in Nodes :
        /\ status[n] \in {"absent", "blocked", "ready", "running"}
              => verification[n].result = "none"
        /\ status[n] = "awaiting_verification"
              => verification[n].result \in {"none", "uncertain"}
        /\ status[n] = "failed" => verification[n].result \in {"none", "fail"}

\* The attempts a node is charged: its own failed reviews, and the attempt it
\* holds.  Upstream failures cost nothing, however often they recur, unless
\* the node was retired in the middle of an attempt (see UnjudgedNeverSpends).
BudgetExact ==
    \A n \in Nodes : ~ superseded_at[n] =>
        attempts[n] = Len(failure_history[n]) + (IF status[n] \in HOLDING THEN 1 ELSE 0)

\* The operation status_summary recommends is one the graph accepts: what is
\* offered as ready has an attempt left, what awaits a person names one.
NextActionsAccepted == \A n \in planned : NextActionAccepted(n)

\* event_id is faulty:attempts; refunds never let two failures share one.
FailureEventsUnique ==
    \A n \in Nodes :
        /\ \A i, j \in 1..Len(failure_history[n]) :
              i < j => failure_history[n][i] < failure_history[n][j]
        /\ \A i \in 1..Len(failure_history[n]) : failure_history[n][i] <= attempts[n]

\* Where nobody retired a node, accepted and active work stands on verified
\* ancestors only, all the way up.
AncestorsVerified ==
    \A n \in Nodes : status[n] \in HOLDING =>
        \/ \E a \in Ancestors(n) : superseded_at[a]
        \/ \A a \in Ancestors(n) : status[a] = "verified"

-----------------------------------------------------------------------------
(* Action properties *)

\* A step that fails a node or invalidates one records a failure of a single
\* node and changes no status outside that node and its descendants; nothing
\* else takes a verified node back.
FailureStaysDownstream ==
    [][\A m \in Nodes :
          \/ status'[m] \in {"failed", "invalidated"} /\ status[m] # status'[m]
          \/ status[m] = "verified" /\ status'[m] # "verified"
          => \E f \in Nodes :
                /\ Len(failure_history'[f]) = Len(failure_history[f]) + 1
                /\ status'[f] = "failed"
                /\ m \in {f} \cup Descendants(f)
                /\ \A k \in Nodes \ ({f} \cup Descendants(f)) :
                      /\ status'[k] = status[k]
                      /\ attempts'[k] = attempts[k]]_vars

\* completion_check, once passed, keeps passing until somebody plans more.
CompletionStable ==
    [][Complete /\ planned' = planned => Complete']_vars

\* A reviewer's doubt does not disappear: when the UNCERTAIN verdict on a node
\* is replaced or dropped, the newest archived review or attempt holds it,
\* whatever the bounds of the archives discard; only a record that alone is
\* over the byte bound of the trail is given up, and the whole trail with it.
DoubtArchived ==
    [][\A n \in Nodes :
          verification[n].result = "uncertain" /\ verification'[n] # verification[n]
          => \/ /\ review_history'[n] # <<>>
                /\ review_history'[n][Len(review_history'[n])] = verification[n].reviewer_id
             \/ /\ attempt_history'[n] # <<>>
                /\ attempt_history'[n][Len(attempt_history'[n])].verification = verification[n]
             \/ Trailed(n) \in Oversized /\ review_history'[n] = <<>>]_vars

-----------------------------------------------------------------------------
(* Liveness *)

\* A plan that people and agents keep working on is finished and stays
\* finished: failures are finite, because every one costs a budget that grows
\* only up to MAX_ATTEMPTS, and an exhausted node can always be retired.
EventuallyComplete == <>[]Complete

\* The graph implements the ledger of accepted and retired work: a start,
\* submission, doubt, retry or grant is a stutter there.
Ledger == INSTANCE WorkLedger WITH
    accepted <- {n \in Nodes : status[n] = "verified"},
    retired <- {n \in Nodes : status[n] = "superseded"},
    failures <- [n \in Nodes |-> Len(failure_history[n])]

\* What every step does to the ledger, wherever a plan starts from.
LedgerSteps == [][Ledger!Next]_(Ledger!ledgerVars)
LedgerSpec == Ledger!Spec
LedgerFairSpec == Ledger!FairSpec

-----------------------------------------------------------------------------
(* What docs and comments say and the code does not do *)

\* core/state-machine.md: supersede "retires a non-verified node"; the comment
\* on STATUSES: "Not done, not owed".  A retired node is never owed again.
SupersededStays ==
    [][\A n \in Nodes : status[n] = "superseded" => status'[n] = "superseded"]_vars

\* _invalidate_descendants: an attempt "never judged on its own merit ... must
\* not spend this node's budget".
UnjudgedNeverSpends ==
    \A n \in Nodes : status[n] \in {"blocked", "ready", "invalidated"} =>
        attempts[n] = Len(failure_history[n])

=============================================================================
