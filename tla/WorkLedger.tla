------------------------------ MODULE WorkLedger ------------------------------
(***************************************************************************)
(* What the task graph promises its users, without statuses, reviews or    *)
(* attempts: a ledger of which planned work is accepted and which is       *)
(* retired.  Work is accepted once everything it depends on is settled; a  *)
(* failure takes back the node it names and all work built on it, nothing  *)
(* else; and each node fails a bounded number of times.  TaskGraph         *)
(* implements this ledger (TaskGraph!Ledger).                              *)
(***************************************************************************)
EXTENDS Naturals

CONSTANTS Nodes, MAX_ATTEMPTS

VARIABLES
    planned,     \* the nodes of the document
    depends_on,  \* what each of them builds on
    accepted,    \* verified
    retired,     \* superseded
    failures     \* failed reviews a node has been charged with

ledgerVars == <<planned, depends_on, accepted, retired, failures>>

Settled == accepted \cup retired

\* Everything built on n, directly or through other work.
Dependents(n) == {m \in Nodes : n \in depends_on[m]}
Below(n) ==
    {m \in Nodes : \A S \in SUBSET Nodes :
        (Dependents(n) \subseteq S /\ \A x \in S : Dependents(x) \subseteq S)
            => m \in S}

Init ==
    /\ \E root \in Nodes : planned = {root}
    /\ depends_on = [n \in Nodes |-> {}]
    /\ accepted = {}
    /\ retired = {}
    /\ failures = [n \in Nodes |-> 0]

Plan(n, deps) ==
    /\ n \notin planned
    /\ deps \subseteq planned
    /\ planned' = planned \cup {n}
    /\ depends_on' = [depends_on EXCEPT ![n] = deps]
    /\ UNCHANGED <<accepted, retired, failures>>

Accept(n) ==
    /\ n \in planned \ Settled
    /\ depends_on[n] \subseteq Settled
    /\ accepted' = accepted \cup {n}
    /\ UNCHANGED <<planned, depends_on, retired, failures>>

\* Somebody decides that n is not owed; nothing is asked of its dependencies.
Retire(n) ==
    /\ n \in planned \ Settled
    /\ retired' = retired \cup {n}
    /\ UNCHANGED <<planned, depends_on, accepted, failures>>

MayFail(n) == failures[n] < MAX_ATTEMPTS
Charge(n) == [failures EXCEPT ![n] = @ + 1]

\* A review holds n responsible.  What builds on n is owed again, and so is
\* what had been retired below it.
Reopen(n) ==
    /\ n \in planned \ retired
    /\ depends_on[n] \subseteq Settled
    /\ MayFail(n)
    /\ failures' = Charge(n)
    /\ accepted' = accepted \ ({n} \cup Below(n))
    /\ retired' = retired \ Below(n)
    /\ UNCHANGED <<planned, depends_on>>

Next ==
    \/ \E n \in Nodes, deps \in SUBSET Nodes : Plan(n, deps)
    \/ \E n \in Nodes : Accept(n)
    \/ \E n \in Nodes : Retire(n)
    \/ \E n \in Nodes : Reopen(n)

Spec == Init /\ [][Next]_ledgerVars

\* Owed work is settled one way or the other.
FairSpec == Spec /\ WF_ledgerVars(\E n \in Nodes : Accept(n) \/ Retire(n))

=============================================================================
