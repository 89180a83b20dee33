----------------------------- MODULE MCTaskGraph -----------------------------
(* TLC's instances of TaskGraph: who spells which name, and symmetry. *)
EXTENDS Effectiveness, TLC

CONSTANTS A, B, C,      \* nodes
          alice, Alice, bob \* spellings; the first two name one actor

\* "Alice" and "alice" are the same actor after _identity.
MCIdentity == [l \in Labels |-> IF l = Alice THEN alice ELSE l]

(* Evidence in one wording: of a test; or of a test and of something else. *)
TestItems == [criterion : Criteria, kind : {"test"}, summary : {"it works"}]
TwoKinds == [criterion : Criteria, kind : {"test", "manual"}, summary : {"it works"}]

(* What is too long for the trail of doubts: everything, or any submission *)
(* that has evidence at all.                                               *)
AnyDoubt == [verification : Reviews, submission_evidence : SUBSET Items,
             review_context : SUBSET Paths]
LongDoubt == {d \in AnyDoubt : d.submission_evidence # {}}

\* Nodes, and the two spellings of one actor: only SameActor compares labels.
PairSymmetry ==
    Permutations(Nodes) \cup {[l \in {alice, Alice} |-> IF l = alice THEN Alice ELSE alice]}

(* Where no two labels spell one actor, actors are interchangeable too. *)
FullSymmetry == Permutations(Nodes) \cup Permutations(Labels)

(* Plans without an isolated node, completely written before the work starts: *)
(* what init and add_node reach with every limit at the ceiling.              *)
PlannedInit ==
    /\ depends_on \in [Nodes -> SUBSET Nodes]
    /\ Acyclic
    /\ \A n \in Nodes : depends_on[n] \cup Children(n) # {}
    /\ status = Promote([n \in Nodes |-> "blocked"])
    /\ max_attempts = [n \in Nodes |-> MAX_ATTEMPTS]
    /\ attempts = [n \in Nodes |-> 0]
    /\ executor_id = [n \in Nodes |-> None]
    /\ evidence = [n \in Nodes |-> {}]
    /\ review_context = [n \in Nodes |-> {}]
    /\ verification = [n \in Nodes |-> NoReview]
    /\ failure_history = [n \in Nodes |-> <<>>]
    /\ review_history = [n \in Nodes |-> <<>>]
    /\ attempt_history = [n \in Nodes |-> <<>>]
    /\ superseded_at = [n \in Nodes |-> FALSE]

PlannedSpec == PlannedInit /\ [][Next]_vars
=============================================================================
