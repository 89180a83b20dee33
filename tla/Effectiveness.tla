---------------------------- MODULE Effectiveness ----------------------------
(***************************************************************************)
(* agent_harness/effectiveness.py: what effectiveness-report counts when   *)
(* it is given several copies of one graph, an archive and its successor,  *)
(* in the order of their file names.  All copies have one objective.       *)
(***************************************************************************)
EXTENDS TaskGraph, SequencesExt

\* The document as _load reads it.
Document ==
    [n \in planned |->
        [status |-> status[n], attempts |-> attempts[n], max_attempts |-> max_attempts[n],
         verification |-> verification[n], evidence |-> evidence[n],
         attempt_history |-> attempt_history[n]]]

(* _review_key: the verdict, and the summaries of the evidence it was on, each  *)
(* as often as it occurs.  The kind of the evidence is not in it, nor is the    *)
(* criterion; the criteria that a FAIL names are not modelled.                  *)
Key(review) ==
    <<review.verification.result, review.verification.reviewer_id,
      review.verification.checked_criteria,
      [s \in {i.summary : i \in review.evidence} |->
          Cardinality({i \in review.evidence : i.summary = s})]>>

\* _reviews: the archived attempts, then the current verdict and its evidence.
Written(node) ==
    Append(node.attempt_history,
           [verification |-> node.verification, evidence |-> node.evidence])

(* Mutant: the current verdict only. *)
CurrentReview(node) ==
    {r \in {[verification |-> node.verification, evidence |-> node.evidence]} :
        r.verification # NoReview}

RecordedReviews(node) == {r \in Range(Written(node)) : r.verification # NoReview}

(* Mutant: attempts first. *)
PreferAttempts(candidate, existing) == candidate.attempts > existing.attempts

\* _prefer; SETTLED is TERMINAL.
Prefer(candidate, existing) ==
    \/ candidate.status \in SETTLED /\ existing.status \notin SETTLED
    \/ /\ candidate.status \in SETTLED <=> existing.status \in SETTLED
       /\ candidate.attempts > existing.attempts

\* by_node: the one record kept of each node, document after document.
ByNode(documents) ==
    LET best[i \in 0..Len(documents)] ==
            IF i = 0 THEN <<>>
            ELSE LET existing == best[i - 1]
                     node == documents[i]
                 IN  [n \in DOMAIN existing \cup DOMAIN node |->
                         IF \/ n \notin DOMAIN existing
                            \/ n \in DOMAIN node /\ Prefer(node[n], existing[n])
                         THEN node[n] ELSE existing[n]]
    IN  best[Len(documents)]

\* The reviews of every node, whichever copies have them.
Reviewed(documents) ==
    UNION {UNION {{n} \X RecordedReviews(d[n]) : n \in DOMAIN d} : d \in Range(documents)}

\* The keys they are kept under.
Keys(documents) == {<<r[1], Key(r[2])>> : r \in Reviewed(documents)}

\* The review kept under a key: the last one written, document after document.
Kept(documents, key) ==
    LET holds(r) == r.verification # NoReview /\ Key(r) = key[2]
        copies == {d \in DOMAIN documents :
                      /\ key[1] \in DOMAIN documents[d]
                      /\ \E r \in Range(Written(documents[d][key[1]])) : holds(r)}
        written == Written(documents[Max(copies)][key[1]])
    IN  written[Max({w \in DOMAIN written : holds(written[w])})]

\* _has_test_evidence of _submitted, which no review of a graph overrides.
HasTestEvidence(review) == \E i \in review.evidence : i.kind = "test"

\* The reviews counted as failed_despite_test_evidence, by their keys.
Caught(documents) ==
    {k \in Keys(documents) : k[2][1] = "fail" /\ HasTestEvidence(Kept(documents, k))}

(* report_from_documents, without the ratios, most_failed_criteria, which the  *)
(* model has no criteria for, granted_attempts, and what Caught counts.        *)
(* budget_exhausted and granted_attempts depend on the order of the copies: of *)
(* two with as many attempts, one submitted and one failed, the first is kept. *)
ReportOf(documents) ==
    LET node == ByNode(documents)
        keys == Keys(documents)
        verified == {n \in DOMAIN node : node[n].status = "verified"}
    IN  [total |-> Cardinality(DOMAIN node),
         verified |-> Cardinality(verified),
         verified_first_attempt |-> Cardinality({n \in verified : node[n].attempts = 1}),
         attempts |-> [n \in DOMAIN node |-> node[n].attempts],
         passed |-> Cardinality({k \in keys : k[2][1] = "pass"}),
         failed |-> Cardinality({k \in keys : k[2][1] = "fail"}),
         budget_exhausted |->
            Cardinality({n \in DOMAIN node : /\ node[n].status \in {"failed", "invalidated"}
                                             /\ node[n].attempts >= node[n].max_attempts}),
         superseded |-> Cardinality({n \in DOMAIN node : node[n].status = "superseded"})]

-----------------------------------------------------------------------------
(* Properties, of a copy taken before a step and one taken after it *)

FailedReview == \E n \in Nodes : failure_history'[n] # failure_history[n]

(* What no order of the copies changes. *)
OrderFree == {"total", "verified", "verified_first_attempt", "attempts", "passed", "failed",
              "superseded"}

(* "One node appearing in an archive and in its successor is one node", and *)
(* "the same one seen in two archives counts once": the totals do not       *)
(* depend on the order of the copies, a copy adds no nodes, and no failed   *)
(* review is counted again because a retry has archived it since.           *)
CopiesCountOnce ==
    [][LET both == ReportOf(<<Document, Document'>>)
           swapped == ReportOf(<<Document', Document>>)
       IN  /\ \A field \in OrderFree : both[field] = swapped[field]
           /\ both.total = Cardinality(planned')
           /\ both.failed <= ReportOf(<<Document>>).failed + (IF FailedReview THEN 1 ELSE 0)]_vars

ArchivesKeptWhole == \A n \in Nodes : IsPrefix(attempt_history[n], attempt_history'[n])

(* "A node that failed and then passed keeps the failure": the report of    *)
(* the graph never loses a failed review to a retry, a new attempt or a     *)
(* verdict on another node, as long as the archive of attempts is kept      *)
(* whole.                                                                   *)
FailuresStayCounted ==
    [][ArchivesKeptWhole
          => ReportOf(<<Document'>>).failed >= ReportOf(<<Document>>).failed]_vars

-----------------------------------------------------------------------------
(* What a docstring says and the code does not do *)

(* _reviews reads the whole history because reading less "would count the   *)
(* harness as having caught nothing in exactly the cases where it caught    *)
(* something": with a failed review on record that test evidence had not    *)
(* prevented, the report says that something was caught.                    *)
CatchesCounted ==
    (\E n \in planned : \E r \in RecordedReviews(Document[n]) :
        r.verification.result = "fail" /\ HasTestEvidence(r))
    => Caught(<<Document>>) # {}
=============================================================================
