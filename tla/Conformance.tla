----------------------------- MODULE Conformance -----------------------------
(***************************************************************************)
(* agent_harness/conformance.py: the verdict on every session on record,   *)
(* folded from the journal of all repositories, and its agreement with     *)
(* what the start hook would say of the same records.                      *)
(***************************************************************************)
EXTENDS SessionHooks, SequencesExt

-----------------------------------------------------------------------------
(* _windows and _judge, over the whole journal *)

End == Len(journal) + 1

Observed(s) == At(journal, End, s, OWNED_EVENTS)

\* The repository of a session is the one its first record names.
RepoOf(s) == journal[First(Observed(s))].repo

Opened(s) == OpenAt(journal, End, s)
Ended(s)  == EndAt(journal, End, s)

\* Whether state["transitions"] is above zero.
Transitions(s) ==
    \/ \E i \in Named(journal, s) : Opened(s) > 0 /\ i > Opened(s)
    \/ \E i \in Named(journal, None) : /\ journal[i].repo = RepoOf(s)
                                       /\ Opened(s) > 0 /\ Opened(s) < i /\ i < Ended(s)

Judge(s) ==
    CASE Opened(s) = 0                  -> "unobserved"
      [] Opened(s) > 0 /\ Ended(s) = 0  -> "incomplete"
      [] Opened(s) > 0 /\ Ended(s) > 0  ->
           IF Edits(journal, End, s) = {} THEN "unattributed"
           ELSE IF Transitions(s) THEN "conformant" ELSE "bypass"

\* The sessions report has a verdict for.
Judged == {s \in Sessions : Observed(s) # {}}

-----------------------------------------------------------------------------
(* _contested: sessions of one repository whose windows overlap *)

StartedAt(s) == journal[Opened(s)].ts
EndedAt(s)   == journal[Ended(s)].ts

Bounded(r) == {s \in Judged : RepoOf(s) = r /\ Opened(s) > 0 /\ Ended(s) > 0}

Overlaps(s, t) == StartedAt(s) <= EndedAt(t) /\ StartedAt(t) <= EndedAt(s)

\* The orders that sorting by (started_at, ended_at) may leave.
Orders(S) ==
    {q \in SetToSeqs(S) : \A i, j \in DOMAIN q : i < j =>
        \/ StartedAt(q[i]) < StartedAt(q[j])
        \/ StartedAt(q[i]) = StartedAt(q[j]) /\ EndedAt(q[i]) <= EndedAt(q[j])}

\* (ended_at, index) of i is above that of j.
Reaches(q, i, j) ==
    \/ EndedAt(q[i]) > EndedAt(q[j])
    \/ EndedAt(q[i]) = EndedAt(q[j]) /\ i > j

\* bisect_right counts those that start no later than the i-th ends; that
\* these are the first ones is what the sorting is for.
Prefix(q, i) == 1..Cardinality({j \in DOMAIN q : StartedAt(q[j]) <= EndedAt(q[i])})

Furthest(q, S) == IF S = {} THEN 0 ELSE CHOOSE j \in S : \A k \in S \ {j} : Reaches(q, j, k)

(* Mutant: a session may be compared with itself. *)
ChosenBest(q, i) == Furthest(q, Prefix(q, i))

\* The furthest-reaching of the prefix, or the second when that is i itself.
Chosen(q, i) ==
    LET best == Furthest(q, Prefix(q, i))
    IN  IF best = i THEN Furthest(q, Prefix(q, i) \ {best}) ELSE best

\* _mark_overlaps
Marked(q) == {q[i] : i \in {j \in DOMAIN q : /\ Chosen(q, j) # 0
                                             /\ Overlaps(q[j], q[Chosen(q, j)])}}

-----------------------------------------------------------------------------
(* Properties *)

(* "The search is narrowed and the question is left alone": one comparison  *)
(* per session, with the furthest-reaching of a prefix, flags exactly the   *)
(* sessions that overlap some other one, whatever order ties are sorted in. *)
ContestedExact ==
    \A r \in Repos : \A q \in Orders(Bounded(r)) :
        Marked(q) = {s \in Bounded(r) : \E t \in Bounded(r) \ {s} : Overlaps(s, t)}

HookWouldReport(r) == PreviousBypass(History(r), End)

(* The two windowing implementations "agree only by inspection": a session  *)
(* the hook would report, of all that a repository has on record, is one    *)
(* that the report counts as a bypass.                                      *)
HookAgreesWithReport ==
    \A r \in Repos : HookWouldReport(r) # None => Judge(HookWouldReport(r)) = "bypass"

(* Sessions of r that ended after they opened, those that ended last first, *)
(* are what a start looks at.                                               *)
EndsAfterOpening(s) == Opened(s) > 0 /\ Ended(s) > Opened(s)

EndedLater(s) == {t \in Judged : RepoOf(t) = RepoOf(s) /\ EndsAfterOpening(t) /\ Ended(t) > Ended(s)}

(* "One trivial session cannot bury a real bypass": a large enough bypass   *)
(* of the report that was never reported is what the hook would report,     *)
(* unless a later session used the graph, or is itself still to be          *)
(* reported, or it lies further back than the scan goes.                    *)
NothingBuried ==
    \A s \in Judged :
        Judge(s) = "bypass" /\ EndsAfterOpening(s)
          /\ WorthReporting(journal, End, s) /\ s \notin Reported(journal)
        => \/ HookWouldReport(RepoOf(s)) = s
           \/ \E t \in EndedLater(s) : Transitions(t) \/ HookWouldReport(RepoOf(s)) = t
           \/ Cardinality(EndedLater(s)) >= MAX_CANDIDATES

(* A graphctl run that names its session protects it from the moment it is  *)
(* recorded, even after the session closed or the asker opened: no start    *)
(* decides to report a session of which a run after its opening is there.   *)
NamedRunProtects ==
    [][\A s, v \in Sessions :
         bypass'[s] = v /\ bypass[s] # v =>
            ~\E i \in Named(journal, v) : journal[i].repo = home[s] /\ i > Opened(v)]_vars
=============================================================================
