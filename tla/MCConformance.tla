---------------------------- MODULE MCConformance ----------------------------
(* TLC's instance of Conformance and SessionHooks. *)
EXTENDS Conformance, TLC

CONSTANTS s1, s2, s3, R, p

(* What a first session may have left on record before the others start:    *)
(* it opened, edited a file of the project or another, ran graphctl or not, *)
(* and ended its last turn; the run may be recorded late or not be named.   *)
Past ==
    LET open == [Rec("session_open", s1, R) EXCEPT !.ts = 1]
        edit(x) == [Rec("edit", s1, R) EXCEPT !.path = x]
        end  == [Rec("turn_end", s1, R) EXCEPT !.ts = 1]
        run(x) == Rec("graph_transition", x, R)
    IN  {<<open, edit(p), end>>, <<open, edit(Outside), end>>, <<open, run(None), edit(p), end>>}

(* The first session is over or still there; the others are new. *)
LaterInit ==
    /\ journal \in Past /\ clock = 1 /\ faults = 0
    /\ life \in {[s \in Sessions |-> IF s = s1 THEN l ELSE "absent"] : l \in {"live", "over"}}
    /\ home \in [Sessions -> Repos]
    /\ hook = [s \in Sessions |-> "none"]
    /\ since = [s \in Sessions |-> None]
    /\ bypass = [s \in Sessions |-> None]
    /\ reportLock = None
    /\ printed = [s \in Sessions |-> 0]
    /\ forgotten = {}

LaterSpec == LaterInit /\ [][Next]_vars

\* The sessions that are still to come are interchangeable.
SessionSymmetry == Permutations({s2, s3})
=============================================================================
