---------------------------- MODULE GraphRegister ----------------------------
(***************************************************************************)
(* What the storage layer promises its users: one document that commands   *)
(* create once and then extend one at a time, each on top of everything    *)
(* before it, and that contains the transition of every command that said  *)
(* it succeeded.  A power failure may take the document back to an earlier *)
(* state, never to another one.                                            *)
(***************************************************************************)
CONSTANTS Commands,  \* the processes; a document is the set of those that changed it
          NoGraph    \* no graph file yet

VARIABLES doc,       \* the document
          stable,    \* the state of it that would survive a power failure
          answered   \* the commands that reported success

vars == <<doc, stable, answered>>

Init ==
    /\ doc \in {NoGraph, {}}
    /\ stable = doc
    /\ answered = {}

\* The command that creates the graph: only where there is none.
Create(c) ==
    /\ doc = NoGraph
    /\ doc' = {c}
    /\ UNCHANGED <<stable, answered>>

Extend(c) ==
    /\ doc # NoGraph
    /\ c \notin doc
    /\ doc' = doc \cup {c}
    /\ UNCHANGED <<stable, answered>>

Settle ==
    /\ stable' = doc
    /\ UNCHANGED <<doc, answered>>

Fallback ==
    /\ doc' = stable
    /\ UNCHANGED <<stable, answered>>

Acknowledge(c) ==
    /\ doc # NoGraph
    /\ c \in doc
    /\ answered' = answered \cup {c}
    /\ UNCHANGED <<doc, stable>>

Next ==
    \/ \E c \in Commands : Create(c) \/ Extend(c) \/ Acknowledge(c)
    \/ Settle
    \/ Fallback

Spec == Init /\ [][Next]_vars
=============================================================================
