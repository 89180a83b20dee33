------------------------------ MODULE RecordLog ------------------------------
(***************************************************************************)
(* What the journal promises to its readers, months and damage included:   *)
(* the records they get of a month grow at the end, and change in no other *)
(* way than that the newest of them is spoilt or the month is pruned.      *)
(* Readers (previous_bypass, the conformance report) take a record's       *)
(* position for the time it happened, so nothing may ever move.            *)
(***************************************************************************)
EXTENDS Integers, Sequences, SequencesExt

CONSTANTS Months,   \* the names of month files, in the order of time
          Records   \* the identities of the records that may be appended

VARIABLE log        \* month -> the records read from it, in order

Init == log = [m \in Months |-> <<>>]

\* A record shows up, as the newest of its month.
Gain(m, r) ==
    /\ \A k \in Months : r \notin ToSet(log[k])
    /\ log' = [log EXCEPT ![m] = Append(@, r)]

\* The newest record of a month becomes unreadable.
Spoil(m) ==
    /\ log[m] # <<>>
    /\ log' = [log EXCEPT ![m] = Front(@)]

\* Pruning, which leaves at least one month that is newer.
Forget(S) ==
    /\ \E m \in Months \ S : \A s \in S : s < m
    /\ log' = [m \in Months |-> IF m \in S THEN <<>> ELSE log[m]]

Next ==
    \/ \E m \in Months, r \in Records : Gain(m, r)
    \/ \E m \in Months : Spoil(m)
    \/ \E S \in SUBSET Months : Forget(S)

Spec == Init /\ [][Next]_log
=============================================================================
