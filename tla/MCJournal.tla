------------------------------ MODULE MCJournal ------------------------------
(* TLC's instance of Journal: what processes append, and symmetry. *)
EXTENDS Journal, TLC

CONSTANTS p1, p2, p3

(* A record that fits, one that fits without its snapshot and then only just *)
(* because of the mark, and one whose identity alone is too long.            *)
Plain    == [identity |-> 3, fields |-> "reason" :> 1]
Wordy    == [identity |-> 4, fields |-> "snapshot" :> 3 @@ "reason" :> 2 @@ "actor" :> 1]
TooLong  == [identity |-> 7, fields |-> "command" :> 1]
MCEntries == {Plain, Wordy, TooLong}

WriterSymmetry == Permutations(Writers)
=============================================================================
