---------------------------- MODULE MCGraphStore -----------------------------
(* TLC's instances of GraphStore. *)
EXTENDS GraphStore, TLC

CONSTANTS p1, p2, p3, i1, i2

ProcSymmetry == Permutations(Procs) \cup Permutations(Inodes)

=============================================================================
