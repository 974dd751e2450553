---------------------------- MODULE MCPassBudget ----------------------------
(* Small instances of PassBudget. *)
EXTENDS PassBudget, TLC

CONSTANTS p1, p2

Passes == {p1, p2}

Symmetry == Permutations(Passes)
=============================================================================
