------------------------------ MODULE MCRoster ------------------------------
(* A small instance of Roster. *)
EXTENDS Roster, TLC

Symmetry == Permutations(Slot) \cup Permutations(Token) \cup Permutations(Account \ {Founder})
=============================================================================
