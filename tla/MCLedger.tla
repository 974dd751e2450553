------------------------------ MODULE MCLedger ------------------------------
(* Small instances of the ledger and of what is read from it. *)
EXTENDS ResearchDiff, TLC

Runs == {<<"z3.prove", "result", "default">>, <<"calc.eval", "refuted", "default">>}
Proof == {<<"z3.prove", "result", "default">>}
Symmetry == Permutations(Slot) \cup Permutations(Branch)
=============================================================================
