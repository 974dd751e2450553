-------------------------- MODULE MCOrchestration --------------------------
(* Small instances of Orchestration. *)
EXTENDS Orchestration, TLC

CONSTANTS p1, p2, p3

TwoPasses == {p1, p2}
ThreePasses == {p1, p2, p3}
OnePass == {p3}
NoPasses == {}

TwoThreads == <<"t1", "t2">>
ThreeThreads == <<"t1", "t2", "t3">>

\* Any orchestration may mint any row: for runs of safety properties.
Symmetry == Permutations(Orch) \cup Permutations(Pass \ Routed)
=============================================================================
