--------------------------- MODULE MCHarnessMeter ---------------------------
(* Instances of HarnessMeter for TLC. *)
EXTENDS HarnessMeter, TLC

CONSTANTS s1, s2, a1, a2

\* Two gateway children run under one seat, capped over its lifetime.
SharedSeat == [s \in Session |-> {a1}]
Caps == [a \in Actor |-> 3]

\* A child whose credential file is replaced while it runs; nobody has a lifetime cap.
Replaced == [s \in Session |-> {a1, a2}]
NoCaps == [a \in Actor |-> Unlimited]

Symmetry == Permutations(Request)
=============================================================================
