------------------------------ MODULE Toolbench ------------------------------
(***************************************************************************)
(* The toolbench whole: the instruments of module Instruments, run by the  *)
(* processes of module Bench, graded by module Grounding.                  *)
(***************************************************************************)
EXTENDS Bench, Instruments

G == INSTANCE Grounding

ASSUME ToolbenchAssumption ==
  /\ \A q \in Question : q.tool \in G!Instrument
  /\ Awaited = {q \in Question : q.tool \in G!Retrieval}
  /\ Verdicts = [q \in Question |-> Answers(q)]

\* A run that gave up must not be taken for one that was earned: whatever the interleaving, a
\* checkpoint whose status has a grade records what is true of its question (grading: "a
\* real proof", "a concrete counter-model", "an exact witness"), and the top rung is for a
\* question that was settled and not sampled.  What is claimed is read off the question, apart
\* from the translation and the ladders of the instruments.
GradesEarned ==
  \A c \in Call :
    row[c] # "none" =>
      LET grade == G!GradeFor(ask[c].tool, row[c])
          cited == ask[c] \in Awaited /\ row[c] # "undecided"
      IN /\ grade > 0 \/ cited => Earned(ask[c], row[c])
         /\ grade = 4 => ask[c].tool \in {"z3.prove", "z3.satisfy", "lean.prove"}
=============================================================================
