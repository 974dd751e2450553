------------------------------ MODULE Grounding ------------------------------
(***************************************************************************)
(* How strongly the evidence linked to a claim backs it: the grade of one  *)
(* row, the rungs and the headline of a claim, and how far a headline      *)
(* moved.  A grade is a rung of the ladder: A 4, B 3, C 2, D 1, none 0.    *)
(* Nothing here has state.                                                 *)
(***************************************************************************)
EXTENDS Naturals

NoTool == "by hand"  \* evidence a person attached

Retrieval == {"oeis.search", "crossref.lookup", "arxiv.lookup", "openalex.lookup",
              "source.pin"}
Display == {"table.create", "table.render", "plot.function", "plot.points"}
Proving == {"z3.prove", "z3.satisfy"}
Exact == {"expr.compare", "calc.eval"}
Measuring == {"geometry.coordinate_measure"}
Kernel == {"lean.prove"}
Sampling == {"interval.eval", "counterexample.search", "table.derive_column"}

Instrument == Retrieval \cup Display \cup Proving \cup Exact \cup Measuring \cup Kernel
                \cup Sampling
ResultStatus == {"result", "refuted", "undecided"}
Relation == {"support", "weaken", "context"}

\* Mutant of GradeFor: the grade of the instrument, whatever it returned.
GradeOfTool(tool, status) ==
  IF tool \in Proving \cup Kernel THEN 4 ELSE IF tool \in Exact \cup Measuring THEN 3
  ELSE IF tool \in Sampling THEN 2 ELSE 0

\* The grade matrix.
GradeFor(tool, status) ==
  CASE status = "result" /\ tool \in Proving \cup Kernel                -> 4
    [] status = "result" /\ tool \in Exact \cup Measuring               -> 3
    [] status = "result" /\ tool \in Sampling                           -> 2
    [] status = "refuted" /\ tool \in Proving                           -> 4
    [] status = "refuted" /\ tool \in Exact \cup Sampling               -> 3
    [] OTHER                                                            -> 0

\* Mutant of Cites: a lookup that found nothing counts as a citation.
CitesAnything(e) == e.tool \in Retrieval

\* A decided lookup is a citation; it is on no rung.
Cites(e) == e.tool \in Retrieval /\ e.status # "undecided"

\* A row by hand is D; a row of a tool is what the matrix says, or nothing.
GradeOf(e) == IF e.tool = NoTool THEN 1 ELSE GradeFor(e.tool, e.status)

\* The strongest rung of the rows on one side.
Rung(rows, side) ==
  LET grades == {0} \cup {GradeOf(e) : e \in {r \in rows : r.relation = side}}
  IN CHOOSE g \in grades : \A h \in grades : h <= g

Support(rows) == Rung(rows, "support")
Counter(rows) == Rung(rows, "weaken")

Settled == {"proven", "refuted"}
Named == <<"D", "C", "B", "proven">>  \* the headline of a supporting rung

\* Mutant of Headline: a proof outweighs a counterexample.
HeadlineOfProof(rows) ==
  IF Support(rows) > 0 THEN Named[Support(rows)]
  ELSE IF Counter(rows) >= 3 THEN "refuted"
  ELSE IF \E e \in rows : Cites(e) THEN "cited" ELSE "ungrounded"

\* A counter of B or A dominates; C and D contest nothing here.
Headline(rows) ==
  IF Counter(rows) >= 3 THEN "refuted"
  ELSE IF Support(rows) > 0 THEN Named[Support(rows)]
  ELSE IF \E e \in rows : Cites(e) THEN "cited" ELSE "ungrounded"

\* Mutant of Movement: a settled claim cannot be settled again.
MovementOnce(before, after) ==
  IF Headline(after) \in Settled /\ Headline(before) \notin Settled THEN "settled"
  ELSE IF Support(after) > Support(before) THEN "raised" ELSE "unchanged"

\* How far the evidence moved a claim.
Movement(before, after) ==
  IF Headline(after) \in Settled /\ Headline(before) # Headline(after) THEN "settled"
  ELSE IF Support(after) > Support(before) THEN "raised" ELSE "unchanged"

\* compute_yield lists a claim that moved, or whose headline is another one.
Changed(before, after) ==
  Movement(before, after) # "unchanged" \/ Headline(before) # Headline(after)
=============================================================================
