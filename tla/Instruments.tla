----------------------------- MODULE Instruments -----------------------------
(***************************************************************************)
(* What each instrument may answer to a question, and what its answer      *)
(* claims.  A question is a record with the instrument's name and the part *)
(* of its inputs that decides.  The engines (Z3, SymPy, Arb, the Lean      *)
(* kernel) are external: what they say is true, and they may give up.      *)
(***************************************************************************)
EXTENDS Formula

NoOp == "value"  \* split_relation: an expression without a relation is evaluated

\* How an expression is written: with exact numbers, with a decimal, over free names, with a
\* function that is not known, or in a form that the gate before the parser turns away.
Texts == {"exact", "decimal", "free", "unknown", "unsafe"}

\* A tri-state answer as the status that is recorded.
Recorded(answer) ==
  CASE answer = "yes" -> "result" [] answer = "no" -> "refuted" [] OTHER -> "undecided"

-----------------------------------------------------------------------------
(* z3.prove [goal, given] and z3.satisfy [given]                           *)

Terms(fs) == [i \in DOMAIN fs |-> ForSolver(fs[i])]

Models(terms) == {a \in Assign : \A i \in DOMAIN terms : terms[i].of[a]}

\* solver.check over the assignments that satisfy what was asserted.
Check(models) == {"unknown", IF models = {} THEN "unsat" ELSE "sat"}

\* Mutant of Solve: the hypotheses alone are never looked at.
SolveUnguarded(given, goal) ==
  {CASE check = "unsat" -> "result" [] check = "sat" -> "refuted" [] OTHER -> "undecided" :
     check \in Check({a \in Models(given) : ~goal.of[a]})}

\* What the two checks come to.
Judged(first, check) ==
  CASE first = "sat" /\ check = "unsat" -> "result"
    [] first = "sat" /\ check = "sat" -> "refuted"
    [] OTHER -> "undecided"

\* The first check: the hypotheses alone, if there are any.
Alone(given) == IF given = <<>> THEN {"sat"} ELSE Check(Models(given))

\* The models that the second check looks for: the goal's negation among the hypotheses.
Against(given, goal) == {a \in Models(given) : ~goal.of[a]}

\* solve.
Solve(given, goal) ==
  {Judged(first, check) : first \in Alone(given), check \in Check(Against(given, goal))}

Z3Prove(q) ==
  LET goal == ForSolver(q.goal)  given == Terms(q.given)
  IN IF goal = Ill \/ \E i \in DOMAIN given : given[i] = Ill THEN {"value_error"}
     ELSE Solve(given, goal)

\* satisfy.
Satisfiable(given) ==
  {CASE check = "sat" -> "result" [] check = "unsat" -> "refuted" [] OTHER -> "undecided" :
     check \in Check(Models(given))}

Z3Satisfy(q) ==
  LET given == Terms(q.given)
  IN IF \E i \in DOMAIN given : given[i] = Ill THEN {"value_error"} ELSE Satisfiable(given)

-----------------------------------------------------------------------------
(* lean.prove [source, mathlib]: what the source contains.                 *)

Cheats == {"sorry", "axiom", "IO"}

\* scan_banned: cheats, and imports beyond what was asked for.
Banned(q) ==
  \/ q.source \cap Cheats # {}
  \/ "foreign import" \in q.source
  \/ "Mathlib import" \in q.source /\ ~q.mathlib

\* The kernel rejects a wrong proof; it accepts a gap, an axiom, or nothing at all.
KernelExit(source) == IF "wrong" \in source THEN 1 ELSE 0

\* _run_process: the exit code decides; a process killed by a signal is a crash.
RunProcess(source) ==
  {"unavailable", "timeout", "crash", IF KernelExit(source) = 0 THEN "proved" ELSE "failed"}

\* _check_mathlib, _run_lake: without a ready lake project nothing is run.
CheckMathlib(source) == {"unavailable"} \cup RunProcess(source)

\* check_source: a cheat, or a file that proves nothing, never reaches the kernel.
CheckSource(q) ==
  IF Banned(q) \/ "theorem" \notin q.source THEN {"failed"}
  ELSE IF q.mathlib THEN CheckMathlib(q.source) ELSE {"unavailable"} \cup RunProcess(q.source)

\* _result_from_check: only an accepted file is a result, and a failed one is no refutation.
FromCheck(kind) == IF kind = "proved" THEN "result" ELSE "undecided"

\* A crash of the checker is raised and records nothing.
LeanProve(q) ==
  {IF kind = "crash" THEN "worker_error" ELSE FromCheck(kind) : kind \in CheckSource(q)}

-----------------------------------------------------------------------------
(* interval.eval [left, right, op, text]: the true values of the sides.    *)

\* Ball and interval arithmetic end in an interval that holds the true value.
Around(v) == (v - 1..v) \X (v..v + 1)

\* _arb_to_enclosure: an exact ball stays a point, any other is widened to decimal ends (here,
\* even ones).
Outward(b) == IF b[1] = b[2] THEN b ELSE <<b[1] - (b[1] % 2), b[2] + (b[2] % 2)>>

\* _enclose_arb where python-flint is installed, _enclose_iv where it is not.
Arb(v) == {Outward(b) : b \in Around(v)}
Iv(v) == Around(v)

NoEnclosure == <<>>

\* enclose: free names, an unknown function, a value off the real line, a pole and the clock
\* all leave the expression without an enclosure.
Enclose(q, v) == {NoEnclosure} \cup IF q.text = "exact" THEN Arb(v) \cup Iv(v) ELSE {}

\* decide_relation.
Decide(l, r, op) ==
  LET below == l[2] < r[1]
      above == r[2] < l[1]
      same == l[1] = l[2] /\ l[2] = r[1] /\ r[1] = r[2]
      told(yes, no) == IF yes THEN "yes" ELSE IF no THEN "no" ELSE "unknown"
  IN CASE op = "==" -> told(same, below \/ above)
       [] op = "!=" -> told(below \/ above, same)
       [] op = "<"  -> told(below, l[1] >= r[2])
       [] op = "<=" -> told(l[2] <= r[1], above)
       [] op = ">"  -> told(above, l[2] <= r[1])
       [] OTHER     -> told(l[1] >= r[2], below)

\* _run_value: an enclosure is a result, whatever its width.
RunValue(q) == {IF e = NoEnclosure THEN "undecided" ELSE "result" : e \in Enclose(q, q.left)}

\* _run_relation.
RunRelation(q) ==
  {Recorded(IF NoEnclosure \in {l, r} THEN "unknown" ELSE Decide(l, r, q.op)) :
     l \in Enclose(q, q.left), r \in Enclose(q, q.right)}

IntervalEval(q) ==
  IF q.text \in {"decimal", "unsafe"} THEN {"value_error"}
  ELSE IF q.op = NoOp THEN RunValue(q) ELSE RunRelation(q)

-----------------------------------------------------------------------------
(* calc.eval and expr.compare [diff, op, text]: the values of left - right *)
(* under the assignments of the free symbols, one value if there are none. *)

\* simplify(diff).is_zero: sound, and fuzzy.
IsZero(diff) ==
  {"unknown"} \cup (IF diff = {0} THEN {"yes"} ELSE {}) \cup (IF 0 \notin diff THEN {"no"} ELSE {})

Denied(answer) == CASE answer = "yes" -> "no" [] answer = "no" -> "yes" [] OTHER -> answer

\* relation_holds: an order needs the sign of a difference without free symbols.  A decimal is
\* rounded, and what remains of it decides.
RelationHolds(q) ==
  CASE q.text = "decimal" -> {"yes", "no", "unknown"}
    [] q.op = "=="        -> IsZero(q.diff)
    [] q.op = "!="        -> {Denied(z) : z \in IsZero(q.diff)}
    [] OTHER              -> {"unknown"} \cup
         IF Cardinality(q.diff) > 1 THEN {}
         ELSE {IF Compared(q.op, d, 0) THEN "yes" ELSE "no" : d \in q.diff}

\* parse, behind _reject_unsafe_source.
Parses(q) == q.text # "unsafe"

CalcEval(q) ==
  IF ~Parses(q) THEN {"value_error"}
  ELSE IF q.op = NoOp THEN {"result"} ELSE {Recorded(h) : h \in RelationHolds(q)}

ExprCompare(q) ==
  IF Parses(q) THEN {Recorded(h) : h \in RelationHolds(q)} ELSE {"value_error"}

\* geometry.coordinate_measure [text, flat]: an angle at a vertex that is one of its own
\* endpoints is refused.
CoordinateMeasure(q) == IF q.flat \/ ~Parses(q) THEN {"value_error"} ELSE {"result"}

-----------------------------------------------------------------------------
(* counterexample.search [points, hard, op, max, text] and                 *)
(* table.derive_column [points, hard, op, text]: left - right at each      *)
(* assignment of the grid or row of the table, and the ones that SymPy may *)
(* not decide.                                                             *)

Fails(q, i) == ~Compared(q.op, q.points[i], 0)

\* The first points of the grid, as many as max_samples.
Tried(q) == {i \in DOMAIN q.points : i <= q.max}

\* A point that cannot be decided is passed over.
CounterexampleSearch(q) ==
  LET failing == {i \in Tried(q) : Fails(q, i)}
  IN IF ~Parses(q) THEN {"value_error"}
     ELSE {s \in {"refuted", "result"} :
             \/ s = "refuted" /\ failing # {}
             \/ s = "result" /\ failing \subseteq q.hard}

\* bind_row: a cell that is used is exact mathematics, not a decimal and not a label.
Bound(q) == q.text = "exact"

\* A false row refutes; else a row that cannot be decided leaves the whole undecided.
TableDeriveColumn(q) ==
  LET failing == {i \in DOMAIN q.points : Fails(q, i)}
  IN CASE ~Bound(q) \/ q.points = <<>>  -> {"value_error"}
       [] Bound(q) /\ q.points # <<>> /\ q.op = NoOp -> {"result"}
       [] OTHER -> {s \in {"refuted", "undecided", "result"} :
                      \/ s = "refuted" /\ failing # {}
                      \/ s = "undecided" /\ q.hard # {} /\ failing \subseteq q.hard
                      \/ s = "result" /\ failing = {}}

\* table.create and table.render [text]: every cell but a decimal is taken, a label as a label.
TableNormalized(q) == IF q.text = "decimal" THEN {"value_error"} ELSE {"result"}

\* plot.points and plot.function [text, real]: points that are not real are left out of a
\* curve, and refused in a list.
PlotPoints(q) == IF Parses(q) /\ q.real THEN {"result"} ELSE {"value_error"}
PlotFunction(q) ==
  IF ~Parses(q) THEN {"value_error"} ELSE IF q.real THEN {"result"} ELSE {"undecided"}

-----------------------------------------------------------------------------
(* Retrieval [locator, provider, hit]: what is asked for, where, and what  *)
(* the catalogue has first: the work itself, another work, an entry        *)
(* without an identifier, or nothing.                                      *)

Locators == {"doi", "arxiv id", "openalex id", "words"}
Hits == {"work", "other", "bare", "nothing"}

\* RetrievalClient: 404 is nothing found; any other failure is raised.
Fetch(q) == {q.hit, "failed"}

\* resolve_source_pin_route.
Route(q) ==
  CASE q.provider # "auto"          -> q.provider
    [] q.locator = "openalex id"    -> "openalex"
    [] q.locator = "arxiv id"       -> "arxiv"
    [] OTHER                        -> "crossref"

\* oeis.search: a sequence with a number, whose terms hold the ones that were asked for.
OeisFound(hit) == hit = "work"
\* crossref.lookup: a work with a DOI.
CrossrefFound(hit) == hit \in {"work", "other"}
\* arxiv.lookup: an entry; without an id of its own it goes by the one that was asked for.
ArxivFound(hit) == hit \in {"work", "other", "bare"}
\* openalex.lookup: a work with an OpenAlex id.
OpenAlexFound(hit) == hit \in {"work", "other"}

Found(catalogue, hit) ==
  CASE catalogue = "oeis" -> OeisFound(hit) [] catalogue = "crossref" -> CrossrefFound(hit)
    [] catalogue = "arxiv" -> ArxivFound(hit) [] OTHER -> OpenAlexFound(hit)

Looked(catalogue, q) ==
  {IF hit = "failed" THEN "worker_error" ELSE IF Found(catalogue, hit) THEN "result" ELSE "undecided" :
     hit \in Fetch(q)}

\* source.pin: arXiv is asked for an identifier only.
SourcePin(q) ==
  IF q.provider = "arxiv" /\ q.locator # "arxiv id" THEN {"value_error"} ELSE Looked(Route(q), q)

-----------------------------------------------------------------------------
\* run, of the instrument that is asked.
Answers(q) ==
  CASE q.tool = "z3.prove"              -> Z3Prove(q)
    [] q.tool = "z3.satisfy"            -> Z3Satisfy(q)
    [] q.tool = "lean.prove"            -> LeanProve(q)
    [] q.tool = "interval.eval"         -> IntervalEval(q)
    [] q.tool = "calc.eval"             -> CalcEval(q)
    [] q.tool = "expr.compare"          -> ExprCompare(q)
    [] q.tool = "geometry.coordinate_measure" -> CoordinateMeasure(q)
    [] q.tool = "counterexample.search" -> CounterexampleSearch(q)
    [] q.tool = "table.derive_column"   -> TableDeriveColumn(q)
    [] q.tool \in {"table.create", "table.render"} -> TableNormalized(q)
    [] q.tool = "plot.points"           -> PlotPoints(q)
    [] q.tool = "plot.function"         -> PlotFunction(q)
    [] q.tool = "oeis.search"           -> Looked("oeis", q)
    [] q.tool = "crossref.lookup"       -> Looked("crossref", q)
    [] q.tool = "arxiv.lookup"          -> Looked("arxiv", q)
    [] q.tool = "openalex.lookup"       -> Looked("openalex", q)
    [] OTHER                            -> SourcePin(q)

\* What a recorded status claims, read off the question and not off the instrument's code.
Earned(q, status) ==
  LET given(a) == \A i \in DOMAIN q.given : Holds(q.given[i], a)
      true == status = "result"
  IN CASE q.tool = "z3.prove" ->
            LET meant == {a \in Assign : given(a)}
                holds == {a \in meant : Holds(q.goal, a)}
            IN IF true THEN meant # {} /\ holds = meant ELSE holds # meant
       [] q.tool = "z3.satisfy" -> true = (\E a \in Assign : given(a))
       [] q.tool = "lean.prove" ->
            "theorem" \in q.source /\ q.source \cap (Cheats \cup {"wrong", "foreign import"}) = {}
       [] q.tool = "geometry.coordinate_measure" -> q.text = "exact" /\ ~q.flat
       [] q.tool = "interval.eval" ->
            IF q.op = NoOp THEN true ELSE true = Compared(q.op, q.left, q.right)
       [] q.tool \in {"calc.eval", "expr.compare"} ->
            IF q.op = NoOp THEN true ELSE true = (\A d \in q.diff : Compared(q.op, d, 0))
       [] q.tool = "counterexample.search" -> true = (\A i \in Tried(q) : ~Fails(q, i))
       [] q.tool = "table.derive_column" ->
            IF q.op = NoOp THEN true ELSE true = (\A i \in DOMAIN q.points : ~Fails(q, i))
       [] q.tool = "oeis.search" -> q.hit = "work"
       [] q.tool \in {"crossref.lookup", "arxiv.lookup", "openalex.lookup", "source.pin"} ->
            q.hit # "nothing"
       [] OTHER -> TRUE

\* Plain questions: of the formulas that are, SymPy's without a decimal that is rounded, and
\* with no failing point that cannot be decided.
Plain(q) ==
  /\ q.tool = "z3.prove" => q.goal \in Parts
  /\ q.tool \in {"z3.prove", "z3.satisfy"} => \A i \in DOMAIN q.given : q.given[i] \in Parts
  /\ q.tool = "interval.eval" => q.left \in Int /\ q.right \in Int
  /\ q.tool \in {"calc.eval", "expr.compare", "geometry.coordinate_measure"} =>
       q.text \in {"exact", "unsafe"}
  /\ q.tool \in {"calc.eval", "expr.compare"} =>
       IsFiniteSet(q.diff) /\ q.diff # {} /\ q.diff \subseteq Int
  /\ q.tool = "expr.compare" => q.op # NoOp
  /\ q.tool = "counterexample.search" => \A i \in q.hard : ~Fails(q, i)
=============================================================================
