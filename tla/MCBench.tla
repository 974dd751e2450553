------------------------------ MODULE MCBench ------------------------------
(* Questions of every instrument, asked one at a time; and three calls at  *)
(* one slot, of a compute instrument and of a retrieval.                   *)
EXTENDS Toolbench, FiniteSetsExt

CONSTANTS c1, c2, c3

Positive == Cmp(<<Name("x"), Num(0)>>, <<">">>)
Ordered == Cmp(<<Num(0), Name("x"), Name("y")>>, <<"<", "<=">>)
Product == Cmp(<<Typed(Name("x"), "+", Name("x"), "*", Num(2)),
                 Bin("*", Num(3), Name("x"))>>, <<"==">>)

Formulas == {
  Positive, Ordered, Product, Not(Positive), Name("p"),
  Apply("Implies", <<Name("p"), Name("q")>>),
  Apply("Xor", <<Name("p"), Name("q")>>),
  Cmp(<<Name("p"), Not(Name("q"))>>, <<"==">>),
  Apply("ForAll", <<Name("x"), Cmp(<<Bin("**", Name("x"), Num(2)), Num(0)>>, <<">=">>)>>),
  Apply("Exists", <<Name("x"), Name("y"), Junction("And", <<Positive, Ordered>>)>>)}

\* A boolean that is ordered, an integer that is asserted, a binder that is no name, a float.
IllFormulas == {
  Cmp(<<Name("p"), Num(1)>>, <<"<">>), Name("x"),
  Apply("ForAll", <<Num(1), Name("p")>>), Cmp(<<Name("x"), Odd("float")>>, <<"<">>)}

Given == {<<>>} \cup {<<f>> : f \in Formulas} \cup {<<Positive, Not(Positive)>>, <<Ordered, Name("p")>>}

Sources == {s \in SUBSET {"theorem", "wrong", "sorry", "axiom", "Mathlib import", "foreign import"} :
              Cardinality(s) \in 1..3}

\* The relations that are asked; the other operators mirror them.
AskedOps == {"==", "<", "<=", NoOp}

OfZ3 ==
  [tool : {"z3.prove"}, goal : Formulas, given : Given]
    \cup [tool : {"z3.prove"}, goal : IllFormulas, given : {<<>>}]
    \cup [tool : {"z3.satisfy"}, given : Given \cup {<<f>> : f \in IllFormulas}]

\* The formulas with their parts, to the depth they have.
Within[d \in 0..4] ==
  IF d = 0 THEN Formulas \cup IllFormulas
  ELSE Within[d - 1] \cup UNION {Pieces(n) : n \in Within[d - 1]}
MCParts == Within[4]

Depth[n \in MCParts] == 1 + Max({0} \cup {Depth[m] : m \in Pieces(n)})

ASSUME LegibleFormulas == Layered(Depth) /\ \A n \in Parts : Legible(n)

OfLean == [tool : {"lean.prove"}, source : Sources, mathlib : BOOLEAN]

OfInterval ==
  [tool : {"interval.eval"}, left : 0..3, right : 0..3, op : AskedOps, text : {"exact"}]
    \cup [tool : {"interval.eval"}, left : {0}, right : {1}, op : {"<", NoOp}, text : Texts]

\* Decimals are left out of the SymPy questions, and grid points that fail and cannot be
\* decided out of the search: see the README.
OfSymPy ==
  [tool : {"calc.eval"}, diff : {{-1}, {0}, {1}, {0, 1}, {1, 2}}, op : AskedOps \cup {"!="},
   text : {"exact"}]
    \cup [tool : {"expr.compare"}, diff : {{0}, {1}, {0, 1}, {1, 2}}, op : {"=="}, text : {"exact"}]
    \cup [tool : {"calc.eval", "expr.compare"}, diff : {{0}}, op : {"=="}, text : {"unsafe"}]
    \cup [tool : {"geometry.coordinate_measure"}, text : {"exact", "unsafe"}, flat : BOOLEAN]

\* Two or three points; SymPy decides the ones where the relation fails.
Grid == [1..2 -> {-1, 0, 1}] \cup [1..3 -> {0, 1}]
OfGrid ==
  {q \in [tool : {"counterexample.search"}, points : Grid, hard : {{}, {1}}, op : {"==", "<="},
          max : {1, 3}, text : {"exact"}] : \A i \in q.hard : ~Fails(q, i)}
    \cup [tool : {"table.derive_column"}, points : Grid \cup {<<>>}, hard : {{}, {1}}, op : {"=="},
          text : {"exact"}]
    \cup [tool : {"counterexample.search"}, points : {<<0>>}, hard : {{}}, op : {"=="}, max : {1},
          text : {"unsafe"}]
    \cup [tool : {"table.derive_column"}, points : {<<0>>}, hard : {{}}, op : {"==", NoOp},
          text : {"exact", "decimal", "unsafe"}]

OfDisplay ==
  [tool : {"table.create", "table.render"}, text : {"exact", "decimal", "unsafe"}]
    \cup [tool : {"plot.points", "plot.function"}, text : {"exact", "unsafe"}, real : BOOLEAN]

Catalogues == {"auto", "crossref", "arxiv", "openalex"}
MCRetrieval ==
  [tool : {"oeis.search", "crossref.lookup", "arxiv.lookup", "openalex.lookup"}, hit : Hits]
    \cup [tool : {"source.pin"}, locator : Locators, provider : Catalogues, hit : Hits]

MCQuestion == OfZ3 \cup OfLean \cup OfInterval \cup OfSymPy \cup OfGrid \cup OfDisplay \cup MCRetrieval
ASSUME PlainQuestions == \A q \in MCQuestion : Plain(q)

MCVerdicts == [q \in MCQuestion |-> Answers(q)]

Lookup == [tool |-> "crossref.lookup", hit |-> "work"]
Example == CHOOSE q \in OfZ3 : MCVerdicts[q] = {"result", "undecided"}

MCAsks ==
  {[c \in Call |-> IF c = c1 THEN q ELSE None] : q \in MCQuestion}
    \cup {[c \in Call |-> IF c = c1 THEN Example ELSE Lookup]}
    \cup {[c \in Call |-> IF c = c3 THEN None ELSE Example]}
=============================================================================
