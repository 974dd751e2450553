------------------------------ MODULE Formula ------------------------------
(***************************************************************************)
(* The formula language of z3.prove and z3.satisfy: the gate that admits a *)
(* formula, its translation for the solver, and, apart from both, what a   *)
(* reader takes it to mean.                                                *)
(*                                                                         *)
(* A formula is a tree of records.  A term of the solver is its sort and   *)
(* its value under every assignment of the declared names; a real variable *)
(* is sampled at integers, and division is left out.                       *)
(***************************************************************************)
EXTENDS Integers, Sequences, FiniteSets

CONSTANT Parts  \* the formulas that are put to the solver, and all they are made of

\* The declared variables and the values they are tried at.
Sort == [x |-> "int", y |-> "real", p |-> "bool", q |-> "bool"]
Assign == [x : -1..2, y : {0, 2}, p : BOOLEAN, q : BOOLEAN]

Num(v) == [k |-> "num", v |-> v]
Name(id) == [k |-> "name", id |-> id]
Lit(b) == [k |-> "bool", is |-> b]
Neg(n) == [k |-> "neg", n |-> n]
Bin(op, l, r) == [k |-> "bin", op |-> op, l |-> l, r |-> r]
Cmp(args, ops) == [k |-> "cmp", args |-> args, ops |-> ops]
Junction(op, args) == [k |-> "junction", op |-> op, args |-> args]
Not(n) == [k |-> "not", n |-> n]
Apply(f, args) == [k |-> "call", f |-> f, args |-> args]
Odd(what) == [k |-> what]  \* a float, a string, an attribute, a lambda...

\* a op1 b op2 c as it is typed, with no parentheses.
Typed(a, op1, b, op2, c) ==
  [k |-> "typed", a |-> a, op1 |-> op1, b |-> b, op2 |-> op2, c |-> c]

Connectives == {"And", "Or", "Not", "Implies", "Xor", "Equivalent", "Iff"}
Quantifiers == {"ForAll", "Exists"}
Powers == {"**", "^"}

\* How tightly an operator binds, for ast.parse; and once convert_xor has made ** of ^.
PythonBinds == [op \in {"+", "-", "*", "**", "^"} |->
  CASE op = "^" -> 1 [] op \in {"+", "-"} -> 2 [] op = "*" -> 3 [] OTHER -> 4]
PowerBinds == [PythonBinds EXCEPT !["^"] = 4]

Tree(t, binds) ==
  IF binds[t.op1] > binds[t.op2] \/ (binds[t.op1] = binds[t.op2] /\ t.op1 \notin Powers)
  THEN Bin(t.op2, Bin(t.op1, t.a, t.b), t.c)
  ELSE Bin(t.op1, t.a, Bin(t.op2, t.b, t.c))

\* ast.parse.
Parsed(n) == IF n.k = "typed" THEN Tree(n, PythonBinds) ELSE n

-----------------------------------------------------------------------------
Children(n) ==
  CASE n.k \in {"neg", "not"} -> <<n.n>>
    [] n.k = "bin" -> <<n.l, n.r>>
    [] n.k \in {"cmp", "junction", "call"} -> n.args
    [] OTHER -> <<>>

\* The parts of a formula, however its text is read.
Pieces(n) ==
  LET readings == IF n.k = "typed" THEN {Tree(n, PythonBinds), Tree(n, PowerBinds)} ELSE {n}
  IN UNION {{Children(m)[i] : i \in DOMAIN Children(m)} : m \in readings}

ASSUME FormulaAssumption == \A n \in Parts : Pieces(n) \subseteq Parts

\* Every node of the tree.
Nodes[n \in Parts] ==
  LET m == Parsed(n)
  IN {m} \cup UNION {Nodes[Children(m)[i]] : i \in DOMAIN Children(m)}

MaxExponent == 1000

\* _parse_formula_ast: only the listed nodes and functions; no huge exponent and no tower of
\* numeric powers.
Admits(n) ==
  \A m \in Nodes[n] :
    /\ m.k \in {"num", "bool", "name", "neg", "bin", "cmp", "junction", "not", "call"}
    /\ m.k = "call" => m.f \in Connectives \cup Quantifiers
    /\ m.k = "bin" /\ m.op \in Powers =>
         LET inner == Nodes[m.r]
         IN /\ Parsed(m.r).k = "num" => Parsed(m.r).v <= MaxExponent
            /\ \/ \A e \in inner : ~(e.k = "bin" /\ e.op \in Powers)
               \/ \E e \in inner : e.k = "name"

\* _is_bool_root: shaped like a formula, not like a bare arithmetic expression.
BoolRoot(n) == n.k \in {"cmp", "junction", "not", "call", "name", "bool"}

\* assert_formula_shape.
WellShaped(n) == Admits(n) /\ BoolRoot(Parsed(n))

-----------------------------------------------------------------------------
Ill == [sort |-> "ill"]
Denotes(s, f) == [sort |-> s, of |-> f]
Arithmetic(t) == t.sort \in {"int", "real"}

\* _align_sorts: an int meets a real as a real.
Aligned(l, r) == IF "real" \in {l.sort, r.sort} THEN "real" ELSE "int"

\* v to the e-th.
Power(v, e) ==
  LET pow[i \in 0..e] == IF i = 0 THEN 1 ELSE v * pow[i - 1] IN pow[e]

Applied(op, v, w) ==
  CASE op = "+" -> v + w [] op = "-" -> v - w [] op = "*" -> v * w [] OTHER -> Power(v, w)

Compared(op, v, w) ==
  CASE op = "==" -> v = w [] op = "!=" -> v # w [] op = "<" -> v < w
    [] op = "<=" -> v <= w [] op = ">" -> v > w [] OTHER -> v >= w

\* _arith_ast_to_z3, from what the parts denote: only a literal exponent.
Arith(n, part) ==
  IF \E i \in DOMAIN part : ~Arithmetic(part[i]) THEN Ill
  ELSE CASE n.k = "num" -> Denotes("int", [a \in Assign |-> n.v])
         [] n.k = "neg" -> Denotes(part[1].sort, [a \in Assign |-> -part[1].of[a]])
         [] n.k = "bin" /\ n.op \in Powers ->
              IF n.r.k # "num" THEN Ill
              ELSE Denotes(part[1].sort, [a \in Assign |-> Power(part[1].of[a], n.r.v)])
         [] OTHER ->
              Denotes(Aligned(part[1], part[2]),
                      [a \in Assign |-> Applied(n.op, part[1].of[a], part[2].of[a])])

\* _bool_shaped: must this side of a comparison be read as a boolean?
BoolShaped(n) ==
  \/ n.k \in {"cmp", "junction", "not", "call", "bool"}
  \/ n.k = "name" /\ n.id \in DOMAIN Sort /\ Sort[n.id] = "bool"

\* The connectives as the solver's constructors take them.
Connective(f, args, a) ==
  CASE f = "And" -> \A i \in 1..Len(args) : args[i].of[a]
    [] f = "Or" -> \E i \in 1..Len(args) : args[i].of[a]
    [] f = "Not" -> ~args[1].of[a]
    [] f = "Implies" -> args[1].of[a] => args[2].of[a]
    [] f = "Xor" -> args[1].of[a] # args[2].of[a]
    [] OTHER -> args[1].of[a] = args[2].of[a]

Arity(f) ==
  CASE f \in {"And", "Or"} -> 1..8 [] f = "Not" -> {1} [] OTHER -> {2}

\* The assignments that differ from a in the binders only.
Variants(a, binders) == {b \in Assign : \A v \in DOMAIN Sort \ binders : b[v] = a[v]}

\* _quantifier_ast_to_z3: ForAll(x, y, body); each binder is a declared name, used once.
Quantified(n, part) ==
  LET last == Len(n.args)
      names == {n.args[i] : i \in 1..(last - 1)}
      binders == {m.id : m \in names}
      body == part[last]
  IN IF \/ last < 2
        \/ \E m \in names : m.k # "name" \/ m.id \notin DOMAIN Sort
        \/ Cardinality(names) < last - 1
        \/ body.sort # "bool"
     THEN Ill
     ELSE Denotes("bool", [a \in Assign |->
            IF n.f = "ForAll" THEN \A b \in Variants(a, binders) : body.of[b]
            ELSE \E b \in Variants(a, binders) : body.of[b]])

\* One link of a chain: booleans are compared for equality only, and with booleans only.
Link(op, left, right, l, r) ==
  LET boolean == BoolShaped(left) \/ BoolShaped(right)
      fits(t) == IF boolean THEN t.sort = "bool" ELSE Arithmetic(t)
  IN IF ~fits(l) \/ ~fits(r) \/ (boolean /\ op \notin {"==", "!="}) THEN Ill
     ELSE Denotes("bool", [a \in Assign |-> Compared(op, l.of[a], r.of[a])])

\* _compare_ast_to_z3: a chain of comparisons is the conjunction of its links.
Comparison(n, part) ==
  LET links == [i \in 1..Len(n.ops) |->
                  Link(n.ops[i], n.args[i], n.args[i + 1], part[i], part[i + 1])]
  IN IF \E i \in DOMAIN links : links[i].sort = "ill" THEN Ill
     ELSE Denotes("bool", [a \in Assign |-> \A i \in DOMAIN links : links[i].of[a]])

\* The connective that a node applies.
Applies(n) == CASE n.k = "not" -> "Not" [] n.k = "call" -> n.f [] OTHER -> n.op

\* _formula_ast_to_z3, from what the parts denote.
Boolean(n, part) ==
  CASE n.k = "bool" -> Denotes("bool", [a \in Assign |-> n.is])
    [] n.k = "cmp" -> Comparison(n, part)
    [] n.k = "call" /\ n.f \in Quantifiers -> Quantified(n, part)
    [] n.k \in {"not", "junction"} \/ (n.k = "call" /\ n.f \in Connectives) ->
         IF \/ Len(part) \notin Arity(Applies(n))
            \/ \E i \in DOMAIN part : part[i].sort # "bool"
         THEN Ill
         ELSE Denotes("bool", [a \in Assign |-> Connective(Applies(n), part, a)])
    [] OTHER -> Ill

\* The term of a node: a name is a variable of its sort, any other node is made of its parts.
Built(m, part) ==
  CASE m.k = "name" ->
         IF m.id \in DOMAIN Sort THEN Denotes(Sort[m.id], [a \in Assign |-> a[m.id]]) ELSE Ill
    [] m.k \in {"num", "neg", "bin"} -> Arith(m, part)
    [] OTHER -> Boolean(m, part)

Term[n \in Parts] ==
  LET m == Parsed(n)
  IN Built(m, [i \in DOMAIN Children(m) |-> Term[Children(m)[i]]])

\* formula_to_z3.
ForSolver(n) == IF WellShaped(n) /\ Term[n].sort = "bool" THEN Term[n] ELSE Ill

-----------------------------------------------------------------------------
(* What a reader takes a formula to mean: ^ is a power like **, a chain is *)
(* pairwise, a quantified name is any value of its sort.                   *)

Taken(n) == IF n.k = "typed" THEN Tree(n, PowerBinds) ELSE n

\* The value of a node under an assignment, from what its parts mean.
Meaning(m, part, a) ==
  LET last == Len(part)
      trues == {i \in 1..last : part[i][a]}
  IN CASE m.k = "num" -> m.v
       [] m.k = "bool" -> m.is
       [] m.k = "name" -> a[m.id]
       [] m.k = "neg" -> -part[1][a]
       [] m.k = "bin" -> Applied(m.op, part[1][a], part[2][a])
       [] m.k = "cmp" -> \A i \in 1..(last - 1) : Compared(m.ops[i], part[i][a], part[i + 1][a])
       [] m.k = "call" /\ m.f \in Quantifiers ->
            LET bs == {b \in Assign : \A v \in DOMAIN Sort :
                         b[v] = a[v] \/ \E i \in 1..(last - 1) : m.args[i].id = v}
            IN IF m.f = "ForAll" THEN \A b \in bs : part[last][b] ELSE \E b \in bs : part[last][b]
       [] OTHER ->
            LET f == IF m.k = "not" THEN "Not" ELSE IF m.k = "call" THEN m.f ELSE m.op
            IN CASE f = "And" -> trues = 1..last
                 [] f = "Or" -> trues # {}
                 [] f = "Not" -> trues = {}
                 [] f = "Implies" -> 1 \in trues => 2 \in trues
                 [] f = "Xor" -> Cardinality(trues) = 1
                 [] OTHER -> Cardinality(trues) # 1

Reads[n \in Parts] ==
  LET m == Taken(n)
      part == [i \in DOMAIN Children(m) |-> Reads[Children(m)[i]]]
  IN [a \in Assign |-> Meaning(m, part, a)]

Holds(n, a) == Reads[n][a]

\* Every formula is deeper than its pieces.
Layered(depth) ==
  /\ depth \in [Parts -> Nat]
  /\ \A n \in Parts : \A m \in Pieces(n) : depth[m] < depth[n]

\* Formulas as the parser makes them, in which ^ is no trap.
Legible(n) ==
  /\ n.k = "typed" => Parsed(n) = Taken(n)
  /\ n.k = "bool" => n.is \in BOOLEAN
  /\ n.k \in {"cmp", "junction", "call"} => n.args \in Seq(Parts)
  /\ n.k = "cmp" => n.ops \in Seq({"==", "!=", "<", "<=", ">", ">="})
                     /\ Len(n.args) = Len(n.ops) + 1
=============================================================================
