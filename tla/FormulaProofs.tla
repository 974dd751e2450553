---------------------------- MODULE FormulaProofs ----------------------------
(***************************************************************************)
(* What the solver is given is what a reader understands: wherever a       *)
(* formula has a term, the term is true under the assignments under which  *)
(* the formula holds.                                                      *)
(*                                                                         *)
(* Term and Reads are recursive functions over formulas.  A recursive      *)
(* function is a CHOICE of one that fits its equation, so the first half   *)
(* builds one, layer upon layer of depth (WalkExists); the second goes     *)
(* over the kinds of nodes (TermSays).                                     *)
(***************************************************************************)
EXTENDS Formula, FiniteSetTheorems, WellFoundedInduction, TLAPS

-----------------------------------------------------------------------------
(* Formulas, from the leaves up.                                           *)

\* Term and Reads are two walks of one shape: the node a formula is taken for, and its value
\* from the values of its parts.
Node(walk, n) == IF walk = "solver" THEN Parsed(n) ELSE Taken(n)
Value(walk, n, part) ==
  IF walk = "solver" THEN Built(Parsed(n), part)
  ELSE [a \in Assign |-> Meaning(Taken(n), part, a)]
Valued(walk, n, f) ==
  [i \in DOMAIN Children(Node(walk, n)) |-> f[Children(Node(walk, n))[i]]]

\* f is the walk on the formulas of D.
Walks(walk, f, D) == f = [n \in D |-> Value(walk, n, Valued(walk, n, f))]

\* The walk on the formulas that are less deep than d.
Below(depth, d) == {n \in Parts : depth[n] < d}
Walked(walk, depth, d) == CHOOSE f : Walks(walk, f, Below(depth, d))

LEMMA Shallowest ==
  ASSUME NEW depth, Layered(depth), NEW S \in SUBSET Parts, S # {}
  PROVE  \E n \in S : \A m \in S : depth[n] <= depth[m]
<1> DEFINE D == {depth[n] : n \in S}
<1>1. D \subseteq Nat /\ D # {}
  BY DEF Layered
<1>2. PICK d \in D : \A e \in D : ~(<<e, d>> \in OpToRel(<, Nat))
  <2> HIDE DEF D
  <2> QED
    BY <1>1, NatLessThanWellFounded, WFMin
<1>3. \A e \in D : d <= e
  <2> HIDE DEF D
  <2> SUFFICES ASSUME NEW e \in D, ~(d <= e) PROVE FALSE
    OBVIOUS
  <2>1. d \in Nat /\ e \in Nat /\ e < d
    BY <1>1
  <2>2. <<e, d>> \in OpToRel(<, Nat)
    BY <2>1 DEF OpToRel
  <2> QED
    BY <1>2, <2>2
<1> QED
  BY <1>3

\* The parts of a formula are formulas, and less deep.
LEMMA PartsBelow ==
  ASSUME NEW depth, Layered(depth), NEW walk, NEW n \in Parts,
         NEW i \in DOMAIN Children(Node(walk, n))
  PROVE  /\ Children(Node(walk, n))[i] \in Parts
         /\ depth[Children(Node(walk, n))[i]] < depth[n]
<1>1. Children(Node(walk, n))[i] \in Pieces(n)
  <2> DEFINE readings == IF n.k = "typed" THEN {Tree(n, PythonBinds), Tree(n, PowerBinds)}
                         ELSE {n}
  <2>1. Node(walk, n) \in readings
    BY DEF Node, Parsed, Taken
  <2>2. Pieces(n) = UNION {{Children(m)[j] : j \in DOMAIN Children(m)} : m \in readings}
    BY DEF Pieces
  <2> HIDE DEF readings
  <2> QED
    BY <2>1, <2>2
<1> QED
  BY <1>1, FormulaAssumption DEF Layered

\* Values of parts are the same where the functions are.
LEMMA SameValued ==
  ASSUME NEW walk, NEW n, NEW f, NEW g,
         \A i \in DOMAIN Children(Node(walk, n)) :
           f[Children(Node(walk, n))[i]] = g[Children(Node(walk, n))[i]]
  PROVE  Valued(walk, n, f) = Valued(walk, n, g)
BY DEF Valued

LEMMA WalkedBelow ==
  ASSUME NEW depth, Layered(depth), NEW walk, NEW d \in Nat
  PROVE  Walks(walk, Walked(walk, depth, d), Below(depth, d))
<1> DEFINE good(e) == Walks(walk, Walked(walk, depth, e), Below(depth, e))
           bad == {e \in Nat : ~good(e)}
<1>1. \A e \in Nat : (\E f : Walks(walk, f, Below(depth, e))) => good(e)
  BY DEF Walked
<1>2. good(0)
  <2>1. Below(depth, 0) = {}
    BY DEF Below, Layered
  <2> DEFINE f == [n \in {} |-> 0]
  <2>2. Walks(walk, f, {})
    BY DEF Walks
  <2> QED
    BY <1>1, <2>1, <2>2
<1>3. ASSUME NEW e \in Nat, good(e)
      PROVE  good(e + 1)
  <2> DEFINE h == Walked(walk, depth, e)
             f == [n \in Below(depth, e + 1) |-> Value(walk, n, Valued(walk, n, h))]
  <2>1. Walks(walk, h, Below(depth, e))
    BY <1>3
  <2> HIDE DEF h
  <2>2. \A n \in Below(depth, e) : f[n] = h[n]
    <3>1. \A n \in Below(depth, e) : n \in Below(depth, e + 1)
      BY DEF Below, Layered
    <3>2. \A n \in Below(depth, e) : h[n] = Value(walk, n, Valued(walk, n, h))
      BY <2>1 DEF Walks
    <3> QED
      BY <3>1, <3>2
  <2>3. ASSUME NEW n \in Below(depth, e + 1)
        PROVE  Valued(walk, n, f) = Valued(walk, n, h)
    <3>1. ASSUME NEW i \in DOMAIN Children(Node(walk, n))
          PROVE  Children(Node(walk, n))[i] \in Below(depth, e)
      <4>1. n \in Parts /\ depth[n] \in Nat /\ depth[n] < e + 1
        BY <2>3 DEF Below, Layered
      <4>2. /\ Children(Node(walk, n))[i] \in Parts
            /\ depth[Children(Node(walk, n))[i]] < depth[n]
        BY <4>1, PartsBelow
      <4>3. depth[Children(Node(walk, n))[i]] \in Nat
        BY <4>2 DEF Layered
      <4> QED
        BY <4>1, <4>2, <4>3 DEF Below
    <3> HIDE DEF f
    <3> QED
      BY <2>2, <3>1, SameValued
  <2>4. f = [n \in Below(depth, e + 1) |-> Value(walk, n, Valued(walk, n, f))]
    <3> DEFINE g == [n \in Below(depth, e + 1) |-> Value(walk, n, Valued(walk, n, f))]
    <3>1. \A n \in Below(depth, e + 1) : f[n] = g[n]
      BY <2>3
    <3> QED
      BY <3>1
  <2>5. Walks(walk, f, Below(depth, e + 1))
    BY <2>4 DEF Walks
  <2> QED
    BY <1>1, <2>5
<1> HIDE DEF good
<1>4. ASSUME bad # {} PROVE FALSE
  <2>1. PICK e \in bad : \A x \in bad : ~(<<x, e>> \in OpToRel(<, Nat))
    <3>1. bad \subseteq Nat
      OBVIOUS
    <3> HIDE DEF bad
    <3> QED
      BY <1>4, <3>1, NatLessThanWellFounded, WFMin
  <2>2. e # 0
    BY <1>2
  <2>3. e - 1 \in Nat /\ e - 1 < e
    BY <2>2
  <2>4. e - 1 \notin bad
    BY <2>1, <2>3 DEF OpToRel
  <2>5. good(e - 1)
    BY <2>3, <2>4
  <2>6. good((e - 1) + 1)
    BY <1>3, <2>3, <2>5
  <2> QED
    BY <2>6
<1> QED
  BY <1>4 DEF good

\* A formula has one value, however deep the walk that gave it.
LEMMA OneValue ==
  ASSUME NEW depth, Layered(depth), NEW walk, NEW n \in Parts, NEW d \in Nat, NEW e \in Nat,
         depth[n] < d, depth[n] < e
  PROVE  Walked(walk, depth, d)[n] = Walked(walk, depth, e)[n]
<1> DEFINE W(k) == Walked(walk, depth, k)
           agree(m) == \A j, k \in Nat : depth[m] < j /\ depth[m] < k => W(j)[m] = W(k)[m]
           bad == {m \in Parts : ~agree(m)}
<1>1. SUFFICES ASSUME bad # {} PROVE FALSE
  OBVIOUS
<1>2. PICK m \in bad : \A o \in bad : depth[m] <= depth[o]
  <2>1. bad \in SUBSET Parts
    OBVIOUS
  <2> HIDE DEF bad
  <2> QED
    BY <1>1, <2>1, Shallowest
<1>3. PICK j \in Nat, k \in Nat : depth[m] < j /\ depth[m] < k /\ W(j)[m] # W(k)[m]
  OBVIOUS
<1>4. \A x \in Nat : depth[m] < x => W(x)[m] = Value(walk, m, Valued(walk, m, W(x)))
  <2> SUFFICES ASSUME NEW x \in Nat, depth[m] < x
               PROVE  W(x)[m] = Value(walk, m, Valued(walk, m, W(x)))
    OBVIOUS
  <2>1. Walks(walk, W(x), Below(depth, x))
    BY WalkedBelow
  <2>2. m \in Below(depth, x)
    BY DEF Below
  <2> HIDE DEF W
  <2> QED
    BY <2>1, <2>2 DEF Walks
<1>5. \A i \in DOMAIN Children(Node(walk, m)) :
        W(j)[Children(Node(walk, m))[i]] = W(k)[Children(Node(walk, m))[i]]
  <2> SUFFICES ASSUME NEW i \in DOMAIN Children(Node(walk, m))
               PROVE  W(j)[Children(Node(walk, m))[i]] = W(k)[Children(Node(walk, m))[i]]
    OBVIOUS
  <2> DEFINE c == Children(Node(walk, m))[i]
  <2>1. c \in Parts /\ depth[c] < depth[m]
    BY PartsBelow
  <2>2. depth[c] \in Nat /\ depth[m] \in Nat
    BY <2>1 DEF Layered
  <2> HIDE DEF c
  <2>3. c \notin bad
    BY <1>2, <2>1, <2>2
  <2>4. agree(c)
    BY <2>1, <2>3
  <2>5. W(j)[c] = W(k)[c]
    BY <1>3, <2>1, <2>2, <2>4
  <2> QED
    BY <2>5 DEF c
<1>6. Valued(walk, m, W(j)) = Valued(walk, m, W(k))
  <2> HIDE DEF W
  <2> QED
    BY <1>5, SameValued
<1> QED
  BY <1>3, <1>4, <1>6

\* There is a function that walks all formulas.
LEMMA WalkExists ==
  ASSUME NEW depth, Layered(depth), NEW walk
  PROVE  \E f : Walks(walk, f, Parts)
<1> DEFINE W(k) == Walked(walk, depth, k)
           f == [n \in Parts |-> W(depth[n] + 1)[n]]
<1>1. ASSUME NEW n \in Parts
      PROVE  f[n] = Value(walk, n, Valued(walk, n, f))
  <2>1. depth[n] \in Nat /\ depth[n] + 1 \in Nat
    BY DEF Layered
  <2>2. W(depth[n] + 1)[n] = Value(walk, n, Valued(walk, n, W(depth[n] + 1)))
    <3>1. Walks(walk, W(depth[n] + 1), Below(depth, depth[n] + 1))
      BY <2>1, WalkedBelow
    <3>2. n \in Below(depth, depth[n] + 1)
      BY <2>1 DEF Below
    <3> HIDE DEF W
    <3> QED
      BY <3>1, <3>2 DEF Walks
  <2>3. \A i \in DOMAIN Children(Node(walk, n)) :
          W(depth[n] + 1)[Children(Node(walk, n))[i]] = f[Children(Node(walk, n))[i]]
    <3> SUFFICES ASSUME NEW i \in DOMAIN Children(Node(walk, n))
                 PROVE  W(depth[n] + 1)[Children(Node(walk, n))[i]]
                          = f[Children(Node(walk, n))[i]]
      OBVIOUS
    <3> DEFINE c == Children(Node(walk, n))[i]
    <3>1. c \in Parts /\ depth[c] < depth[n]
      BY PartsBelow
    <3>2. depth[c] \in Nat /\ depth[c] < depth[n] + 1 /\ depth[c] < depth[c] + 1
      BY <2>1, <3>1 DEF Layered
    <3> HIDE DEF c
    <3>3. W(depth[n] + 1)[c] = W(depth[c] + 1)[c]
      BY <2>1, <3>1, <3>2, OneValue
    <3> QED
      BY <3>1, <3>3 DEF c
  <2>4. Valued(walk, n, W(depth[n] + 1)) = Valued(walk, n, f)
    <3> HIDE DEF W, f
    <3> QED
      BY <2>3, SameValued
  <2> QED
    BY <2>2, <2>4
<1>2. f = [n \in Parts |-> Value(walk, n, Valued(walk, n, f))]
  <2> DEFINE g == [n \in Parts |-> Value(walk, n, Valued(walk, n, f))]
  <2>1. \A n \in Parts : f[n] = g[n]
    BY <1>1
  <2> QED
    BY <2>1
<1> QED
  BY <1>2 DEF Walks

\* The two recursive functions are what their definitions say.
LEMMA TermWalks ==
  ASSUME NEW depth, Layered(depth), NEW n \in Parts
  PROVE  Term[n] = Built(Parsed(n), [i \in DOMAIN Children(Parsed(n)) |->
                                       Term[Children(Parsed(n))[i]]])
<1>1. PICK f : Walks("solver", f, Parts)
  BY WalkExists
<1>2. f = [m \in Parts |-> Built(Parsed(m), [i \in DOMAIN Children(Parsed(m)) |->
                                              f[Children(Parsed(m))[i]]])]
  BY <1>1 DEF Walks, Value, Valued, Node
<1>3. Term = [m \in Parts |-> Built(Parsed(m), [i \in DOMAIN Children(Parsed(m)) |->
                                                 Term[Children(Parsed(m))[i]]])]
  BY <1>2, Zenon DEF Term
<1> QED
  BY <1>3

LEMMA ReadsWalks ==
  ASSUME NEW depth, Layered(depth), NEW n \in Parts, NEW a \in Assign
  PROVE  Reads[n][a] = Meaning(Taken(n), [i \in DOMAIN Children(Taken(n)) |->
                                            Reads[Children(Taken(n))[i]]], a)
<1>1. PICK f : Walks("reader", f, Parts)
  BY WalkExists
<1>2. f = [m \in Parts |-> [b \in Assign |->
             Meaning(Taken(m), [i \in DOMAIN Children(Taken(m)) |-> f[Children(Taken(m))[i]]], b)]]
  BY <1>1 DEF Walks, Value, Valued, Node
<1>3. Reads = [m \in Parts |-> [b \in Assign |->
             Meaning(Taken(m), [i \in DOMAIN Children(Taken(m)) |->
                                  Reads[Children(Taken(m))[i]]], b)]]
  BY <1>2, Zenon DEF Reads
<1>4. Reads[n] = [b \in Assign |->
             Meaning(Taken(n), [i \in DOMAIN Children(Taken(n)) |->
                                  Reads[Children(Taken(n))[i]]], b)]
  BY <1>3, Zenon
<1> QED
  BY <1>4, Zenon

-----------------------------------------------------------------------------
(* What the solver is given is what a reader understands.                  *)

\* The terms t and the values r of the parts of node m are those of one another.
Parallel(m, t, r) ==
  /\ t = [i \in DOMAIN Children(m) |-> t[i]]
  /\ r = [i \in DOMAIN Children(m) |-> r[i]]
  /\ \A i \in DOMAIN Children(m) : t[i].sort # "ill" =>
       \A a \in Assign : /\ t[i].of[a] = r[i][a]
                         /\ t[i].sort = "bool" => t[i].of[a] \in BOOLEAN

\* The term u of node m has the value that its parts' values r give it.
Says(u, m, r) ==
  u.sort # "ill" =>
    \A a \in Assign : /\ u.of[a] = Meaning(m, r, a)
                      /\ u.sort = "bool" => u.of[a] \in BOOLEAN

LEMMA Denoted ==
  ASSUME NEW s, NEW f
  PROVE  Denotes(s, f).sort = s /\ Denotes(s, f).of = f
BY DEF Denotes

LEMMA IllSays == ASSUME NEW m, NEW r PROVE Says(Ill, m, r)
BY DEF Says, Ill

\* A variable.
LEMMA NameSays ==
  ASSUME NEW m, m.k = "name", NEW t, NEW r
  PROVE  Says(Built(m, t), m, r)
<1>1. CASE m.id \in DOMAIN Sort
  <2> DEFINE f == [a \in Assign |-> a[m.id]]
  <2>1. Built(m, t) = Denotes(Sort[m.id], f)
    BY <1>1 DEF Built
  <2>2. Built(m, t).sort = Sort[m.id] /\ Built(m, t).of = f
    BY <2>1, Denoted
  <2>3. \A a \in Assign : Meaning(m, r, a) = a[m.id]
    BY DEF Meaning
  <2>4. Sort[m.id] = "bool" => \A a \in Assign : a[m.id] \in BOOLEAN
    BY <1>1 DEF Sort, Assign
  <2> QED
    BY <2>2, <2>3, <2>4 DEF Says
<1>2. CASE m.id \notin DOMAIN Sort
  BY <1>2, IllSays DEF Built
<1> QED
  BY <1>1, <1>2

\* Numbers, and what is made of them.
LEMMA ArithSays ==
  ASSUME NEW m, m.k \in {"num", "neg", "bin"}, NEW t, NEW r, Parallel(m, t, r),
         m.k = "bin" /\ m.r.k = "num" => \A a \in Assign : r[2][a] = m.r.v
  PROVE  Says(Built(m, t), m, r)
<1>1. Built(m, t) = Arith(m, t)
  BY DEF Built
<1>2. CASE \E i \in DOMAIN t : ~Arithmetic(t[i])
  BY <1>1, <1>2, IllSays DEF Arith
<1>3. CASE m.k = "num"
  <2>1. Children(m) = <<>>
    BY <1>3 DEF Children
  <2>2. DOMAIN t = {}
    BY <2>1 DEF Parallel
  <2>3. Arith(m, t) = Denotes("int", [a \in Assign |-> m.v])
    BY <1>3, <2>2 DEF Arith
  <2> QED
    BY <1>1, <1>3, <2>3, Denoted DEF Says, Meaning
<1>4. CASE m.k = "neg" /\ \A i \in DOMAIN t : Arithmetic(t[i])
  <2>1. DOMAIN Children(m) = {1}
    BY <1>4 DEF Children
  <2>2. DOMAIN t = {1}
    BY <2>1 DEF Parallel
  <2>3. Arith(m, t) = Denotes(t[1].sort, [a \in Assign |-> -t[1].of[a]])
    BY <1>4 DEF Arith
  <2>4. t[1].sort \in {"int", "real"}
    BY <1>4, <2>2 DEF Arithmetic
  <2>5. \A a \in Assign : t[1].of[a] = r[1][a]
    BY <2>1, <2>4 DEF Parallel
  <2>6. \A a \in Assign : Meaning(m, r, a) = -r[1][a]
    BY <1>4 DEF Meaning
  <2> QED
    BY <1>1, <2>3, <2>4, <2>5, <2>6, Denoted DEF Says
<1>5. CASE m.k = "bin" /\ \A i \in DOMAIN t : Arithmetic(t[i])
  <2>1. DOMAIN Children(m) = {1, 2}
    BY <1>5 DEF Children
  <2>2. DOMAIN t = {1, 2}
    BY <2>1 DEF Parallel
  <2>3. t[1].sort \in {"int", "real"} /\ t[2].sort \in {"int", "real"}
    BY <1>5, <2>2 DEF Arithmetic
  <2>4. \A a \in Assign : t[1].of[a] = r[1][a] /\ t[2].of[a] = r[2][a]
    BY <2>1, <2>3 DEF Parallel
  <2>5. \A a \in Assign : Meaning(m, r, a) = Applied(m.op, r[1][a], r[2][a])
    BY <1>5 DEF Meaning
  <2>6. CASE m.op \in Powers /\ m.r.k # "num"
    BY <1>1, <1>5, <2>6, IllSays DEF Arith
  <2>7. CASE m.op \in Powers /\ m.r.k = "num"
    <3>1. Arith(m, t) = Denotes(t[1].sort, [a \in Assign |-> Power(t[1].of[a], m.r.v)])
      BY <1>5, <2>7 DEF Arith
    <3>2. \A v, w : Applied(m.op, v, w) = Power(v, w)
      BY <2>7 DEF Applied, Powers
    <3>3. \A a \in Assign : Meaning(m, r, a) = Power(t[1].of[a], m.r.v)
      <4> SUFFICES ASSUME NEW a \in Assign
                   PROVE  Meaning(m, r, a) = Power(t[1].of[a], m.r.v)
        OBVIOUS
      <4>1. r[1][a] = t[1].of[a] /\ r[2][a] = m.r.v
        BY <1>5, <2>4, <2>7
      <4>2. Meaning(m, r, a) = Applied(m.op, r[1][a], r[2][a])
        BY <2>5
      <4> QED
        BY <3>2, <4>1, <4>2
    <3> QED
      BY <1>1, <2>3, <3>1, <3>3, Denoted DEF Says
  <2>8. CASE m.op \notin Powers
    <3>1. Arith(m, t) = Denotes(Aligned(t[1], t[2]),
                                [a \in Assign |-> Applied(m.op, t[1].of[a], t[2].of[a])])
      BY <1>5, <2>8 DEF Arith
    <3>2. Aligned(t[1], t[2]) # "bool"
      BY DEF Aligned
    <3>3. \A a \in Assign : Meaning(m, r, a) = Applied(m.op, t[1].of[a], t[2].of[a])
      BY <2>4, <2>5
    <3> QED
      BY <1>1, <3>1, <3>2, <3>3, Denoted DEF Says
  <2> QED
    BY <2>6, <2>7, <2>8
<1> QED
  BY <1>2, <1>3, <1>4, <1>5

\* A chain of comparisons.
LEMMA CmpSays ==
  ASSUME NEW m, m.k = "cmp", m.args \in Seq(Parts), m.ops \in Seq({"==", "!=", "<", "<=", ">", ">="}),
         Len(m.args) = Len(m.ops) + 1, NEW t, NEW r, Parallel(m, t, r)
  PROVE  Says(Built(m, t), m, r)
<1> DEFINE links == [i \in 1..Len(m.ops) |->
                       Link(m.ops[i], m.args[i], m.args[i + 1], t[i], t[i + 1])]
           f == [a \in Assign |-> \A i \in DOMAIN links : links[i].of[a]]
<1>1. Built(m, t) = Comparison(m, t)
  BY DEF Built, Boolean
<1>2. CASE \E i \in DOMAIN links : links[i].sort = "ill"
  <2>1. Comparison(m, t) = Ill
    BY <1>2 DEF Comparison
  <2> QED
    BY <1>1, <2>1, IllSays
<1>3. CASE ~ \E i \in DOMAIN links : links[i].sort = "ill"
  <2>1. Comparison(m, t) = Denotes("bool", f)
    BY <1>3 DEF Comparison
  <2>2. DOMAIN Children(m) = 1..Len(m.args) /\ Len(m.ops) \in Nat /\ Len(m.args) \in Nat
    BY DEF Children
  <2>3. Len(r) = Len(m.args)
    <3>1. r = [i \in 1..Len(m.args) |-> r[i]]
      BY <2>2 DEF Parallel
    <3> QED
      BY <2>2, <3>1
  <2>4. ASSUME NEW i \in 1..Len(m.ops), NEW a \in Assign
        PROVE  links[i].of[a] = Compared(m.ops[i], r[i][a], r[i + 1][a])
    <3>1. Link(m.ops[i], m.args[i], m.args[i + 1], t[i], t[i + 1]).sort # "ill"
      BY <1>3
    <3>2. /\ t[i].sort # "ill" /\ t[i + 1].sort # "ill"
          /\ Link(m.ops[i], m.args[i], m.args[i + 1], t[i], t[i + 1]).of
               = [b \in Assign |-> Compared(m.ops[i], t[i].of[b], t[i + 1].of[b])]
      <4> DEFINE boolean == BoolShaped(m.args[i]) \/ BoolShaped(m.args[i + 1])
                 fits(u) == IF boolean THEN u.sort = "bool" ELSE Arithmetic(u)
                 wrong == ~fits(t[i]) \/ ~fits(t[i + 1])
                            \/ (boolean /\ m.ops[i] \notin {"==", "!="})
                 values == [b \in Assign |-> Compared(m.ops[i], t[i].of[b], t[i + 1].of[b])]
      <4>1. Link(m.ops[i], m.args[i], m.args[i + 1], t[i], t[i + 1])
              = IF wrong THEN Ill ELSE Denotes("bool", values)
        BY DEF Link
      <4>2. ~wrong
        <5> HIDE DEF wrong, values
        <5> QED
          BY <3>1, <4>1 DEF Ill
      <4>3. Link(m.ops[i], m.args[i], m.args[i + 1], t[i], t[i + 1]).of = values
        <5> HIDE DEF wrong, values
        <5> QED
          BY <4>1, <4>2, Denoted
      <4>4. \A u : fits(u) => u.sort # "ill"
        <5> HIDE DEF boolean
        <5> QED
          BY DEF Arithmetic
      <4>5. fits(t[i]) /\ fits(t[i + 1])
        BY <4>2
      <4> HIDE DEF fits
      <4> QED
        BY <4>3, <4>4, <4>5
    <3>3. i \in DOMAIN Children(m) /\ i + 1 \in DOMAIN Children(m)
      BY <2>2
    <3>4. t[i].of[a] = r[i][a] /\ t[i + 1].of[a] = r[i + 1][a]
      BY <3>2, <3>3 DEF Parallel
    <3>5. links[i].of[a] = Compared(m.ops[i], t[i].of[a], t[i + 1].of[a])
      BY <3>2
    <3> QED
      BY <3>4, <3>5
  <2>5. ASSUME NEW a \in Assign
        PROVE  f[a] = Meaning(m, r, a)
    <3>1. f[a] = \A i \in 1..Len(m.ops) : links[i].of[a]
      OBVIOUS
    <3>2. Meaning(m, r, a)
            = \A i \in 1..(Len(r) - 1) : Compared(m.ops[i], r[i][a], r[i + 1][a])
      BY DEF Meaning
    <3>3. Len(r) - 1 = Len(m.ops)
      BY <2>2, <2>3
    <3> HIDE DEF links, f
    <3> QED
      BY <2>4, <3>1, <3>2, <3>3
  <2>6. \A a \in Assign : f[a] \in BOOLEAN
    OBVIOUS
  <2> HIDE DEF f
  <2> QED
    BY <1>1, <2>1, <2>5, <2>6, Denoted DEF Says
<1> QED
  BY <1>2, <1>3

\* True and False.
LEMMA LitSays ==
  ASSUME NEW m, m.k = "bool", m.is \in BOOLEAN, NEW t, NEW r
  PROVE  Says(Built(m, t), m, r)
<1>1. Built(m, t) = Denotes("bool", [a \in Assign |-> m.is])
  BY DEF Built, Boolean
<1>2. \A a \in Assign : Meaning(m, r, a) = m.is
  BY DEF Meaning
<1> QED
  BY <1>1, <1>2, Denoted DEF Says

\* A node applies a connective to formulas.
Connects(m) ==
  m.k \in {"not", "junction"} \/ (m.k = "call" /\ m.f \in Connectives)

\* What the connectives mean, of the set of the parts that are true.
Reading(f, last, trues) ==
  CASE f = "And" -> trues = 1..last
    [] f = "Or" -> trues # {}
    [] f = "Not" -> trues = {}
    [] f = "Implies" -> 1 \in trues => 2 \in trues
    [] f = "Xor" -> Cardinality(trues) = 1
    [] OTHER -> Cardinality(trues) # 1

\* A set of the two parts has one element when it has just one of them.
LEMMA OneOfTwo ==
  ASSUME NEW S \in SUBSET {1, 2}
  PROVE  Cardinality(S) = 1 <=> (1 \in S) # (2 \in S)
<1>1. Cardinality({}) = 0 /\ Cardinality({1}) = 1 /\ Cardinality({2}) = 1
  BY FS_EmptySet, FS_Singleton
<1>2. Cardinality({1, 2}) = 2
  <2>1. IsFiniteSet({1})
    BY FS_Singleton
  <2>2. Cardinality({1} \cup {2}) = Cardinality({1}) + 1
    <3>1. 2 \notin {1}
      OBVIOUS
    <3> QED
      BY <2>1, <3>1, FS_AddElement, Zenon
  <2>3. {1} \cup {2} = {1, 2}
    OBVIOUS
  <2> QED
    BY <1>1, <2>2, <2>3
<1>3. CASE S = {}
  BY <1>1, <1>3
<1>4. CASE S = {1}
  BY <1>1, <1>4
<1>5. CASE S = {2}
  BY <1>1, <1>5
<1>6. CASE S = {1, 2}
  BY <1>2, <1>6
<1> QED
  BY <1>3, <1>4, <1>5, <1>6

\* The solver's connectives, of parts that are true where the readings are.
LEMMA ConnectiveReads ==
  ASSUME NEW f, NEW n \in Nat, n \in Arity(f), NEW t, NEW a, Len(t) = n,
         \A i \in 1..n : t[i].of[a] \in BOOLEAN
  PROVE  Connective(f, t, a) = Reading(f, n, {i \in 1..n : t[i].of[a]})
<1> DEFINE S == {i \in 1..n : t[i].of[a]}
<1>1. \A i \in 1..n : i \in S <=> t[i].of[a]
  OBVIOUS
<1>2. S \subseteq 1..n
  OBVIOUS
<1> HIDE DEF S
<1>3. CASE f = "And"
  <2>1. Connective(f, t, a) = \A i \in 1..n : t[i].of[a]
    BY <1>3 DEF Connective
  <2>2. Reading(f, n, S) = (S = 1..n)
    BY <1>3 DEF Reading
  <2> QED
    BY <1>1, <1>2, <2>1, <2>2 DEF S
<1>4. CASE f = "Or"
  <2>1. Connective(f, t, a) = \E i \in 1..n : t[i].of[a]
    BY <1>4 DEF Connective
  <2>2. Reading(f, n, S) = (S # {})
    BY <1>4 DEF Reading
  <2> QED
    BY <1>1, <1>2, <2>1, <2>2 DEF S
<1>5. CASE f = "Not"
  <2>1. n = 1
    BY <1>5 DEF Arity
  <2>2. Connective(f, t, a) = ~t[1].of[a] /\ Reading(f, n, S) = (S = {})
    BY <1>5 DEF Connective, Reading
  <2>3. S = {} <=> 1 \notin S
    BY <1>2, <2>1
  <2>4. t[1].of[a] \in BOOLEAN /\ (1 \in S <=> t[1].of[a])
    BY <1>1, <2>1
  <2> QED
    BY <2>2, <2>3, <2>4 DEF S
<1>6. CASE f \notin {"And", "Or", "Not"}
  <2>1. n = 2
    BY <1>6 DEF Arity
  <2>2. /\ t[1].of[a] \in BOOLEAN /\ (1 \in S <=> t[1].of[a])
        /\ t[2].of[a] \in BOOLEAN /\ (2 \in S <=> t[2].of[a])
    BY <1>1, <2>1
  <2>3. Cardinality(S) = 1 <=> (1 \in S) # (2 \in S)
    <3>1. S \in SUBSET {1, 2}
      BY <1>2, <2>1
    <3> QED
      BY <3>1, OneOfTwo
  <2>4. CASE f = "Implies"
    BY <2>2, <2>4 DEF Connective, Reading, S
  <2>5. CASE f = "Xor"
    BY <2>2, <2>3, <2>5 DEF Connective, Reading, S
  <2>6. CASE f \notin {"Implies", "Xor"}
    <3>1. Connective(f, t, a) = (t[1].of[a] = t[2].of[a])
      BY <1>6, <2>6 DEF Connective
    <3>2. Reading(f, n, S) = (Cardinality(S) # 1)
      BY <1>6, <2>6 DEF Reading
    <3> QED
      BY <2>2, <2>3, <3>1, <3>2 DEF S
  <2> QED
    BY <2>4, <2>5, <2>6
<1> QED
  BY <1>3, <1>4, <1>5, <1>6

LEMMA ConnectSays ==
  ASSUME NEW m, Connects(m), NEW n \in Nat, DOMAIN Children(m) = 1..n,
         NEW t, NEW r, Parallel(m, t, r)
  PROVE  Says(Built(m, t), m, r)
<1> DEFINE f == Applies(m)
<1>1. m.k \notin {"name", "num", "neg", "bin", "bool", "cmp"}
      /\ ~(m.k = "call" /\ m.f \in Quantifiers)
  BY DEF Connects, Connectives, Quantifiers
<1>2. Built(m, t) = Boolean(m, t)
  BY <1>1 DEF Built
<1>3. Len(t) = n /\ Len(r) = n /\ DOMAIN t = 1..n
  BY DEF Parallel
<1>4. CASE Len(t) \notin Arity(f) \/ \E i \in DOMAIN t : t[i].sort # "bool"
  <2>1. Boolean(m, t) = Ill
    BY <1>1, <1>4 DEF Boolean, Connects
  <2> QED
    BY <1>2, <2>1, IllSays
<1>5. CASE Len(t) \in Arity(f) /\ \A i \in DOMAIN t : t[i].sort = "bool"
  <2>1. Boolean(m, t) = Denotes("bool", [a \in Assign |-> Connective(f, t, a)])
    BY <1>1, <1>5 DEF Boolean, Connects
  <2>2. ASSUME NEW a \in Assign
        PROVE  Connective(f, t, a) = Meaning(m, r, a) /\ Connective(f, t, a) \in BOOLEAN
    <3>1. \A i \in 1..n : t[i].of[a] = r[i][a] /\ t[i].of[a] \in BOOLEAN
      BY <1>3, <1>5 DEF Parallel
    <3>2. Connective(f, t, a) = Reading(f, n, {i \in 1..n : t[i].of[a]})
      <4> HIDE DEF f
      <4> QED
        BY <1>3, <1>5, <3>1, ConnectiveReads
    <3>3. {i \in 1..n : t[i].of[a]} = {i \in 1..n : r[i][a]}
      BY <3>1
    <3>4. Meaning(m, r, a) = Reading(f, n, {i \in 1..n : r[i][a]})
      BY <1>1, <1>3 DEF Meaning, Reading, Connects, Applies
    <3>5. \A S : Reading(f, n, S) \in BOOLEAN
      BY DEF Reading
    <3> QED
      BY <3>2, <3>3, <3>4, <3>5
  <2> QED
    BY <1>2, <2>1, <2>2, Denoted DEF Says
<1> QED
  BY <1>4, <1>5

\* A quantifier ranges over what its names can be.
LEMMA QuantSays ==
  ASSUME NEW m, m.k = "call", m.f \in Quantifiers, m.args \in Seq(Parts),
         NEW t, NEW r, Parallel(m, t, r)
  PROVE  Says(Built(m, t), m, r)
<1> DEFINE last == Len(m.args)
           names == {m.args[i] : i \in 1..(last - 1)}
           binders == {x.id : x \in names}
           body == t[last]
           f == [a \in Assign |->
                   IF m.f = "ForAll" THEN \A b \in Variants(a, binders) : body.of[b]
                   ELSE \E b \in Variants(a, binders) : body.of[b]]
           wrong == \/ last < 2
                    \/ \E x \in names : x.k # "name" \/ x.id \notin DOMAIN Sort
                    \/ Cardinality(names) < last - 1
                    \/ body.sort # "bool"
<1>1. Built(m, t) = Quantified(m, t)
  <2>1. Built(m, t) = Boolean(m, t)
    BY DEF Built
  <2>2. m.f \notin Connectives
    BY DEF Quantifiers, Connectives
  <2>3. Boolean(m, t) = Quantified(m, t)
    BY <2>2 DEF Boolean
  <2> QED
    BY <2>1, <2>3
<1>2. Quantified(m, t) = IF wrong THEN Ill ELSE Denotes("bool", f)
  BY DEF Quantified
<1>3. CASE wrong
  <2> HIDE DEF wrong, f
  <2> QED
    BY <1>1, <1>2, <1>3, IllSays
<1>4. CASE ~wrong
  <2>1. Built(m, t) = Denotes("bool", f)
    <3> HIDE DEF wrong, f
    <3> QED
      BY <1>1, <1>2, <1>4
  <2>2. last \in Nat /\ last >= 2 /\ body.sort = "bool"
    BY <1>4
  <2>3. Len(r) = last
    <3>1. r = [i \in 1..last |-> r[i]]
      BY DEF Parallel, Children
    <3> QED
      BY <2>2, <3>1
  <2>4. last \in DOMAIN Children(m)
    BY <2>2 DEF Children
  <2>5. \A b \in Assign : body.of[b] = r[last][b]
    BY <2>2, <2>4 DEF Parallel
  <2>6. ASSUME NEW a \in Assign
        PROVE  f[a] = Meaning(m, r, a) /\ f[a] \in BOOLEAN
    <3> DEFINE bs == {b \in Assign : \A v \in DOMAIN Sort :
                        b[v] = a[v] \/ \E i \in 1..(last - 1) : m.args[i].id = v}
    <3>1. Meaning(m, r, a) = IF m.f = "ForAll" THEN \A b \in bs : r[last][b]
                             ELSE \E b \in bs : r[last][b]
      BY <2>3 DEF Meaning
    <3>2. Variants(a, binders) = bs
      <4>1. \A v : v \in binders <=> \E i \in 1..(last - 1) : m.args[i].id = v
        OBVIOUS
      <4> HIDE DEF binders
      <4> QED
        BY <4>1 DEF Variants
    <3>3. \A b \in bs : body.of[b] = r[last][b]
      BY <2>5
    <3>4. f[a] = IF m.f = "ForAll" THEN \A b \in Variants(a, binders) : body.of[b]
                 ELSE \E b \in Variants(a, binders) : body.of[b]
      BY <2>6
    <3> HIDE DEF bs, binders, body, f, last
    <3> QED
      BY <3>1, <3>2, <3>3, <3>4
  <2> HIDE DEF f
  <2> QED
    BY <2>1, <2>6, Denoted DEF Says
<1> QED
  BY <1>3, <1>4

\* Any other node is no formula.
LEMMA OtherSays ==
  ASSUME NEW m, m.k \notin {"name", "num", "neg", "bin", "bool", "cmp"},
         ~(m.k = "call" /\ m.f \in Quantifiers), ~Connects(m), NEW t, NEW r
  PROVE  Says(Built(m, t), m, r)
<1>1. Built(m, t) = Ill
  BY DEF Built, Boolean, Connects
<1> QED
  BY <1>1, IllSays

\* The term of a formula is true where a reader takes the formula to be: the chains, the
\* binders and the precedence of _z3_support._formula_ast_to_z3, to any depth.
LEMMA TermSays ==
  ASSUME NEW depth, Layered(depth), \A n \in Parts : Legible(n), NEW n \in Parts
  PROVE  Term[n].sort # "ill" =>
           \A a \in Assign : /\ Term[n].of[a] = Reads[n][a]
                             /\ Term[n].sort = "bool" => Term[n].of[a] \in BOOLEAN
<1> DEFINE says(x) == Term[x].sort # "ill" =>
             \A a \in Assign : /\ Term[x].of[a] = Reads[x][a]
                               /\ Term[x].sort = "bool" => Term[x].of[a] \in BOOLEAN
           bad == {x \in Parts : ~says(x)}
<1>1. SUFFICES ASSUME bad # {} PROVE FALSE
  OBVIOUS
<1>2. PICK x \in bad : \A y \in bad : depth[x] <= depth[y]
  <2>1. bad \in SUBSET Parts
    OBVIOUS
  <2> HIDE DEF bad
  <2> QED
    BY <1>1, <2>1, Shallowest
<1> DEFINE m == Parsed(x)
           t == [i \in DOMAIN Children(m) |-> Term[Children(m)[i]]]
           r == [i \in DOMAIN Children(m) |-> Reads[Children(m)[i]]]
<1>3. Taken(x) = m /\ Legible(x)
  BY DEF Legible, Parsed, Taken
<1>4. Term[x] = Built(m, t)
  BY TermWalks
<1>5. \A a \in Assign : Reads[x][a] = Meaning(m, r, a)
  <2> SUFFICES ASSUME NEW a \in Assign PROVE Reads[x][a] = Meaning(m, r, a)
    OBVIOUS
  <2>1. Reads[x][a] = Meaning(Taken(x), [i \in DOMAIN Children(Taken(x)) |->
                                           Reads[Children(Taken(x))[i]]], a)
    BY ReadsWalks
  <2> QED
    BY <1>3, <2>1
<1>6. ASSUME NEW i \in DOMAIN Children(m)
      PROVE  Children(m)[i] \in Parts /\ says(Children(m)[i])
  <2>1. Children(m)[i] \in Parts /\ depth[Children(m)[i]] < depth[x]
    <3>1. m = Node("solver", x)
      BY DEF Node
    <3> HIDE DEF m
    <3> QED
      BY <3>1, PartsBelow
  <2>2. Children(m)[i] \notin bad
    <3>1. depth[x] \in Nat /\ depth[Children(m)[i]] \in Nat
      BY <2>1 DEF Layered
    <3> HIDE DEF m, bad
    <3> QED
      BY <1>2, <2>1, <3>1
  <2> HIDE DEF m, says
  <2> QED
    BY <2>1, <2>2
<1>7. Parallel(m, t, r)
  <2>1. \A i \in DOMAIN Children(m) : t[i] = Term[Children(m)[i]] /\ r[i] = Reads[Children(m)[i]]
    OBVIOUS
  <2>2. t = [i \in DOMAIN Children(m) |-> t[i]] /\ r = [i \in DOMAIN Children(m) |-> r[i]]
    OBVIOUS
  <2> HIDE DEF m, t, r
  <2> QED
    BY <1>6, <2>1, <2>2 DEF Parallel
<1>8. m.k = "bin" \/ m = x
  BY DEF Parsed, Tree, Bin
<1>9. m.k = "bin" /\ m.r.k = "num" => \A a \in Assign : r[2][a] = m.r.v
  <2> SUFFICES ASSUME m.k = "bin", m.r.k = "num", NEW a \in Assign
               PROVE  r[2][a] = m.r.v
    OBVIOUS
  <2>1. 2 \in DOMAIN Children(m) /\ Children(m)[2] = m.r
    BY DEF Children
  <2>2. m.r \in Parts /\ r[2] = Reads[m.r]
    BY <1>6, <2>1
  <2>3. Taken(m.r) = m.r
    BY DEF Taken
  <2>4. Reads[m.r][a] = Meaning(Taken(m.r), [i \in DOMAIN Children(Taken(m.r)) |->
                                               Reads[Children(Taken(m.r))[i]]], a)
    <3> DEFINE y == m.r
    <3>1. y \in Parts
      BY <2>2
    <3> HIDE DEF y
    <3>2. Reads[y][a] = Meaning(Taken(y), [i \in DOMAIN Children(Taken(y)) |->
                                             Reads[Children(Taken(y))[i]]], a)
      BY <3>1, ReadsWalks
    <3> QED
      BY <3>2 DEF y
  <2> QED
    BY <2>2, <2>3, <2>4 DEF Meaning
<1>10. Says(Built(m, t), m, r)
  <2> HIDE DEF m, t, r
  <2>1. CASE m.k \in {"num", "neg", "bin"}
    BY <1>7, <1>9, <2>1, ArithSays
  <2>2. CASE m.k = "name"
    BY <2>2, NameSays
  <2>3. CASE m.k = "bool"
    <3>1. m.is \in BOOLEAN
      BY <1>3, <1>8, <2>3 DEF Legible
    <3> QED
      BY <2>3, <3>1, LitSays
  <2>4. CASE m.k = "cmp"
    <3>1. /\ m.args \in Seq(Parts) /\ m.ops \in Seq({"==", "!=", "<", "<=", ">", ">="})
          /\ Len(m.args) = Len(m.ops) + 1
      BY <1>3, <1>8, <2>4 DEF Legible
    <3> QED
      BY <1>7, <2>4, <3>1, CmpSays
  <2>5. CASE m.k = "call" /\ m.f \in Quantifiers
    <3>1. m.args \in Seq(Parts)
      BY <1>3, <1>8, <2>5 DEF Legible
    <3> QED
      BY <1>7, <2>5, <3>1, QuantSays
  <2>6. CASE Connects(m)
    <3>1. CASE m.k = "not"
      <4>1. DOMAIN Children(m) = 1..1
        BY <3>1 DEF Children
      <4> QED
        BY <1>7, <2>6, <4>1, ConnectSays
    <3>2. CASE m.k \in {"junction", "call"}
      <4>1. m.args \in Seq(Parts)
        BY <1>3, <1>8, <3>2 DEF Legible
      <4>2. DOMAIN Children(m) = 1..Len(m.args) /\ Len(m.args) \in Nat
        BY <3>2, <4>1 DEF Children
      <4> QED
        BY <1>7, <2>6, <4>2, ConnectSays
    <3> QED
      BY <2>6, <3>1, <3>2 DEF Connects
  <2> QED
    BY <2>1, <2>2, <2>3, <2>4, <2>5, <2>6, OtherSays
<1> QED
  <2> HIDE DEF m, t, r
  <2> QED
    BY <1>2, <1>4, <1>5, <1>10 DEF Says

\* Every formula that is put to the solver is translated to what it is taken to mean, for any
\* formulas, however deep (_z3_support.formula_to_z3).
THEOREM TranslationTheorem ==
  ASSUME NEW depth, Layered(depth), \A n \in Parts : Legible(n), NEW n \in Parts,
         ForSolver(n) # Ill
  PROVE  \A a \in Assign : ForSolver(n).of[a] = Holds(n, a)
<1>1. ForSolver(n) = Term[n] /\ Term[n].sort = "bool"
  BY DEF ForSolver
<1>2. \A a \in Assign : Term[n].of[a] = Reads[n][a]
  BY <1>1, TermSays
<1> QED
  BY <1>1, <1>2 DEF Holds
=============================================================================
