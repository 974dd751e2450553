------------------------- MODULE HarnessMeterProofs -------------------------
(***************************************************************************)
(* Theorems about the harness meter, for any number of requests, processes *)
(* and actors and any caps, clock and day length.                          *)
(*                                                                         *)
(* The argument has two layers.  While no running turn straddles midnight  *)
(* (QuietMidnight) the rows balance: today's sum is the spend plus at most *)
(* one open hold, and an open hold leaves no room, so nobody else passes   *)
(* (Balanced).  If moreover the TTL covers a turn, an orphan's turn is     *)
(* dead, so the one hold is the running turn's own and every spend fits    *)
(* the room that was taken for it (Exclusive).                             *)
(***************************************************************************)
EXTENDS HarnessMeter, FiniteSetTheorems, WellFoundedInduction, TLAPS

Open == {r \in Request : Unmatched(r)}

\* What the rows of one request look like at each point of its life.
RowsOf(r) ==
  /\ pc[r] \in {"idle", "quoting", "locking", "refused"} => hold[r] = NoHold
  /\ Running(r) => hold[r] # NoHold /\ Today(hold[r].at)
  /\ hold[r] = NoHold => released[r] = <<>>
  /\ hold[r].at <= now
  /\ hold[r].clamp <= hold[r].tokens
  /\ \/ released[r] = <<>>
     \/ \E t \in Nat : released[r] = <<t>> /\ t <= now /\ Day(t) = Day(hold[r].at)

Rows == \A r \in Request : RowsOf(r)

\* LedgerBalances, strengthened: the open hold has used the day up.
Balance ==
  \/ Open = {} /\ used = spentToday
  \/ \E r \in Open : /\ Open = {r}
                     /\ used = spentToday + hold[r].tokens
                     /\ used >= DayCap

Balanced == TypeOK /\ Rows /\ Balance

\* A running turn's hold is open and young; the open hold is exactly the day's room.
Exclusive ==
  /\ \A r \in Request : Running(r) => released[r] = <<>> /\ now - hold[r].at <= MaxTurn
  /\ \A r \in Open : spentToday + hold[r].tokens = DayCap
  /\ overToday <= spentToday
  /\ spentToday - overToday <= DayCap

-----------------------------------------------------------------------------
(* SumFunctionOnSet, the sum the model writes for the database's SUM over  *)
(* a set of rows.  The library's induction theorems take an operator as a  *)
(* parameter, which the provers cannot instantiate.  SetInduction takes    *)
(* the set of the good subsets instead, so an instance is a set that a     *)
(* proof defines.                                                          *)

(* Induction over the subsets of a finite set. *)

\* G holds every subset of S once it holds {} and whatever all removals of one element lead to.
LEMMA SetInduction ==
  ASSUME NEW S, IsFiniteSet(S), NEW G, {} \in G,
         \A T \in SUBSET S : T # {} /\ (\A x \in T : T \ {x} \in G) => T \in G
  PROVE  SUBSET S \subseteq G
<1> SUFFICES ASSUME ~(SUBSET S \subseteq G) PROVE FALSE
  OBVIOUS
<1> DEFINE bad == (SUBSET S) \ G
<1>1. bad \subseteq FiniteSubsetsOf(S) /\ bad # {}
  BY FS_FiniteSubsetsOfFinite
<1>2. PICK T \in bad : \A U \in bad : <<U, T>> \notin StrictSubsetOrdering(S)
  <2> HIDE DEF bad
  <2> QED BY <1>1, FS_StrictSubsetOrderingWellFounded, WFMin
<1>3. \A x \in T : T \ {x} \in G
  <2> SUFFICES ASSUME NEW x \in T, T \ {x} \notin G PROVE FALSE
    OBVIOUS
  <2>1. T \ {x} \in bad
    BY <1>2
  <2>2. <<T \ {x}, T>> \in StrictSubsetOrdering(S)
    BY <1>2 DEF StrictSubsetOrdering
  <2> QED BY <1>2, <2>1, <2>2
<1>4. T # {}
  BY <1>2
<1> QED BY <1>2, <1>3, <1>4

-----------------------------------------------------------------------------
(* The function that the fold is defined by. *)

\* g sums f over every subset of S, taking the elements in CHOOSE's order.
SumsOn(f, S, g) ==
  g = [s \in SUBSET S |-> IF s = {} THEN 0
                          ELSE LET x == CHOOSE y \in s : TRUE IN f[x] + g[s \ {x}]]

\* Functions that sum over two sets agree on the subsets of both.
LEMMA SumsAgree ==
  ASSUME NEW f, NEW S, NEW T, NEW g, NEW h, NEW U, U \subseteq S, U \subseteq T,
         IsFiniteSet(U), SumsOn(f, S, g), SumsOn(f, T, h)
  PROVE  g[U] = h[U]
<1> DEFINE G == {V \in SUBSET U : g[V] = h[V]}
<1>1. {} \in G
  BY DEF SumsOn
<1>2. ASSUME NEW V \in SUBSET U, V # {}, \A x \in V : V \ {x} \in G
      PROVE  V \in G
  <2> DEFINE x == CHOOSE y \in V : TRUE
  <2>1. x \in V
    BY <1>2
  <2> HIDE DEF x
  <2>2. g[V] = f[x] + g[V \ {x}]
    BY <1>2 DEF SumsOn, x
  <2>3. h[V] = f[x] + h[V \ {x}]
    BY <1>2 DEF SumsOn, x
  <2>4. g[V \ {x}] = h[V \ {x}]
    BY <1>2, <2>1
  <2> QED BY <2>2, <2>3, <2>4
<1> HIDE DEF G
<1>3. SUBSET U \subseteq G
  BY <1>1, <1>2, SetInduction
<1> QED BY <1>3 DEF G

\* Every finite set has such a function.
LEMMA SumsExist ==
  ASSUME NEW f, NEW S, IsFiniteSet(S)
  PROVE  \E g : SumsOn(f, S, g)
<1> DEFINE G == {T \in SUBSET S : \E g : SumsOn(f, T, g)}
<1>1. {} \in G
  <2> DEFINE none == [s \in SUBSET {} |-> 0]
  <2>1. SumsOn(f, {}, none)
    BY DEF SumsOn
  <2> QED BY <2>1
<1>2. ASSUME NEW T \in SUBSET S, T # {}, \A x \in T : T \ {x} \in G
      PROVE  T \in G
  <2> DEFINE on(x) == CHOOSE g : SumsOn(f, T \ {x}, g)
             pick(s) == CHOOSE y \in s : TRUE
             all == [s \in SUBSET T |-> IF s = {} THEN 0
                                        ELSE f[pick(s)] + on(pick(s))[s \ {pick(s)}]]
  <2>1. \A x \in T : SumsOn(f, T \ {x}, on(x))
    BY <1>2
  <2>2. \A s \in SUBSET T : s # {} => pick(s) \in s
    OBVIOUS
  <2> HIDE DEF on, pick
  <2>3. ASSUME NEW x \in T, NEW U \in SUBSET (T \ {x})
        PROVE  all[U] = on(x)[U]
    <3>1. SumsOn(f, T \ {x}, on(x))
      BY <2>1
    <3>2. CASE U = {}
      <4>1. on(x)[U] = 0
        BY <3>1, <3>2 DEF SumsOn
      <4> QED BY <3>2, <4>1
    <3>3. CASE U # {}
      <4>1. pick(U) \in U /\ pick(U) \in T
        BY <2>2, <3>3
      <4>2. all[U] = f[pick(U)] + on(pick(U))[U \ {pick(U)}]
        BY <3>3
      <4>3. on(x)[U] = f[pick(U)] + on(x)[U \ {pick(U)}]
        BY <3>1, <3>3 DEF SumsOn, pick
      <4>4. SumsOn(f, T \ {pick(U)}, on(pick(U)))
        BY <2>1, <4>1
      <4>5. IsFiniteSet(U \ {pick(U)})
        BY FS_Subset
      <4>6. on(pick(U))[U \ {pick(U)}] = on(x)[U \ {pick(U)}]
        BY <3>1, <4>4, <4>5, SumsAgree
      <4> QED BY <4>2, <4>3, <4>6
    <3> QED BY <3>2, <3>3
  <2>4. ASSUME NEW s \in SUBSET T, s # {}
        PROVE  all[s] = f[pick(s)] + all[s \ {pick(s)}]
    <3>1. pick(s) \in s /\ pick(s) \in T /\ s \ {pick(s)} \in SUBSET (T \ {pick(s)})
      BY <2>2, <2>4
    <3>2. all[s \ {pick(s)}] = on(pick(s))[s \ {pick(s)}]
      BY <2>3, <3>1
    <3>3. all[s] = f[pick(s)] + on(pick(s))[s \ {pick(s)}]
      BY <2>4
    <3> QED BY <3>2, <3>3
  <2>5. all[{}] = 0
    OBVIOUS
  <2>6. DOMAIN all = SUBSET T /\ all = [s \in SUBSET T |-> all[s]]
    OBVIOUS
  <2> HIDE DEF all
  <2>7. all = [s \in SUBSET T |-> IF s = {} THEN 0 ELSE f[pick(s)] + all[s \ {pick(s)}]]
    <3>1. \A s \in SUBSET T :
            all[s] = IF s = {} THEN 0 ELSE f[pick(s)] + all[s \ {pick(s)}]
      BY <2>4, <2>5
    <3> QED BY <2>6, <3>1
  <2>8. SumsOn(f, T, all)
    BY <2>7 DEF SumsOn, pick
  <2> QED BY <2>8
<1> HIDE DEF G
<1>3. SUBSET S \subseteq G
  BY <1>1, <1>2, SetInduction
<1> QED BY <1>3 DEF G

\* SumFunctionOnSet is that function's value.
LEMMA SumIs ==
  ASSUME NEW f, NEW S, IsFiniteSet(S)
  PROVE  \E g : SumsOn(f, S, g) /\ \A T \in SUBSET S : SumFunctionOnSet(f, T) = g[T]
<1> DEFINE iter(T) == CHOOSE g : SumsOn(f, T, g)
<1>1. \A T \in SUBSET S : SumsOn(f, T, iter(T))
  BY SumsExist, FS_Subset
<1>2. \A T \in SUBSET S : SumFunctionOnSet(f, T) = iter(T)[T]
  BY DEF SumFunctionOnSet, FoldFunctionOnSet, MapThenFoldSet, SumsOn
<1> HIDE DEF iter
<1>3. \A T \in SUBSET S : iter(T)[T] = iter(S)[T]
  BY <1>1, SumsAgree, FS_Subset
<1> QED BY <1>1, <1>2, <1>3

-----------------------------------------------------------------------------
(* What the models use. *)

\* No rows sum to 0.
LEMMA SumEmpty == ASSUME NEW f PROVE SumFunctionOnSet(f, {}) = 0
<1>1. PICK g : SumsOn(f, {}, g) /\ \A T \in SUBSET {} : SumFunctionOnSet(f, T) = g[T]
  BY SumIs, FS_EmptySet
<1>2. g[{}] = 0
  BY <1>1 DEF SumsOn
<1> QED BY <1>1, <1>2

\* One row can be taken out, the one that CHOOSE picks.
LEMMA SumChosen ==
  ASSUME NEW f, NEW S, IsFiniteSet(S), S # {}
  PROVE  LET x == CHOOSE y \in S : TRUE
         IN  x \in S /\ SumFunctionOnSet(f, S) = f[x] + SumFunctionOnSet(f, S \ {x})
<1> DEFINE x == CHOOSE y \in S : TRUE
<1>1. x \in S
  OBVIOUS
<1>2. PICK g : SumsOn(f, S, g) /\ \A T \in SUBSET S : SumFunctionOnSet(f, T) = g[T]
  BY SumIs
<1>3. g[S] = f[x] + g[S \ {x}]
  BY <1>2 DEF SumsOn
<1> HIDE DEF x
<1>4. SumFunctionOnSet(f, S) = g[S] /\ SumFunctionOnSet(f, S \ {x}) = g[S \ {x}]
  BY <1>2
<1> QED BY <1>1, <1>3, <1>4 DEF x

\* Amounts sum to an amount.
LEMMA SumType ==
  ASSUME NEW D \in {Nat, Int}, NEW f, NEW S, IsFiniteSet(S), \A x \in S : f[x] \in D
  PROVE  SumFunctionOnSet(f, S) \in D
<1> DEFINE G == {T \in SUBSET S : SumFunctionOnSet(f, T) \in D}
<1>1. {} \in G
  BY SumEmpty
<1>2. ASSUME NEW T \in SUBSET S, T # {}, \A x \in T : T \ {x} \in G
      PROVE  T \in G
  <2>1. IsFiniteSet(T)
    BY FS_Subset
  <2> DEFINE x == CHOOSE z \in T : TRUE
  <2>2. x \in T /\ SumFunctionOnSet(f, T) = f[x] + SumFunctionOnSet(f, T \ {x})
    BY <1>2, <2>1, SumChosen
  <2> HIDE DEF x
  <2>3. f[x] \in D /\ SumFunctionOnSet(f, T \ {x}) \in D
    BY <1>2, <2>2
  <2> QED BY <2>2, <2>3
<1> HIDE DEF G
<1>3. SUBSET S \subseteq G
  BY <1>1, <1>2, SetInduction
<1> QED BY <1>3 DEF G

\* Any one row can be taken out: the order of the rows does not matter.
LEMMA SumRemove ==
  ASSUME NEW f, NEW S, IsFiniteSet(S), \A x \in S : f[x] \in Int, NEW r \in S
  PROVE  SumFunctionOnSet(f, S) = f[r] + SumFunctionOnSet(f, S \ {r})
<1> DEFINE G == {T \in SUBSET S : \A y \in T :
                   SumFunctionOnSet(f, T) = f[y] + SumFunctionOnSet(f, T \ {y})}
<1>1. {} \in G
  OBVIOUS
<1>2. ASSUME NEW T \in SUBSET S, T # {}, \A x \in T : T \ {x} \in G
      PROVE  T \in G
  <2> SUFFICES ASSUME NEW y \in T
               PROVE  SumFunctionOnSet(f, T) = f[y] + SumFunctionOnSet(f, T \ {y})
    OBVIOUS
  <2>1. \A U \in SUBSET S : IsFiniteSet(U) /\ SumFunctionOnSet(f, U) \in Int
    BY FS_Subset, SumType
  <2> DEFINE x == CHOOSE z \in T : TRUE
  <2>2. x \in T /\ SumFunctionOnSet(f, T) = f[x] + SumFunctionOnSet(f, T \ {x})
    BY <1>2, <2>1, SumChosen
  <2> HIDE DEF x
  <2>3. CASE x = y
    BY <2>2, <2>3
  <2>4. CASE x # y
    <3>1. SumFunctionOnSet(f, T \ {x}) = f[y] + SumFunctionOnSet(f, (T \ {x}) \ {y})
      BY <1>2, <2>2, <2>4
    <3>2. SumFunctionOnSet(f, T \ {y}) = f[x] + SumFunctionOnSet(f, (T \ {y}) \ {x})
      BY <1>2, <2>2, <2>4
    <3>3. (T \ {x}) \ {y} = (T \ {y}) \ {x}
      OBVIOUS
    <3>4. f[x] \in Int /\ f[y] \in Int /\ SumFunctionOnSet(f, (T \ {x}) \ {y}) \in Int
      BY <2>1, <2>2
    <3>5. SumFunctionOnSet(f, T \ {y}) = f[x] + SumFunctionOnSet(f, (T \ {x}) \ {y})
      BY <3>2, <3>3, Zenon
    <3> QED BY <2>2, <3>1, <3>4, <3>5
  <2> QED BY <2>3, <2>4
<1> HIDE DEF G
<1>3. SUBSET S \subseteq G
  BY <1>1, <1>2, SetInduction
<1> QED BY <1>3 DEF G

\* A row can be put in.
LEMMA SumAdd ==
  ASSUME NEW f, NEW S, IsFiniteSet(S), NEW r, r \notin S,
         \A x \in S \cup {r} : f[x] \in Int
  PROVE  SumFunctionOnSet(f, S \cup {r}) = f[r] + SumFunctionOnSet(f, S)
<1>1. IsFiniteSet(S \cup {r}) /\ (S \cup {r}) \ {r} = S
  BY FS_AddElement
<1> QED BY <1>1, SumRemove

\* Rows of equal amounts, equal sums.
LEMMA SumSame ==
  ASSUME NEW f, NEW g, NEW S, IsFiniteSet(S), \A x \in S : f[x] = g[x]
  PROVE  SumFunctionOnSet(f, S) = SumFunctionOnSet(g, S)
<1> DEFINE G == {T \in SUBSET S : SumFunctionOnSet(f, T) = SumFunctionOnSet(g, T)}
<1>1. {} \in G
  BY SumEmpty
<1>2. ASSUME NEW T \in SUBSET S, T # {}, \A x \in T : T \ {x} \in G
      PROVE  T \in G
  <2> DEFINE x == CHOOSE y \in T : TRUE
  <2>1. IsFiniteSet(T)
    BY FS_Subset
  <2>2. /\ x \in T
        /\ SumFunctionOnSet(f, T) = f[x] + SumFunctionOnSet(f, T \ {x})
        /\ SumFunctionOnSet(g, T) = g[x] + SumFunctionOnSet(g, T \ {x})
    BY <1>2, <2>1, SumChosen
  <2> HIDE DEF x
  <2>3. SumFunctionOnSet(f, T \ {x}) = SumFunctionOnSet(g, T \ {x})
    BY <1>2, <2>2
  <2> QED BY <2>2, <2>3
<1> HIDE DEF G
<1>3. SUBSET S \subseteq G
  BY <1>1, <1>2, SetInduction
<1> QED BY <1>3 DEF G

\* More rows, no smaller sum.
LEMMA SumGrows ==
  ASSUME NEW f, NEW S, IsFiniteSet(S), \A x \in S : f[x] \in Nat, NEW T \in SUBSET S
  PROVE  SumFunctionOnSet(f, T) <= SumFunctionOnSet(f, S)
<1> DEFINE G == {U \in SUBSET S : \A V \in SUBSET U :
                   SumFunctionOnSet(f, V) <= SumFunctionOnSet(f, U)}
<1>1. {} \in G
  BY SumEmpty
<1>2. ASSUME NEW U \in SUBSET S, U # {}, \A x \in U : U \ {x} \in G
      PROVE  U \in G
  <2> SUFFICES ASSUME NEW V \in SUBSET U
               PROVE  SumFunctionOnSet(f, V) <= SumFunctionOnSet(f, U)
    OBVIOUS
  <2>1. \A W \in SUBSET S : IsFiniteSet(W) /\ SumFunctionOnSet(f, W) \in Nat
    BY FS_Subset, SumType
  <2>2. CASE V = U
    BY <2>1, <2>2
  <2>3. CASE V # U
    <3>1. PICK x \in U : x \notin V
      BY <2>3
    <3>2. SumFunctionOnSet(f, U) = f[x] + SumFunctionOnSet(f, U \ {x})
      BY <2>1, SumRemove
    <3>3. SumFunctionOnSet(f, V) <= SumFunctionOnSet(f, U \ {x})
      BY <1>2, <3>1
    <3>4. f[x] \in Nat /\ SumFunctionOnSet(f, V) \in Nat /\ SumFunctionOnSet(f, U \ {x}) \in Nat
      BY <2>1
    <3> QED BY <3>2, <3>3, <3>4
  <2> QED BY <2>2, <2>3
<1> HIDE DEF G
<1>3. SUBSET S \subseteq G
  BY <1>1, <1>2, SetInduction
<1> QED BY <1>3 DEF G

-----------------------------------------------------------------------------
(* Sums over no hold and over one hold. *)

\* No hold, no tokens held.
LEMMA HeldNothing == HeldTokens({}) = 0
BY SumEmpty DEF HeldTokens

\* One hold: its tokens.
LEMMA HeldOne ==
  ASSUME NEW r \in Request, hold[r].tokens \in Int
  PROVE  HeldTokens({r}) = hold[r].tokens
<1> DEFINE f == [q \in Request |-> hold[q].tokens]
<1>1. IsFiniteSet({r}) /\ {r} \ {r} = {}
  BY FS_Singleton
<1>2. f[r] = hold[r].tokens
  OBVIOUS
<1> HIDE DEF f
<1>3. SumFunctionOnSet(f, {r}) = f[r] + SumFunctionOnSet(f, {r} \ {r})
  BY <1>1, <1>2, SumRemove
<1> QED
  BY <1>1, <1>2, <1>3, SumEmpty DEF HeldTokens, f

\* Days do not go backwards.
LEMMA DayMonotone ==
  ASSUME NEW a \in Nat, NEW b \in Nat, a <= b
  PROVE  Day(a) \in Nat /\ Day(a) <= Day(b)
BY MeterAssumption DEF Day

\* A hold is open exactly when it was taken today and has no release row.
OpenIs(r) ==
  /\ HoldHasRelease(r) <=> released[r] # <<>> /\ Today(hold[r].at)
  /\ Unmatched(r) <=> hold[r] # NoHold /\ Today(hold[r].at) /\ released[r] = <<>>

OpenAgrees == \A r \in Request : OpenIs(r)

\* What the set of open holds says of each single one.
LEMMA OpenMeans == TypeOK /\ Rows => OpenAgrees
<1> SUFFICES ASSUME TypeOK, Rows, NEW r \in Request PROVE OpenIs(r)
  BY DEF OpenAgrees
<1>1. RowsOf(r)
  BY DEF Rows
<1>2. CASE released[r] = <<>>
  BY <1>2 DEF HoldHasRelease, Unmatched, OpenIs
<1>3. CASE \E t \in Nat : released[r] = <<t>> /\ t <= now /\ Day(t) = Day(hold[r].at)
  <2>1. PICK t \in Nat : released[r] = <<t>> /\ t <= now /\ Day(t) = Day(hold[r].at)
    BY <1>3
  <2>2. DOMAIN released[r] = {1} /\ released[r][1] = t /\ released[r] # <<>>
    BY <2>1
  <2> QED
    BY <2>1, <2>2 DEF HoldHasRelease, Unmatched, Today, OpenIs
<1> QED
  BY <1>1, <1>2, <1>3 DEF RowsOf

\* The orphans are none of the holds, or the one open hold.
LEMMA OrphanCases ==
  ASSUME Balanced
  PROVE  \/ Orphans = {} /\ UsedToday = used
         \/ \E h \in Open : /\ Open = {h} /\ Orphans = {h} /\ Stale(h)
                            /\ UsedToday = spentToday
<1>1. Orphans = {h \in Open : Stale(h)}
  BY DEF Orphans, Open
<1>2. used \in Int
  BY DEF Balanced, TypeOK
<1>3. CASE Orphans = {}
  BY <1>2, <1>3, HeldNothing DEF UsedToday
<1>4. CASE Orphans # {}
  <2>1. PICK h \in Open : Open = {h} /\ used = spentToday + hold[h].tokens
    BY <1>1, <1>4 DEF Balanced, Balance
  <2>2. Orphans = {h} /\ Stale(h)
    BY <1>1, <1>4, <2>1
  <2>3. h \in Request /\ hold[h].tokens \in Nat /\ spentToday \in Nat
    BY <2>1 DEF Open, Balanced, TypeOK, HoldType
  <2>4. HeldTokens(Orphans) = hold[h].tokens
    BY <2>2, <2>3, HeldOne
  <2> QED
    BY <2>1, <2>2, <2>3, <2>4 DEF UsedToday
<1> QED
  BY <1>3, <1>4

\* Whoever passes the daily gate finds no hold but orphans, and takes the whole room.
LEMMA AdmittedTakesRoom ==
  ASSUME Balanced, ~DailyCapReached
  PROVE  /\ Orphans = Open
         /\ UsedToday = spentToday
         /\ DailyRoom \in Nat \ {0}
         /\ DailyRoom = DayCap - spentToday
         /\ \A h \in Open : Stale(h)
<1>1. spentToday \in Nat /\ used \in Int /\ DayCap \in Nat
  BY MeterAssumption DEF Balanced, TypeOK
<1>2. Orphans = Open /\ UsedToday = spentToday /\ \A h \in Open : Stale(h)
  <2>1. CASE Orphans = {} /\ UsedToday = used
    <3>1. used < DayCap
      BY <1>1, <2>1 DEF DailyCapReached
    <3>2. Open = {} /\ used = spentToday
      BY <1>1, <3>1 DEF Balanced, Balance
    <3> QED
      BY <2>1, <3>2
  <2>2. CASE \E h \in Open : /\ Open = {h} /\ Orphans = {h} /\ Stale(h)
                            /\ UsedToday = spentToday
    BY <2>2
  <2> QED
    BY <2>1, <2>2, OrphanCases
<1>3. spentToday < DayCap
  BY <1>1, <1>2 DEF DailyCapReached
<1> QED
  BY <1>1, <1>2, <1>3 DEF DailyRoom

-----------------------------------------------------------------------------
(* The rows balance. *)

\* A new project starts balanced, with no turn running.
LEMMA InitBalanced == Init => Balanced /\ Exclusive
<1> SUFFICES ASSUME Init PROVE Balanced /\ Exclusive
  OBVIOUS
<1>1. TypeOK
  BY MeterAssumption DEF Init, TypeOK, HoldType, NoHold, States
<1>2. \A r \in Request : ~Unmatched(r) /\ ~Running(r)
  BY DEF Init, Unmatched, Running
<1>3. Rows
  BY <1>2 DEF Init, Rows, RowsOf, NoHold
<1>4. Open = {}
  BY <1>2 DEF Open
<1> QED
  BY <1>1, <1>2, <1>3, <1>4, MeterAssumption
  DEF Init, Balanced, Balance, Exclusive

\* Steps that write no row and leave the clock alone.
LEMMA QuietStep ==
  ASSUME Balanced, UNCHANGED <<now, used, hold, released, spentToday>>
  PROVE  Balance' /\ Open' = Open
<1>1. \A r \in Request : Unmatched(r)' <=> Unmatched(r)
  BY DEF Unmatched, HoldHasRelease, Today, Day
<1>2. Open' = Open
  BY <1>1 DEF Open
<1> QED
  BY <1>2 DEF Balanced, Balance

\* The same, with a request moving between stages that agree on its rows.
LEMMA QuietRows ==
  ASSUME Balanced, UNCHANGED <<now, hold, released>>,
         \A r \in Request :
            /\ pc'[r] \in {"idle", "quoting", "locking", "refused"} =>
                 pc[r] \in {"idle", "quoting", "locking", "refused"}
            /\ Running(r)' => Running(r)
  PROVE  Rows'
BY DEF Balanced, Rows, RowsOf, Today, Day, NoHold

\* authorize() leaves one open hold, that fills the day, where there was none that counted.
LEMMA AuthorizeBalanced ==
  ASSUME Balanced, NEW r \in Request, NEW known \in BOOLEAN, Authorize(r, known)
  PROVE  Balanced' /\ Open' = {r} /\ hold'[r].tokens = DayCap - spentToday'
<1>1. /\ Orphans = Open /\ UsedToday = spentToday /\ DailyRoom \in Nat \ {0}
      /\ DailyRoom = DayCap - spentToday
  BY AdmittedTakesRoom DEF Authorize, Admitted
<1>2. PICK clamp \in 0 .. DailyRoom :
        hold' = [hold EXCEPT ![r] = [tokens |-> DailyRoom, clamp |-> clamp, at |-> now]]
  BY DEF Authorize
<1>3. /\ TypeOK /\ Rows /\ hold[r] = NoHold /\ released[r] = <<>>
      /\ now \in Nat /\ spentToday \in Nat
  BY DEF Balanced, Rows, RowsOf, Authorize, TypeOK
<1>4. r \notin Open
  BY <1>3 DEF Open, Unmatched
<1>5. /\ \A q \in Request \ {r} : hold'[q] = hold[q]
      /\ hold'[r] = [tokens |-> DailyRoom, clamp |-> clamp, at |-> now]
      /\ hold'[r] # NoHold
  BY <1>1, <1>2, <1>3 DEF TypeOK, NoHold
<1>6. /\ \A q \in Open : released[q] = <<>> /\ released'[q] = <<now>>
      /\ \A q \in Request \ Open : released'[q] = released[q]
  <2>1. \A q \in Open : q \in Request /\ released[q] = <<>>
    BY <1>3, OpenMeans DEF Open, OpenAgrees, OpenIs
  <2>2. released' = [h \in Request |-> IF h \in Open THEN Append(released[h], now)
                                        ELSE released[h]]
    BY <1>1 DEF Authorize, ReleaseStaleHolds
  <2>3. Append(<<>>, now) = <<now>>
    OBVIOUS
  <2> QED
    BY <2>1, <2>2, <2>3
<1>7. TypeOK'
  <2>1. hold' \in [Request -> HoldType]
    BY <1>1, <1>2, <1>3 DEF TypeOK, HoldType
  <2>2. released' \in [Request -> Seq(Nat)]
    BY <1>3 DEF Authorize, ReleaseStaleHolds, TypeOK
  <2>3. used' = DayCap /\ DayCap \in Nat
    BY <1>1, <1>3, MeterAssumption DEF Authorize
  <2>4. pc' \in [Request -> States]
    BY <1>3 DEF Authorize, TypeOK, States
  <2>6. UNCHANGED <<now, spentToday, overToday, billed, pot, turn, bound, cred, member,
                    sess, who, moved>>
    BY DEF Authorize, outside
  <2> QED
    BY <1>3, <2>1, <2>2, <2>3, <2>4, <2>6 DEF TypeOK
<1>8. Rows'
  <2> SUFFICES ASSUME NEW q \in Request PROVE RowsOf(q)'
    BY DEF Rows
  <2>1. CASE q = r
    BY <1>3, <1>4, <1>5, <1>6, <2>1 DEF Authorize, RowsOf, Today, Day, Running, TypeOK, NoHold
  <2>2. CASE q \in Open
    <3>1. hold[q] # NoHold /\ Today(hold[q].at)
      BY <2>2 DEF Open, Unmatched
    <3>2. q # r /\ released'[q] = <<now>> /\ hold'[q] = hold[q] /\ pc'[q] = pc[q]
          /\ now' = now
      BY <1>3, <1>4, <1>5, <1>6, <2>2 DEF Authorize, TypeOK
    <3> QED
      BY <1>3, <3>1, <3>2 DEF Rows, RowsOf, Today, Day, Running, NoHold
  <2>3. CASE q # r /\ q \notin Open
    <3>1. released'[q] = released[q] /\ hold'[q] = hold[q] /\ pc'[q] = pc[q] /\ now' = now
      BY <1>3, <1>5, <1>6, <2>3 DEF Authorize, TypeOK
    <3> QED
      BY <1>3, <3>1 DEF Rows, RowsOf, Today, Day, Running, NoHold
  <2> QED
    BY <2>1, <2>2, <2>3
<1>9. Open' = {r}
  <2>1. OpenAgrees'
    BY <1>7, <1>8, OpenMeans, PTL
  <2>2. ASSUME NEW q \in Request PROVE Unmatched(q)' <=> q = r
    <3>1. now' = now /\ (Unmatched(q)' <=> hold'[q] # NoHold /\ Today(hold'[q].at)
                                             /\ released'[q] = <<>>)
      BY <2>1 DEF OpenAgrees, OpenIs, Authorize, Today, Day, NoHold
    <3>2. CASE q = r
      BY <1>3, <1>4, <1>5, <1>6, <3>1, <3>2 DEF Today
    <3>3. CASE q \in Open
      BY <1>4, <1>6, <3>1, <3>3
    <3>4. CASE q # r /\ q \notin Open
      BY <1>3, <1>5, <1>6, <3>1, <3>4, OpenMeans DEF Open, OpenAgrees, OpenIs
    <3> QED
      BY <3>2, <3>3, <3>4
  <2> QED
    BY <2>2 DEF Open
<1> QED
  BY <1>1, <1>3, <1>5, <1>7, <1>8, <1>9, MeterAssumption DEF Authorize, Balanced, Balance

\* A running turn settles: its open hold, if still open, gives way to m tokens of spend.
LEMMA SettleBalanced ==
  ASSUME Balanced, TypeOK', NEW r \in Request, Running(r), NEW m \in Nat,
         NEW p \in {"recorded", "done"},
         UNCHANGED <<now, hold>>, ReleaseOwnHold(r),
         used' = used - OwnCredit(r) + m, spentToday' = spentToday + m,
         pc' = [pc EXCEPT ![r] = p]
  PROVE  Balanced' /\ Open' = Open \ {r}
<1>1. /\ TypeOK /\ Rows /\ Balance /\ hold[r] # NoHold /\ Today(hold[r].at)
      /\ OpenIs(r) /\ OpenAgrees
  BY OpenMeans DEF Balanced, Rows, RowsOf, OpenAgrees
<1>2. /\ now \in Nat /\ used \in Int /\ spentToday \in Nat /\ hold[r].tokens \in Nat
      /\ pc'[r] = p /\ \A q \in Request \ {r} : pc'[q] = pc[q]
  BY <1>1 DEF TypeOK, HoldType
<1>3. \A q \in Request \ {r} : released'[q] = released[q]
  BY <1>1 DEF ReleaseOwnHold, TypeOK
<1>4. /\ released[r] # <<>> => released'[r] = released[r]
      /\ released[r] = <<>> => released'[r] = <<now>>
  <2>1. Append(<<>>, now) = <<now>>
    OBVIOUS
  <2> QED
    BY <1>1, <2>1 DEF ReleaseOwnHold, TypeOK, OpenIs
<1>5. Rows'
  <2> SUFFICES ASSUME NEW q \in Request PROVE RowsOf(q)'
    BY DEF Rows
  <2>1. CASE q = r
    <3>1. RowsOf(r) /\ ~(p \in {"idle", "quoting", "locking", "refused"}) /\ ~Running(r)'
      BY <1>1, <1>2 DEF Rows, Running
    <3> QED
      BY <1>1, <1>2, <1>4, <2>1, <3>1 DEF RowsOf, Today, Day, NoHold
  <2>2. CASE q # r
    BY <1>1, <1>2, <1>3, <2>2 DEF Rows, RowsOf, Today, Day, Running, NoHold
  <2> QED
    BY <2>1, <2>2
<1>6. OpenAgrees'
  BY <1>5, OpenMeans, PTL
<1>7. Open' = Open \ {r}
  <2>1. ASSUME NEW q \in Request PROVE Unmatched(q)' <=> Unmatched(q) /\ q # r
    <3>1. Unmatched(q)' <=> hold[q] # NoHold /\ Today(hold[q].at) /\ released'[q] = <<>>
      BY <1>6 DEF OpenAgrees, OpenIs, Today, Day, NoHold
    <3>2. released'[r] # <<>>
      BY <1>4, <1>2
    <3> QED
      BY <1>1, <1>3, <3>1, <3>2 DEF OpenAgrees, OpenIs
  <2> QED
    BY <2>1 DEF Open
<1>8. Balance'
  <2>1. CASE released[r] # <<>>
    <3>1. OwnCredit(r) = 0 /\ r \notin Open
      BY <1>1, <2>1 DEF OwnCredit, OpenIs, Open
    <3>2. Open' = Open /\ used' = used + m
      BY <1>2, <1>7, <3>1
    <3>3. ASSUME NEW q \in Open PROVE hold[q].tokens \in Nat
      BY <1>1 DEF Open, TypeOK, HoldType
    <3> QED
      BY <1>1, <1>2, <3>2, <3>3, MeterAssumption DEF Balance
  <2>2. CASE released[r] = <<>>
    <3>1. OwnCredit(r) = hold[r].tokens /\ r \in Open
      BY <1>1, <2>2 DEF OwnCredit, OpenIs, Open
    <3>2. Open = {r} /\ used = spentToday + hold[r].tokens
      BY <1>1, <3>1 DEF Balance
    <3>3. used' = spentToday' /\ Open' = {}
      BY <1>2, <1>7, <3>1, <3>2
    <3> QED
      BY <3>3 DEF Balance
  <2> QED
    BY <2>1, <2>2
<1> QED
  BY <1>5, <1>7, <1>8 DEF Balanced

\* The clock keeps the rows balanced; at midnight no hold of the old day is open.
LEMMA TickBalanced ==
  ASSUME QuietMidnight, Balanced, Tick
  PROVE  /\ Balanced'
         /\ \/ Day(now') = Day(now) /\ Open' = Open
            \/ Open' = {} /\ \A r \in Request : ~Running(r)
<1>1. /\ TypeOK /\ Rows /\ Balance /\ now \in Nat /\ now' = now + 1
      /\ UNCHANGED <<hold, released, pc>>
  BY DEF Balanced, TypeOK, Tick, locals
<1>2. TypeOK'
  <2>1. used' \in Int /\ spentToday' \in Nat /\ overToday' \in Nat
    BY <1>1 DEF Tick, TypeOK
  <2> QED
    BY <1>1, <2>1 DEF Tick, TypeOK, process, outside, locals
<1>3. CASE Day(now') = Day(now)
  <2>1. UNCHANGED <<used, spentToday>>
    BY <1>3 DEF Tick
  <2>2. Rows'
    BY <1>1, <1>3 DEF Rows, RowsOf, Today, Running, NoHold, TypeOK, HoldType, Day
  <2>3. \A r \in Request : Unmatched(r)' <=> Unmatched(r)
    BY <1>1, <1>3 DEF Unmatched, HoldHasRelease, Today, Day, NoHold
  <2>4. Open' = Open
    BY <2>3 DEF Open
  <2> QED
    BY <1>1, <1>2, <1>3, <2>1, <2>2, <2>4 DEF Balanced, Balance
<1>4. CASE Day(now') # Day(now)
  <2>1. used' = 0 /\ spentToday' = 0 /\ \A r \in Request : ~Running(r)
    BY <1>4 DEF Tick
  <2>2. \A r \in Request : hold[r].at \in Nat /\ hold[r].at <= now /\ Day(hold[r].at) # Day(now')
    <3> TAKE r \in Request
    <3>1. hold[r].at \in Nat /\ hold[r].at <= now
      BY <1>1 DEF Rows, RowsOf, TypeOK, HoldType
    <3>2. Day(hold[r].at) <= Day(now) /\ Day(now) <= Day(now')
          /\ Day(hold[r].at) \in Nat /\ Day(now) \in Nat /\ Day(now') \in Nat
      BY <1>1, <3>1, DayMonotone
    <3> QED
      BY <1>4, <3>1, <3>2
  <2>3. Rows'
    BY <1>1, <2>1 DEF Rows, RowsOf, Today, Running, NoHold, TypeOK, HoldType, Day
  <2>4. Open' = {}
    BY <1>1, <2>2 DEF Open, Unmatched, Today, Day
  <2> QED
    BY <1>2, <2>1, <2>3, <2>4 DEF Balanced, Balance
<1> QED
  BY <1>3, <1>4

\* The steps that touch neither the rows nor the clock.
Quiet == \/ \E r \in Request : \/ Arrive(r) \/ Identify(r) \/ Complete(r)
                                \/ ProviderRaises(r) \/ Advance(r) \/ SettlementFails(r)
                                \/ \E known \in BOOLEAN : RefuseAuthorize(r, known)
         \/ \E s \in Session : Crash(s) \/ Rotate(s)
         \/ \E a \in Actor : Remove(a)
         \/ UNCHANGED vars

\* The steps of Next, sorted by what they do to the ledger.
LEMMA NextCases ==
  ASSUME [Next]_vars
  PROVE  \/ Quiet
         \/ \E r \in Request, known \in BOOLEAN : Authorize(r, known)
         \/ \E r \in Request : RecordSpend(r) \/ ReleaseHold(r)
         \/ Tick
BY DEF Next, Step, Quiet

\* What a quiet step leaves as it was, and how it moves requests.
LEMMA QuietMeans ==
  ASSUME TypeOK, Quiet
  PROVE  /\ TypeOK'
         /\ UNCHANGED <<now, used, hold, released, spentToday, overToday>>
         /\ \A r \in Request :
              /\ pc'[r] \in {"idle", "quoting", "locking", "refused"} =>
                   pc[r] \in {"idle", "quoting", "locking", "refused"}
              /\ Running(r)' => Running(r)
<1> USE DEF ledger, process, outside, locals, States, Running
<1>1. CASE \E r \in Request : Arrive(r)
  BY <1>1 DEF TypeOK, Arrive
<1>2. CASE \E r \in Request : Identify(r)
  <2>1. PICK r \in Request : Identify(r)
    BY <1>2
  <2>2. sess[r] \in Session /\ cred[sess[r]] \in Actor
    BY DEF TypeOK
  <2>3. who' \in [Request -> Actor] /\ bound' \in [Session -> Actor]
    BY <2>1, <2>2 DEF TypeOK, Identify
  <2>4. /\ pc[r] = "quoting"
        /\ \/ pc' = [pc EXCEPT ![r] = "locking"]
           \/ pc' = [pc EXCEPT ![r] = "refused"]
        /\ UNCHANGED <<now, ledger, turn, outside, sess, moved>>
    BY <2>1 DEF Identify
  <2> QED
    BY <2>3, <2>4 DEF TypeOK
<1>3. CASE \E r \in Request : Complete(r)
  <2>1. PICK r \in Request : Complete(r)
    BY <1>3
  <2>2. hold[r].clamp \in Nat /\ Overshoot \in Nat
    BY MeterAssumption DEF TypeOK, HoldType
  <2>3. PICK n \in 0 .. hold[r].clamp + Overshoot : moved' = [moved EXCEPT ![r] = n]
    BY <2>1 DEF Complete, Reported
  <2>4. moved' \in [Request -> Nat]
    BY <2>2, <2>3 DEF TypeOK
  <2>5. /\ pc[r] = "calling" /\ pc' = [pc EXCEPT ![r] = "settling"]
        /\ UNCHANGED <<now, ledger, process, outside, sess, who>>
    BY <2>1 DEF Complete
  <2> QED
    BY <2>4, <2>5 DEF TypeOK
<1>4. CASE \E r \in Request : ProviderRaises(r)
  BY <1>4 DEF TypeOK, ProviderRaises
<1>5. CASE \E r \in Request : Advance(r)
  BY <1>5 DEF TypeOK, Advance
<1>6. CASE \E r \in Request : SettlementFails(r)
  BY <1>6 DEF TypeOK, SettlementFails
<1>7. CASE \E r \in Request, known \in BOOLEAN : RefuseAuthorize(r, known)
  BY <1>7 DEF TypeOK, RefuseAuthorize
<1>8. CASE \E s \in Session : Crash(s)
  BY <1>8 DEF TypeOK, Crash
<1>9. CASE \E s \in Session : Rotate(s)
  <2>1. PICK s \in Session, a \in Actor : Rotate(s) /\ cred' = [cred EXCEPT ![s] = a]
    BY <1>9, MeterAssumption DEF Rotate
  <2>2. cred' \in [Session -> Actor]
    BY <2>1 DEF TypeOK
  <2> QED
    BY <2>1, <2>2 DEF TypeOK, Rotate
<1>10. CASE \E a \in Actor : Remove(a)
  BY <1>10 DEF TypeOK, Remove
<1>11. CASE UNCHANGED vars
  BY <1>11 DEF TypeOK, vars
<1> QED
  BY <1>1, <1>2, <1>3, <1>4, <1>5, <1>6, <1>7, <1>8, <1>9, <1>10, <1>11 DEF Quiet

\* Steps that write no row keep the rows balanced.
LEMMA QuietBalanced ==
  ASSUME Balanced, Quiet
  PROVE  Balanced' /\ Open' = Open
BY QuietMeans, QuietStep, QuietRows DEF Balanced

\* record_spend replaces the open hold, if it is still open, by the spend.
LEMMA RecordSpendBalanced ==
  ASSUME Balanced, NEW r \in Request, RecordSpend(r)
  PROVE  Balanced' /\ Open' = Open \ {r}
<1>1. TypeOK /\ moved[r] \in Nat /\ hold[r].tokens \in Nat /\ hold[r].clamp \in Nat
  BY DEF Balanced, TypeOK, HoldType
<1>2. TypeOK'
  <2>1. OwnCredit(r) \in Nat /\ OvershootOf(r) \in Nat
    BY <1>1 DEF OwnCredit, OvershootOf
  <2>2. used' \in Int /\ spentToday' \in Nat /\ overToday' \in Nat /\ pot' \in Int
    <3>1. used \in Int /\ spentToday \in Nat /\ overToday \in Nat /\ pot \in Int
      BY <1>1 DEF TypeOK
    <3>2. /\ used' = used - OwnCredit(r) + moved[r] /\ spentToday' = spentToday + moved[r]
          /\ overToday' = overToday + OvershootOf(r) /\ pot' = pot - moved[r]
      BY DEF RecordSpend
    <3> QED
      BY <1>1, <2>1, <3>1, <3>2
  <2>3. released' \in [Request -> Seq(Nat)]
    <3>1. now \in Nat /\ released \in [Request -> Seq(Nat)]
      BY <1>1 DEF TypeOK
    <3>2. Append(released[r], now) \in Seq(Nat)
      BY <3>1
    <3>3. \/ released' = released
          \/ released' = [released EXCEPT ![r] = Append(released[r], now)]
      BY DEF RecordSpend, ReleaseOwnHold
    <3> QED
      BY <3>1, <3>2, <3>3
  <2>4. billed' \in [Actor -> Nat] /\ pc' \in [Request -> States]
    <3>1. sess[r] \in Session /\ bound[sess[r]] \in Actor
      BY <1>1 DEF TypeOK
    <3>2. billed[bound[sess[r]]] + moved[r] \in Nat
      BY <1>1, <3>1 DEF TypeOK
    <3>3. billed' \in [Actor -> Nat]
      BY <1>1, <3>1, <3>2 DEF RecordSpend, Stamped, TypeOK
    <3> QED
      BY <1>1, <3>3 DEF RecordSpend, TypeOK, States
  <2>5. UNCHANGED <<now, hold, turn, bound, cred, member, sess, who, moved>>
    BY DEF RecordSpend, process, outside
  <2> QED
    BY <1>1, <2>2, <2>3, <2>4, <2>5 DEF TypeOK
<1> QED
  BY <1>1, <1>2, SettleBalanced DEF RecordSpend, Running

\* release_hold closes the hold, if it is still open.
LEMMA ReleaseHoldBalanced ==
  ASSUME Balanced, NEW r \in Request, ReleaseHold(r)
  PROVE  Balanced' /\ Open' = Open \ {r}
<1>1. TypeOK /\ hold[r].tokens \in Nat
  BY DEF Balanced, TypeOK, HoldType
<1>2. OwnCredit(r) \in Nat /\ used \in Int /\ spentToday \in Nat
  BY <1>1 DEF OwnCredit, TypeOK
<1>3. used' = used - OwnCredit(r) + 0 /\ spentToday' = spentToday + 0
  BY <1>2 DEF ReleaseHold
<1>4. TypeOK'
  <2>1. released' \in [Request -> Seq(Nat)] /\ pc' \in [Request -> States]
    BY <1>1 DEF ReleaseHold, ReleaseOwnHold, TypeOK, States
  <2>2. used' \in Int
    BY <1>2, <1>3
  <2> QED
    BY <1>1, <2>1, <2>2 DEF ReleaseHold, TypeOK, process, outside
<1> QED
  BY <1>1, <1>3, <1>4, SettleBalanced DEF ReleaseHold, Running

\* Every step keeps the rows balanced.
LEMMA BalancedNext ==
  ASSUME QuietMidnight, Balanced, [Next]_vars
  PROVE  Balanced'
BY NextCases, QuietBalanced, AuthorizeBalanced, RecordSpendBalanced, ReleaseHoldBalanced,
   TickBalanced

-----------------------------------------------------------------------------
(* One turn at a time, inside its room. *)

\* A running turn's hold is the open one.
LEMMA RunningIsOpen ==
  ASSUME Balanced, Exclusive, NEW r \in Request, Running(r)
  PROVE  Open = {r} /\ used >= DayCap
<1>1. hold[r] # NoHold /\ Today(hold[r].at) /\ released[r] = <<>>
  BY DEF Balanced, Rows, RowsOf, Exclusive
<1>2. r \in Open
  BY <1>1, OpenMeans DEF Balanced, OpenAgrees, OpenIs, Open
<1> QED
  BY <1>2 DEF Balanced, Balance

\* An admitted request finds no turn running: the TTL outlives every live turn.
LEMMA AdmittedAlone ==
  ASSUME TTL > MaxTurn, Balanced, Exclusive, ~DailyCapReached, NEW r \in Request
  PROVE  ~Running(r)
<1> SUFFICES ASSUME Running(r) PROVE FALSE
  OBVIOUS
<1>1. Stale(r)
  BY RunningIsOpen, AdmittedTakesRoom
<1>2. now - hold[r].at <= MaxTurn
  BY DEF Exclusive
<1>3. now \in Nat /\ hold[r].at \in Nat
  BY DEF Balanced, TypeOK, HoldType
<1> QED
  BY <1>1, <1>2, <1>3, MeterAssumption DEF Stale

\* authorize() starts a turn only where none runs.
LEMMA AuthorizeExclusive ==
  ASSUME TTL > MaxTurn, Balanced, Exclusive, NEW r \in Request, NEW known \in BOOLEAN,
         Authorize(r, known)
  PROVE  /\ Exclusive'
         /\ \A q \in Request : ~Running(q)
         /\ \A q \in Request : Running(q)' <=> q = r
         /\ spentToday < DayCap
<1>1. \A q \in Request : ~Running(q)
  BY AdmittedAlone DEF Authorize, Admitted
<1>2. Balanced' /\ Open' = {r} /\ hold'[r].tokens = DayCap - spentToday'
  BY AuthorizeBalanced
<1>3. TypeOK /\ spentToday \in Nat /\ overToday \in Nat /\ now \in Nat /\ now' = now
      /\ spentToday' = spentToday /\ overToday' = overToday
  BY DEF Balanced, TypeOK, Authorize
<1>4. \A q \in Request : Running(q)' <=> q = r
  BY <1>1, <1>3 DEF Authorize, Running, TypeOK
<1>5. released'[r] = <<>>
  <2>1. OpenAgrees'
    BY <1>2, OpenMeans, PTL DEF Balanced
  <2> QED
    BY <1>2, <2>1 DEF OpenAgrees, OpenIs, Open
<1>6. hold'[r].at = now
  <2>1. PICK clamp \in 0 .. DailyRoom :
          hold' = [hold EXCEPT ![r] = [tokens |-> DailyRoom, clamp |-> clamp, at |-> now]]
    BY DEF Authorize
  <2> QED
    BY <1>3, <2>1 DEF TypeOK
<1>7. spentToday < DayCap
  BY <1>3, AdmittedTakesRoom, MeterAssumption DEF Authorize, Admitted
<1> QED
  BY <1>1, <1>2, <1>3, <1>4, <1>5, <1>6, <1>7, MeterAssumption DEF Exclusive

\* What every settlement of a running turn has in common.
LEMMA SettleExclusive ==
  ASSUME Balanced, Exclusive, NEW r \in Request, Running(r),
         UNCHANGED <<now, hold>>, ReleaseOwnHold(r), Open' = Open \ {r},
         NEW p \in {"recorded", "done"}, pc' = [pc EXCEPT ![r] = p],
         overToday' <= spentToday', spentToday' - overToday' <= DayCap
  PROVE  Exclusive' /\ \A q \in Request : ~Running(q)'
<1>1. Open' = {}
  BY RunningIsOpen
<1>2. ASSUME NEW q \in Request, Running(q) PROVE q = r
  BY <1>2, RunningIsOpen
<1>3. pc \in [Request -> States]
  BY DEF Balanced, TypeOK
<1>4. \A q \in Request : ~Running(q)'
  BY <1>2, <1>3 DEF Running
<1> QED
  BY <1>1, <1>4 DEF Exclusive

\* record_spend ends the running turn within the day's room.
LEMMA RecordSpendExclusive ==
  ASSUME Balanced, Exclusive, NEW r \in Request, RecordSpend(r)
  PROVE  /\ Exclusive' /\ \A q \in Request : ~Running(q)'
         /\ overToday' >= overToday
         /\ spentToday' - spentToday >= overToday' - overToday
         /\ spentToday' - overToday' <= DayCap
<1>1. /\ Running(r) /\ TypeOK /\ moved[r] \in Nat /\ hold[r].tokens \in Nat
      /\ hold[r].clamp \in Nat /\ spentToday \in Nat /\ overToday \in Nat /\ DayCap \in Nat
  BY MeterAssumption DEF Balanced, TypeOK, HoldType, RecordSpend, Running
<1>2. hold[r].clamp <= hold[r].tokens
  BY DEF Balanced, Rows, RowsOf
<1>3. spentToday + hold[r].tokens = DayCap
  BY <1>1, RunningIsOpen DEF Exclusive
<1>4. OvershootOf(r) \in Nat /\ OvershootOf(r) <= moved[r]
      /\ moved[r] - OvershootOf(r) <= hold[r].clamp
  BY <1>1 DEF OvershootOf
<1>5. spentToday' = spentToday + moved[r] /\ overToday' = overToday + OvershootOf(r)
  BY DEF RecordSpend
<1>6. overToday <= spentToday
  BY DEF Exclusive
<1>7. /\ overToday' <= spentToday' /\ spentToday' - overToday' <= DayCap
      /\ overToday' >= overToday /\ spentToday' - spentToday >= overToday' - overToday
  BY <1>1, <1>2, <1>3, <1>4, <1>5, <1>6
<1>8. Open' = Open \ {r}
  BY RecordSpendBalanced
<1> QED
  BY <1>1, <1>7, <1>8, SettleExclusive DEF RecordSpend

\* release_hold ends the running turn and bills nothing.
LEMMA ReleaseHoldExclusive ==
  ASSUME Balanced, Exclusive, NEW r \in Request, ReleaseHold(r)
  PROVE  Exclusive' /\ \A q \in Request : ~Running(q)'
<1>1. Running(r) /\ Open' = Open \ {r}
  BY ReleaseHoldBalanced DEF ReleaseHold, Running
<1>2. overToday' <= spentToday' /\ spentToday' - overToday' <= DayCap
  BY DEF Exclusive, ReleaseHold
<1> QED
  BY <1>1, <1>2, SettleExclusive DEF ReleaseHold

\* Steps that write no row start no turn that settles.
LEMMA QuietExclusive ==
  ASSUME Balanced, Exclusive, Quiet
  PROVE  Exclusive'
<1>1. UNCHANGED <<now, hold, released, spentToday, overToday>> /\ Open' = Open
      /\ \A r \in Request : Running(r)' => Running(r)
  BY QuietMeans, QuietBalanced DEF Balanced
<1> QED
  BY <1>1 DEF Exclusive

\* No running turn outlives the TTL or the day.
LEMMA TickExclusive ==
  ASSUME QuietMidnight, Balanced, Exclusive, Tick
  PROVE  Exclusive'
<1>1. UNCHANGED <<hold, released, pc>>
  BY DEF Tick, locals
<1>2. \A r \in Request : Running(r)' => Running(r) /\ now' - hold[r].at <= MaxTurn
  BY <1>1 DEF Tick, Running
<1>3. \/ spentToday' = spentToday /\ overToday' = overToday /\ Day(now') = Day(now)
      \/ spentToday' = 0 /\ overToday' = 0 /\ Day(now') # Day(now)
  BY DEF Tick, Day
<1>4. (Open' = Open /\ Day(now') = Day(now)) \/ Open' = {}
  BY TickBalanced
<1>5. /\ overToday' <= spentToday' /\ spentToday' - overToday' <= DayCap
      /\ \A r \in Request : Running(r)' => released'[r] = <<>> /\ now' - hold'[r].at <= MaxTurn
  BY <1>1, <1>2, <1>3, MeterAssumption DEF Exclusive
<1>6. \A r \in Open' : spentToday' + hold'[r].tokens = DayCap
  BY <1>1, <1>3, <1>4 DEF Exclusive
<1> QED
  BY <1>5, <1>6 DEF Exclusive

\* Every step keeps the turn that runs alone.
LEMMA ExclusiveNext ==
  ASSUME QuietMidnight, TTL > MaxTurn, Balanced, Exclusive, [Next]_vars
  PROVE  Exclusive'
BY NextCases, QuietExclusive, AuthorizeExclusive, RecordSpendExclusive,
   ReleaseHoldExclusive, TickExclusive

-----------------------------------------------------------------------------
(* The theorems. *)

\* The ledger rows always add up to the spend and at most one open hold.
THEOREM AlwaysBalanced ==
  ASSUME QuietMidnight
  PROVE  Spec => []Balanced
<1>1. Init => Balanced
  BY InitBalanced
<1>2. Balanced /\ [Next]_vars => Balanced'
  BY BalancedNext
<1> QED
  BY <1>1, <1>2, PTL DEF Spec

\* A turn that runs owns the only open hold and the rest of the day's room.
THEOREM AlwaysExclusive ==
  ASSUME QuietMidnight, TTL > MaxTurn
  PROVE  Spec => [](Balanced /\ Exclusive)
<1>1. Init => Balanced /\ Exclusive
  BY InitBalanced
<1>2. Balanced /\ Exclusive /\ [Next]_vars => (Balanced /\ Exclusive)'
  BY BalancedNext, ExclusiveNext
<1> QED
  BY <1>1, <1>2, PTL DEF Spec

\* Every state is well formed: the used sum may be negative, no counter is.
THEOREM TypeCorrect ==
  ASSUME QuietMidnight
  PROVE  Spec => []TypeOK
<1>1. Balanced => TypeOK
  BY DEF Balanced
<1> QED
  BY <1>1, AlwaysBalanced, PTL

\* Today's rows of the ledger always add up to the spend plus the one open hold: no
\* credit of authorize, record_spend or release_hold is lost or doubled.
THEOREM BalanceTheorem ==
  ASSUME QuietMidnight
  PROVE  Spec => []LedgerBalances
<1>1. Balanced => LedgerBalances
  BY DEF Balanced, Balance, LedgerBalances, Open
<1> QED
  BY <1>1, AlwaysBalanced, PTL

\* No hold gets two release rows, whether its own turn or a later authorize writes them.
THEOREM ReleaseTheorem ==
  ASSUME QuietMidnight
  PROVE  Spec => []ReleasedOnce
<1>1. Balanced => ReleasedOnce
  <2> SUFFICES ASSUME Balanced, NEW r \in Request PROVE Len(released[r]) <= 1
    BY DEF ReleasedOnce
  <2>1. released[r] = <<>> \/ \E t \in Nat : released[r] = <<t>>
    BY DEF Balanced, Rows, RowsOf
  <2>2. CASE released[r] = <<>>
    BY <2>2
  <2>3. CASE \E t \in Nat : released[r] = <<t>>
    <3>1. PICK t \in Nat : released[r] = <<t>>
      BY <2>3
    <3>2. Len(<<t>>) = 1
      OBVIOUS
    <3> QED
      BY <3>1, <3>2
  <2> QED
    BY <2>1, <2>2, <2>3
<1> QED
  BY <1>1, AlwaysBalanced, PTL

\* A refusal for the day's cap means a spent day or a young open hold: a crash, a failed
\* settlement or a slow turn never makes authorize refuse the rest of the day.
THEOREM RefusalTheorem ==
  ASSUME QuietMidnight
  PROVE  Spec => HonestRefusal
<1>1. ASSUME Balanced, DailyCapReached
      PROVE  spentToday >= DayCap \/ \E h \in Request : Unmatched(h) /\ ~Stale(h)
  <2>1. spentToday \in Nat /\ used \in Int /\ DayCap \in Nat
    BY <1>1, MeterAssumption DEF Balanced, TypeOK
  <2>2. CASE Orphans = {} /\ UsedToday = used
    <3>1. \A h \in Open : h \in Request /\ Unmatched(h) /\ ~Stale(h)
      BY <2>2 DEF Open, Orphans
    <3>2. CASE Open = {} /\ used = spentToday
      BY <1>1, <2>1, <2>2, <3>2 DEF DailyCapReached
    <3>3. CASE \E r \in Open : Open = {r}
      BY <3>1, <3>3
    <3> QED
      BY <1>1, <3>2, <3>3 DEF Balanced, Balance
  <2>3. CASE UsedToday = spentToday
    BY <1>1, <2>1, <2>3 DEF DailyCapReached
  <2> QED
    BY <1>1, <2>2, <2>3, OrphanCases
<1> DEFINE Refusal ==
      \A r \in Request :
         pc[r] = "locking" /\ pc'[r] = "refused" /\ DailyCapReached =>
           \/ spentToday >= DayCap
           \/ \E h \in Request : Unmatched(h) /\ ~Stale(h)
<1>2. Balanced => [Refusal]_vars
  BY <1>1
<1> QED
  BY <1>2, AlwaysBalanced, PTL DEF HonestRefusal

\* authorize() admits no second turn while one may still be billed, in this process or
\* another, before or after a crash.
THEOREM OneTurnTheorem ==
  ASSUME QuietMidnight, TTL > MaxTurn
  PROVE  Spec => []OneRunningTurn
<1>1. Balanced /\ Exclusive => OneRunningTurn
  BY RunningIsOpen DEF OneRunningTurn
<1> QED
  BY <1>1, AlwaysExclusive, PTL

\* The hold of a running turn is never taken for an orphan.
THEOREM HoldTheorem ==
  ASSUME QuietMidnight, TTL > MaxTurn
  PROVE  Spec => []RunningTurnHolds
<1>1. Balanced /\ Exclusive => RunningTurnHolds
  BY RunningIsOpen DEF RunningTurnHolds, Open
<1> QED
  BY <1>1, AlwaysExclusive, PTL

\* The daily token cap binds whatever the processes, crashes and retries.
THEOREM DailyCapTheorem ==
  ASSUME QuietMidnight, TTL > MaxTurn
  PROVE  Spec => []DailyCap
<1>1. Balanced /\ Exclusive => DailyCap
  <2> SUFFICES ASSUME Balanced, Exclusive PROVE DailyCap
    OBVIOUS
  <2>1. spentToday \in Nat /\ overToday \in Nat /\ spentToday - overToday <= DayCap
    BY DEF Balanced, TypeOK, Exclusive
  <2> QED
    BY <2>1, MeterAssumption DEF DailyCap
<1> QED
  BY <1>1, AlwaysExclusive, PTL

-----------------------------------------------------------------------------
(* The meter implements the single slot. *)

\* The slot's owner is the running turn.
OwnerAgrees ==
  /\ \A r \in Request : Running(r) => Owner = r
  /\ (\A r \in Request : ~Running(r)) => Owner = Nobody

\* The turn that runs is the owner of the abstract slot.
LEMMA OwnerMeans == Balanced /\ Exclusive => OwnerAgrees
<1> SUFFICES ASSUME Balanced, Exclusive PROVE OwnerAgrees
  OBVIOUS
<1>1. ASSUME NEW r \in Request, Running(r) PROVE Owner = r
  <2>1. \A q \in Request : Running(q) => q = r
    BY <1>1, RunningIsOpen
  <2> QED
    BY <1>1, <2>1 DEF Owner
<1> QED
  BY <1>1 DEF OwnerAgrees, Owner

\* The abstract slot starts free and unbilled.
LEMMA InitSlot == Init => Slot!SlotInit
<1> SUFFICES ASSUME Init PROVE Slot!SlotInit
  OBVIOUS
<1>1. OwnerAgrees
  BY InitBalanced, OwnerMeans
<1>2. \A r \in Request : ~Running(r)
  BY DEF Init, Running
<1> QED
  BY <1>1, <1>2 DEF Init, OwnerAgrees, Slot!SlotInit

\* Steps that bill nothing: the owner stays, or is gone.
LEMMA UnbilledSlot ==
  ASSUME Balanced, Exclusive, OwnerAgrees, OwnerAgrees',
         UNCHANGED <<spentToday, overToday>>,
         \A r \in Request : Running(r)' => Running(r)
  PROVE  [Slot!SlotNext]_<<Owner, spentToday, overToday>>
<1>1. CASE \E r \in Request : Running(r)'
  BY <1>1 DEF OwnerAgrees
<1>2. CASE \A r \in Request : ~Running(r)'
  <2>1. Owner' = Nobody
    BY <1>2 DEF OwnerAgrees
  <2>2. CASE Owner = Nobody
    BY <2>1, <2>2
  <2>3. CASE Owner # Nobody
    BY <2>1, <2>3 DEF Slot!SlotNext, Slot!Drop
  <2> QED
    BY <2>2, <2>3
<1> QED
  BY <1>1, <1>2

\* Every step of the meter is a step of the slot or leaves it alone.
LEMMA StepSlot ==
  ASSUME QuietMidnight, TTL > MaxTurn, Balanced, Exclusive, OwnerAgrees, OwnerAgrees',
         Balanced', [Next]_vars
  PROVE  [Slot!SlotNext]_<<Owner, spentToday, overToday>>
<1>1. CASE Quiet
  <2>1. UNCHANGED <<spentToday, overToday>> /\ \A r \in Request : Running(r)' => Running(r)
    BY <1>1, QuietMeans DEF Balanced
  <2> QED
    BY <2>1, UnbilledSlot
<1>2. CASE \E r \in Request, known \in BOOLEAN : Authorize(r, known)
  <2>1. PICK r \in Request, known \in BOOLEAN : Authorize(r, known)
    BY <1>2
  <2>2. Owner = Nobody /\ Owner' = r /\ spentToday < DayCap
    BY <2>1, AuthorizeExclusive DEF OwnerAgrees
  <2>3. UNCHANGED <<spentToday, overToday>>
    BY <2>1 DEF Authorize
  <2> QED
    BY <2>2, <2>3 DEF Slot!SlotNext, Slot!Take
<1>3. CASE \E r \in Request : RecordSpend(r)
  <2>1. PICK r \in Request : RecordSpend(r)
    BY <1>3
  <2>2. Owner = r /\ Owner' = Nobody
    BY <2>1, RecordSpendExclusive DEF OwnerAgrees, RecordSpend, Running
  <2>3. /\ overToday' >= overToday
        /\ spentToday' - spentToday >= overToday' - overToday
        /\ spentToday' - overToday' <= DayCap
    BY <2>1, RecordSpendExclusive
  <2>4. spentToday' \in Nat /\ overToday' \in Nat
    BY DEF Balanced, TypeOK
  <2> QED
    BY <2>2, <2>3, <2>4 DEF Slot!SlotNext, Slot!Settle
<1>4. CASE \E r \in Request : ReleaseHold(r)
  <2>1. PICK r \in Request : ReleaseHold(r)
    BY <1>4
  <2>2. UNCHANGED <<spentToday, overToday>> /\ \A q \in Request : ~Running(q)'
    BY <2>1, ReleaseHoldExclusive DEF ReleaseHold
  <2> QED
    BY <2>2, UnbilledSlot
<1>5. CASE Tick
  <2>1. \A r \in Request : Running(r)' <=> Running(r)
    BY <1>5 DEF Tick, Running, locals
  <2>2. CASE UNCHANGED <<spentToday, overToday>>
    BY <2>1, <2>2, UnbilledSlot
  <2>3. CASE spentToday' = 0 /\ overToday' = 0 /\ \A r \in Request : ~Running(r)
    <3>1. Owner = Nobody /\ Owner' = Nobody
      BY <2>1, <2>3 DEF OwnerAgrees
    <3> QED
      BY <2>3, <3>1 DEF Slot!SlotNext, Slot!NewDay
  <2> QED
    BY <1>5, <2>2, <2>3 DEF Tick
<1> QED
  BY <1>1, <1>2, <1>3, <1>4, <1>5, NextCases

\* Seen from outside, any number of gateway processes over one ledger behave as a single
\* slot that one request at a time takes, spends from within the day's room, and returns.
THEOREM SlotTheorem ==
  ASSUME QuietMidnight, TTL > MaxTurn
  PROVE  Spec => ImplementsSlot
<1>1. Balanced /\ Exclusive /\ (Balanced /\ Exclusive)' /\ [Next]_vars
        => [Slot!SlotNext]_<<Owner, spentToday, overToday>>
  <2>1. Balanced /\ Exclusive => OwnerAgrees
    BY OwnerMeans
  <2>2. (Balanced /\ Exclusive)' => OwnerAgrees'
    BY OwnerMeans, PTL
  <2> QED
    BY <2>1, <2>2, StepSlot
<1>2. Balanced /\ Exclusive /\ (Balanced /\ Exclusive)' /\ [Next]_vars
        => [Slot!SlotNext]_Slot!slotVars
  BY <1>1 DEF Slot!slotVars
<1> QED
  BY <1>2, InitSlot, AlwaysExclusive, PTL DEF Spec, ImplementsSlot, Slot!SlotSpec

-----------------------------------------------------------------------------
(* A seat's lifetime cap. *)

\* The credential file of a process never names more than one seat.
OneSeat == \A s \in Session : \A a, b \in CredentialsOf[s] : a = b

\* A request whose seat authorize() has resolved.
Identified(r) == pc[r] \in {"locking", "calling", "settling", "failed", "recorded", "done"}

\* The turns of seat a that are over, and what providers reported past their clamps.
Settled(a) == {r \in Request : pc[r] \in {"recorded", "done", "lost"} /\ who[r] = a}
Overs == [r \in Request |-> OvershootOf(r)]
PastClamps(a) == SumFunctionOnSet(Overs, Settled(a))

\* A turn is billed to the seat it was admitted for.
Seated ==
  /\ \A s \in Session : cred[s] \in CredentialsOf[s]
  /\ \A r \in Request : Identified(r) => /\ who[r] \in CredentialsOf[sess[r]]
                                         /\ bound[sess[r]] \in CredentialsOf[sess[r]]

\* The running turn's clamp fits what its seat has left.
Reserved ==
  \A r \in Request :
    Running(r) /\ AgentCap[who[r]] # Unlimited =>
      billed[who[r]] + hold[r].clamp <= AgentCap[who[r]] + PastClamps(who[r])

Seats == Seated /\ Reserved /\ AgentCapHolds

\* Each seat has finitely many turns, each with a number of tokens past its clamp.
Countable ==
  /\ \A r \in Request : Overs[r] = OvershootOf(r) /\ Overs[r] \in Nat
  /\ \A a \in Actor : IsFiniteSet(Settled(a)) /\ PastClamps(a) \in Nat

\* A sum of overshoots is a number of tokens.
LEMMA PastClampsType == TypeOK => Countable
<1> SUFFICES ASSUME TypeOK, NEW a \in Actor
             PROVE  /\ \A r \in Request : Overs[r] = OvershootOf(r) /\ Overs[r] \in Nat
                    /\ IsFiniteSet(Settled(a)) /\ PastClamps(a) \in Nat
  BY DEF Countable, Overs, OvershootOf, TypeOK, HoldType
<1>1. \A r \in Request : Overs[r] = OvershootOf(r) /\ Overs[r] \in Nat
  BY DEF Overs, OvershootOf, TypeOK, HoldType
<1>2. IsFiniteSet(Settled(a))
  BY MeterAssumption, FS_Subset DEF Settled
<1>3. \A r \in Settled(a) : Overs[r] \in Nat
  BY <1>1 DEF Settled
<1>4. PastClamps(a) \in Nat
  BY <1>2, <1>3, SumType DEF PastClamps
<1> QED
  BY <1>1, <1>2, <1>4

\* A turn that is over stays over, with what was reported for it.
LEMMA SettledStays ==
  ASSUME TypeOK, [Next]_vars, NEW r \in Request, pc[r] \in {"recorded", "done", "lost"}
  PROVE  /\ pc'[r] \in {"recorded", "done", "lost"} /\ who'[r] = who[r]
         /\ hold'[r] = hold[r] /\ moved'[r] = moved[r]
<1> USE DEF TypeOK, ledger, process, outside, locals
<1>1. CASE \E q \in Request : Arrive(q)
  BY <1>1 DEF Arrive
<1>2. CASE \E q \in Request : Identify(q)
  BY <1>2 DEF Identify
<1>3. CASE \E q \in Request, known \in BOOLEAN : Authorize(q, known)
  <2>1. PICK q \in Request, known \in BOOLEAN : Authorize(q, known)
    BY <1>3
  <2>2. q # r /\ hold'[r] = hold[r] /\ pc'[r] = pc[r] /\ UNCHANGED <<who, moved>>
    BY <2>1 DEF Authorize
  <2> QED
    BY <2>2
<1>4. CASE \E q \in Request, known \in BOOLEAN : RefuseAuthorize(q, known)
  BY <1>4 DEF RefuseAuthorize
<1>5. CASE \E q \in Request : Complete(q) \/ ProviderRaises(q)
  BY <1>5 DEF Complete, ProviderRaises
<1>6. CASE \E q \in Request : RecordSpend(q) \/ Advance(q) \/ ReleaseHold(q)
  BY <1>6 DEF RecordSpend, Advance, ReleaseHold
<1>7. CASE \E q \in Request : SettlementFails(q)
  BY <1>7 DEF SettlementFails
<1>8. CASE \E s \in Session : Crash(s) \/ Rotate(s)
  BY <1>8 DEF Crash, Rotate
<1>9. CASE (\E a \in Actor : Remove(a)) \/ Tick \/ UNCHANGED vars
  BY <1>9 DEF Remove, Tick, vars
<1> QED
  BY <1>1, <1>2, <1>3, <1>4, <1>5, <1>6, <1>7, <1>8, <1>9 DEF Next, Step

\* The overshoot of a seat's turns never shrinks.
LEMMA PastClampsGrow ==
  ASSUME TypeOK, TypeOK', [Next]_vars, NEW a \in Actor
  PROVE  PastClamps(a) <= PastClamps(a)'
<1>1. Settled(a) \subseteq Settled(a)'
  BY SettledStays DEF Settled
<1>2. \A r \in Settled(a) : Overs[r] = Overs'[r]
  BY SettledStays DEF Settled, Overs, OvershootOf
<1>3. /\ IsFiniteSet(Settled(a)) /\ IsFiniteSet(Settled(a)')
      /\ \A r \in Settled(a)' : Overs'[r] \in Nat
  <2>1. Countable /\ Countable'
    BY PastClampsType, PTL
  <2> QED
    BY <2>1 DEF Countable, Settled
<1> DEFINE over == Overs
           next == Overs'
           before == Settled(a)
           after == Settled(a)'
<1>4. /\ PastClamps(a) = SumFunctionOnSet(over, before)
      /\ PastClamps(a)' = SumFunctionOnSet(next, after)
  BY DEF PastClamps
<1>5. /\ before \in SUBSET after /\ IsFiniteSet(before) /\ IsFiniteSet(after)
      /\ \A r \in before : over[r] = next[r]
      /\ \A r \in after : next[r] \in Nat
  BY <1>1, <1>2, <1>3
<1> HIDE DEF over, next, before, after
<1>6. SumFunctionOnSet(over, before) = SumFunctionOnSet(next, before)
  BY <1>5, SumSame
<1>7. SumFunctionOnSet(next, before) <= SumFunctionOnSet(next, after)
  BY <1>5, SumGrows
<1> QED
  BY <1>4, <1>6, <1>7

\* A turn's seat is the one its process is bound to, whoever else rotates or binds.
LEMMA SeatedNext ==
  ASSUME TypeOK, Seated, [Next]_vars
  PROVE  Seated'
<1> USE DEF TypeOK, Seated, Identified, ledger, process, outside, locals
<1>1. CASE \E q \in Request : Arrive(q)
  BY <1>1 DEF Arrive
<1>2. CASE \E q \in Request : Identify(q)
  <2>1. PICK q \in Request : Identify(q)
    BY <1>2
  <2>2. /\ UNCHANGED <<cred, sess>> /\ \A r \in Request \ {q} : who'[r] = who[r] /\ pc'[r] = pc[r]
        /\ \A s \in Session : bound'[s] = bound[s] \/ bound'[s] = cred[s]
        /\ pc'[q] = "refused" \/ (who'[q] = cred[sess[q]] /\ bound'[sess[q]] = cred[sess[q]])
    BY <2>1 DEF Identify
  <2>3. ASSUME NEW r \in Request, Identified(r)'
        PROVE  who'[r] \in CredentialsOf[sess[r]] /\ bound'[sess[r]] \in CredentialsOf[sess[r]]
    <3>1. CASE r = q
      BY <2>2, <2>3, <3>1
    <3>2. CASE r # q
      BY <2>2, <2>3, <3>2
    <3> QED
      BY <3>1, <3>2
  <2> QED
    BY <2>2, <2>3
<1>3. CASE \E q \in Request, known \in BOOLEAN : Authorize(q, known) \/ RefuseAuthorize(q, known)
  <2>1. PICK q \in Request, known \in BOOLEAN : Authorize(q, known) \/ RefuseAuthorize(q, known)
    BY <1>3
  <2>2. pc[q] = "locking" /\ UNCHANGED <<bound, cred, sess, who>>
    BY <2>1 DEF Authorize, RefuseAuthorize
  <2>3. \A r \in Request \ {q} : pc'[r] = pc[r]
    BY <2>1 DEF Authorize, RefuseAuthorize
  <2>4. \A r \in Request : Identified(r)' => Identified(r)
    BY <2>2, <2>3
  <2> QED
    BY <2>2, <2>4
<1>5. CASE \E q \in Request : Complete(q) \/ ProviderRaises(q)
  BY <1>5 DEF Complete, ProviderRaises
<1>6. CASE \E q \in Request : RecordSpend(q) \/ Advance(q) \/ ReleaseHold(q)
  BY <1>6 DEF RecordSpend, Advance, ReleaseHold
<1>7. CASE \E q \in Request : SettlementFails(q)
  BY <1>7 DEF SettlementFails
<1>8. CASE \E s \in Session : Crash(s)
  BY <1>8 DEF Crash
<1>9. CASE \E s \in Session : Rotate(s)
  BY <1>9 DEF Rotate
<1>10. CASE (\E a \in Actor : Remove(a)) \/ Tick \/ UNCHANGED vars
  BY <1>10 DEF Remove, Tick, vars
<1> QED
  BY <1>1, <1>2, <1>3, <1>5, <1>6, <1>7, <1>8, <1>9, <1>10 DEF Next, Step

\* A seat's room is what its cap leaves after its spend and its own open holds.
LEMMA RoomFits ==
  ASSUME TypeOK, NEW a \in Actor, AgentCap[a] # Unlimited, ~AgentCapReached(a)
  PROVE  AgentRoom(a) \in Nat /\ billed[a] + AgentRoom(a) <= AgentCap[a]
<1> DEFINE own == {h \in Request : Unmatched(h) /\ h \notin Orphans /\ who[h] = a}
           held == [r \in Request |-> hold[r].tokens]
<1>1. IsFiniteSet(own) /\ \A r \in own : held[r] \in Nat
  BY MeterAssumption, FS_Subset DEF TypeOK, HoldType
<1>2. HeldTokens(own) = SumFunctionOnSet(held, own)
  BY DEF HeldTokens
<1>3. AgentRoom(a) = IF AgentCap[a] - billed[a] - HeldTokens(own) > 0
                     THEN AgentCap[a] - billed[a] - HeldTokens(own) ELSE 0
  BY DEF AgentRoom
<1>4. AgentCap[a] \in Nat /\ billed[a] \in Nat /\ AgentRoom(a) # 0
  BY MeterAssumption DEF TypeOK, AgentCapReached
<1> HIDE DEF own, held
<1>5. HeldTokens(own) \in Nat
  BY <1>1, <1>2, SumType
<1> QED
  BY <1>3, <1>4, <1>5

\* The clamp of an admitted turn fits its seat's room.
LEMMA ClampFits ==
  ASSUME Balanced, NEW r \in Request, NEW known \in BOOLEAN, Admitted(r, known),
         AgentCap[who[r]] # Unlimited
  PROVE  billed[who[r]] + TurnClamp(r, known) <= AgentCap[who[r]]
<1>1. TypeOK /\ who[r] \in Actor /\ billed[who[r]] \in Nat /\ AgentCap[who[r]] \in Nat
  BY MeterAssumption DEF Balanced, TypeOK
<1>2. AgentRoom(who[r]) \in Nat /\ billed[who[r]] + AgentRoom(who[r]) <= AgentCap[who[r]]
  BY <1>1, RoomFits DEF Admitted
<1>3. DailyRoom \in Int /\ PotRoom(known) \in Int
  BY <1>1, AdmittedTakesRoom DEF Admitted, PotRoom, Unlimited, TypeOK
<1>4. Bounded(DailyRoom, PotRoom(known)) \in Int
  BY <1>3 DEF Bounded
<1>5. TurnClamp(r, known) <= AgentRoom(who[r]) /\ TurnClamp(r, known) \in Int
  BY <1>2, <1>4 DEF TurnClamp, Bounded, Unlimited
<1> QED
  BY <1>1, <1>2, <1>5

\* Steps that bill nothing and start no turn keep every seat inside its cap.
LEMMA UnbilledSeats ==
  ASSUME Balanced, Balanced', Seats, [Next]_vars, billed' = billed,
         \A r \in Request : Running(r)' => Running(r) /\ who'[r] = who[r] /\ hold'[r] = hold[r]
  PROVE  Seats'
<1>1. TypeOK /\ TypeOK' /\ Seated'
  BY SeatedNext DEF Balanced, Seats
<1>2. \A a \in Actor : PastClamps(a) \in Nat /\ PastClamps(a)' \in Nat
  <2>1. Countable /\ Countable'
    BY <1>1, PastClampsType, PTL
  <2> QED
    BY <2>1 DEF Countable
<1>3. \A a \in Actor : PastClamps(a) <= PastClamps(a)'
  BY <1>1, PastClampsGrow
<1>4. ASSUME NEW a \in Actor, AgentCap[a] # Unlimited
      PROVE  billed'[a] <= AgentCap[a] + PastClamps(a)'
  <2>1. billed[a] <= AgentCap[a] + PastClamps(a)
    BY <1>4 DEF Seats, AgentCapHolds, PastClamps, Settled, Overs
  <2>2. billed[a] \in Nat /\ AgentCap[a] \in Nat
    BY <1>1, <1>4, MeterAssumption DEF TypeOK
  <2> QED
    BY <1>2, <1>3, <2>1, <2>2
<1>5. ASSUME NEW r \in Request, Running(r)', AgentCap[who'[r]] # Unlimited
      PROVE  (billed[who[r]] + hold[r].clamp <= AgentCap[who[r]] + PastClamps(who[r]))'
  <2>1. /\ Running(r) /\ who'[r] = who[r] /\ hold'[r] = hold[r] /\ who[r] \in Actor
        /\ billed[who[r]] \in Nat /\ AgentCap[who[r]] \in Nat /\ hold[r].clamp \in Nat
    BY <1>1, <1>5, MeterAssumption DEF TypeOK, HoldType
  <2>2. billed[who[r]] + hold[r].clamp <= AgentCap[who[r]] + PastClamps(who[r])
    BY <1>5, <2>1 DEF Seats, Reserved
  <2>3. PICK a \in Actor : a = who[r] /\ a = who'[r]
    BY <2>1
  <2>4. PastClamps(who[r])' = PastClamps(a)' /\ PastClamps(who[r]) = PastClamps(a)
    BY <2>3 DEF PastClamps, Settled
  <2>5. PastClamps(a) \in Nat /\ PastClamps(a)' \in Nat /\ PastClamps(a) <= PastClamps(a)'
    BY <1>2, <1>3
  <2> QED
    BY <2>1, <2>2, <2>4, <2>5
<1> QED
  BY <1>1, <1>4, <1>5 DEF Seats, Reserved, AgentCapHolds, PastClamps, Settled, Overs

\* authorize() reserves no more than the seat has left, counting its own open holds.
LEMMA AuthorizeSeats ==
  ASSUME TTL > MaxTurn, Balanced, Exclusive, Seats, [Next]_vars,
         NEW r \in Request, NEW known \in BOOLEAN, Authorize(r, known)
  PROVE  Seats'
<1>1. /\ TypeOK /\ TypeOK' /\ Balanced' /\ Seated' /\ \A q \in Request : ~Running(q)
      /\ \A q \in Request : Running(q)' <=> q = r
  BY AuthorizeBalanced, AuthorizeExclusive, SeatedNext DEF Balanced, Seats
<1>2. billed' = billed /\ who' = who
  BY DEF Authorize
<1>3. Countable /\ Countable'
  BY <1>1, PastClampsType, PTL
<1>4. hold'[r].clamp = TurnClamp(r, known)
  <2>1. PICK clamp \in 0 .. DailyRoom :
          /\ clamp = TurnClamp(r, known)
          /\ hold' = [hold EXCEPT ![r] = [tokens |-> DailyRoom, clamp |-> clamp, at |-> now]]
    BY DEF Authorize
  <2> QED
    BY <1>1, <2>1 DEF TypeOK
<1>5. ASSUME AgentCap[who[r]] # Unlimited
      PROVE  billed'[who'[r]] + hold'[r].clamp <= AgentCap[who'[r]] + PastClamps(who[r])'
  <2>1. billed[who[r]] + TurnClamp(r, known) <= AgentCap[who[r]]
    BY <1>5, ClampFits DEF Authorize
  <2>2. PICK a \in Actor : a = who[r] /\ a = who'[r]
    BY <1>1, <1>2 DEF TypeOK
  <2>3. PastClamps(who[r])' = PastClamps(a)' /\ PastClamps(a)' \in Nat
    BY <1>3, <2>2 DEF PastClamps, Settled, Countable
  <2>4. billed[a] \in Nat /\ AgentCap[a] \in Nat
    <3>1. billed \in [Actor -> Nat]
      BY <1>1 DEF TypeOK
    <3> QED
      BY <1>5, <2>2, <3>1, MeterAssumption
  <2>5. TurnClamp(r, known) \in Nat
    <3>1. hold'[r] \in HoldType
      BY <1>1 DEF TypeOK
    <3> QED
      BY <1>4, <3>1 DEF HoldType
  <2> QED
    BY <1>2, <1>4, <2>1, <2>2, <2>3, <2>4, <2>5
<1>6. ASSUME NEW a \in Actor, AgentCap[a] # Unlimited
      PROVE  billed'[a] <= AgentCap[a] + PastClamps(a)'
  <2>1. billed[a] <= AgentCap[a] + PastClamps(a)
    BY <1>6 DEF Seats, AgentCapHolds, PastClamps, Settled, Overs
  <2>2. /\ billed[a] \in Nat /\ AgentCap[a] \in Nat
        /\ PastClamps(a) \in Nat /\ PastClamps(a)' \in Nat
    BY <1>1, <1>3, <1>6, MeterAssumption DEF TypeOK, Countable
  <2>3. PastClamps(a) <= PastClamps(a)'
    BY <1>1, PastClampsGrow
  <2> QED
    BY <1>2, <2>1, <2>2, <2>3
<1>7. Reserved'
  BY <1>1, <1>2, <1>5 DEF Reserved
<1>8. AgentCapHolds'
  BY <1>6 DEF AgentCapHolds, PastClamps, Settled, Overs
<1> QED
  BY <1>1, <1>7, <1>8 DEF Seats

\* record_spend bills the seat the turn was admitted for, within the clamp and what the
\* provider reported past it.
LEMMA RecordSpendSeats ==
  ASSUME OneSeat, Balanced, Exclusive, Seats, [Next]_vars, NEW r \in Request, RecordSpend(r)
  PROVE  Seats'
<1>1. /\ TypeOK /\ TypeOK' /\ Seated' /\ Running(r) /\ \A q \in Request : ~Running(q)'
  BY RecordSpendBalanced, RecordSpendExclusive, SeatedNext
     DEF Balanced, Seats, RecordSpend, Running
<1>2. Countable /\ Countable'
  BY <1>1, PastClampsType, PTL
<1>3. Stamped(r) = who[r] /\ who[r] \in Actor
  BY <1>1 DEF Stamped, Seats, Seated, Identified, RecordSpend, OneSeat, TypeOK
<1>4. /\ billed' = [billed EXCEPT ![who[r]] = @ + moved[r]]
      /\ UNCHANGED <<hold, moved, who>> /\ pc[r] = "settling" /\ pc' = [pc EXCEPT ![r] = "recorded"]
  BY <1>3 DEF RecordSpend
<1>5. ASSUME NEW a \in Actor, AgentCap[a] # Unlimited
      PROVE  billed'[a] <= AgentCap[a] + PastClamps(a)'
  <2>1. billed[a] <= AgentCap[a] + PastClamps(a)
    BY <1>5 DEF Seats, AgentCapHolds, PastClamps, Settled, Overs
  <2>2. /\ billed[a] \in Nat /\ AgentCap[a] \in Nat
        /\ PastClamps(a) \in Nat /\ PastClamps(a)' \in Nat
    BY <1>1, <1>2, <1>5, MeterAssumption DEF TypeOK, Countable
  <2>3. CASE a # who[r]
    <3>1. PastClamps(a) <= PastClamps(a)'
      BY <1>1, PastClampsGrow
    <3>2. billed'[a] = billed[a]
      BY <1>1, <1>4, <2>3 DEF TypeOK
    <3> QED
      BY <2>1, <2>2, <3>1, <3>2
  <2>4. CASE a = who[r]
    <3>1. Overs' = Overs /\ Settled(a)' = Settled(a) \cup {r} /\ r \notin Settled(a)
      <4>1. pc' = [pc EXCEPT ![r] = "recorded"] /\ pc \in [Request -> States]
        BY <1>1, <1>4 DEF TypeOK
      <4>2. /\ pc[r] = "settling" /\ pc'[r] = "recorded"
            /\ \A q \in Request : q # r => pc'[q] = pc[q]
        BY <1>4, <4>1
      <4>3. Settled(a)' = Settled(a) \cup {r} /\ r \notin Settled(a)
        BY <1>4, <2>4, <4>2 DEF Settled
      <4> QED
        BY <1>4, <4>3 DEF Overs, OvershootOf
    <3>2. PastClamps(a)' = SumFunctionOnSet(Overs, Settled(a) \cup {r})
      BY <3>1 DEF PastClamps
    <3>3. IsFiniteSet(Settled(a)) /\ \A q \in Settled(a) \cup {r} : Overs[q] \in Int
      BY <1>2 DEF Countable, Settled
    <3>4. PastClamps(a)' = Overs[r] + PastClamps(a)
      BY <3>1, <3>2, <3>3, SumAdd DEF PastClamps
    <3>5. /\ Overs[r] = OvershootOf(r) /\ Overs[r] \in Nat
          /\ moved[r] \in Nat /\ hold[r].clamp \in Nat
      BY <1>1, <1>2 DEF Countable, TypeOK, HoldType
    <3>6. moved[r] <= hold[r].clamp + Overs[r]
      BY <3>5 DEF OvershootOf
    <3>7. billed[a] + hold[r].clamp <= AgentCap[a] + PastClamps(a)
      BY <1>1, <1>5, <2>4 DEF Seats, Reserved
    <3>8. billed'[a] = billed[a] + moved[r]
      BY <1>1, <1>4, <2>4 DEF TypeOK
    <3> QED
      BY <2>2, <3>4, <3>5, <3>6, <3>7, <3>8
  <2> QED
    BY <2>3, <2>4
<1>6. Reserved'
  BY <1>1 DEF Reserved
<1>7. AgentCapHolds'
  BY <1>5 DEF AgentCapHolds, PastClamps, Settled, Overs
<1> QED
  BY <1>1, <1>6, <1>7 DEF Seats

\* The other steps start no turn and bill nobody.
LEMMA OtherSeats ==
  ASSUME TypeOK, Quiet \/ Tick \/ \E r \in Request : ReleaseHold(r)
  PROVE  /\ billed' = billed
         /\ \A r \in Request :
              Running(r)' => Running(r) /\ who'[r] = who[r] /\ hold'[r] = hold[r]
<1> USE DEF TypeOK, Running, ledger, process, outside, locals
<1>1. CASE \E q \in Request : Arrive(q) \/ Identify(q)
  <2>1. CASE \E q \in Request : Arrive(q)
    BY <2>1 DEF Arrive
  <2>2. CASE \E q \in Request : Identify(q)
    <3>1. PICK q \in Request : Identify(q)
      BY <2>2
    <3>2. /\ pc[q] = "quoting" /\ pc'[q] \in {"locking", "refused"} /\ UNCHANGED <<hold, billed>>
          /\ \A r \in Request : r # q => pc'[r] = pc[r] /\ who'[r] = who[r]
      BY <3>1 DEF Identify
    <3> QED
      BY <3>2
  <2> QED
    BY <1>1, <2>1, <2>2
<1>2. CASE \E q \in Request : \/ Complete(q) \/ ProviderRaises(q) \/ Advance(q)
                              \/ SettlementFails(q)
  BY <1>2 DEF Complete, ProviderRaises, Advance, SettlementFails
<1>3. CASE \E q \in Request, known \in BOOLEAN : RefuseAuthorize(q, known)
  BY <1>3 DEF RefuseAuthorize
<1>4. CASE \E q \in Request : ReleaseHold(q)
  BY <1>4 DEF ReleaseHold
<1>5. CASE \E s \in Session : Crash(s) \/ Rotate(s)
  BY <1>5 DEF Crash, Rotate
<1>6. CASE (\E a \in Actor : Remove(a)) \/ Tick \/ UNCHANGED vars
  BY <1>6 DEF Remove, Tick, vars
<1> QED
  BY <1>1, <1>2, <1>3, <1>4, <1>5, <1>6 DEF Quiet

\* Every step keeps every seat inside its cap.
LEMMA SeatsNext ==
  ASSUME QuietMidnight, TTL > MaxTurn, OneSeat, Balanced, Exclusive, Seats, [Next]_vars
  PROVE  Seats'
<1>1. TypeOK /\ Balanced'
  BY BalancedNext DEF Balanced
<1>2. CASE Quiet \/ Tick \/ \E r \in Request : ReleaseHold(r)
  BY <1>1, <1>2, OtherSeats, UnbilledSeats
<1>3. CASE \E r \in Request, known \in BOOLEAN : Authorize(r, known)
  BY <1>3, AuthorizeSeats
<1>4. CASE \E r \in Request : RecordSpend(r)
  BY <1>4, RecordSpendSeats
<1> QED
  BY <1>2, <1>3, <1>4, NextCases

\* A new project has billed nobody.
LEMMA InitSeats == Init => Seats
<1> SUFFICES ASSUME Init PROVE Seats
  OBVIOUS
<1>1. Seated
  BY DEF Init, Seated, Identified
<1>2. Reserved
  BY DEF Init, Reserved, Running
<1>3. Countable
  BY InitBalanced, PastClampsType DEF Balanced
<1>4. AgentCapHolds
  <2> SUFFICES ASSUME NEW a \in Actor, AgentCap[a] # Unlimited
               PROVE  billed[a] <= AgentCap[a] + PastClamps(a)
    BY DEF AgentCapHolds, PastClamps, Settled, Overs
  <2>1. billed[a] = 0 /\ AgentCap[a] \in Nat /\ PastClamps(a) \in Nat
    BY <1>3, MeterAssumption DEF Init, Countable
  <2> QED
    BY <2>1
<1> QED
  BY <1>1, <1>2, <1>4 DEF Seats

\* Over its whole life and all its processes a seat is billed no more than its cap and what
\* providers reported past the clamps of its turns, when no credential file changes seats.
THEOREM AgentCapTheorem ==
  ASSUME QuietMidnight, TTL > MaxTurn, OneSeat
  PROVE  Spec => []AgentCapHolds
<1>1. Init => Balanced /\ Exclusive /\ Seats
  BY InitBalanced, InitSeats
<1>2. Balanced /\ Exclusive /\ Seats /\ [Next]_vars => (Balanced /\ Exclusive /\ Seats)'
  BY BalancedNext, ExclusiveNext, SeatsNext
<1>3. Seats => AgentCapHolds
  BY DEF Seats
<1> QED
  BY <1>1, <1>2, <1>3, PTL DEF Spec
=============================================================================
