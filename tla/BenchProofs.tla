---------------------------- MODULE BenchProofs ----------------------------
(***************************************************************************)
(* Theorems about the runs of instruments, for any number of calls, slots, *)
(* questions and verdicts.  Slots are conserved whatever the order of      *)
(* handing over, giving up and giving back.  What a call is told and what  *)
(* is written for it follow from the course of that call alone: Course     *)
(* says what its child, its pipe and its answer can be at each place.      *)
(***************************************************************************)
EXTENDS Toolbench, FormulaProofs, FiniteSetTheorems, SequenceTheorems, TLAPS

\* Before a child is started.
Before == {"idle", "waiting", "handed", "starting", "awaiting"}

\* What a call's process, pipe and answer can be, where the call is.
Course(c) ==
  /\ pc[c] # "idle" => ask[c] \in Question
  /\ pc[c] \in Before => child[c] = "none"
  /\ pc[c] \in Before \cup {"draining", "stuck"} => got[c] = "nothing"
  /\ child[c] \in {"none", "busy"} => pipe[c] = "empty"
  /\ pipe[c] \in Status => pipe[c] \in Verdicts[ask[c]]
  /\ got[c] \in Status =>
       pipe[c] = "empty" /\ child[c] # "busy" /\ got[c] \in Verdicts[ask[c]]
  /\ Alive(c) /\ sent[c] # "kill" => pc[c] \in Working \ {"last_grace"}
  /\ Alive(c) /\ pc[c] = "concluding" => sent[c] = "kill"
  /\ pc[c] = "last_grace" => sent[c] = "kill"
  /\ pc[c] \in {"recording", "recorded"} => got[c] \in Status
  /\ pc[c] = "recorded" => row[c] # "none"
  /\ row[c] # "none" => pc[c] \in {"recorded", "done"} /\ got[c] \in Status /\ row[c] = got[c]
  /\ pc[c] # "done" => told[c] = "nothing"
  /\ told[c] = "checkpoint" => row[c] # "none"
  /\ pc[c] = "done" /\ row[c] # "none" => told[c] \in {"checkpoint", "failed"}

Courses == \A c \in Call : Course(c)

BenchInv == TypeOK /\ SlotsConserved /\ Courses

-----------------------------------------------------------------------------
(* The line.                                                               *)

InLine(q, c) == \E i \in 1..Len(q) : q[i] = c
Distinct(q) == \A i, j \in 1..Len(q) : q[i] = q[j] => i = j

\* A newcomer joins at the end.
LEMMA JoinsLine ==
  ASSUME NEW q \in Seq(Call), Distinct(q), NEW c \in Call, ~InLine(q, c)
  PROVE  /\ Append(q, c) \in Seq(Call)
         /\ Distinct(Append(q, c))
         /\ \A d \in Call : InLine(Append(q, c), d) <=> InLine(q, d) \/ d = c
<1> DEFINE t == Append(q, c)
<1>1. /\ t \in Seq(Call) /\ Len(t) = Len(q) + 1
      /\ \A i \in 1..Len(q) : t[i] = q[i]
      /\ t[Len(q) + 1] = c
  BY AppendProperties
<1>2. Len(q) \in Nat
  OBVIOUS
<1> HIDE DEF t
<1>3. Distinct(t)
  BY <1>1, <1>2 DEF Distinct, InLine
<1>4. ASSUME NEW d \in Call PROVE InLine(t, d) <=> InLine(q, d) \/ d = c
  <2>1. InLine(t, d) => InLine(q, d) \/ d = c
    BY <1>1, <1>2 DEF InLine
  <2>2. InLine(q, d) => InLine(t, d)
    <3> SUFFICES ASSUME NEW i \in 1..Len(q), q[i] = d PROVE InLine(t, d)
      BY DEF InLine
    <3>1. i \in 1..Len(t) /\ t[i] = d
      BY <1>1, <1>2
    <3> QED
      BY <3>1 DEF InLine
  <2>3. InLine(t, c)
    <3>1. Len(t) \in 1..Len(t)
      BY <1>1, <1>2
    <3> QED
      BY <1>1, <3>1 DEF InLine
  <2> QED
    BY <2>1, <2>2, <2>3
<1> QED
  BY <1>1, <1>3, <1>4 DEF t

\* Whoever is at place k leaves, the others keep their order.
LEMMA LeavesLine ==
  ASSUME NEW q \in Seq(Call), Distinct(q), NEW k \in 1..Len(q), NEW t \in Seq(Call),
         Len(t) = Len(q) - 1,
         \A i \in 1..Len(t) : t[i] = IF i < k THEN q[i] ELSE q[i + 1]
  PROVE  /\ Distinct(t)
         /\ \A d \in Call : InLine(t, d) <=> InLine(q, d) /\ d # q[k]
<1>1. Len(q) \in Nat
  OBVIOUS
<1>2. Distinct(t)
  <2> SUFFICES ASSUME NEW i \in 1..Len(t), NEW j \in 1..Len(t), t[i] = t[j] PROVE i = j
    BY DEF Distinct
  <2> DEFINE from(n) == IF n < k THEN n ELSE n + 1
  <2>1. /\ from(i) \in 1..Len(q) /\ t[i] = q[from(i)]
        /\ from(j) \in 1..Len(q) /\ t[j] = q[from(j)]
    BY <1>1
  <2>2. from(i) = from(j)
    <3> HIDE DEF from
    <3> QED
      BY <2>1 DEF Distinct
  <2> QED
    BY <1>1, <2>2
<1>3. ASSUME NEW d \in Call PROVE InLine(t, d) <=> InLine(q, d) /\ d # q[k]
  <2>1. ASSUME NEW i \in 1..Len(t), t[i] = d PROVE InLine(q, d) /\ d # q[k]
    <3>1. CASE i < k
      BY <1>1, <2>1, <3>1 DEF InLine, Distinct
    <3>2. CASE ~(i < k)
      BY <1>1, <2>1, <3>2 DEF InLine, Distinct
    <3> QED
      BY <3>1, <3>2
  <2>2. ASSUME NEW j \in 1..Len(q), q[j] = d, d # q[k] PROVE InLine(t, d)
    <3>1. CASE j < k
      BY <1>1, <2>2, <3>1 DEF InLine
    <3>2. CASE j > k
      <4>1. j - 1 \in 1..Len(t) /\ t[j - 1] = d
        BY <1>1, <2>2, <3>2
      <4> QED
        BY <4>1 DEF InLine
    <3> QED
      BY <1>1, <2>2, <3>1, <3>2
  <2> QED
    BY <2>1, <2>2 DEF InLine
<1> QED
  BY <1>2, <1>3

\* The first in line is handed the slot.
LEMMA HeadLeavesLine ==
  ASSUME NEW q \in Seq(Call), Distinct(q), q # <<>>
  PROVE  /\ Head(q) \in Call /\ InLine(q, Head(q))
         /\ Tail(q) \in Seq(Call)
         /\ Distinct(Tail(q))
         /\ \A d \in Call : InLine(Tail(q), d) <=> InLine(q, d) /\ d # Head(q)
<1>1. /\ Tail(q) \in Seq(Call) /\ Len(Tail(q)) = Len(q) - 1
      /\ \A i \in 1..Len(Tail(q)) : Tail(q)[i] = q[i + 1]
      /\ Head(q) \in Call
  BY HeadTailProperties
<1>2. 1 \in 1..Len(q) /\ Head(q) = q[1]
  OBVIOUS
<1>3. \A i \in 1..Len(Tail(q)) : Tail(q)[i] = IF i < 1 THEN q[i] ELSE q[i + 1]
  BY <1>1
<1>4. /\ Distinct(Tail(q))
      /\ \A d \in Call : InLine(Tail(q), d) <=> InLine(q, d) /\ d # q[1]
  BY <1>1, <1>2, <1>3, LeavesLine
<1> QED
  BY <1>1, <1>2, <1>4 DEF InLine

\* Somebody in the middle gives up.
LEMMA MiddleLeavesLine ==
  ASSUME NEW q \in Seq(Call), Distinct(q), NEW k \in 1..Len(q)
  PROVE  LET t == SubSeq(q, 1, k - 1) \o SubSeq(q, k + 1, Len(q))
         IN /\ t \in Seq(Call)
            /\ Distinct(t)
            /\ \A d \in Call : InLine(t, d) <=> InLine(q, d) /\ d # q[k]
<1> DEFINE u == SubSeq(q, 1, k - 1)
           v == SubSeq(q, k + 1, Len(q))
           t == u \o v
<1>1. Len(q) \in Nat /\ \A i \in 1..Len(q) : q[i] \in Call
  OBVIOUS
<1>2. /\ u \in Seq(Call) /\ Len(u) = k - 1
      /\ \A i \in 1..(k - 1) : u[i] = q[i]
  <2>1. /\ u \in Seq(Call) /\ Len(u) = IF 1 <= k - 1 THEN (k - 1) - 1 + 1 ELSE 0
        /\ \A i \in 1..((k - 1) - 1 + 1) : u[i] = q[1 + i - 1]
    BY <1>1, SubSeqProperties
  <2> QED
    BY <2>1
<1>3. /\ v \in Seq(Call) /\ Len(v) = Len(q) - k
      /\ \A i \in 1..(Len(q) - k) : v[i] = q[k + i]
  <2>1. /\ v \in Seq(Call) /\ Len(v) = IF k + 1 <= Len(q) THEN Len(q) - (k + 1) + 1 ELSE 0
        /\ \A i \in 1..(Len(q) - (k + 1) + 1) : v[i] = q[k + 1 + i - 1]
    BY <1>1, SubSeqProperties
  <2> QED
    BY <1>1, <2>1
<1>4. /\ t \in Seq(Call) /\ Len(t) = Len(u) + Len(v)
      /\ \A i \in 1..(Len(u) + Len(v)) : t[i] = IF i <= Len(u) THEN u[i] ELSE v[i - Len(u)]
  BY <1>2, <1>3, ConcatProperties
<1> HIDE DEF t, u, v
<1>5. Len(t) = Len(q) - 1
  BY <1>1, <1>2, <1>3, <1>4
<1>6. ASSUME NEW i \in 1..Len(t) PROVE t[i] = IF i < k THEN q[i] ELSE q[i + 1]
  <2>1. CASE i < k
    BY <1>1, <1>2, <1>3, <1>4, <1>5, <2>1
  <2>2. CASE ~(i < k)
    <3>1. t[i] = v[i - (k - 1)]
      BY <1>1, <1>2, <1>3, <1>4, <1>5, <2>2
    <3>2. i - (k - 1) \in 1..(Len(q) - k) /\ k + (i - (k - 1)) = i + 1
      BY <1>1, <1>5, <2>2
    <3> QED
      BY <1>3, <2>2, <3>1, <3>2
  <2> QED
    BY <2>1, <2>2
<1>7. Distinct(t) /\ \A d \in Call : InLine(t, d) <=> InLine(q, d) /\ d # q[k]
  BY <1>4, <1>5, <1>6, LeavesLine
<1> QED
  BY <1>4, <1>7 DEF t, u, v

-----------------------------------------------------------------------------
(* The slots.                                                              *)

HoldsSlot(l) == l \in Working \cup {"handed"}

LEMMA Counted == IsFiniteSet(Holders) /\ Cardinality(Holders) \in Nat
<1>1. Holders \subseteq Call
  BY DEF Holders
<1> QED
  BY <1>1, BenchAssumption, FS_Subset, FS_CardinalityType

\* A call that moves on with its slot, or without one, changes nothing for the others.
LEMMA SlotsKept ==
  ASSUME TypeOK, SlotsConserved, UNCHANGED <<free, line>>,
         NEW c \in Call, NEW l \in Labels, Goes(c, l),
         HoldsSlot(pc[c]) <=> HoldsSlot(l), pc[c] # "waiting", l # "waiting"
  PROVE  SlotsConserved'
<1>1. Holders' = Holders
  BY DEF Holders, HoldsSlot, Goes, TypeOK
<1>2. \A d \in Call : pc'[d] = "waiting" <=> pc[d] = "waiting"
  BY DEF Goes, TypeOK
<1> QED
  BY <1>1, <1>2 DEF SlotsConserved

\* A newcomer takes a slot, or joins the line.
LEMMA EnterSlots ==
  ASSUME TypeOK, SlotsConserved, NEW c \in Call, Enter(c)
  PROVE  /\ SlotsConserved'
         /\ free' \in 0..Slots /\ line' \in Seq(Call)
<1> USE DEF Labels, Working
<1>1. ~InLine(line, c) /\ Distinct(line)
  BY DEF SlotsConserved, InLine, Distinct, Enter
<1>2. CASE free > 0 /\ line = <<>>
  <2>1. free' = free - 1 /\ line' = line /\ pc' = [pc EXCEPT ![c] = "starting"]
    BY <1>2 DEF Enter, Goes
  <2>2. Holders' = Holders \cup {c} /\ c \notin Holders
    BY <2>1 DEF Holders, Enter, TypeOK
  <2>3. Cardinality(Holders') = Cardinality(Holders) + 1
    BY <2>2, Counted, FS_AddElement
  <2>4. \A d \in Call : pc'[d] = "waiting" <=> pc[d] = "waiting"
    BY <2>1 DEF Enter, TypeOK
  <2> QED
    BY <1>2, <2>1, <2>3, <2>4, Counted DEF SlotsConserved, TypeOK
<1>3. CASE ~(free > 0 /\ line = <<>>)
  <2>1. free' = free /\ line' = Append(line, c) /\ pc' = [pc EXCEPT ![c] = "waiting"]
    BY <1>3 DEF Enter, Goes
  <2>2. Holders' = Holders
    BY <2>1 DEF Holders, Enter, TypeOK
  <2>3. /\ line' \in Seq(Call) /\ Distinct(line')
        /\ \A d \in Call : InLine(line', d) <=> InLine(line, d) \/ d = c
    BY <1>1, <2>1, JoinsLine DEF TypeOK
  <2>4. free = 0
    BY <1>3 DEF SlotsConserved, TypeOK
  <2>5. \A d \in Call : pc'[d] = "waiting" <=> InLine(line', d)
    BY <2>1, <2>3 DEF SlotsConserved, InLine, TypeOK
  <2> QED
    BY <2>1, <2>2, <2>3, <2>4, <2>5 DEF SlotsConserved, InLine, Distinct, TypeOK
<1> QED
  BY <1>2, <1>3

\* A release gives the slot to the first in line or back to the pool.
LEMMA GivesBackSlots ==
  ASSUME TypeOK, SlotsConserved, NEW c \in Call, NEW l \in {"done", "recording"},
         HoldsSlot(pc[c]), GivesBack(c, l)
  PROVE  /\ SlotsConserved'
         /\ free' \in 0..Slots /\ line' \in Seq(Call)
         /\ pc' \in [Call -> Labels] /\ pc'[c] = l
         /\ \A d \in Call \ {c} : pc'[d] = pc[d] \/ (pc[d] = "waiting" /\ pc'[d] = "handed")
<1> USE DEF Labels, Working
<1>1. Distinct(line) /\ c \in Holders /\ pc[c] # "waiting"
  BY DEF SlotsConserved, Distinct, Holders, HoldsSlot
<1>2. CASE line = <<>>
  <2>1. free' = free + 1 /\ line' = line /\ pc' = [pc EXCEPT ![c] = l]
    BY <1>2 DEF GivesBack, Goes
  <2>2. Holders' = Holders \ {c}
    BY <2>1 DEF Holders, TypeOK
  <2>3. Cardinality(Holders') = Cardinality(Holders) - 1
    BY <1>1, <2>2, Counted, FS_RemoveElement
  <2>4. Cardinality(Holders') \in Nat
    BY <2>2, Counted, FS_RemoveElement, FS_CardinalityType
  <2>5. free' + Cardinality(Holders') = Slots /\ free' \in 0..Slots
    BY <2>1, <2>3, <2>4, Counted, BenchAssumption DEF SlotsConserved, TypeOK
  <2>6. \A d \in Call : pc'[d] = "waiting" <=> pc[d] = "waiting"
    BY <1>1, <2>1 DEF TypeOK
  <2>7. SlotsConserved'
    BY <1>2, <2>1, <2>5, <2>6 DEF SlotsConserved
  <2> QED
    BY <2>1, <2>5, <2>7 DEF TypeOK
<1>3. CASE line # <<>>
  <2> DEFINE h == Head(line)
  <2>1. /\ free' = free /\ line' = Tail(line)
        /\ pc' = [pc EXCEPT ![c] = l, ![h] = "handed"]
    BY <1>3 DEF GivesBack
  <2>2. /\ h \in Call /\ InLine(line, h)
        /\ line' \in Seq(Call) /\ Distinct(line')
        /\ \A d \in Call : InLine(line', d) <=> InLine(line, d) /\ d # h
    BY <1>1, <1>3, <2>1, HeadLeavesLine DEF TypeOK
  <2> HIDE DEF h
  <2>3. pc[h] = "waiting" /\ h # c
    BY <1>1, <2>2 DEF SlotsConserved, InLine
  <2>4. Holders' = (Holders \ {c}) \cup {h} /\ h \notin Holders
    BY <2>1, <2>2, <2>3 DEF Holders, TypeOK
  <2>5. Cardinality(Holders') = Cardinality(Holders)
    <3>1. /\ IsFiniteSet(Holders \ {c})
          /\ Cardinality(Holders \ {c}) = Cardinality(Holders) - 1
      BY <1>1, Counted, FS_RemoveElement
    <3>2. Cardinality((Holders \ {c}) \cup {h}) = Cardinality(Holders \ {c}) + 1
      BY <2>4, <3>1, FS_AddElement
    <3> QED
      BY <2>4, <3>1, <3>2, Counted
  <2>6. \A d \in Call : pc'[d] = "waiting" <=> InLine(line', d)
    BY <1>1, <2>1, <2>2, <2>3 DEF SlotsConserved, InLine, TypeOK
  <2>7. free = 0
    BY <1>3 DEF SlotsConserved
  <2>8. SlotsConserved'
    BY <2>1, <2>2, <2>5, <2>6, <2>7 DEF SlotsConserved, InLine, Distinct
  <2> QED
    BY <2>1, <2>2, <2>3, <2>7, <2>8 DEF TypeOK
<1> QED
  BY <1>2, <1>3

\* Whoever gives up in line takes nothing along.
LEMMA GiveUpSlots ==
  ASSUME TypeOK, SlotsConserved, NEW c \in Call, GiveUp(c)
  PROVE  SlotsConserved' /\ line' \in Seq(Call)
<1> USE DEF Labels, Working
<1>1. PICK k \in 1..Len(line) :
        line[k] = c /\ line' = SubSeq(line, 1, k - 1) \o SubSeq(line, k + 1, Len(line))
  BY DEF GiveUp
<1>2. Distinct(line) /\ line \in Seq(Call)
  BY DEF SlotsConserved, Distinct, TypeOK
<1>3. /\ line' \in Seq(Call) /\ Distinct(line')
      /\ \A d \in Call : InLine(line', d) <=> InLine(line, d) /\ d # c
  BY <1>1, <1>2, MiddleLeavesLine
<1>4. pc' = [pc EXCEPT ![c] = "done"] /\ pc[c] = "waiting" /\ free' = free
  BY DEF GiveUp, Goes
<1>5. Holders' = Holders
  BY <1>4 DEF Holders, TypeOK
<1>6. \A d \in Call : pc'[d] = "waiting" <=> InLine(line', d)
  BY <1>3, <1>4 DEF SlotsConserved, InLine, TypeOK
<1>7. line # <<>>
  BY <1>1, <1>2
<1> QED
  BY <1>3, <1>4, <1>5, <1>6, <1>7 DEF SlotsConserved, InLine, Distinct

-----------------------------------------------------------------------------
(* The courses.                                                            *)

LEMMA BenchStarts == Init => BenchInv
<1> SUFFICES ASSUME Init PROVE BenchInv
  OBVIOUS
<1> USE BenchAssumption DEF Init, Labels, Working
<1>1. TypeOK
  BY DEF TypeOK, Outcomes, Fates
<1>2. SlotsConserved
  <2>1. Holders = {}
    BY DEF Holders
  <2>2. Cardinality(Holders) = 0
    BY <2>1, FS_EmptySet
  <2> QED
    BY <2>2 DEF SlotsConserved
<1>3. Courses
  BY DEF Courses, Course, Before, Status, Alive
<1> QED
  BY <1>1, <1>2, <1>3 DEF BenchInv

\* A step of c leaves the others where they are, but for the one that is handed its slot.
Others(c) ==
  /\ ask' = ask
  /\ \A d \in Call \ {c} :
       /\ pc'[d] = pc[d] \/ (pc[d] = "waiting" /\ pc'[d] = "handed")
       /\ child'[d] = child[d] /\ pipe'[d] = pipe[d] /\ sent'[d] = sent[d]
       /\ got'[d] = got[d] /\ row'[d] = row[d] /\ told'[d] = told[d]

\* So their courses go on.
LEMMA CoursesKept ==
  ASSUME Courses, NEW c \in Call, Others(c), Course(c)'
  PROVE  Courses'
<1> SUFFICES ASSUME NEW d \in Call \ {c} PROVE Course(d)'
  BY DEF Courses
<1>1. Course(d)
  BY DEF Courses
<1>2. CASE pc'[d] = pc[d]
  BY <1>1, <1>2 DEF Others, Course, Alive
<1>3. CASE pc[d] = "waiting" /\ pc'[d] = "handed"
  BY <1>1, <1>3 DEF Others, Course, Alive, Before, Working
<1> QED
  BY <1>2, <1>3 DEF Others

\* The steps of the semaphore and the door.
LEMMA DoorHolds ==
  ASSUME BenchInv, NEW c \in Call,
         \/ TurnedAtDoor(c) \/ TurnedByService(c) \/ Enter(c) \/ Wake(c) \/ GiveUp(c)
         \/ GiveUpHanded(c)
  PROVE  BenchInv'
<1>1. TypeOK /\ SlotsConserved /\ Courses /\ Course(c)
  BY DEF BenchInv, Courses
<1> USE DEF Labels, Working, Goes, Tells, HoldsSlot
<1>2. CASE TurnedAtDoor(c) \/ TurnedByService(c)
  <2>1. Goes(c, "done") /\ pc[c] = "idle" /\ UNCHANGED <<free, line>>
    BY <1>2 DEF TurnedAtDoor, TurnedByService
  <2>2. TypeOK' /\ Others(c)
    BY <1>1, <1>2 DEF TurnedAtDoor, TurnedByService, TypeOK, Others
  <2>3. Course(c)'
    BY <1>1, <1>2 DEF TurnedAtDoor, TurnedByService, Course, Before, Alive, TypeOK, Status
  <2>4. SlotsConserved'
    BY <1>1, <2>1, SlotsKept
  <2> QED
    BY <1>1, <2>2, <2>3, <2>4, CoursesKept DEF BenchInv
<1>3. CASE Enter(c)
  <2>1. SlotsConserved' /\ free' \in 0..Slots /\ line' \in Seq(Call)
    BY <1>1, <1>3, EnterSlots
  <2>2. TypeOK' /\ Others(c)
    BY <1>1, <1>3, <2>1 DEF Enter, TypeOK, Others
  <2>3. Course(c)'
    BY <1>1, <1>3 DEF Enter, Course, Before, Alive, TypeOK, Status
  <2> QED
    BY <1>1, <2>1, <2>2, <2>3, CoursesKept DEF BenchInv
<1>4. CASE Wake(c)
  <2>1. TypeOK' /\ Others(c)
    BY <1>1, <1>4 DEF Wake, TypeOK, Others
  <2>2. Course(c)'
    BY <1>1, <1>4 DEF Wake, Course, Before, Alive, TypeOK, Status
  <2>3. SlotsConserved'
    BY <1>1, <1>4, SlotsKept DEF Wake
  <2> QED
    BY <1>1, <2>1, <2>2, <2>3, CoursesKept DEF BenchInv
<1>5. CASE GiveUp(c)
  <2>1. SlotsConserved' /\ line' \in Seq(Call)
    BY <1>1, <1>5, GiveUpSlots
  <2>2. TypeOK' /\ Others(c)
    BY <1>1, <1>5, <2>1 DEF GiveUp, TypeOK, Others
  <2>3. Course(c)'
    BY <1>1, <1>5 DEF GiveUp, Course, Before, Alive, TypeOK, Status
  <2> QED
    BY <1>1, <2>1, <2>2, <2>3, CoursesKept DEF BenchInv
<1>6. CASE GiveUpHanded(c)
  <2>1. /\ SlotsConserved' /\ free' \in 0..Slots /\ line' \in Seq(Call)
        /\ pc' \in [Call -> Labels] /\ pc'[c] = "done"
        /\ \A d \in Call \ {c} : pc'[d] = pc[d] \/ (pc[d] = "waiting" /\ pc'[d] = "handed")
    BY <1>1, <1>6, GivesBackSlots DEF GiveUpHanded
  <2>2. TypeOK' /\ Others(c)
    BY <1>1, <1>6, <2>1 DEF GiveUpHanded, TypeOK, Others
  <2>3. Course(c)'
    BY <1>1, <1>6, <2>1 DEF GiveUpHanded, Course, Before, Alive, TypeOK, Status
  <2> QED
    BY <1>1, <2>1, <2>2, <2>3, CoursesKept DEF BenchInv
<1> QED
  BY <1>2, <1>3, <1>4, <1>5, <1>6

\* The run itself keeps its slot; its steps differ in what they do to the child and the answer.
Runs(c) ==
  \/ Dispatch(c) \/ Await(c)
  \/ DrainGets(c) \/ DrainSticks(c) \/ DrainFindsDead(c) \/ DrainTimesOut(c)
  \/ Reap(c) \/ Terminate(c) \/ Grace(c) \/ LastGrace(c)

\* A step of the run moves its call from one working place to another.
LEMMA RunSlots ==
  ASSUME BenchInv, NEW c \in Call, Runs(c)
  PROVE  SlotsConserved'
<1>1. UNCHANGED <<free, line>>
  BY DEF Runs, Dispatch, Await, DrainGets, DrainSticks, DrainFindsDead, DrainTimesOut, Reap,
         Terminate, Grace, LastGrace
<1>2. pc[c] \in Working
  BY DEF Runs, Dispatch, Await, DrainGets, DrainSticks, DrainFindsDead, DrainTimesOut, Reap,
         Terminate, Grace, LastGrace, Working
<1>3. \E l \in Working : Goes(c, l)
  BY DEF Runs, Dispatch, Await, DrainGets, DrainSticks, DrainFindsDead, DrainTimesOut, Reap,
         Terminate, Grace, LastGrace, Working
<1>4. PICK l \in Working : Goes(c, l)
  BY <1>3
<1> QED
  BY <1>1, <1>2, <1>4, SlotsKept DEF BenchInv, HoldsSlot, Labels, Working

\* What the parent hears, and what it does to the child, keeps to the course.
LEMMA RunHolds ==
  ASSUME BenchInv, NEW c \in Call, Runs(c)
  PROVE  BenchInv'
<1>1. TypeOK /\ Courses /\ Course(c)
  BY DEF BenchInv, Courses
<1> USE DEF Goes, Hears, Sends
<1>2. TypeOK' /\ Others(c)
  <2> USE DEF TypeOK, Others, Labels, Working, Outcomes, Fates, Envelope
  <2>1. CASE Dispatch(c)
    BY <1>1, <2>1 DEF Dispatch
  <2>2. CASE Await(c)
    <3>1. ask[c] \in Question
      BY <1>1, <2>2 DEF Await, Course
    <3>2. Verdicts[ask[c]] \subseteq Envelope
      BY <3>1, BenchAssumption
    <3> QED
      BY <1>1, <2>2, <3>2 DEF Await
  <2>3. CASE DrainGets(c)
    BY <1>1, <2>3 DEF DrainGets
  <2>4. CASE DrainSticks(c) \/ DrainFindsDead(c) \/ DrainTimesOut(c)
    BY <1>1, <2>4 DEF DrainSticks, DrainFindsDead, DrainTimesOut
  <2>5. CASE Reap(c) \/ Terminate(c) \/ Grace(c) \/ LastGrace(c)
    BY <1>1, <2>5 DEF Reap, Terminate, Grace, LastGrace
  <2> QED
    BY <2>1, <2>2, <2>3, <2>4, <2>5 DEF Runs
<1>3. Course(c)'
  <2> USE DEF Course, Before, Alive, TypeOK, Status, Working
  <2>1. CASE Dispatch(c)
    BY <1>1, <2>1 DEF Dispatch
  <2>2. CASE Await(c)
    <3>1. PICK e \in Verdicts[ask[c]] \cup {"worker_error", "timeout"} : Hears(c, e)
      BY <2>2 DEF Await
    <3> QED
      BY <1>1, <2>2, <3>1 DEF Await
  <2>3. CASE DrainGets(c)
    BY <1>1, <2>3 DEF DrainGets, Envelope
  <2>4. CASE DrainSticks(c) \/ DrainFindsDead(c) \/ DrainTimesOut(c)
    BY <1>1, <2>4 DEF DrainSticks, DrainFindsDead, DrainTimesOut
  <2>5. CASE Reap(c)
    BY <1>1, <2>5 DEF Reap
  <2>6. CASE Terminate(c)
    BY <1>1, <2>6 DEF Terminate
  <2>7. CASE Grace(c) \/ LastGrace(c)
    BY <1>1, <2>7 DEF Grace, LastGrace
  <2> QED
    BY <2>1, <2>2, <2>3, <2>4, <2>5, <2>6, <2>7 DEF Runs
<1> QED
  BY <1>1, <1>2, <1>3, RunSlots, CoursesKept DEF BenchInv

\* What a child does by itself, or to its pipe, keeps to the course.
LEMMA ChildHolds ==
  ASSUME BenchInv, NEW c \in Call, Child(c)
  PROVE  BenchInv'
<1>1. TypeOK /\ SlotsConserved /\ Courses /\ Course(c)
  BY DEF BenchInv, Courses
<1>2. UNCHANGED <<ask, pc, free, line, sent, got, row, told>>
  BY DEF Child, Put, Exit, Die, Fall
<1>3. CASE Put(c)
  <2>1. pc[c] # "idle"
    BY <1>1, <1>3 DEF Put, Course, Before
  <2>2. ask[c] \in Question
    BY <1>1, <2>1 DEF Course
  <2>3. Verdicts[ask[c]] \subseteq Envelope
    BY <2>2, BenchAssumption
  <2>4. TypeOK'
    BY <1>1, <1>2, <1>3, <2>3 DEF Put, TypeOK, Fates, Envelope
  <2>5. Others(c)
    BY <1>1, <1>2, <1>3 DEF Put, TypeOK, Others
  <2>6. Course(c)'
    <3>1. PICK e \in Verdicts[ask[c]] \cup {"memory", "worker_error"} :
            pipe' = [pipe EXCEPT ![c] = e]
      BY <1>3 DEF Put
    <3>2. child[c] = "busy" /\ child'[c] = "flushing" /\ pipe'[c] = e
      BY <1>1, <1>3, <3>1 DEF Put, TypeOK
    <3>3. e \in Status => e \in Verdicts[ask[c]]
      BY DEF Status
    <3>4. got[c] \notin Status
      BY <1>1, <3>2 DEF Course
    <3> QED
      BY <1>1, <1>2, <3>2, <3>3, <3>4 DEF Course, Alive
  <2> QED
    BY <1>1, <1>2, <2>4, <2>5, <2>6, CoursesKept DEF BenchInv, SlotsConserved, Holders
<1>4. CASE Exit(c) \/ Fall(c)
  <2>1. TypeOK' /\ Others(c)
    BY <1>1, <1>2, <1>4 DEF Exit, Fall, TypeOK, Others, Fates
  <2>2. Course(c)'
    BY <1>1, <1>2, <1>4 DEF Exit, Fall, Course, Before, Alive, TypeOK, Status, Working
  <2> QED
    BY <1>1, <1>2, <2>1, <2>2, CoursesKept DEF BenchInv, SlotsConserved, Holders
<1>5. CASE Die(c)
  <2>1. PICK how \in {"crashed", "oom"} : child' = [child EXCEPT ![c] = how]
    BY <1>5 DEF Die
  <2>2. /\ Alive(c)
        /\ \/ UNCHANGED pipe
           \/ pipe[c] # "empty" /\ \E left \in {"empty", "torn"} : pipe' = [pipe EXCEPT ![c] = left]
    BY <1>5 DEF Die, Envelope, Status
  <2>3. TypeOK' /\ Others(c)
    BY <1>1, <1>2, <2>1, <2>2 DEF TypeOK, Others, Fates
  <2>4. child'[c] = how /\ ~Alive(c)'
    BY <1>1, <2>1 DEF TypeOK, Alive
  <2>5. \/ pipe'[c] = pipe[c]
        \/ pipe[c] # "empty" /\ pipe'[c] \in {"empty", "torn"}
    BY <1>1, <2>2 DEF TypeOK
  <2>6. pipe'[c] \in Status => pipe'[c] = pipe[c]
    BY <2>5 DEF Status
  <2>7. pc[c] \notin Before
    BY <1>1, <2>2 DEF Course, Alive
  <2>8. Course(c)'
    BY <1>1, <1>2, <2>2, <2>4, <2>5, <2>6, <2>7 DEF Course, Alive, Status
  <2> QED
    BY <1>1, <1>2, <2>3, <2>8, CoursesKept DEF BenchInv, SlotsConserved, Holders
<1> QED
  BY <1>3, <1>4, <1>5 DEF Child

\* The slot goes back before the row is written; neither says more than the answer.
LEMMA RecordHolds ==
  ASSUME BenchInv, NEW c \in Call, Conclude(c) \/ Record(c) \/ Reply(c)
  PROVE  BenchInv'
<1>1. TypeOK /\ SlotsConserved /\ Courses /\ Course(c)
  BY DEF BenchInv, Courses
<1> USE DEF Goes, Tells
<1>2. CASE Conclude(c)
  <2>1. /\ pc[c] = "concluding" /\ UNCHANGED <<ask, child, pipe, sent, got, row>>
        /\ \/ got[c] \in Status /\ GivesBack(c, "recording") /\ told' = told
           \/ got[c] \notin Status /\ GivesBack(c, "done") /\ Tells(c, Failure(c))
    BY <1>2 DEF Conclude
  <2>2. PICK l \in {"done", "recording"} :
           /\ GivesBack(c, l)
           /\ \/ got[c] \in Status /\ l = "recording" /\ told' = told
              \/ got[c] \notin Status /\ l = "done" /\ Tells(c, Failure(c))
    BY <2>1
  <2>3. /\ SlotsConserved' /\ free' \in 0..Slots /\ line' \in Seq(Call)
        /\ pc' \in [Call -> Labels] /\ pc'[c] = l
        /\ \A d \in Call \ {c} : pc'[d] = pc[d] \/ (pc[d] = "waiting" /\ pc'[d] = "handed")
    BY <1>1, <2>1, <2>2, GivesBackSlots DEF HoldsSlot, Working
  <2>4. Failure(c) \in {"timeout", "memory", "failed"}
    BY DEF Failure
  <2>5. TypeOK' /\ Others(c)
    BY <1>1, <2>1, <2>2, <2>3, <2>4 DEF TypeOK, Others
  <2>6. Course(c)'
    BY <1>1, <2>1, <2>2, <2>3, <2>4 DEF Course, Before, Alive, TypeOK, Working
  <2> QED
    BY <1>1, <2>3, <2>5, <2>6, CoursesKept DEF BenchInv
<1>3. CASE Record(c)
  <2>1. TypeOK' /\ Others(c)
    BY <1>1, <1>3 DEF Record, TypeOK, Others, Labels, Working, Course
  <2>2. Course(c)'
    BY <1>1, <1>3 DEF Record, Course, Before, Alive, TypeOK, Working, Status
  <2>3. SlotsConserved'
    <3>1. UNCHANGED <<free, line>> /\ pc[c] = "recording"
          /\ \E l \in {"recorded", "done"} : Goes(c, l)
      BY <1>3 DEF Record
    <3>2. PICK l \in {"recorded", "done"} : Goes(c, l)
      BY <3>1
    <3> QED
      BY <1>1, <3>1, <3>2, SlotsKept DEF HoldsSlot, Labels, Working
  <2> QED
    BY <1>1, <2>1, <2>2, <2>3, CoursesKept DEF BenchInv
<1>4. CASE Reply(c)
  <2>1. PICK what \in {"checkpoint", "failed"} : Tells(c, what)
    BY <1>4 DEF Reply
  <2>2. pc[c] = "recorded" /\ Goes(c, "done")
        /\ UNCHANGED <<ask, free, line, child, pipe, sent, got, row>>
    BY <1>4 DEF Reply
  <2>3. TypeOK' /\ Others(c)
    BY <1>1, <2>1, <2>2 DEF TypeOK, Others, Labels, Working
  <2>4. Course(c)'
    BY <1>1, <2>1, <2>2 DEF Course, Before, Alive, TypeOK, Working
  <2>5. SlotsConserved'
    BY <1>1, <2>2, SlotsKept DEF HoldsSlot, Labels, Working
  <2> QED
    BY <1>1, <2>3, <2>4, <2>5, CoursesKept DEF BenchInv
<1> QED
  BY <1>2, <1>3, <1>4

\* Every step keeps the slots and the courses.
LEMMA BenchSteps == BenchInv /\ [Next]_vars => BenchInv'
<1> SUFFICES ASSUME BenchInv, [Next]_vars PROVE BenchInv'
  OBVIOUS
<1>1. ASSUME NEW c \in Call, Parent(c) PROVE BenchInv'
  BY <1>1, DoorHolds, RunHolds, RecordHolds DEF Parent, Runs
<1>2. ASSUME NEW c \in Call, Child(c) PROVE BenchInv'
  BY <1>2, ChildHolds
<1>3. CASE UNCHANGED vars
  BY <1>3 DEF vars, BenchInv, TypeOK, SlotsConserved, Holders, Courses, Course, Alive
<1> QED
  BY <1>1, <1>2, <1>3 DEF Next, Resting

LEMMA BenchInvariant == Spec => []BenchInv
<1> QED
  BY BenchStarts, BenchSteps, PTL DEF Spec

-----------------------------------------------------------------------------
\* Types, for any number of calls and slots (policy.acquire_run_slot, subprocess_runner).
THEOREM BenchTypes == Spec => []TypeOK
<1>1. BenchInv => TypeOK
  BY DEF BenchInv
<1> QED
  BY <1>1, BenchInvariant, PTL

\* No order of handing over, giving up and giving back loses a slot of the semaphore or makes
\* one (policy.acquire_run_slot).
THEOREM SlotsTheorem == Spec => []SlotsConserved
<1>1. BenchInv => SlotsConserved
  BY DEF BenchInv
<1> QED
  BY <1>1, BenchInvariant, PTL

\* Every way out of a run ends its child or has SIGKILL on its way
\* (subprocess_runner._run_in_subprocess, _terminate).
THEOREM StrayTheorem == Spec => []NoStrayChild
<1>1. BenchInv => NoStrayChild
  BY DEF BenchInv, Courses, Course, NoStrayChild
<1> QED
  BY <1>1, BenchInvariant, PTL

\* A row records what the child answered while its parent waited, and a caller is told so
\* (tool_runs.run_instrument, live_mcp).
THEOREM MintedTheorem == Spec => []MintedFromAnswer
<1>1. BenchInv => MintedFromAnswer
  <2> SUFFICES ASSUME BenchInv, NEW c \in Call, Course(c)
               PROVE  /\ row[c] # "none" =>
                           /\ row[c] = got[c] /\ row[c] \in Verdicts[ask[c]]
                           /\ sent[c] # "none" => pipe[c] = "empty"
                      /\ told[c] = "checkpoint" => row[c] # "none"
                      /\ pc[c] = "done" /\ row[c] # "none" => told[c] \in {"checkpoint", "failed"}
    BY DEF BenchInv, Courses, MintedFromAnswer
  <2> QED
    BY DEF Course
<1> QED
  BY <1>1, BenchInvariant, PTL

-----------------------------------------------------------------------------
(* The refinement.                                                         *)

\* At the bench are some of those who hold a slot.
LEMMA BenchRoom ==
  ASSUME TypeOK, SlotsConserved
  PROVE  /\ W!AtBench \subseteq Holders /\ IsFiniteSet(W!AtBench)
         /\ Cardinality(W!AtBench) \in Nat
         /\ Cardinality(W!AtBench) <= Cardinality(Holders)
<1>1. W!AtBench \subseteq Holders
  BY DEF W!AtBench, Place, Holders
<1> QED
  BY <1>1, Counted, FS_Subset, FS_CardinalityType

\* The two modules count alike.
LEMMA SameCount == \A S : W!Cardinality(S) = Cardinality(S)
BY DEF W!Cardinality, Cardinality

\* A call that is resumed or that comes first finds room.
LEMMA RoomToStart ==
  ASSUME TypeOK, SlotsConserved, NEW c \in Call,
         pc[c] = "handed" \/ (pc[c] = "idle" /\ free > 0)
  PROVE  W!Cardinality(W!AtBench) < Slots
<1> SUFFICES Cardinality(W!AtBench) < Slots
  BY SameCount
<1>1. CASE pc[c] = "idle" /\ free > 0
  BY <1>1, BenchRoom, Counted, BenchAssumption DEF SlotsConserved, TypeOK
<1>2. CASE pc[c] = "handed"
  <2>1. W!AtBench \subseteq Holders \ {c} /\ c \in Holders
    BY <1>2, BenchRoom DEF W!AtBench, Place, Holders, Working
  <2>2. /\ IsFiniteSet(Holders \ {c})
        /\ Cardinality(Holders \ {c}) = Cardinality(Holders) - 1
    BY <2>1, Counted, FS_RemoveElement
  <2>3. Cardinality(W!AtBench) <= Cardinality(Holders) - 1
    BY <2>1, <2>2, FS_Subset
  <2> QED
    BY <2>3, BenchRoom, Counted, BenchAssumption DEF SlotsConserved, TypeOK
<1> QED
  BY <1>1, <1>2

\* What the promise sees of a call.
Heard(c) == IF got[c] \in Status THEN got[c] ELSE "none"

\* A step after which each call is seen as before is a stutter of the promise.
LEMMA Unseen ==
  ASSUME TypeOK, TypeOK', UNCHANGED row,
         \A d \in Call : Place(d)' = Place(d) /\ Heard(d)' = Heard(d)
  PROVE  UNCHANGED W!benchVars
BY DEF W!benchVars, Heard

\* A step that is seen at c alone.
LEMMA SeenAt ==
  ASSUME TypeOK, TypeOK', NEW c \in Call, Others(c)
  PROVE  \A d \in Call \ {c} : Place(d)' = Place(d) /\ Heard(d)' = Heard(d)
BY DEF Others, Place, Heard, Working

\* Who enters, is resumed, is turned away or gives up.
LEMMA DoorRefines ==
  ASSUME BenchInv, BenchInv', NEW c \in Call,
         \/ TurnedAtDoor(c) \/ TurnedByService(c) \/ Enter(c) \/ Wake(c) \/ GiveUp(c)
         \/ GiveUpHanded(c)
  PROVE  [W!BenchNext]_(W!benchVars)
<1>1. TypeOK /\ TypeOK' /\ SlotsConserved
  BY DEF BenchInv
<1>0. pc \in [Call -> Labels]
  BY <1>1 DEF TypeOK
<1> USE DEF Working
<1>2. UNCHANGED <<row, got>>
  BY DEF TurnedAtDoor, TurnedByService, Enter, Wake, GiveUp, GiveUpHanded
<1>3. CASE \/ TurnedAtDoor(c) \/ TurnedByService(c) \/ GiveUp(c) \/ GiveUpHanded(c)
  <2>1. pc[c] \in {"idle", "waiting", "handed"} /\ pc'[c] = "done"
    <3>1. CASE TurnedAtDoor(c) \/ TurnedByService(c) \/ GiveUp(c)
      <4>1. pc[c] \in {"idle", "waiting"} /\ Goes(c, "done")
        BY <3>1 DEF TurnedAtDoor, TurnedByService, GiveUp
      <4> QED
        BY <1>0, <4>1 DEF Goes
    <3>2. CASE GiveUpHanded(c)
      BY <1>1, <3>2, GivesBackSlots DEF GiveUpHanded, HoldsSlot
    <3> QED
      BY <1>3, <3>1, <3>2
  <2>2. \A d \in Call \ {c} : pc'[d] = pc[d] \/ (pc[d] = "waiting" /\ pc'[d] = "handed")
    <3>1. CASE TurnedAtDoor(c) \/ TurnedByService(c) \/ GiveUp(c)
      <4>1. Goes(c, "done")
        BY <3>1 DEF TurnedAtDoor, TurnedByService, GiveUp
      <4> QED
        BY <1>0, <4>1 DEF Goes
    <3>2. CASE GiveUpHanded(c)
      BY <1>1, <3>2, GivesBackSlots DEF GiveUpHanded, HoldsSlot
    <3> QED
      BY <1>3, <3>1, <3>2
  <2>3. W!Turned(c)
    BY <1>2, <2>1, <2>2 DEF W!Turned, Place
  <2> QED
    BY <2>3 DEF W!BenchNext
<1>4. CASE Enter(c) /\ free > 0 /\ line = <<>>
  <2>1. pc[c] = "idle" /\ pc' = [pc EXCEPT ![c] = "starting"]
    BY <1>4 DEF Enter, Goes
  <2>2. W!Cardinality(W!AtBench) < Slots
    BY <1>1, <1>4, <2>1, RoomToStart
  <2>3. W!Starts(c)
    BY <1>0, <1>2, <2>1, <2>2 DEF W!Starts, Place
  <2> QED
    BY <2>3 DEF W!BenchNext
<1>5. CASE Enter(c) /\ ~(free > 0 /\ line = <<>>)
  <2>1. pc[c] = "idle" /\ pc' = [pc EXCEPT ![c] = "waiting"]
    BY <1>5 DEF Enter, Goes
  <2>2. \A d \in Call : Place(d)' = Place(d) /\ Heard(d)' = Heard(d)
    BY <1>1, <1>2, <2>1 DEF Place, Heard, TypeOK
  <2> QED
    BY <1>1, <1>2, <2>2, Unseen
<1>6. CASE Wake(c)
  <2>1. pc[c] = "handed" /\ pc' = [pc EXCEPT ![c] = "starting"]
    BY <1>6 DEF Wake, Goes
  <2>2. W!Cardinality(W!AtBench) < Slots
    BY <1>1, <2>1, RoomToStart
  <2>3. W!Starts(c)
    BY <1>0, <1>2, <2>1, <2>2 DEF W!Starts, Place
  <2> QED
    BY <2>3 DEF W!BenchNext
<1> QED
  BY <1>3, <1>4, <1>5, <1>6

\* A run is seen to hear its verdict, if it hears one; otherwise it is not seen.
LEMMA RunRefines ==
  ASSUME BenchInv, BenchInv', NEW c \in Call, Runs(c)
  PROVE  [W!BenchNext]_(W!benchVars)
<1>1. TypeOK /\ TypeOK' /\ Course(c) /\ UNCHANGED row
  BY DEF BenchInv, Courses, Runs, Dispatch, Await, DrainGets, DrainSticks, DrainFindsDead,
         DrainTimesOut, Reap, Terminate, Grace, LastGrace
<1>2. pc[c] \in Working /\ \E l \in Working : Goes(c, l)
  BY DEF Runs, Dispatch, Await, DrainGets, DrainSticks, DrainFindsDead, DrainTimesOut, Reap,
         Terminate, Grace, LastGrace, Working
<1>3. \A d \in Call : Place(d)' = Place(d)
  <2>1. PICK l \in Working : Goes(c, l)
    BY <1>2
  <2> QED
    BY <1>1, <1>2, <2>1 DEF Goes, Place, TypeOK
<1>4. got' = got \/ (got[c] = "nothing" /\ \E e \in Outcomes : Hears(c, e))
  BY <1>1 DEF Runs, Dispatch, Await, DrainGets, DrainSticks, DrainFindsDead, DrainTimesOut, Reap,
         Terminate, Grace, LastGrace, Course, Before, Hears, Outcomes, TypeOK
<1>5. CASE got' = got
  BY <1>1, <1>3, <1>5, Unseen DEF Heard
<1>6. ASSUME got[c] = "nothing", NEW e \in Outcomes, Hears(c, e)
      PROVE  [W!BenchNext]_(W!benchVars)
  <2>1. Heard(c) = "none" /\ \A d \in Call \ {c} : Heard(d)' = Heard(d)
    BY <1>1, <1>6 DEF Heard, Hears, Status, TypeOK
  <2>2. CASE e \in Status
    <3>1. Heard(c)' = e /\ Place(c) = "bench"
      BY <1>1, <1>2, <1>6, <2>2 DEF Heard, Hears, Place, TypeOK
    <3>2. W!Hears(c)
      BY <1>1, <1>3, <2>1, <2>2, <3>1 DEF W!Hears, Heard
    <3> QED
      BY <3>2 DEF W!BenchNext
  <2>3. CASE e \notin Status
    <3>1. Heard(c)' = "none"
      BY <1>1, <1>6, <2>3 DEF Heard, Hears, TypeOK
    <3> QED
      BY <1>1, <1>3, <2>1, <3>1, Unseen
  <2> QED
    BY <2>2, <2>3
<1> QED
  BY <1>4, <1>5, <1>6

\* A run that is concluded leaves the bench; a row is written from what was heard.
LEMMA RecordRefines ==
  ASSUME BenchInv, BenchInv', NEW c \in Call, Conclude(c) \/ Record(c) \/ Reply(c)
  PROVE  [W!BenchNext]_(W!benchVars)
<1>1. TypeOK /\ TypeOK' /\ SlotsConserved /\ Course(c)
  BY DEF BenchInv, Courses
<1> USE DEF Working
<1>2. UNCHANGED got
  BY DEF Conclude, Record, Reply
<1>3. CASE Conclude(c)
  <2>1. PICK l \in {"done", "recording"} : GivesBack(c, l)
    BY <1>3 DEF Conclude
  <2>2. pc[c] = "concluding" /\ UNCHANGED row
    BY <1>3 DEF Conclude
  <2>3. /\ pc'[c] = l
        /\ \A d \in Call \ {c} : pc'[d] = pc[d] \/ (pc[d] = "waiting" /\ pc'[d] = "handed")
    BY <1>1, <2>1, <2>2, GivesBackSlots DEF HoldsSlot
  <2>4. W!Stops(c)
    BY <1>2, <2>2, <2>3 DEF W!Stops, Place
  <2> QED
    BY <2>4 DEF W!BenchNext
<1>4. CASE Record(c)
  <2>1. pc[c] = "recording" /\ got[c] \in Status
    BY <1>1, <1>4 DEF Record, Course
  <2>2. \A d \in Call : Place(d)' = Place(d) /\ Heard(d)' = Heard(d)
    BY <1>1, <1>2, <1>4, <2>1 DEF Record, Goes, Place, Heard, TypeOK
  <2>3. CASE row' = [row EXCEPT ![c] = got[c]]
    <3>1. row[c] = "none" /\ Place(c) = "over" /\ got[c] # "none"
      BY <1>1, <2>1 DEF Course, Place, Status
    <3>2. W!Writes(c)
      BY <1>1, <2>1, <2>2, <2>3, <3>1 DEF W!Writes, Heard
    <3> QED
      BY <3>2 DEF W!BenchNext
  <2>4. CASE UNCHANGED row
    BY <1>1, <2>2, <2>4, Unseen
  <2> QED
    BY <1>4, <2>3, <2>4 DEF Record
<1>5. CASE Reply(c)
  <2>1. \A d \in Call : Place(d)' = Place(d) /\ Heard(d)' = Heard(d)
    BY <1>1, <1>2, <1>5 DEF Reply, Goes, Place, Heard, TypeOK
  <2> QED
    BY <1>1, <1>5, <2>1, Unseen DEF Reply
<1> QED
  BY <1>3, <1>4, <1>5

\* The semaphore, the processes and their pipes behave as the toolbench promises: bounded, one
\* verdict a call, written once (tool_runs.run_instrument, policy.py, subprocess_runner.py).
THEOREM WorkbenchTheorem == Spec => ImplementsWorkbench
<1>1. Init => W!BenchInit
  BY DEF Init, W!BenchInit, Place, Working, Status
<1>2. BenchInv /\ BenchInv' /\ [Next]_vars => [W!BenchNext]_(W!benchVars)
  <2> SUFFICES ASSUME BenchInv, BenchInv', [Next]_vars PROVE [W!BenchNext]_(W!benchVars)
    OBVIOUS
  <2>1. ASSUME NEW c \in Call, Parent(c) PROVE [W!BenchNext]_(W!benchVars)
    BY <2>1, DoorRefines, RunRefines, RecordRefines DEF Parent, Runs
  <2>2. ASSUME NEW c \in Call, Child(c) PROVE [W!BenchNext]_(W!benchVars)
    <3>1. UNCHANGED <<pc, got, row>>
      BY <2>2 DEF Child, Put, Exit, Die, Fall
    <3>2. \A d \in Call : Place(d)' = Place(d) /\ Heard(d)' = Heard(d)
      BY <3>1 DEF Place, Heard
    <3> QED
      BY <3>1, <3>2, Unseen DEF BenchInv
  <2>3. CASE UNCHANGED vars
    <3>1. UNCHANGED <<pc, got, row>>
      BY <2>3 DEF vars
    <3>2. \A d \in Call : Place(d)' = Place(d) /\ Heard(d)' = Heard(d)
      BY <3>1 DEF Place, Heard
    <3> QED
      BY <3>1, <3>2, Unseen DEF BenchInv
  <2> QED
    BY <2>1, <2>2, <2>3 DEF Next, Resting
<1> QED
  BY <1>1, <1>2, BenchInvariant, PTL DEF Spec, ImplementsWorkbench, W!BenchSpec

-----------------------------------------------------------------------------
(* What a grade is worth.                                                  *)

\* The rows that are graded, and the tools whose result is a proof.
LEMMA Graded ==
  ASSUME NEW t, NEW s \in Status, G!GradeFor(t, s) > 0
  PROVE  \/ s = "result" /\ t \in G!Proving \cup G!Kernel \cup G!Exact \cup G!Measuring
                                    \cup G!Sampling
         \/ s = "refuted" /\ t \in G!Proving \cup G!Exact \cup G!Sampling
BY DEF Status, G!GradeFor

\* A grade of four.
LEMMA TopRung ==
  ASSUME NEW t, NEW s \in Status, G!GradeFor(t, s) = 4
  PROVE  t \in {"z3.prove", "z3.satisfy", "lean.prove"}
BY DEF Status, G!GradeFor, G!Proving, G!Kernel

\* The solver's term of a formula is true where a reader takes the formula to be.
Understood(n) ==
  ForSolver(n) # Ill => \A a \in Assign : ForSolver(n).of[a] = Holds(n, a)

\* The models of what was asserted are the assignments that the formulas hold under.
LEMMA ModelsMeant ==
  ASSUME NEW fs, \A i \in DOMAIN fs : Understood(fs[i]),
         \A i \in DOMAIN Terms(fs) : Terms(fs)[i] # Ill
  PROVE  Models(Terms(fs)) = {a \in Assign : \A i \in DOMAIN fs : Holds(fs[i], a)}
<1>1. DOMAIN Terms(fs) = DOMAIN fs /\ \A i \in DOMAIN fs : Terms(fs)[i] = ForSolver(fs[i])
  BY DEF Terms
<1>2. \A i \in DOMAIN fs : \A a \in Assign : Terms(fs)[i].of[a] = Holds(fs[i], a)
  BY <1>1 DEF Understood
<1>3. ASSUME NEW a \in Assign
      PROVE  (\A i \in DOMAIN Terms(fs) : Terms(fs)[i].of[a])
                <=> (\A i \in DOMAIN fs : Holds(fs[i], a))
  <2> HIDE DEF Holds
  <2> QED
    BY <1>1, <1>2, Zenon
<1> QED
  BY <1>3, Zenon DEF Models

\* z3.prove: a proof has hypotheses that can hold and no case against it; a refutation has one.
LEMMA ProveEarned ==
  ASSUME \A n \in Parts : Understood(n),
         NEW q, q.tool = "z3.prove", Plain(q), NEW s \in Answers(q), s \in {"result", "refuted"}
  PROVE  Earned(q, s)
<1> DEFINE given == Terms(q.given)
           goal == ForSolver(q.goal)
           meant == {a \in Assign : \A i \in DOMAIN q.given : Holds(q.given[i], a)}
           holds == {a \in meant : Holds(q.goal, a)}
           against == Against(given, goal)
           alone == Alone(given)
<1>1. s \in Z3Prove(q)
  BY DEF Answers
<1>2. goal # Ill /\ \A i \in DOMAIN given : given[i] # Ill
  BY <1>1 DEF Z3Prove
<1>3. s \in Solve(given, goal)
  BY <1>1, <1>2 DEF Z3Prove
<1>4. Models(given) = meant
  BY <1>2, ModelsMeant DEF Plain
<1>5. \A a \in Assign : goal.of[a] = Holds(q.goal, a)
  BY <1>2 DEF Plain, Understood
<1>6. against = {a \in meant : ~Holds(q.goal, a)}
  <2> HIDE DEF Holds, goal
  <2>1. \A a \in meant : ~goal.of[a] <=> ~Holds(q.goal, a)
    BY <1>5, Zenon
  <2> QED
    BY <1>4, <2>1, Zenon DEF Against
<1>7. against = {} <=> holds = meant
  <2> HIDE DEF Holds
  <2> QED
    BY <1>6
<1>8. /\ s = "result" => "sat" \in alone /\ "unsat" \in Check(against)
      /\ s = "refuted" => "sat" \in Check(against)
  <2>1. PICK first \in alone, check \in Check(against) : s = Judged(first, check)
    <3> HIDE DEF given, goal
    <3> QED
      BY <1>3 DEF Solve
  <2>2. /\ Judged(first, check) = "result" => first = "sat" /\ check = "unsat"
        /\ Judged(first, check) = "refuted" => check = "sat"
    BY DEF Judged
  <2> HIDE DEF alone, against
  <2> QED
    BY <2>1, <2>2
<1>9. \A S : ("sat" \in Check(S) <=> S # {}) /\ ("unsat" \in Check(S) <=> S = {})
  BY DEF Check
<1>10. given = <<>> => meant # {}
  <2>1. [x |-> 0, y |-> 0, p |-> TRUE, q |-> TRUE] \in Assign
    BY DEF Assign
  <2>2. given = <<>> => DOMAIN q.given = {}
    BY DEF Terms
  <2> QED
    BY <2>1, <2>2
<1>11. s = "result" => meant # {} /\ holds = meant
  <2>1. alone = IF given = <<>> THEN {"sat"} ELSE Check(meant)
    BY <1>4 DEF Alone
  <2> HIDE DEF alone, given, meant, holds, against
  <2> QED
    BY <1>7, <1>8, <1>9, <1>10, <2>1
<1>12. s = "refuted" => holds # meant
  BY <1>7, <1>8, <1>9
<1> QED
  BY <1>11, <1>12 DEF Earned

\* z3.satisfy: a result has a model, a refutation has none.
LEMMA SatisfyEarned ==
  ASSUME \A n \in Parts : Understood(n),
         NEW q, q.tool = "z3.satisfy", Plain(q), NEW s \in Answers(q), s \in {"result", "refuted"}
  PROVE  Earned(q, s)
<1> DEFINE given == Terms(q.given)
           meant == {a \in Assign : \A i \in DOMAIN q.given : Holds(q.given[i], a)}
<1>1. s \in Z3Satisfy(q)
  BY DEF Answers
<1>2. (\A i \in DOMAIN given : given[i] # Ill) /\ s \in Satisfiable(given)
  BY <1>1 DEF Z3Satisfy
<1>3. Models(given) = meant
  BY <1>2, ModelsMeant DEF Plain
<1>4. s \in Satisfiable(given) /\ s \in {"result", "refuted"}
      => (s = "result" => "sat" \in Check(meant)) /\ (s = "refuted" => "unsat" \in Check(meant))
  <2> HIDE DEF given, meant
  <2> QED
    BY <1>3 DEF Satisfiable
<1>5. \A S : ("sat" \in Check(S) <=> S # {}) /\ ("unsat" \in Check(S) <=> S = {})
  BY DEF Check
<1>6. (s = "result") = (meant # {})
  <2> HIDE DEF given, meant
  <2> QED
    BY <1>2, <1>4, <1>5
<1>7. meant # {} <=> \E a \in Assign : \A i \in DOMAIN q.given : Holds(q.given[i], a)
  <2> HIDE DEF Holds
  <2> QED
    BY Zenon
<1> QED
  BY <1>6, <1>7 DEF Earned

\* lean.prove: a result is a theorem without a cheat, a gap or an import that was not asked for.
LEMMA LeanEarned ==
  ASSUME NEW q, q.tool = "lean.prove", NEW s \in Answers(q), s = "result"
  PROVE  Earned(q, s)
<1>1. s \in LeanProve(q)
  BY DEF Answers
<1>2. PICK kind \in CheckSource(q) :
        s = IF kind = "crash" THEN "worker_error" ELSE FromCheck(kind)
  BY <1>1 DEF LeanProve
<1>3. kind = "proved"
  BY <1>2 DEF FromCheck
<1>4. ~Banned(q) /\ "theorem" \in q.source /\ kind \in RunProcess(q.source)
  BY <1>2, <1>3 DEF CheckSource, CheckMathlib
<1>5. "wrong" \notin q.source
  BY <1>3, <1>4 DEF RunProcess, KernelExit
<1>6. q.source \cap Cheats = {} /\ "foreign import" \notin q.source
  BY <1>4 DEF Banned
<1>7. q.source \cap (Cheats \cup {"wrong", "foreign import"}) = {}
  <2> HIDE DEF Cheats
  <2> QED
    BY <1>5, <1>6
<1> QED
  BY <1>4, <1>7 DEF Earned

\* A lookup that is a result found something, and a sequence the one that was asked for.
LEMMA LookedUp ==
  ASSUME NEW q, NEW at, NEW s \in Looked(at, q), s \in Status, s # "undecided"
  PROVE  q.hit # "nothing" /\ (at = "oeis" => q.hit = "work")
<1>1. PICK hit \in Fetch(q) : s = IF hit = "failed" THEN "worker_error"
                                 ELSE IF Found(at, hit) THEN "result" ELSE "undecided"
  BY DEF Looked
<1>2. hit # "failed" /\ Found(at, hit)
  BY <1>1 DEF Status
<1>3. hit = q.hit
  BY <1>2 DEF Fetch
<1>4. Found(at, q.hit)
  BY <1>2, <1>3
<1> QED
  BY <1>4 DEF Found, OeisFound, CrossrefFound, ArxivFound, OpenAlexFound

LEMMA CitedEarned ==
  ASSUME NEW q, q.tool \in G!Retrieval, NEW s \in Answers(q), s \in Status, s # "undecided"
  PROVE  Earned(q, s)
<1>1. CASE q.tool = "oeis.search"
  BY <1>1, LookedUp DEF Answers, Earned
<1>2. CASE q.tool = "crossref.lookup"
  BY <1>2, LookedUp DEF Answers, Earned
<1>3. CASE q.tool = "arxiv.lookup"
  BY <1>3, LookedUp DEF Answers, Earned
<1>4. CASE q.tool = "openalex.lookup"
  BY <1>4, LookedUp DEF Answers, Earned
<1>5. CASE q.tool = "source.pin"
  <2>1. s \in SourcePin(q)
    BY <1>5 DEF Answers
  <2>2. s # "value_error"
    BY DEF Status
  <2>3. s \in Looked(Route(q), q)
    BY <2>1, <2>2 DEF SourcePin
  <2> QED
    BY <1>5, <2>3, LookedUp DEF Earned
<1> QED
  BY <1>1, <1>2, <1>3, <1>4, <1>5 DEF G!Retrieval

\* geometry.coordinate_measure: a result is exact and not of a degenerate angle.
LEMMA MeasureEarned ==
  ASSUME NEW q, q.tool = "geometry.coordinate_measure", Plain(q), NEW s \in Answers(q),
         s = "result"
  PROVE  Earned(q, s)
<1>1. s \in CoordinateMeasure(q)
  BY DEF Answers
<1> QED
  BY <1>1 DEF CoordinateMeasure, Parses, Plain, Earned

\* counterexample.search: a refutation has a point that fails, a result has none.
LEMMA SearchEarned ==
  ASSUME NEW q, q.tool = "counterexample.search", Plain(q), NEW s \in Answers(q),
         s \in {"result", "refuted"}
  PROVE  Earned(q, s)
<1> DEFINE failing == {i \in Tried(q) : Fails(q, i)}
<1>1. s \in CounterexampleSearch(q)
  BY DEF Answers
<1>2. /\ s = "refuted" => failing # {}
      /\ s = "result" => failing \subseteq q.hard
  BY <1>1 DEF CounterexampleSearch
<1>3. \A i \in q.hard : ~Fails(q, i)
  BY DEF Plain
<1>4. (s = "result") = (\A i \in Tried(q) : ~Fails(q, i))
  BY <1>2, <1>3
<1> QED
  BY <1>4 DEF Earned

\* table.derive_column: a refutation has a row that fails, a result of a relation has none.
LEMMA ColumnEarned ==
  ASSUME NEW q, q.tool = "table.derive_column", NEW s \in Answers(q), s \in {"result", "refuted"}
  PROVE  Earned(q, s)
<1> DEFINE failing == {i \in DOMAIN q.points : Fails(q, i)}
<1>1. s \in TableDeriveColumn(q)
  BY DEF Answers
<1>2. CASE q.op = NoOp
  BY <1>1, <1>2 DEF TableDeriveColumn, Earned
<1>3. CASE q.op # NoOp
  <2>1. Bound(q) /\ q.points # <<>>
    BY <1>1 DEF TableDeriveColumn
  <2>2. /\ s = "refuted" => failing # {}
        /\ s = "result" => failing = {}
    BY <1>1, <1>3, <2>1 DEF TableDeriveColumn
  <2>3. (s = "result") = (\A i \in DOMAIN q.points : ~Fails(q, i))
    BY <2>2
  <2> QED
    BY <1>3, <2>3 DEF Earned
<1> QED
  BY <1>2, <1>3

\* Whatever engine gave it, an enclosure holds the true value.
LEMMA Encloses ==
  ASSUME NEW q, NEW v \in Int, NEW e \in Enclose(q, v), e # NoEnclosure
  PROVE  e[1] \in Int /\ e[2] \in Int /\ e[1] <= v /\ v <= e[2]
<1>1. e \in Arb(v) \cup Iv(v)
  BY DEF Enclose
<1>2. ASSUME NEW b \in Around(v)
      PROVE  b[1] \in Int /\ b[2] \in Int /\ b[1] <= v /\ v <= b[2]
  BY <1>2 DEF Around
<1>3. CASE e \in Iv(v)
  BY <1>2, <1>3 DEF Iv
<1>4. CASE e \in Arb(v)
  <2>1. PICK b \in Around(v) : e = Outward(b)
    BY <1>4 DEF Arb
  <2>2. b[1] \in Int /\ b[2] \in Int /\ b[1] <= v /\ v <= b[2]
    BY <1>2
  <2>3. \A n \in Int : n % 2 \in {0, 1}
    OBVIOUS
  <2>4. CASE b[1] = b[2]
    BY <2>1, <2>2, <2>4 DEF Outward
  <2>5. CASE b[1] # b[2]
    <3>1. e[1] = b[1] - (b[1] % 2) /\ e[2] = b[2] + (b[2] % 2)
      BY <2>1, <2>5 DEF Outward
    <3>2. b[1] % 2 \in {0, 1} /\ b[2] % 2 \in {0, 1}
      BY <2>2, <2>3
    <3> QED
      BY <2>2, <3>1, <3>2
  <2> QED
    BY <2>4, <2>5
<1> QED
  BY <1>1, <1>3, <1>4

\* Two enclosures decide a relation only the way it is.
LEMMA DecidesRightly ==
  ASSUME NEW v \in Int, NEW w \in Int, NEW op, NEW l, NEW r,
         l[1] \in Int /\ l[2] \in Int /\ l[1] <= v /\ v <= l[2],
         r[1] \in Int /\ r[2] \in Int /\ r[1] <= w /\ w <= r[2]
  PROVE  /\ Decide(l, r, op) = "yes" => Compared(op, v, w)
         /\ Decide(l, r, op) = "no" => ~Compared(op, v, w)
<1>1. CASE op = "=="
  BY <1>1 DEF Decide, Compared
<1>2. CASE op = "!="
  BY <1>2 DEF Decide, Compared
<1>3. CASE op = "<"
  BY <1>3 DEF Decide, Compared
<1>4. CASE op = "<="
  BY <1>4 DEF Decide, Compared
<1>5. CASE op = ">"
  BY <1>5 DEF Decide, Compared
<1>6. CASE op \notin {"==", "!=", "<", "<=", ">"}
  BY <1>6 DEF Decide, Compared
<1> QED
  BY <1>1, <1>2, <1>3, <1>4, <1>5, <1>6

\* interval.eval: a relation is recorded the way it is.
LEMMA IntervalEarned ==
  ASSUME NEW q, q.tool = "interval.eval", Plain(q), NEW s \in Answers(q), s \in {"result", "refuted"}
  PROVE  Earned(q, s)
<1>1. s \in IntervalEval(q)
  BY DEF Answers
<1>2. CASE q.op = NoOp
  <2>1. s \in RunValue(q)
    BY <1>1, <1>2 DEF IntervalEval
  <2>2. s = "result"
    BY <2>1 DEF RunValue
  <2> QED
    BY <1>2, <2>2 DEF Earned
<1>3. CASE q.op # NoOp
  <2>1. s \in RunRelation(q)
    BY <1>1, <1>3 DEF IntervalEval
  <2>2. PICK l \in Enclose(q, q.left), r \in Enclose(q, q.right) :
          s = Recorded(IF NoEnclosure \in {l, r} THEN "unknown" ELSE Decide(l, r, q.op))
    BY <2>1 DEF RunRelation
  <2>3. Recorded("unknown") = "undecided"
    BY DEF Recorded
  <2>4. l # NoEnclosure /\ r # NoEnclosure /\ s = Recorded(Decide(l, r, q.op))
    BY <2>2, <2>3
  <2>5. q.left \in Int /\ q.right \in Int
    BY DEF Plain
  <2>6. /\ Decide(l, r, q.op) = "yes" => Compared(q.op, q.left, q.right)
        /\ Decide(l, r, q.op) = "no" => ~Compared(q.op, q.left, q.right)
    <3>1. /\ l[1] \in Int /\ l[2] \in Int /\ l[1] <= q.left /\ q.left <= l[2]
          /\ r[1] \in Int /\ r[2] \in Int /\ r[1] <= q.right /\ q.right <= r[2]
      BY <2>4, <2>5, Encloses
    <3> QED
      BY <2>5, <3>1, DecidesRightly
  <2>7. /\ s = "result" => Decide(l, r, q.op) = "yes"
        /\ s = "refuted" => Decide(l, r, q.op) = "no"
    BY <2>4 DEF Recorded
  <2>8. (s = "result") = Compared(q.op, q.left, q.right)
    BY <2>6, <2>7 DEF Compared
  <2> QED
    BY <1>3, <2>8 DEF Earned
<1> QED
  BY <1>2, <1>3

\* What relation_holds says of an exact difference.
LEMMA HoldsRightly ==
  ASSUME NEW q, Plain(q), q.tool \in G!Exact, Parses(q), NEW h \in RelationHolds(q)
  PROVE  /\ h = "yes" => \A d \in q.diff : Compared(q.op, d, 0)
         /\ h = "no" => \E d \in q.diff : ~Compared(q.op, d, 0)
<1>1. q.text = "exact" /\ IsFiniteSet(q.diff) /\ q.diff # {} /\ q.diff \subseteq Int
  BY DEF Plain, Parses, G!Exact
<1>2. \A z \in IsZero(q.diff) : /\ z = "yes" => q.diff = {0}
                                /\ z = "no" => 0 \notin q.diff
                                /\ z \in {"yes", "no", "unknown"}
  BY DEF IsZero
<1>3. CASE q.op = "=="
  BY <1>1, <1>2, <1>3 DEF RelationHolds, Compared
<1>4. CASE q.op = "!="
  <2>1. PICK z \in IsZero(q.diff) : h = Denied(z)
    BY <1>1, <1>4 DEF RelationHolds
  <2>2. /\ h = "yes" => z = "no"
        /\ h = "no" => z = "yes"
    BY <1>2, <2>1 DEF Denied
  <2> QED
    BY <1>1, <1>2, <1>4, <2>2 DEF Compared
<1>5. CASE q.op \notin {"==", "!="}
  <2>1. h \in {"unknown"} \cup
               IF Cardinality(q.diff) > 1 THEN {}
               ELSE {IF Compared(q.op, d, 0) THEN "yes" ELSE "no" : d \in q.diff}
    BY <1>1, <1>5 DEF RelationHolds
  <2>2. ASSUME h # "unknown"
        PROVE  \E d \in q.diff :
                 q.diff = {d} /\ h = IF Compared(q.op, d, 0) THEN "yes" ELSE "no"
    <3>1. ~(Cardinality(q.diff) > 1)
      BY <2>1, <2>2
    <3>2. PICK d \in q.diff : h = IF Compared(q.op, d, 0) THEN "yes" ELSE "no"
      BY <2>1, <2>2, <3>1
    <3>3. ASSUME NEW e \in q.diff, e # d
          PROVE  FALSE
      <4>1. IsFiniteSet({d}) /\ Cardinality({d}) = 1
        BY FS_Singleton
      <4>2. Cardinality({d} \cup {e}) = 2
        <5>1. e \notin {d}
          BY <3>3
        <5>2. Cardinality({d} \cup {e}) = Cardinality({d}) + 1
          BY <4>1, <5>1, FS_AddElement, Zenon
        <5> QED
          BY <4>1, <5>2
      <4>3. {d} \cup {e} \subseteq q.diff
        BY <3>3
      <4>4. Cardinality({d} \cup {e}) <= Cardinality(q.diff)
        BY <1>1, <4>3, FS_Subset
      <4>5. Cardinality(q.diff) \in Nat
        BY <1>1, FS_CardinalityType
      <4> QED
        BY <3>1, <4>2, <4>4, <4>5
    <3> QED
      BY <3>2, <3>3
  <2> QED
    BY <2>2
<1> QED
  BY <1>3, <1>4, <1>5

\* calc.eval and expr.compare: a relation is recorded the way it is.
LEMMA CalcEarned ==
  ASSUME NEW q, q.tool \in G!Exact, Plain(q), NEW s \in Answers(q), s \in {"result", "refuted"}
  PROVE  Earned(q, s)
<1>1. \/ q.tool = "calc.eval" /\ s \in CalcEval(q)
      \/ q.tool = "expr.compare" /\ s \in ExprCompare(q)
  BY DEF Answers, G!Exact
<1>2. Parses(q)
  BY <1>1 DEF CalcEval, ExprCompare
<1>3. ASSUME NEW h \in RelationHolds(q), s = Recorded(h)
      PROVE  (s = "result") = (\A d \in q.diff : Compared(q.op, d, 0))
  <2>1. /\ s = "result" => h = "yes"
        /\ s = "refuted" => h = "no"
    BY <1>3 DEF Recorded
  <2>2. /\ h = "yes" => \A d \in q.diff : Compared(q.op, d, 0)
        /\ h = "no" => \E d \in q.diff : ~Compared(q.op, d, 0)
    BY <1>2, HoldsRightly
  <2> QED
    BY <2>1, <2>2
<1>4. CASE q.op = NoOp
  <2>1. q.tool = "calc.eval"
    BY <1>1, <1>4 DEF Plain
  <2>2. s = "result"
    BY <1>1, <1>2, <1>4, <2>1 DEF CalcEval
  <2> QED
    BY <1>4, <2>1, <2>2 DEF Earned
<1>5. CASE q.op # NoOp
  <2>1. PICK h \in RelationHolds(q) : s = Recorded(h)
    BY <1>1, <1>2, <1>5 DEF CalcEval, ExprCompare
  <2> QED
    BY <1>3, <1>5, <2>1 DEF Earned, G!Exact
<1> QED
  BY <1>4, <1>5

\* Every answer that gets a grade, or counts as a citation, is earned.
LEMMA AnswersEarned ==
  ASSUME \A n \in Parts : Understood(n), NEW q, Plain(q), NEW s \in Answers(q), s \in Status,
         G!GradeFor(q.tool, s) > 0 \/ (q.tool \in G!Retrieval /\ s # "undecided")
  PROVE  Earned(q, s)
<1>1. CASE q.tool \in G!Retrieval /\ s # "undecided"
  BY <1>1, CitedEarned
<1>2. CASE G!GradeFor(q.tool, s) > 0
  <2>1. \/ s = "result" /\ q.tool \in G!Proving \cup G!Kernel \cup G!Exact \cup G!Measuring
                                        \cup G!Sampling
        \/ s = "refuted" /\ q.tool \in G!Proving \cup G!Exact \cup G!Sampling
    BY <1>2, Graded
  <2>2. CASE q.tool \in G!Proving
    BY <2>1, <2>2, ProveEarned, SatisfyEarned DEF G!Proving
  <2>3. CASE q.tool \in G!Exact
    BY <2>1, <2>3, CalcEarned
  <2>4. CASE q.tool \in G!Sampling
    BY <2>1, <2>4, IntervalEarned, SearchEarned, ColumnEarned DEF G!Sampling
  <2>5. CASE s = "result" /\ q.tool \in G!Kernel \cup G!Measuring
    BY <2>5, LeanEarned, MeasureEarned DEF G!Kernel, G!Measuring
  <2> QED
    BY <2>1, <2>2, <2>3, <2>4, <2>5
<1> QED
  BY <1>1, <1>2

\* Whatever the interleaving, what is recorded under a grade is true of its question
\* (grading.grade_for over the instruments' run), for any formulas and any plain questions.
THEOREM GradesTheorem ==
  ASSUME NEW depth, Layered(depth), \A n \in Parts : Legible(n),
         \A q \in Question : Plain(q)
  PROVE  Spec => []GradesEarned
<1>1. BenchInv => GradesEarned
  <2>0. \A n \in Parts : Understood(n)
    BY TranslationTheorem DEF Understood
  <2> SUFFICES ASSUME BenchInv, NEW c \in Call, row[c] # "none"
               PROVE  /\ (G!GradeFor(ask[c].tool, row[c]) > 0
                           \/ (ask[c] \in Awaited /\ row[c] # "undecided"))
                         => Earned(ask[c], row[c])
                      /\ G!GradeFor(ask[c].tool, row[c]) = 4
                         => ask[c].tool \in {"z3.prove", "z3.satisfy", "lean.prove"}
    BY DEF GradesEarned
  <2>1. Course(c)
    BY DEF BenchInv, Courses
  <2>2. ask[c] \in Question /\ row[c] \in Status /\ row[c] \in Verdicts[ask[c]]
    BY <2>1 DEF Course
  <2>3. Plain(ask[c]) /\ row[c] \in Answers(ask[c])
    BY <2>2, ToolbenchAssumption
  <2>4. ask[c] \in Awaited => ask[c].tool \in G!Retrieval
    BY ToolbenchAssumption
  <2>5. G!GradeFor(ask[c].tool, row[c]) = 4
        => ask[c].tool \in {"z3.prove", "z3.satisfy", "lean.prove"}
    BY <2>2, TopRung
  <2>6. ASSUME G!GradeFor(ask[c].tool, row[c]) > 0
                 \/ (ask[c] \in Awaited /\ row[c] # "undecided")
        PROVE  Earned(ask[c], row[c])
    BY <2>0, <2>2, <2>3, <2>4, <2>6, AnswersEarned
  <2> QED
    BY <2>5, <2>6, Zenon
<1> QED
  BY <1>1, BenchInvariant, PTL
=============================================================================
