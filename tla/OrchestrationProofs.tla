------------------------ MODULE OrchestrationProofs ------------------------
(***************************************************************************)
(* Theorems about the composed system, for any number of orchestrations,   *)
(* threads and passes: every step of it is a step of PassBudget or leaves  *)
(* the passes alone, so the pot's theorems carry over; peer cycles never   *)
(* work one thread together; the counts of an orchestration are right; and *)
(* its row keeps what CycleRows promises the campaign.                     *)
(***************************************************************************)
EXTENDS Orchestration, PassBudgetProofs, FiniteSetTheorems, SequenceTheorems

\* A step of the composed system is a step of the passes, or none of theirs.
LEMMA StepsMap == [ONext]_<<vars, ovars>> => [Next]_vars
<1> SUFFICES ASSUME [ONext]_<<vars, ovars>> PROVE [Next]_vars
  OBVIOUS
<1>1. CASE UNCHANGED <<vars, ovars>>
  BY <1>1
<1>2. ASSUME NEW o \in Orch, OrchWork(o) PROVE [Next]_vars
  <2>1. ASSUME NEW p \in Fresh, CommissionNext(o, p) PROVE [Next]_vars
    BY <2>1 DEF CommissionNext, Next, PassNext, Fresh
  <2>2. ASSUME NEW raisable \in BOOLEAN, Classify(o, raisable) PROVE [Next]_vars
    BY <2>2 DEF Classify
  <2>3. CASE AllClassified(o) \/ StopLoop(o) \/ OpenWave(o) \/ NothingLeft(o) \/ SkipBusy(o)
             \/ PotGone(o) \/ Launch(o) \/ WaveReturns(o) \/ Complete(o)
    BY <2>3 DEF AllClassified, StopLoop, OpenWave, NothingLeft, SkipBusy, PotGone, Launch, WaveReturns,
                Complete
  <2> QED
    BY <1>2, <2>1, <2>2, <2>3 DEF OrchWork
<1>3. ASSUME NEW o \in Orch,
             Start(o) \/ OrchFails(o) \/ OrchDies(o) \/ OrchSweep(o) \/ Cancel(o)
      PROVE  [Next]_vars
  BY <1>3 DEF Start, OrchFails, OrchDies, OrchSweep, Cancel
<1>4. ASSUME NEW p \in Routed, NEW t \in Thread, RoutePass(p, t) PROVE [Next]_vars
  BY <1>4, OrchAssumption DEF RoutePass, Next, PassNext
<1>5. ASSUME NEW p \in Pass, PassWorks(p) \/ PassDies(p) \/ PassSwept(p)
      PROVE  [Next]_vars
  BY <1>5 DEF PassWorks, PassDies, PassSwept, Next, PassNext
<1>6. CASE Funding
  BY <1>6 DEF Funding, Next
<1> QED
  BY <1>1, <1>2, <1>3, <1>4, <1>5, <1>6 DEF ONext

\* Whatever the orchestrators do, the passes behave as PassBudget says.
THEOREM Composition == OSpec => ImplementsPasses
<1>1. OInit => Init
  BY DEF OInit
<1> QED
  BY <1>1, StepsMap, PTL DEF OSpec, Spec, ImplementsPasses

\* So concurrent waves, cycles and route passes never oversell the pot.
THEOREM OrchestratedPot ==
  ASSUME ~LateSweep
  PROVE  OSpec => []PotNotOversold
BY Composition, PotTheorem, PTL DEF ImplementsPasses

-----------------------------------------------------------------------------
(* One live cycle pass per thread. *)

\* A pass that an orchestration commissioned has a row.
Minted == /\ threadOf = [p \in Pass |-> threadOf[p]]
          /\ by \in [Pass -> Orch \cup {NoOne}]
          /\ \A p \in Pass : by[p] # NoOne => status[p] # "none"

OneCycle == Minted /\ OneCyclePerThread

\* No step of a worker, of a crash or of a reader sets a row running, or takes it away.
LEMMA NoNewRun ==
  ASSUME TypeOK, NEW p \in Pass, Work(p) \/ Dies(p) \/ Sweep(p), NEW q \in Pass
  PROVE  /\ status'[q] = "running" => status[q] = "running"
         /\ status[q] # "none" => status'[q] # "none"
<1>1. status' = status \/ \E s \in Ended : status' = [status EXCEPT ![p] = s]
  BY DEF Work, Begin, Refuse, Open, Reserve, PlanReturns, PlanFails, RunStep,
         StopRunning, EndBatch, ReplanReturns, ReplanFails, Finish, Fails, Finalize, Dies,
         Sweep, Ended, row
<1> QED
  BY <1>1 DEF TypeOK, Ended

\* Only a commission sets a row running, and it has looked for one on the thread.
LEMMA OneCycleStep ==
  TypeOK /\ OneCycle /\ [ONext]_<<vars, ovars>> => OneCycle'
<1> SUFFICES ASSUME TypeOK, OneCycle, [ONext]_<<vars, ovars>> PROVE OneCycle'
  OBVIOUS
<1> USE DEF vars, row, ovars, column
<1>1. CASE UNCHANGED <<status, threadOf, by>>
  BY <1>1 DEF OneCycle, Minted, OneCyclePerThread
<1>2. ASSUME NEW o \in Orch, NEW p \in Fresh, CommissionNext(o, p) PROVE OneCycle'
  <2> DEFINE t == Head(pending[o])
  <2>1. /\ p \in Pass /\ status[p] = "none" /\ ~Busy(t)
        /\ status' = [status EXCEPT ![p] = "running"]
        /\ threadOf' = [threadOf EXCEPT ![p] = t]
        /\ by' = [by EXCEPT ![p] = o]
    BY <1>2 DEF CommissionNext, CommissionReserved, Fresh
  <2> HIDE DEF t
  <2> QED
    BY <2>1 DEF TypeOK, OneCycle, Minted, OneCyclePerThread, Busy
<1>3. ASSUME NEW p \in Routed, NEW t \in Thread, RoutePass(p, t) PROVE OneCycle'
  <2>1. /\ p \in Pass /\ status[p] = "none" /\ by' = by
        /\ status' = [status EXCEPT ![p] = "running"]
        /\ threadOf' = [threadOf EXCEPT ![p] = t]
    BY <1>3, OrchAssumption DEF RoutePass, Commission
  <2> QED
    BY <2>1 DEF TypeOK, OneCycle, Minted, OneCyclePerThread
<1>4. ASSUME NEW p \in Pass, PassWorks(p) \/ PassDies(p) \/ PassSwept(p) PROVE OneCycle'
  <2>1. UNCHANGED <<threadOf, by>> /\ (Work(p) \/ Dies(p) \/ Sweep(p))
    BY <1>4 DEF PassWorks, PassDies, PassSwept
  <2>2. \A q \in Pass : /\ status'[q] = "running" => status[q] = "running"
                        /\ status[q] # "none" => status'[q] # "none"
    BY <2>1, NoNewRun
  <2> QED
    BY <2>1, <2>2 DEF OneCycle, Minted, OneCyclePerThread
<1>5. ASSUME NEW o \in Orch, OrchWork(o) PROVE OneCycle'
  <2>1. ASSUME NEW raisable \in BOOLEAN, Classify(o, raisable)
        PROVE  UNCHANGED <<status, threadOf, by>>
    BY <2>1 DEF Classify
  <2>2. CASE AllClassified(o) \/ StopLoop(o) \/ OpenWave(o) \/ NothingLeft(o) \/ SkipBusy(o)
             \/ PotGone(o) \/ Launch(o) \/ WaveReturns(o) \/ Complete(o)
    BY <1>1, <2>2 DEF AllClassified, StopLoop, OpenWave, NothingLeft, SkipBusy, PotGone, Launch,
                      WaveReturns, Complete
  <2> QED
    BY <1>1, <1>2, <1>5, <2>1, <2>2 DEF OrchWork
<1>6. ASSUME NEW o \in Orch,
             Start(o) \/ OrchFails(o) \/ OrchDies(o) \/ OrchSweep(o) \/ Cancel(o)
      PROVE  OneCycle'
  BY <1>1, <1>6 DEF Start, OrchFails, OrchDies, OrchSweep, Cancel
<1>7. CASE Funding
  BY <1>1, <1>7 DEF Funding, Fund
<1> QED
  BY <1>1, <1>3, <1>4, <1>5, <1>6, <1>7 DEF ONext

\* Peer cycles never work one thread at the same time: the look for a running pass and the
\* new row are one transaction under the project row.
THEOREM OneCycleTheorem == OSpec => []OneCyclePerThread
<1>1. OInit => OneCycle
  BY DEF OInit, Init, OneCycle, Minted, OneCyclePerThread
<1>2. TypeOK /\ OneCycle /\ [ONext]_<<vars, ovars>> => OneCycle'
  BY OneCycleStep
<1>3. OSpec => []TypeOK
  BY Composition, TypeCorrect, PTL DEF ImplementsPasses
<1>4. OneCycle => OneCyclePerThread
  BY DEF OneCycle
<1> QED
  BY <1>1, <1>2, <1>3, <1>4, PTL DEF OSpec

-----------------------------------------------------------------------------
(* The row of an orchestration. *)

Own(o) == {p \in Pass : by[p] = o}

\* The types the loop's arithmetic rests on.
LoopTyped ==
  /\ ostatus \in [Orch -> {"none", "running"} \cup Ended]
  /\ commissioned \in [Orch -> Nat]
  /\ cancel \in [Orch -> BOOLEAN]
  /\ decisions = [o \in Orch |-> decisions[o]]
  /\ stop = [o \in Orch |-> stop[o]]
  /\ opc \in [Orch -> {"none", "opening", "looping", "filling", "waving", "closing", "over",
                       "dead"}]
  /\ pending \in [Orch -> Seq(Thread)]
  /\ slots \in [Orch -> Nat]
  /\ wave \in [Orch -> Seq(Pass)]
  /\ hit \in [Orch -> SUBSET Reasons]

\* How the row stands to the loop: the loop is alive while the row runs.
Stands(o) ==
  /\ opc[o] = "none" <=> ostatus[o] = "none"
  /\ Alive(o) => ostatus[o] = "running"
  /\ opc[o] = "none" => pending[o] = <<>> /\ decisions[o] = <<>>
  /\ opc[o] = "opening" => decisions[o] \in Seq(Decision)

\* How the wave stands to the cap.
Capped(o) ==
  /\ commissioned[o] <= MaxPasses
  /\ opc[o] = "filling" => commissioned[o] + slots[o] <= MaxPasses + Len(wave[o])
  /\ "cancelled" \in hit[o] => cancel[o]
  /\ "max_passes" \in hit[o] => commissioned[o] = MaxPasses

\* The passes of the wave.
Wave(o) == {wave[o][i] : i \in DOMAIN wave[o]}

\* The passes of a live loop outside its wave have ended.
Settled(o) ==
  /\ Wave(o) \subseteq Own(o)
  /\ opc[o] \notin {"filling", "waving", "over", "dead"} => wave[o] = <<>>
  /\ ostatus[o] = "completed" => wave[o] = <<>>
  /\ opc[o] \notin {"over", "dead"} \/ ostatus[o] = "completed" =>
       \A p \in Own(o) \ Wave(o) : status[p] \in Ended

\* passes_commissioned counts the rows.
Counted(o) == IsFiniteSet(Own(o)) /\ Cardinality(Own(o)) = commissioned[o]

LoopInv == /\ LoopTyped
           /\ \A o \in Orch : Stands(o) /\ Capped(o) /\ Settled(o) /\ Counted(o)

\* No orchestration has begun.
LEMMA LoopStart == OInit => LoopInv
<1> SUFFICES ASSUME OInit PROVE LoopInv
  OBVIOUS
<1>1. LoopTyped
  BY DEF OInit, LoopTyped, Ended
<1>2. ASSUME NEW o \in Orch PROVE Own(o) = {}
  BY OrchAssumption DEF OInit, Own
<1>3. IsFiniteSet({}) /\ Cardinality({}) = 0
  BY FS_EmptySet
<1>4. ASSUME NEW o \in Orch PROVE Stands(o) /\ Capped(o) /\ Settled(o) /\ Counted(o)
  <2>1. /\ opc[o] = "none" /\ ostatus[o] = "none" /\ pending[o] = <<>> /\ decisions[o] = <<>>
        /\ commissioned[o] = 0 /\ hit[o] = {} /\ wave[o] = <<>>
    BY DEF OInit
  <2>2. Stands(o) /\ Settled(o)
    BY <1>2, <2>1 DEF Stands, Settled, Alive, Wave
  <2>3. Capped(o)
    BY <2>1, OrchAssumption DEF Capped
  <2>4. Counted(o)
    BY <1>2, <1>3, <2>1 DEF Counted
  <2> QED
    BY <2>2, <2>3, <2>4
<1> QED
  BY <1>1, <1>4 DEF LoopInv

\* A sequence of one element.
LEMMA OneLong ==
  ASSUME NEW S, NEW f \in [1 .. 1 -> S]
  PROVE  f \in Seq(S)
<1>1. [1 .. 1 -> S] \in {[1 .. n -> S] : n \in Nat}
  OBVIOUS
<1>2. f \in UNION {[1 .. n -> S] : n \in Nat}
  BY <1>1
<1> QED
  BY <1>2, SeqDef

\* A thread of the project, by its place.
LEMMA ThreadAt ==
  ASSUME NEW i \in 1 .. Len(Threads)
  PROVE  Threads[i] \in Thread
BY OrchAssumption DEF Thread

\* A step that leaves the loops, their rows and the columns of the passes alone, and ends
\* no ending, keeps the invariant.
LEMMA PassesMove ==
  ASSUME LoopInv, UNCHANGED <<orow, by, loop>>,
         \A o \in Orch : \A p \in Own(o) : status[p] \in Ended => status'[p] \in Ended
  PROVE  LoopInv'
<1> USE DEF orow, column, loop
<1>1. LoopTyped'
  BY DEF LoopInv, LoopTyped
<1>2. ASSUME NEW o \in Orch PROVE (Stands(o) /\ Capped(o) /\ Settled(o) /\ Counted(o))'
  <2>1. Own(o)' = Own(o) /\ Wave(o)' = Wave(o)
    BY DEF Own, Wave
  <2>2. Stands(o)' /\ Capped(o)'
    BY DEF LoopInv, Stands, Capped, Alive
  <2>3. Settled(o)'
    BY <2>1 DEF LoopInv, Settled, Alive
  <2>4. Counted(o)'
    BY <2>1 DEF LoopInv, Counted
  <2> QED
    BY <2>2, <2>3, <2>4
<1> QED
  BY <1>1, <1>2 DEF LoopInv

\* A step of one loop leaves the others' part of the invariant alone.
LEMMA OthersStay ==
  ASSUME LoopInv, NEW q \in Orch,
         Own(q)' = Own(q), UNCHANGED status,
         UNCHANGED <<ostatus[q], commissioned[q], cancel[q], decisions[q], opc[q], pending[q],
                     slots[q], wave[q], hit[q]>>
  PROVE  (Stands(q) /\ Capped(q) /\ Settled(q) /\ Counted(q))'
<1>0. Wave(q)' = Wave(q)
  BY DEF Wave
<1>1. Stands(q)' /\ Capped(q)'
  BY DEF LoopInv, Stands, Capped, Alive
<1>2. Settled(q)'
  BY <1>0 DEF LoopInv, Settled, Alive
<1>3. Counted(q)'
  BY DEF LoopInv, Counted
<1> QED
  BY <1>1, <1>2, <1>3

\* So a step that touches one orchestration and no pass has only that one to look at.
LEMMA OneLoopMoves ==
  ASSUME LoopInv, NEW o \in Orch, LoopTyped', UNCHANGED <<status, by>>,
         \A q \in Orch \ {o} :
            UNCHANGED <<ostatus[q], commissioned[q], cancel[q], decisions[q], opc[q],
                        pending[q], slots[q], wave[q], hit[q]>>,
         commissioned'[o] = commissioned[o],
         Stands(o)', Capped(o)', Settled(o)'
  PROVE  LoopInv'
<1>1. \A q \in Orch : Own(q)' = Own(q)
  BY DEF Own
<1>2. ASSUME NEW q \in Orch \ {o} PROVE (Stands(q) /\ Capped(q) /\ Settled(q) /\ Counted(q))'
  BY <1>1, <1>2, OthersStay
<1>3. Counted(o)'
  BY <1>1 DEF LoopInv, Counted
<1> QED
  BY <1>2, <1>3 DEF LoopInv

\* Classification appends to the threads pending or decided.
LEMMA ClassifyKeeps ==
  ASSUME LoopInv, NEW o \in Orch, NEW raisable \in BOOLEAN, Classify(o, raisable)
  PROVE  LoopInv'
<1> USE DEF vars, row, column
<1> DEFINE t == Threads[Classified(o) + 1]
           told == decisions'[o]
<1>1. /\ opc[o] = "opening" /\ ostatus[o] = "running"
      /\ pending[o] \in Seq(Thread) /\ decisions[o] \in Seq(Decision)
  BY DEF LoopInv, LoopTyped, Stands, Alive, Classify
<1>2. t \in Thread
  <2>1. Classified(o) \in Nat /\ Classified(o) < Len(Threads) /\ Len(Threads) \in Nat
    <3>1. Len(pending[o]) \in Nat /\ Len(decisions[o]) \in Nat /\ Len(Threads) \in Nat
      BY <1>1, OrchAssumption, LenProperties
    <3>2. Classified(o) < Len(Threads)
      BY DEF Classify
    <3>3. Classified(o) \in Nat
      <4>1. \A a, b \in Nat : a + b \in Nat
        OBVIOUS
      <4> QED
        BY <3>1, <4>1, Zenon DEF Classified
    <3> HIDE DEF t
    <3> QED
      BY <3>1, <3>2, <3>3, SMT
  <2> QED
    BY <2>1, ThreadAt
<1> HIDE DEF t
<1>3. Skip(<<t>>, "ineligible") \in Seq(Decision)
  <2>1. [thread |-> t, reason |-> "ineligible"] \in Decision
    BY <1>2 DEF Decision, Reasons
  <2>2. DOMAIN <<t>> = 1 .. 1 /\ <<t>>[1] = t
    OBVIOUS
  <2>3. Skip(<<t>>, "ineligible") \in [1 .. 1 -> Decision]
    BY <2>1, <2>2 DEF Skip
  <2> QED
    BY <2>3, OneLong
<1>4. /\ pending' \in [Orch -> Seq(Thread)]
      /\ decisions' = [q \in Orch |-> decisions'[q]]
      /\ told \in Seq(Decision)
      /\ \A q \in Orch \ {o} : UNCHANGED <<decisions[q], pending[q]>>
  <2>1. \/ /\ pending' = [pending EXCEPT ![o] = Append(@, t)]
           /\ decisions' = [decisions EXCEPT ![o] = @]
        \/ /\ pending' = [pending EXCEPT ![o] = @]
           /\ decisions' = [decisions EXCEPT ![o] = @ \o Skip(<<t>>, "ineligible")]
    BY DEF Classify, t
  <2>2. Append(pending[o], t) \in Seq(Thread)
    BY <1>1, <1>2
  <2>3. decisions[o] \o Skip(<<t>>, "ineligible") \in Seq(Decision)
    BY <1>1, <1>3
  <2>4. LoopTyped
    BY <1>1 DEF LoopInv
  <2>5. CASE /\ pending' = [pending EXCEPT ![o] = Append(@, t)]
             /\ decisions' = [decisions EXCEPT ![o] = @]
    BY <1>1, <2>2, <2>4, <2>5 DEF LoopTyped
  <2>6. CASE /\ pending' = [pending EXCEPT ![o] = @]
             /\ decisions' = [decisions EXCEPT ![o] = @ \o Skip(<<t>>, "ineligible")]
    BY <1>1, <2>3, <2>4, <2>6 DEF LoopTyped
  <2> QED
    BY <2>1, <2>5, <2>6
<1>5. LoopTyped'
  BY <1>4 DEF Classify, LoopInv, LoopTyped
<1>6. Stands(o)'
  BY <1>1, <1>4 DEF Classify, Stands, Alive
<1>7. Capped(o)' /\ Settled(o)'
  <2>1. Own(o)' = Own(o) /\ Wave(o)' = Wave(o)
    BY DEF Classify, Own, Wave
  <2> QED
    BY <2>1 DEF Classify, LoopInv, Capped, Settled, Alive
<1> QED
  BY <1>4, <1>5, <1>6, <1>7, OneLoopMoves DEF Classify

\* The steps between waves, and those that end the loop or ask it to.
LEMMA LoopKeeps ==
  ASSUME LoopInv, NEW o \in Orch,
         \/ Start(o) \/ AllClassified(o) \/ StopLoop(o) \/ NothingLeft(o) \/ PotGone(o)
         \/ Launch(o) \/ Complete(o) \/ OrchFails(o) \/ OrchDies(o) \/ OrchSweep(o)
         \/ Cancel(o)
  PROVE  LoopInv'
<1> USE DEF vars, row, column, orow, loop
<1>1. /\ LoopTyped /\ Stands(o) /\ Capped(o) /\ Settled(o)
      /\ UNCHANGED <<status, by, commissioned, pending, slots, wave>>
      /\ Own(o)' = Own(o) /\ Wave(o)' = Wave(o)
  BY DEF LoopInv, Start, AllClassified, StopLoop, NothingLeft, PotGone, Launch, Complete,
         OrchFails, OrchDies, OrchSweep, Cancel, Own, Wave
<1> DEFINE Apart == \A q \in Orch \ {o} :
             UNCHANGED <<ostatus[q], cancel[q], decisions[q], opc[q], hit[q]>>
<1>2. CASE Start(o)
  <2>1. LoopTyped' /\ Apart
    BY <1>1, <1>2 DEF LoopTyped, Start
  <2>2. Stands(o)'
    BY <1>1, <1>2 DEF LoopTyped, Start, Stands, Alive
  <2>3. Capped(o)'
    BY <1>1, <1>2 DEF LoopTyped, Start, Capped
  <2>4. Settled(o)'
    BY <1>1, <1>2 DEF LoopTyped, Start, Settled, Stands, Alive
  <2> QED
    BY <1>1, <2>1, <2>2, <2>3, <2>4, OneLoopMoves
<1>3. CASE AllClassified(o)
  <2>1. LoopTyped' /\ Apart
    BY <1>1, <1>3 DEF LoopTyped, AllClassified
  <2>2. Stands(o)'
    BY <1>1, <1>3 DEF LoopTyped, AllClassified, Stands, Alive
  <2>3. Capped(o)'
    BY <1>1, <1>3 DEF LoopTyped, AllClassified, Capped
  <2>4. Settled(o)'
    BY <1>1, <1>3 DEF LoopTyped, AllClassified, Settled, Stands, Alive
  <2> QED
    BY <1>1, <2>1, <2>2, <2>3, <2>4, OneLoopMoves
<1>4. CASE StopLoop(o)
  <2> DEFINE Said(r) == /\ decisions' = [decisions EXCEPT ![o] = @ \o Skip(pending[o], r)]
                        /\ hit' = [hit EXCEPT ![o] = @ \cup {r}]
  <2>5. Said("cancelled") \/ Said("max_passes") \/ Said("budget_exhausted")
    BY <1>4 DEF StopLoop, SkipAll
  <2>6. /\ opc' = [opc EXCEPT ![o] = "closing"]
        /\ UNCHANGED <<ostatus, cancel, stop>>
    BY <1>4 DEF StopLoop
  <2>7. hit' \in [Orch -> SUBSET Reasons] /\ decisions' = [q \in Orch |-> decisions'[q]]
    <3>1. ASSUME NEW r \in Reasons, Said(r)
          PROVE  /\ hit' \in [Orch -> SUBSET Reasons]
                 /\ decisions' = [q \in Orch |-> decisions'[q]]
      BY <1>1, <3>1 DEF LoopTyped
    <3>2. {"cancelled", "max_passes", "budget_exhausted"} \subseteq Reasons
      BY DEF Reasons
    <3> QED
      BY <2>5, <3>1, <3>2
  <2>1. LoopTyped' /\ Apart
    <3>1. LoopTyped'
      BY <1>1, <2>6, <2>7 DEF LoopTyped
    <3>2. Apart
      BY <1>1, <2>5, <2>6 DEF LoopTyped
    <3> QED
      BY <3>1, <3>2
  <2>2. Stands(o)'
    BY <1>1, <1>4 DEF LoopTyped, StopLoop, SkipAll, Reasons, Stands, Alive
  <2>3. Capped(o)'
    BY <1>1, <1>4, OrchAssumption DEF LoopTyped, StopLoop, SkipAll, Reasons, Capped
  <2>4. Settled(o)'
    BY <1>1, <1>4 DEF LoopTyped, StopLoop, SkipAll, Reasons, Settled, Stands, Alive
  <2> QED
    BY <1>1, <2>1, <2>2, <2>3, <2>4, OneLoopMoves
<1>5. CASE NothingLeft(o)
  <2>1. LoopTyped' /\ Apart
    BY <1>1, <1>5 DEF LoopTyped, NothingLeft
  <2>2. Stands(o)'
    BY <1>1, <1>5 DEF LoopTyped, NothingLeft, Stands, Alive
  <2>3. Capped(o)'
    BY <1>1, <1>5 DEF LoopTyped, NothingLeft, Capped
  <2>4. Settled(o)'
    BY <1>1, <1>5 DEF LoopTyped, NothingLeft, Settled, Stands, Alive
  <2> QED
    BY <1>1, <2>1, <2>2, <2>3, <2>4, OneLoopMoves
<1>6. CASE PotGone(o)
  <2>1. LoopTyped' /\ Apart
    BY <1>1, <1>6 DEF LoopTyped, PotGone
  <2>2. Stands(o)'
    BY <1>1, <1>6 DEF LoopTyped, PotGone, Stands, Alive
  <2>3. Capped(o)'
    BY <1>1, <1>6 DEF LoopTyped, PotGone, Capped
  <2>4. Settled(o)'
    BY <1>1, <1>6 DEF LoopTyped, PotGone, Settled, Stands, Alive
  <2> QED
    BY <1>1, <2>1, <2>2, <2>3, <2>4, OneLoopMoves
<1>7. CASE Launch(o)
  <2>5. /\ decisions' = [decisions EXCEPT ![o] = decisions'[o]]
        /\ hit' = [hit EXCEPT ![o] = hit'[o]]
        /\ hit'[o] \subseteq hit[o] \cup {"budget_exhausted"}
        /\ opc' = [opc EXCEPT ![o] = opc'[o]] /\ opc'[o] \in {"closing", "waving"}
        /\ UNCHANGED <<ostatus, cancel, stop>>
    BY <1>1, <1>7 DEF LoopTyped, Launch, SkipAll
  <2>6. hit'[o] \in SUBSET Reasons
    BY <1>1, <2>5 DEF LoopTyped, Reasons
  <2>1. LoopTyped' /\ Apart
    BY <1>1, <2>5, <2>6 DEF LoopTyped
  <2>2. Stands(o)'
    BY <1>1, <1>7 DEF LoopTyped, Launch, SkipAll, Reasons, Stands, Alive
  <2>3. Capped(o)'
    BY <1>1, <1>7 DEF LoopTyped, Launch, SkipAll, Reasons, Capped
  <2>4. Settled(o)'
    BY <1>1, <1>7 DEF LoopTyped, Launch, SkipAll, Reasons, Settled, Stands, Alive
  <2> QED
    BY <1>1, <2>1, <2>2, <2>3, <2>4, OneLoopMoves
<1>8. CASE Complete(o)
  <2>1. LoopTyped' /\ Apart
    BY <1>1, <1>8 DEF LoopTyped, Complete, Ended
  <2>2. Stands(o)'
    BY <1>1, <1>8 DEF LoopTyped, Complete, Ended, Stands, Alive
  <2>3. Capped(o)'
    BY <1>1, <1>8 DEF LoopTyped, Complete, Ended, Capped
  <2>4. Settled(o)'
    BY <1>1, <1>8 DEF LoopTyped, Complete, Ended, Settled, Stands, Alive
  <2> QED
    BY <1>1, <2>1, <2>2, <2>3, <2>4, OneLoopMoves
<1>9. CASE OrchFails(o)
  <2>1. LoopTyped' /\ Apart
    BY <1>1, <1>9 DEF LoopTyped, OrchFails, Ended
  <2>2. Stands(o)'
    BY <1>1, <1>9 DEF LoopTyped, OrchFails, Ended, Stands, Alive
  <2>3. Capped(o)'
    BY <1>1, <1>9 DEF LoopTyped, OrchFails, Ended, Capped
  <2>4. Settled(o)'
    BY <1>1, <1>9 DEF LoopTyped, OrchFails, Ended, Settled, Stands, Alive
  <2> QED
    BY <1>1, <2>1, <2>2, <2>3, <2>4, OneLoopMoves
<1>10. CASE OrchDies(o)
  <2>1. LoopTyped' /\ Apart
    BY <1>1, <1>10 DEF LoopTyped, OrchDies
  <2>2. Stands(o)'
    BY <1>1, <1>10 DEF LoopTyped, OrchDies, Stands, Alive
  <2>3. Capped(o)'
    BY <1>1, <1>10 DEF LoopTyped, OrchDies, Capped
  <2>4. Settled(o)'
    BY <1>1, <1>10 DEF LoopTyped, OrchDies, Settled, Stands, Alive
  <2> QED
    BY <1>1, <2>1, <2>2, <2>3, <2>4, OneLoopMoves
<1>11. CASE OrchSweep(o)
  <2>1. LoopTyped' /\ Apart
    BY <1>1, <1>11 DEF LoopTyped, OrchSweep, Ended
  <2>2. Stands(o)'
    BY <1>1, <1>11 DEF LoopTyped, OrchSweep, Ended, Stands, Alive
  <2>3. Capped(o)'
    BY <1>1, <1>11 DEF LoopTyped, OrchSweep, Ended, Capped
  <2>4. Settled(o)'
    BY <1>1, <1>11 DEF LoopTyped, OrchSweep, Ended, Settled, Stands, Alive
  <2> QED
    BY <1>1, <2>1, <2>2, <2>3, <2>4, OneLoopMoves
<1>12. CASE Cancel(o)
  <2>1. LoopTyped' /\ Apart
    BY <1>1, <1>12 DEF LoopTyped, Cancel
  <2>2. Stands(o)'
    BY <1>1, <1>12 DEF LoopTyped, Cancel, Stands, Alive
  <2>3. Capped(o)'
    BY <1>1, <1>12 DEF LoopTyped, Cancel, Capped
  <2>4. Settled(o)'
    BY <1>1, <1>12 DEF LoopTyped, Cancel, Settled, Stands, Alive
  <2> QED
    BY <1>1, <2>1, <2>2, <2>3, <2>4, OneLoopMoves
<1> QED
  BY <1>2, <1>3, <1>4, <1>5, <1>6, <1>7, <1>8, <1>9, <1>10, <1>11, <1>12

\* The slots of a wave are within the cap.
LEMMA OpenWaveKeeps ==
  ASSUME LoopInv, NEW o \in Orch, OpenWave(o)
  PROVE  LoopInv'
<1> USE DEF vars, row, column, orow
<1> DEFINE room == Least(MaxPasses - commissioned[o], Len(pending[o]))
           width == Least(Concurrency, room)
<1>1. /\ LoopTyped /\ Stands(o) /\ Capped(o) /\ Settled(o)
      /\ opc[o] = "looping" /\ wave[o] = <<>> /\ commissioned[o] < MaxPasses
      /\ commissioned[o] \in Nat
      /\ slots' = [slots EXCEPT ![o] = width]
      /\ opc' = [opc EXCEPT ![o] = "filling"]
      /\ UNCHANGED <<status, orow, column, pending, wave, hit>>
      /\ Own(o)' = Own(o)
  BY DEF LoopInv, LoopTyped, OpenWave, Settled, Own
<1>0. Wave(o)' = Wave(o)
  BY <1>1 DEF Wave
<1>2. width \in Nat /\ width <= MaxPasses - commissioned[o]
  <2>1. Len(pending[o]) \in Nat
    BY <1>1, LenProperties DEF LoopTyped
  <2> DEFINE n == Len(pending[o])
  <2>2. n \in Nat
    BY <2>1
  <2> HIDE DEF n
  <2>3. MaxPasses - commissioned[o] \in Nat /\ Concurrency \in Nat
    BY <1>1, OrchAssumption
  <2>4. Least(MaxPasses - commissioned[o], n) \in Nat
        /\ Least(MaxPasses - commissioned[o], n) <= MaxPasses - commissioned[o]
    BY <2>2, <2>3 DEF Least
  <2> QED
    BY <2>3, <2>4 DEF Least, n
<1> HIDE DEF width
<1>3. Len(wave'[o]) = 0
  BY <1>1
<1>4. LoopTyped'
  BY <1>1, <1>2 DEF LoopTyped
<1>5. Stands(o)' /\ Settled(o)'
  BY <1>0, <1>1 DEF LoopTyped, Stands, Settled, Alive
<1>6. Capped(o)'
  BY <1>1, <1>2, <1>3, OrchAssumption DEF LoopTyped, Capped
<1>7. \A q \in Orch \ {o} : UNCHANGED <<slots[q], opc[q]>>
  BY <1>1 DEF LoopTyped
<1> QED
  BY <1>1, <1>4, <1>5, <1>6, <1>7, OneLoopMoves

\* A busy thread leaves the list, and a wave that has returned leaves its passes ended.
LEMMA SkipKeeps ==
  ASSUME LoopInv, NEW o \in Orch, SkipBusy(o)
  PROVE  LoopInv'
<1> USE DEF vars, row, column, orow
<1>1. /\ LoopTyped /\ Stands(o) /\ Capped(o) /\ Settled(o)
      /\ opc[o] = "filling" /\ pending[o] # <<>>
      /\ decisions' = [decisions EXCEPT ![o] = decisions'[o]]
      /\ pending' = [pending EXCEPT ![o] = Tail(pending[o])]
      /\ UNCHANGED <<status, by, ostatus, commissioned, cancel, stop, opc, slots, wave, hit>>
      /\ Own(o)' = Own(o) /\ Wave(o)' = Wave(o)
  BY DEF LoopInv, LoopTyped, SkipBusy, Filling, Own, Wave
<1>2. Tail(pending[o]) \in Seq(Thread)
  BY <1>1, HeadTailProperties DEF LoopTyped
<1>3. LoopTyped'
  BY <1>1, <1>2 DEF LoopTyped
<1>4. Stands(o)' /\ Capped(o)' /\ Settled(o)'
  BY <1>1 DEF LoopTyped, Stands, Capped, Settled, Alive
<1>5. \A q \in Orch \ {o} : UNCHANGED <<pending[q], decisions[q]>>
  BY <1>1 DEF LoopTyped
<1> QED
  BY <1>1, <1>3, <1>4, <1>5, OneLoopMoves

\* A wave returns only with all its passes ended.
LEMMA WaveKeeps ==
  ASSUME RowsTell, LoopInv, NEW o \in Orch, WaveReturns(o)
  PROVE  LoopInv'
<1> USE DEF vars, row, column, orow
<1>1. /\ LoopTyped /\ Stands(o) /\ Capped(o) /\ Settled(o)
      /\ opc[o] = "waving" /\ WaveOver(o)
      /\ opc' = [opc EXCEPT ![o] = "looping"]
      /\ wave' = [wave EXCEPT ![o] = <<>>]
      /\ decisions' = [decisions EXCEPT ![o] = decisions'[o]]
      /\ hit' = [hit EXCEPT ![o] = hit'[o]]
      /\ hit'[o] \subseteq hit[o] \cup {"budget_exhausted"}
      /\ UNCHANGED <<status, by, ostatus, commissioned, cancel, stop, pending, slots>>
      /\ Own(o)' = Own(o)
  BY DEF LoopInv, LoopTyped, WaveReturns, Own
<1>2. \A p \in Own(o) : status[p] \in Ended
  <2>1. \A p \in Wave(o) : p \in Pass /\ pc[p] = "over"
    BY <1>1 DEF WaveOver, Settled, Own, Wave
  <2>2. \A p \in Wave(o) : status[p] \in Ended
    BY <2>1 DEF RowsTell, RowOf
  <2> QED
    BY <1>1, <2>2 DEF Settled
<1>3. LoopTyped'
  <2>1. hit'[o] \in SUBSET Reasons
    BY <1>1 DEF LoopTyped, Reasons
  <2>2. wave' \in [Orch -> Seq(Pass)]
    BY <1>1, EmptySeq DEF LoopTyped
  <2> QED
    BY <1>1, <2>1, <2>2 DEF LoopTyped
<1>4. Stands(o)' /\ Capped(o)'
  BY <1>1 DEF LoopTyped, Stands, Capped, Alive
<1>5. Settled(o)'
  <2>1. wave'[o] = <<>> /\ Wave(o)' = {}
    BY <1>1 DEF LoopTyped, Wave
  <2> QED
    BY <1>1, <1>2, <2>1 DEF LoopTyped, Settled, Stands, Alive
<1>6. \A q \in Orch \ {o} : UNCHANGED <<opc[q], wave[q], decisions[q], hit[q]>>
  BY <1>1 DEF LoopTyped
<1> QED
  BY <1>1, <1>3, <1>4, <1>5, <1>6, OneLoopMoves

\* A commission adds a row of its own to the count and to the wave.
LEMMA CommissionKeeps ==
  ASSUME TypeOK, OneCycle, LoopInv, NEW o \in Orch, NEW p \in Fresh, CommissionNext(o, p)
  PROVE  LoopInv'
<1>1. /\ LoopTyped /\ Stands(o) /\ Capped(o) /\ Settled(o) /\ Counted(o)
      /\ opc[o] = "filling" /\ Len(wave[o]) < slots[o] /\ pending[o] # <<>>
      /\ p \in Pass /\ status[p] = "none" /\ by[p] = NoOne
      /\ status' = [status EXCEPT ![p] = "running"]
      /\ by' = [by EXCEPT ![p] = o] /\ by \in [Pass -> Orch \cup {NoOne}]
      /\ wave' = [wave EXCEPT ![o] = Append(@, p)]
      /\ commissioned' = [commissioned EXCEPT ![o] = @ + 1]
      /\ pending' = [pending EXCEPT ![o] = Tail(@)]
      /\ UNCHANGED <<ostatus, cancel, decisions, stop, opc, slots, hit>>
  BY DEF LoopInv, CommissionNext, CommissionReserved, Filling, Fresh, OneCycle, Minted
<1>2. /\ Own(o)' = Own(o) \cup {p} /\ p \notin Own(o)
      /\ \A q \in Orch \ {o} : Own(q)' = Own(q) /\ p \notin Own(q)
  BY <1>1, OrchAssumption DEF Own
<1>3. Counted(o)'
  <2>1. /\ IsFiniteSet(Own(o) \cup {p})
        /\ Cardinality(Own(o) \cup {p}) = Cardinality(Own(o)) + 1
    BY <1>1, <1>2, FS_AddElement DEF Counted
  <2>2. commissioned'[o] = commissioned[o] + 1
    BY <1>1 DEF LoopTyped
  <2> QED
    BY <1>1, <1>2, <2>1, <2>2 DEF Counted
<1>4. /\ wave'[o] = Append(wave[o], p) /\ wave[o] \in Seq(Pass)
      /\ Len(wave[o]) \in Nat /\ Len(wave'[o]) = Len(wave[o]) + 1
      /\ Wave(o)' = Wave(o) \cup {p}
  <2>1. wave'[o] = Append(wave[o], p) /\ wave[o] \in Seq(Pass)
    BY <1>1 DEF LoopTyped
  <2>2. /\ Len(wave'[o]) = Len(wave[o]) + 1 /\ Len(wave[o]) \in Nat
        /\ wave'[o][Len(wave[o]) + 1] = p
        /\ \A i \in 1 .. Len(wave[o]) : wave'[o][i] = wave[o][i]
        /\ DOMAIN wave[o] = 1 .. Len(wave[o])
        /\ DOMAIN wave'[o] = 1 .. Len(wave[o]) + 1
    BY <1>1, <2>1, AppendProperties, LenProperties
  <2> QED
    BY <2>1, <2>2 DEF Wave
<1>5. LoopTyped'
  <2>1. Tail(pending[o]) \in Seq(Thread)
    BY <1>1, HeadTailProperties DEF LoopTyped
  <2> QED
    BY <1>1, <2>1 DEF LoopTyped
<1>6. Stands(o)'
  BY <1>1 DEF LoopTyped, Stands, Alive
<1>7. Capped(o)'
  BY <1>1, <1>4, OrchAssumption DEF LoopTyped, Capped
<1>8. Settled(o)'
  <2>1. Wave(o)' \subseteq Own(o)'
    BY <1>1, <1>2, <1>4 DEF Settled
  <2>2. opc'[o] = "filling" /\ ostatus'[o] # "completed"
    BY <1>1 DEF Stands, Alive
  <2>3. \A x \in Own(o)' \ Wave(o)' : x \in Own(o) \ Wave(o) /\ x # p
    BY <1>2, <1>4
  <2>4. \A x \in Own(o) \ Wave(o) : x # p => status'[x] = status[x]
    BY <1>1 DEF TypeOK, Own
  <2>5. \A x \in Own(o)' \ Wave(o)' : status'[x] \in Ended
    BY <1>1, <2>3, <2>4 DEF Settled
  <2> QED
    BY <2>1, <2>2, <2>5 DEF Settled
<1>9. ASSUME NEW q \in Orch \ {o} PROVE (Stands(q) /\ Capped(q) /\ Settled(q) /\ Counted(q))'
  <2>1. /\ Own(q)' = Own(q) /\ p \notin Own(q) /\ Wave(q)' = Wave(q)
        /\ UNCHANGED <<ostatus[q], commissioned[q], cancel[q], decisions[q], opc[q],
                       pending[q], slots[q], wave[q], hit[q]>>
    BY <1>1, <1>2 DEF LoopTyped, Wave
  <2>2. Stands(q)' /\ Capped(q)' /\ Counted(q)'
    BY <2>1 DEF LoopInv, Stands, Capped, Counted, Alive
  <2>3. \A r \in Own(q) : status'[r] = status[r]
    BY <1>1, <2>1 DEF Own, TypeOK
  <2>4. Settled(q)'
    BY <2>1, <2>3 DEF LoopInv, Settled, Alive
  <2> QED
    BY <2>2, <2>4
<1> QED
  BY <1>3, <1>5, <1>6, <1>7, <1>8, <1>9 DEF LoopInv

\* Every step keeps the loops' invariant.
LEMMA LoopStep ==
  TypeOK /\ RowsTell /\ OneCycle /\ LoopInv /\ [ONext]_<<vars, ovars>> => LoopInv'
<1> SUFFICES ASSUME TypeOK, RowsTell, OneCycle, LoopInv, [ONext]_<<vars, ovars>>
             PROVE  LoopInv'
  OBVIOUS
<1> USE DEF vars, row, ovars
<1>1. CASE UNCHANGED <<vars, ovars>>
  <2>1. UNCHANGED <<orow, by, loop, status>>
    BY <1>1 DEF column
  <2> QED
    BY <2>1, PassesMove
<1>2. ASSUME NEW o \in Orch, OrchWork(o) PROVE LoopInv'
  <2>1. \/ \E raisable \in BOOLEAN : Classify(o, raisable)
        \/ AllClassified(o) \/ StopLoop(o) \/ OpenWave(o) \/ NothingLeft(o)
        \/ \E p \in Fresh : CommissionNext(o, p)
        \/ SkipBusy(o) \/ PotGone(o) \/ Launch(o) \/ WaveReturns(o) \/ Complete(o)
    BY <1>2 DEF OrchWork
  <2> QED
    BY <2>1, ClassifyKeeps, LoopKeeps, OpenWaveKeeps, SkipKeeps, WaveKeeps,
       CommissionKeeps
<1>3. ASSUME NEW o \in Orch,
             Start(o) \/ OrchFails(o) \/ OrchDies(o) \/ OrchSweep(o) \/ Cancel(o)
      PROVE  LoopInv'
  BY <1>3, LoopKeeps
<1>4. ASSUME NEW p \in Routed, NEW t \in Thread, RoutePass(p, t) PROVE LoopInv'
  <2>1. /\ p \in Pass /\ status[p] = "none" /\ by' = by
        /\ status' = [status EXCEPT ![p] = "running"]
        /\ UNCHANGED <<orow, loop>>
    BY <1>4, OrchAssumption DEF RoutePass, Commission
  <2>2. \A o \in Orch : p \notin Own(o)
    BY <2>1, OrchAssumption DEF OneCycle, Minted, Own
  <2>3. \A o \in Orch : \A q \in Own(o) : status'[q] = status[q]
    BY <2>1, <2>2 DEF TypeOK, Own
  <2> QED
    BY <2>1, <2>3, PassesMove
<1>5. ASSUME NEW p \in Pass, PassWorks(p) \/ PassDies(p) \/ PassSwept(p) PROVE LoopInv'
  <2>1. UNCHANGED <<orow, by, loop>> /\ (Work(p) \/ Dies(p) \/ Sweep(p))
    BY <1>5 DEF PassWorks, PassDies, PassSwept, column
  <2>2. \A q \in Pass : status[q] \in Ended => status'[q] \in Ended
    <3>1. \A q \in Pass : /\ status'[q] = "running" => status[q] = "running"
                          /\ status[q] # "none" => status'[q] # "none"
      BY <2>1, NoNewRun
    <3>2. TypeOK'
      BY StepTyped, StepsMap
    <3> QED
      BY <3>1, <3>2 DEF TypeOK, Ended
  <2> QED
    BY <2>1, <2>2, PassesMove DEF Own
<1>6. CASE Funding
  <2>1. UNCHANGED <<orow, by, loop, status>>
    BY <1>6 DEF Funding, Fund, column
  <2> QED
    BY <2>1, PassesMove
<1> QED
  BY <1>1, <1>2, <1>3, <1>4, <1>5, <1>6 DEF ONext

\* Without late sweeps the loop invariant holds throughout.
LEMMA LoopAlways ==
  ASSUME ~LateSweep
  PROVE  OSpec => []LoopInv
<1>1. OInit => LoopInv
  BY LoopStart
<1>2. TypeOK /\ RowsTell /\ OneCycle /\ LoopInv /\ [ONext]_<<vars, ovars>> => LoopInv'
  BY LoopStep
<1>3. OSpec => []TypeOK
  BY Composition, TypeCorrect, PTL DEF ImplementsPasses
<1>4. OSpec => []RowsTell
  <2>1. Spec => []Solvent
    BY AlwaysSolvent
  <2>2. Solvent => RowsTell
    BY DEF Solvent
  <2> QED
    BY <2>1, <2>2, Composition, PTL DEF ImplementsPasses
<1>5. OSpec => []OneCycle
  <2>1. OInit => OneCycle
    BY DEF OInit, Init, OneCycle, Minted, OneCyclePerThread
  <2> QED
    BY <1>3, <2>1, OneCycleStep, PTL DEF OSpec
<1> QED
  BY <1>1, <1>2, <1>3, <1>4, <1>5, PTL DEF OSpec

\* passes_commissioned is the number of the orchestration's rows, and within the cap.
THEOREM CountTheorem ==
  ASSUME ~LateSweep
  PROVE  OSpec => []CountsItsPasses
<1>1. LoopInv => CountsItsPasses
  BY DEF LoopInv, Counted, Capped, Own, CountsItsPasses
<1> QED
  BY <1>1, LoopAlways, PTL

\* A completed orchestration leaves no pass of its own running.
THEOREM NoneLeftTheorem ==
  ASSUME ~LateSweep
  PROVE  OSpec => []NoneLeftRunning
<1>1. ASSUME LoopInv, NEW o \in Orch, ostatus[o] = "completed", NEW p \in Pass, by[p] = o
      PROVE  status[p] \in Ended
  <2>1. Settled(o) /\ p \in Own(o) /\ Wave(o) = {}
    BY <1>1 DEF LoopInv, Settled, Own, Wave
  <2> QED
    BY <1>1, <2>1 DEF Settled
<1>2. LoopInv => NoneLeftRunning
  BY <1>1 DEF NoneLeftRunning
<1> QED
  BY <1>2, LoopAlways, PTL

\* The types that the loop's arithmetic does not need.
RestTyped ==
  /\ stop \in [Orch -> {"none", "error", "no_open_work"} \cup Reasons]
  /\ threadOf \in [Pass -> Thread \cup {"none"}]
  /\ lock \in Orch \cup {NoOne}

\* They are kept too.
LEMMA RestStep == LoopTyped /\ RestTyped /\ [ONext]_<<vars, ovars>> => RestTyped'
<1> SUFFICES ASSUME LoopTyped, RestTyped, [ONext]_<<vars, ovars>> PROVE RestTyped'
  OBVIOUS
<1> USE DEF ovars, orow, column, loop
<1>1. CASE UNCHANGED ovars
  BY <1>1 DEF RestTyped
<1>2. ASSUME NEW o \in Orch, OrchWork(o) PROVE RestTyped'
  <2>1. ASSUME NEW p \in Fresh, CommissionNext(o, p) PROVE RestTyped'
    <3>1. Head(pending[o]) \in Thread
      BY <2>1 DEF CommissionNext, Filling, LoopTyped
    <3> QED
      BY <2>1, <3>1 DEF CommissionNext, Fresh, RestTyped
  <2>2. ASSUME NEW raisable \in BOOLEAN, Classify(o, raisable) PROVE RestTyped'
    BY <2>2 DEF Classify, RestTyped
  <2>3. CASE AllClassified(o) \/ OpenWave(o) \/ NothingLeft(o) \/ SkipBusy(o)
    BY <2>3 DEF AllClassified, OpenWave, NothingLeft, SkipBusy, RestTyped
  <2>4. CASE PotGone(o) \/ StopLoop(o) \/ Launch(o) \/ WaveReturns(o)
    BY <2>4 DEF PotGone, StopLoop, Launch, WaveReturns, SkipAll, RestTyped
  <2>5. CASE Complete(o)
    BY <2>5 DEF Complete, StopReason, Reasons, RestTyped
  <2> QED
    BY <1>2, <2>1, <2>2, <2>3, <2>4, <2>5 DEF OrchWork
<1>3. ASSUME NEW o \in Orch,
             Start(o) \/ OrchFails(o) \/ OrchDies(o) \/ OrchSweep(o) \/ Cancel(o)
      PROVE  RestTyped'
  BY <1>3 DEF Start, OrchFails, OrchDies, OrchSweep, Cancel, RestTyped
<1>4. ASSUME NEW p \in Routed, NEW t \in Thread, RoutePass(p, t) PROVE RestTyped'
  BY <1>4 DEF RoutePass, RestTyped
<1>5. ASSUME NEW p \in Pass, PassWorks(p) \/ PassDies(p) \/ PassSwept(p) PROVE RestTyped'
  BY <1>5 DEF PassWorks, PassDies, PassSwept, RestTyped
<1>6. CASE Funding
  BY <1>6 DEF Funding, RestTyped
<1> QED
  BY <1>1, <1>2, <1>3, <1>4, <1>5, <1>6 DEF ONext

\* A step of an orchestration is a step of its row, or none.
LEMMA RowStep == LoopInv /\ [ONext]_<<vars, ovars>> => [Rows!RowsNext]_(Rows!rows)
<1> SUFFICES ASSUME LoopInv, [ONext]_<<vars, ovars>>,
                    ~UNCHANGED <<ostatus, commissioned, cancel, stop>>
             PROVE  Rows!RowsNext
  BY DEF Rows!rows
<1> USE DEF vars, row, ovars, orow
<1>1. PICK o \in Orch : \/ Start(o) \/ OrchWork(o) \/ OrchFails(o) \/ OrchDies(o)
                        \/ OrchSweep(o) \/ Cancel(o)
  BY DEF ONext, RoutePass, PassWorks, PassDies, PassSwept, Funding
<1>2. LoopTyped /\ Stands(o) /\ Capped(o)
  BY DEF LoopInv
<1>3. CASE Start(o)
  <2>1. Rows!Open(o)
    BY <1>3 DEF Start, Rows!Open
  <2> QED
    BY <2>1 DEF Rows!RowsNext
<1>4. CASE OrchWork(o)
  <2>1. (\E p \in Fresh : CommissionNext(o, p)) \/ Complete(o)
    BY <1>4 DEF OrchWork, Classify, AllClassified, StopLoop, OpenWave, NothingLeft, SkipBusy,
                PotGone, Launch, WaveReturns, column
  <2>2. ASSUME NEW p \in Fresh, CommissionNext(o, p) PROVE Rows!RowsNext
    <3>1. /\ opc[o] = "filling" /\ Len(wave[o]) < slots[o]
          /\ commissioned' = [commissioned EXCEPT ![o] = @ + 1]
          /\ UNCHANGED <<ostatus, cancel, stop>>
      BY <2>2 DEF CommissionNext, Filling
    <3>2. Len(wave[o]) \in Nat
      BY <1>2, LenProperties DEF LoopTyped
    <3>3. commissioned[o] < MaxPasses
      BY <1>2, <3>1, <3>2, OrchAssumption DEF LoopTyped, Capped
    <3>4. Rows!CountPass(o)
      BY <1>2, <3>1, <3>3 DEF Stands, Alive, Rows!CountPass
    <3> QED
      BY <3>4 DEF Rows!RowsNext
  <2>3. CASE Complete(o)
    <3>1. StopReason(o) \in Rows!Reason /\ Rows!Borne(o, StopReason(o))
      BY <1>2 DEF StopReason, Rows!Reason, Rows!Borne, Capped
    <3>2. Rows!Close(o, StopReason(o))
      BY <1>2, <2>3, <3>1 DEF Complete, Stands, Alive, Rows!Close
    <3> QED
      BY <3>1, <3>2 DEF Rows!RowsNext
  <2> QED
    BY <2>1, <2>2, <2>3
<1>5. CASE OrchFails(o) \/ OrchSweep(o)
  <2>1. /\ ostatus[o] = "running"
        /\ ostatus' = [ostatus EXCEPT ![o] = "failed"]
        /\ stop' = [stop EXCEPT ![o] = "error"]
        /\ UNCHANGED <<commissioned, cancel>>
    BY <1>2, <1>5 DEF OrchFails, OrchSweep, Stands
  <2>2. Rows!Lose({o})
    BY <1>2, <2>1 DEF LoopTyped, Rows!Lose
  <2> QED
    BY <2>2 DEF Rows!RowsNext
<1>6. CASE OrchDies(o)
  BY <1>6 DEF OrchDies
<1>7. CASE Cancel(o)
  <2>1. cancel' = [cancel EXCEPT ![o] = TRUE] /\ UNCHANGED <<ostatus, commissioned, stop>>
    BY <1>7 DEF Cancel
  <2>2. \A q \in Orch : cancel'[q] = (cancel[q] \/ q \in {o})
    BY <1>2, <2>1 DEF LoopTyped
  <2>3. cancel' = [q \in Orch |-> cancel[q] \/ q \in {o}]
    BY <1>2, <2>1, <2>2 DEF LoopTyped
  <2>4. Rows!AskCancel({o})
    BY <2>1, <2>3 DEF Rows!AskCancel
  <2> QED
    BY <2>4 DEF Rows!RowsNext
<1> QED
  BY <1>1, <1>3, <1>4, <1>5, <1>6, <1>7

\* An orchestration keeps what CycleRows promises of its row.
THEOREM RowsTheorem ==
  ASSUME ~LateSweep
  PROVE  OSpec => ImplementsRows
<1>1. OInit => Rows!RowsInit
  BY DEF OInit, Rows!RowsInit
<1>2. LoopInv /\ [ONext]_<<vars, ovars>> => [Rows!RowsNext]_(Rows!rows)
  BY RowStep
<1> QED
  BY <1>1, <1>2, LoopAlways, PTL DEF OSpec, Rows!RowsSpec, ImplementsRows

-----------------------------------------------------------------------------
(* Every thread once. *)

Told(o) == {decisions[o][i].thread : i \in DOMAIN decisions[o]}
Waiting(o) == {pending[o][i] : i \in DOMAIN pending[o]}
Sent(o) == {threadOf[p] : p \in Wave(o)}

\* Each thread the loop has looked at is decided, pending or in the wave, and is counted there.
Accounted(o) ==
  /\ decisions[o] \in Seq(Decision)
  /\ Sent(o) \subseteq Thread
  /\ opc[o] = "opening" =>
       /\ Classified(o) <= Len(Threads)
       /\ Told(o) \cup Waiting(o) = {Threads[i] : i \in 1 .. Classified(o)}
  /\ opc[o] \in {"looping", "filling", "waving"} =>
       /\ Len(decisions[o]) + Len(pending[o]) + Len(wave[o]) = Len(Threads)
       /\ Told(o) \cup Waiting(o) \cup Sent(o) = Thread
  /\ opc[o] = "closing" \/ ostatus[o] = "completed" =>
       Len(decisions[o]) = Len(Threads) /\ Told(o) = Thread

\* A function on 1 .. n is a sequence.
LEMMA AsList ==
  ASSUME NEW S, NEW n \in Nat, NEW f \in [1 .. n -> S]
  PROVE  f \in Seq(S) /\ Len(f) = n
<1>1. [1 .. n -> S] \in {[1 .. m -> S] : m \in Nat}
  OBVIOUS
<1>2. f \in UNION {[1 .. m -> S] : m \in Nat}
  BY <1>1
<1>3. f \in Seq(S)
  BY <1>2, SeqDef
<1>4. Len(f) \in Nat /\ 1 .. Len(f) = 1 .. n
  BY <1>3, LenProperties
<1>5. \A a, b \in Nat : 1 .. a = 1 .. b => a = b
  <2>1. ASSUME NEW a \in Nat, NEW b \in Nat, a < b, 1 .. a = 1 .. b PROVE FALSE
    <3>1. b \in 1 .. b /\ b \notin 1 .. a
      BY <2>1
    <3> QED
      BY <2>1, <3>1
  <2> QED
    BY <2>1
<1> QED
  BY <1>3, <1>4, <1>5

\* What a log says once it is told of the threads ts as well.
LEMMA SkipTells ==
  ASSUME NEW d \in Seq(Decision), NEW ts \in Seq(Thread), NEW r \in Reasons
  PROVE  /\ d \o Skip(ts, r) \in Seq(Decision)
         /\ Len(d \o Skip(ts, r)) = Len(d) + Len(ts)
         /\ {(d \o Skip(ts, r))[i].thread : i \in DOMAIN (d \o Skip(ts, r))}
              = {d[i].thread : i \in DOMAIN d} \cup {ts[i] : i \in DOMAIN ts}
<1> DEFINE k == Skip(ts, r)
           m == Len(d)
           n == Len(ts)
<1>1. m \in Nat /\ n \in Nat /\ DOMAIN d = 1 .. m /\ DOMAIN ts = 1 .. n
  BY LenProperties
<1>2. k \in [1 .. n -> Decision] /\ \A i \in 1 .. n : k[i].thread = ts[i]
  <2>1. \A i \in 1 .. n : ts[i] \in Thread
    BY <1>1, ElementOfSeq
  <2> QED
    BY <1>1, <2>1 DEF Skip, Decision
<1>3. k \in Seq(Decision) /\ Len(k) = n
  <2> HIDE DEF k, n
  <2> QED
    BY <1>1, <1>2, AsList
<1> HIDE DEF k, m, n
<1>4. /\ d \o k \in Seq(Decision) /\ Len(d \o k) = m + n /\ DOMAIN (d \o k) = 1 .. (m + n)
      /\ \A i \in 1 .. m : (d \o k)[i] = d[i]
      /\ \A i \in 1 .. n : (d \o k)[m + i] = k[i]
  <2>1. d \o k \in Seq(Decision) /\ Len(d \o k) = m + n
    BY <1>3, ConcatProperties DEF m
  <2>2. DOMAIN (d \o k) = 1 .. (m + n)
    BY <2>1, LenProperties
  <2>3. \A i \in 1 .. (Len(d) + Len(k)) :
          (d \o k)[i] = IF i <= Len(d) THEN d[i] ELSE k[i - Len(d)]
    BY <1>3, ConcatProperties
  <2>4. \A i \in 1 .. (m + n) : (d \o k)[i] = IF i <= m THEN d[i] ELSE k[i - m]
    BY <1>3, <2>3 DEF m
  <2>5. \A i \in 1 .. m : i \in 1 .. (m + n) /\ i <= m
    BY <1>1
  <2>6. \A i \in 1 .. n : m + i \in 1 .. (m + n) /\ ~(m + i <= m) /\ (m + i) - m = i
    BY <1>1
  <2> QED
    BY <2>1, <2>2, <2>4, <2>5, <2>6
<1> DEFINE all == {(d \o k)[i].thread : i \in 1 .. (m + n)}
           was == {d[i].thread : i \in 1 .. m}
           new == {ts[i] : i \in 1 .. n}
<1>5. all \subseteq was \cup new
  <2> SUFFICES ASSUME NEW i \in 1 .. (m + n) PROVE (d \o k)[i].thread \in was \cup new
    OBVIOUS
  <2>1. CASE i <= m
    BY <1>1, <1>4, <2>1
  <2>2. CASE i > m
    <3>1. i - m \in 1 .. n /\ m + (i - m) = i
      BY <1>1, <2>2
    <3>2. (d \o k)[i] = k[i - m]
      BY <1>4, <3>1
    <3>3. k[i - m].thread = ts[i - m]
      BY <1>2, <3>1
    <3>4. ts[i - m] \in new
      BY <3>1
    <3> QED
      BY <3>2, <3>3, <3>4
  <2>3. i <= m \/ i > m
    BY <1>1
  <2> QED
    BY <2>1, <2>2, <2>3, Zenon
<1>6. was \subseteq all
  BY <1>1, <1>4
<1>7. new \subseteq all
  <2> SUFFICES ASSUME NEW i \in 1 .. n PROVE ts[i] \in all
    OBVIOUS
  <2>1. m + i \in 1 .. (m + n) /\ (d \o k)[m + i].thread = ts[i]
    BY <1>1, <1>2, <1>4
  <2> QED
    BY <2>1
<1>8. all = was \cup new
  BY <1>5, <1>6, <1>7
<1> QED
  BY <1>1, <1>4, <1>8 DEF k, m, n

\* A list is its head and the rest.
LEMMA HeadAndRest ==
  ASSUME NEW ts \in Seq(Thread), ts # <<>>
  PROVE  /\ Head(ts) \in Thread /\ Tail(ts) \in Seq(Thread) /\ Len(ts) = 1 + Len(Tail(ts))
         /\ {ts[i] : i \in DOMAIN ts}
              = {Head(ts)} \cup {Tail(ts)[i] : i \in DOMAIN Tail(ts)}
<1> DEFINE n == Len(ts)
<1>1. /\ Head(ts) \in Thread /\ Tail(ts) \in Seq(Thread)
      /\ n \in Nat /\ n >= 1 /\ Len(Tail(ts)) = n - 1 /\ Head(ts) = ts[1]
      /\ DOMAIN ts = 1 .. n /\ DOMAIN Tail(ts) = 1 .. (n - 1)
      /\ \A i \in 1 .. (n - 1) : Tail(ts)[i] = ts[i + 1]
  <2>1. /\ n \in Nat /\ DOMAIN ts = 1 .. n /\ ts \in [1 .. n -> Thread]
    BY LenProperties
  <2>2. n >= 1
    BY <2>1, EmptySeq
  <2>3. Head(ts) \in Thread /\ Head(ts) = ts[1]
    BY HeadTailProperties
  <2>4. Tail(ts) \in Seq(Thread) /\ Len(Tail(ts)) = n - 1
    BY HeadTailProperties
  <2>5. \A i \in 1 .. Len(Tail(ts)) : Tail(ts)[i] = ts[i + 1]
    BY HeadTailProperties
  <2>6. DOMAIN Tail(ts) = 1 .. Len(Tail(ts))
    BY <2>4, LenProperties
  <2> QED
    BY <2>1, <2>2, <2>3, <2>4, <2>5, <2>6
<1> HIDE DEF n
<1>2. \A i \in 1 .. n : i = 1 \/ (i - 1 \in 1 .. (n - 1) /\ ts[i] = Tail(ts)[i - 1])
  BY <1>1
<1>3. 1 \in 1 .. n /\ \A i \in 1 .. (n - 1) : i + 1 \in 1 .. n
  BY <1>1
<1> DEFINE all == {ts[i] : i \in 1 .. n}
           rest == {Tail(ts)[i] : i \in 1 .. (n - 1)}
<1>4. all \subseteq {Head(ts)} \cup rest
  BY <1>1, <1>2
<1>5. {Head(ts)} \cup rest \subseteq all
  <2>1. Head(ts) \in all
    BY <1>1, <1>3
  <2>2. ASSUME NEW i \in 1 .. (n - 1) PROVE Tail(ts)[i] \in all
    <3>1. i + 1 \in 1 .. n /\ Tail(ts)[i] = ts[i + 1]
      BY <1>1, <1>3
    <3> QED
      BY <3>1
  <2> QED
    BY <2>1, <2>2
<1>6. all = {Head(ts)} \cup rest /\ n = 1 + Len(Tail(ts))
  BY <1>1, <1>4, <1>5
<1> QED
  BY <1>1, <1>6, Zenon DEF n

\* A list with one more at its end.
LEMMA OneMore ==
  ASSUME NEW ts \in Seq(Thread), NEW t \in Thread
  PROVE  /\ Append(ts, t) \in Seq(Thread) /\ Len(Append(ts, t)) = Len(ts) + 1
         /\ {Append(ts, t)[i] : i \in DOMAIN Append(ts, t)} = {ts[i] : i \in DOMAIN ts} \cup {t}
<1> DEFINE n == Len(ts)
<1>1. /\ n \in Nat /\ Append(ts, t) \in Seq(Thread) /\ Len(Append(ts, t)) = n + 1
      /\ DOMAIN ts = 1 .. n /\ DOMAIN Append(ts, t) = 1 .. (n + 1)
      /\ \A i \in 1 .. n : Append(ts, t)[i] = ts[i]
      /\ Append(ts, t)[n + 1] = t
  BY AppendProperties, LenProperties
<1> HIDE DEF n
<1>2. n + 1 \in 1 .. (n + 1) /\ \A i \in 1 .. (n + 1) : i \in 1 .. n \/ i = n + 1
  BY <1>1
<1> QED
  BY <1>1, <1>2 DEF n

\* A sequence with nothing in it.
LEMMA NoneIn == ASSUME NEW f, f = <<>> PROVE Len(f) = 0 /\ DOMAIN f = {}
  OBVIOUS

AccountInv == \A o \in Orch : Accounted(o)

\* What the accounts of a loop rest on, in its state.
LEMMA Lists ==
  ASSUME LoopInv, AccountInv, NEW o \in Orch
  PROVE  /\ decisions[o] \in Seq(Decision) /\ pending[o] \in Seq(Thread)
         /\ wave[o] \in Seq(Pass)
         /\ Len(decisions[o]) \in Nat /\ Len(pending[o]) \in Nat /\ Len(wave[o]) \in Nat
         /\ Len(Threads) \in Nat
<1>1. /\ decisions[o] \in Seq(Decision) /\ pending[o] \in Seq(Thread)
      /\ wave[o] \in Seq(Pass)
  BY DEF LoopInv, LoopTyped, AccountInv, Accounted
<1> QED
  BY <1>1, OrchAssumption, LenProperties

\* An account stands while its lists do and the loop stays in its part of the run or is lost.
LEMMA AccountsStay ==
  ASSUME LoopInv, AccountInv, NEW q \in Orch,
         UNCHANGED <<decisions[q], pending[q], wave[q]>>,
         \A p \in Wave(q) : threadOf'[p] = threadOf[p],
         \/ opc'[q] = opc[q] \/ opc'[q] \in {"over", "dead"}
         \/ {opc[q], opc'[q]} \subseteq {"looping", "filling", "waving"},
         ostatus'[q] = "completed" => ostatus[q] = "completed" \/ opc[q] = "closing"
  PROVE  Accounted(q)'
<1>1. Accounted(q)
  BY DEF AccountInv
<1>2. /\ Told(q)' = Told(q) /\ Waiting(q)' = Waiting(q) /\ Classified(q)' = Classified(q)
      /\ Wave(q)' = Wave(q)
  BY DEF Told, Waiting, Classified, Wave
<1>3. Sent(q)' = Sent(q)
  BY <1>2 DEF Sent
<1>4. UNCHANGED <<Len(decisions[q]), Len(pending[q]), Len(wave[q])>>
  OBVIOUS
<1> QED
  BY <1>1, <1>2, <1>3, <1>4 DEF Accounted

\* A step of one loop that names no thread anew has only its own account to look at.
LEMMA OneAccountMoves ==
  ASSUME LoopInv, AccountInv, NEW o \in Orch, UNCHANGED threadOf,
         \A q \in Orch \ {o} :
            UNCHANGED <<ostatus[q], decisions[q], opc[q], pending[q], wave[q]>>,
         Accounted(o)'
  PROVE  AccountInv'
<1>1. ASSUME NEW q \in Orch \ {o} PROVE Accounted(q)'
  BY AccountsStay
<1> QED
  BY <1>1 DEF AccountInv

\* The steps that move no thread from list to list.
LEMMA StayingStep ==
  ASSUME LoopInv, AccountInv, NEW o \in Orch,
         \/ OpenWave(o) \/ PotGone(o) \/ Complete(o) \/ OrchFails(o) \/ OrchDies(o)
         \/ OrchSweep(o) \/ Cancel(o)
  PROVE  AccountInv'
<1> USE DEF column, orow, loop
<1>1. /\ LoopTyped /\ Stands(o)
      /\ UNCHANGED <<threadOf, decisions, pending, wave>>
  BY DEF LoopInv, OpenWave, PotGone, Complete, OrchFails, OrchDies, OrchSweep, Cancel
<1>2. \A q \in Orch \ {o} : UNCHANGED <<ostatus[q], opc[q]>>
  BY <1>1 DEF LoopTyped, OpenWave, PotGone, Complete, OrchFails, OrchDies, OrchSweep, Cancel
<1>3. \/ opc'[o] = opc[o] \/ opc'[o] \in {"over", "dead"}
      \/ {opc[o], opc'[o]} \subseteq {"looping", "filling", "waving"}
  BY <1>1 DEF LoopTyped, OpenWave, PotGone, Complete, OrchFails, OrchDies, OrchSweep, Cancel
<1>4. ostatus'[o] = "completed" => ostatus[o] = "completed" \/ opc[o] = "closing"
  BY <1>1 DEF LoopTyped, OpenWave, PotGone, Complete, OrchFails, OrchDies, OrchSweep, Cancel
<1>5. Accounted(o)'
  BY <1>1, <1>3, <1>4, AccountsStay
<1> QED
  BY <1>1, <1>2, <1>5, OneAccountMoves

\* A loop starts with nothing looked at.
LEMMA StartAccounts ==
  ASSUME LoopInv, AccountInv, NEW o \in Orch, Start(o)
  PROVE  AccountInv'
<1> USE DEF column
<1>1. /\ LoopTyped /\ Stands(o) /\ Accounted(o)
      /\ opc'[o] = "opening" /\ ostatus'[o] = "running"
      /\ UNCHANGED <<threadOf, decisions, pending, wave>>
      /\ \A q \in Orch \ {o} : UNCHANGED <<ostatus[q], opc[q]>>
  BY DEF LoopInv, LoopTyped, AccountInv, Start
<1>2. pending'[o] = <<>> /\ decisions'[o] = <<>>
  BY <1>1 DEF Stands, Start
<1>3. Classified(o)' = 0 /\ Told(o)' = {} /\ Waiting(o)' = {}
  BY <1>2, NoneIn DEF Classified, Told, Waiting
<1>4. Sent(o)' = Sent(o)
  BY <1>1 DEF Sent, Wave
<1>5. 0 <= Len(Threads) /\ {Threads[i] : i \in 1 .. 0} = {}
  BY <1>1, Lists
<1>6. Accounted(o)'
  BY <1>1, <1>3, <1>4, <1>5 DEF Accounted
<1> QED
  BY <1>1, <1>6, OneAccountMoves

\* The first n + 1 threads are the first n and the next one.
LEMMA NextThread ==
  ASSUME NEW n \in Nat
  PROVE  {Threads[i] : i \in 1 .. (n + 1)} = {Threads[i] : i \in 1 .. n} \cup {Threads[n + 1]}
<1> DEFINE all == {Threads[i] : i \in 1 .. (n + 1)}
           old == {Threads[i] : i \in 1 .. n}
<1>1. n + 1 \in 1 .. (n + 1) /\ \A i \in 1 .. (n + 1) : i \in 1 .. n \/ i = n + 1
  OBVIOUS
<1>2. \A i \in 1 .. n : i \in 1 .. (n + 1)
  OBVIOUS
<1>3. all \subseteq old \cup {Threads[n + 1]}
  BY <1>1
<1>4. old \cup {Threads[n + 1]} \subseteq all
  BY <1>1, <1>2
<1> QED
  BY <1>3, <1>4

\* Classification looks at the next thread and puts it in one of the two lists.
LEMMA ClassifyAccounts ==
  ASSUME LoopInv, AccountInv, NEW o \in Orch, NEW raisable \in BOOLEAN, Classify(o, raisable)
  PROVE  AccountInv'
<1> USE DEF column
<1> DEFINE a == Len(pending[o])
           b == Len(decisions[o])
           m == Len(Threads)
<1>0. /\ decisions[o] \in Seq(Decision) /\ pending[o] \in Seq(Thread)
      /\ a \in Nat /\ b \in Nat /\ m \in Nat
  BY Lists
<1> HIDE DEF a, b, m
<1> DEFINE n == Classified(o)
           t == Threads[Classified(o) + 1]
<1>1. /\ LoopTyped /\ Stands(o) /\ Accounted(o)
      /\ opc[o] = "opening" /\ ostatus[o] = "running"
      /\ n = a + b /\ n < m
      /\ UNCHANGED <<threadOf, opc, ostatus, wave>>
      /\ \/ /\ pending' = [pending EXCEPT ![o] = Append(@, t)]
            /\ decisions' = [decisions EXCEPT ![o] = @]
         \/ /\ pending' = [pending EXCEPT ![o] = @]
            /\ decisions' = [decisions EXCEPT ![o] = @ \o Skip(<<t>>, "ineligible")]
  BY DEF LoopInv, AccountInv, Classify, Classified, Stands, Alive, a, b, m
<1> HIDE DEF n
<1>2. n \in Nat /\ n + 1 <= m /\ n + 1 \in 1 .. m
  BY <1>0, <1>1
<1>3. t \in Thread /\ <<t>> \in Seq(Thread) /\ "ineligible" \in Reasons
  BY <1>2, ThreadAt DEF Reasons, m, n
<1>4. Len(<<t>>) = 1 /\ {<<t>>[i] : i \in DOMAIN <<t>>} = {t}
  OBVIOUS
<1> DEFINE seen == {Threads[i] : i \in 1 .. n}
<1>5. Told(o) \cup Waiting(o) = seen
  BY <1>1 DEF Accounted, n
<1>6. {Threads[i] : i \in 1 .. (n + 1)} = seen \cup {t}
  BY <1>2, NextThread DEF n
<1> HIDE DEF t, seen
<1>7. /\ Classified(o)' = n + 1 /\ decisions'[o] \in Seq(Decision)
      /\ Told(o)' \cup Waiting(o)' = seen \cup {t}
  <2>1. CASE /\ pending' = [pending EXCEPT ![o] = Append(@, t)]
             /\ decisions' = [decisions EXCEPT ![o] = @]
    <3>1. pending'[o] = Append(pending[o], t) /\ decisions'[o] = decisions[o]
      BY <1>1, <2>1 DEF LoopTyped
    <3>2. Len(pending'[o]) = Len(pending[o]) + 1 /\ Waiting(o)' = Waiting(o) \cup {t}
      <4>1. /\ Len(Append(pending[o], t)) = Len(pending[o]) + 1
            /\ {Append(pending[o], t)[i] : i \in DOMAIN Append(pending[o], t)}
                 = {pending[o][i] : i \in DOMAIN pending[o]} \cup {t}
        BY <1>0, <1>3, OneMore
      <4> QED
        BY <3>1, <4>1 DEF Waiting
    <3>3. Told(o)' = Told(o)
      BY <3>1 DEF Told
    <3>4. Classified(o)' = (a + 1) + b
      BY <3>1, <3>2 DEF Classified, a, b
    <3>5. Classified(o)' = n + 1
      BY <1>0, <1>1, <3>4
    <3> QED
      BY <1>0, <1>5, <3>1, <3>2, <3>3, <3>5
  <2>2. CASE /\ pending' = [pending EXCEPT ![o] = @]
             /\ decisions' = [decisions EXCEPT ![o] = @ \o Skip(<<t>>, "ineligible")]
    <3>1. pending'[o] = pending[o] /\ decisions'[o] = decisions[o] \o Skip(<<t>>, "ineligible")
      BY <1>1, <2>2 DEF LoopTyped
    <3>2. /\ decisions'[o] \in Seq(Decision) /\ Len(decisions'[o]) = Len(decisions[o]) + 1
          /\ Told(o)' = Told(o) \cup {t}
      <4> DEFINE log == decisions[o] \o Skip(<<t>>, "ineligible")
      <4>1. /\ log \in Seq(Decision) /\ Len(log) = Len(decisions[o]) + Len(<<t>>)
            /\ {log[i].thread : i \in DOMAIN log}
                 = {decisions[o][i].thread : i \in DOMAIN decisions[o]}
                     \cup {<<t>>[i] : i \in DOMAIN <<t>>}
        BY <1>0, <1>3, SkipTells
      <4> HIDE DEF log
      <4>2. decisions'[o] = log
        BY <3>1 DEF log
      <4> QED
        BY <1>4, <4>1, <4>2 DEF Told
    <3>3. Waiting(o)' = Waiting(o)
      BY <3>1 DEF Waiting
    <3>4. Classified(o)' = a + (b + 1)
      BY <3>1, <3>2 DEF Classified, a, b
    <3>5. Classified(o)' = n + 1
      BY <1>0, <1>1, <3>4
    <3> QED
      BY <1>5, <3>2, <3>3, <3>5
  <2> QED
    BY <1>1, <2>1, <2>2
<1>8. Sent(o)' = Sent(o)
  BY <1>1 DEF Sent, Wave
<1>9. Accounted(o)'
  BY <1>1, <1>2, <1>6, <1>7, <1>8 DEF Accounted, m
<1>10. \A q \in Orch \ {o} : UNCHANGED <<ostatus[q], decisions[q], opc[q], pending[q], wave[q]>>
  BY <1>1 DEF LoopTyped
<1> QED
  BY <1>1, <1>9, <1>10, OneAccountMoves

\* The classification ends with every thread in one of the lists.
LEMMA ClassifiedAccounts ==
  ASSUME LoopInv, AccountInv, NEW o \in Orch, AllClassified(o)
  PROVE  AccountInv'
<1> USE DEF column, orow
<1> DEFINE a == Len(pending[o])
           b == Len(decisions[o])
           m == Len(Threads)
<1>0. /\ decisions[o] \in Seq(Decision) /\ pending[o] \in Seq(Thread)
      /\ a \in Nat /\ b \in Nat /\ m \in Nat
  BY Lists
<1> HIDE DEF a, b, m
<1>1. /\ LoopTyped /\ Stands(o) /\ Settled(o) /\ Accounted(o)
      /\ opc[o] = "opening" /\ ostatus[o] = "running" /\ opc'[o] = "looping"
      /\ Classified(o) = a + b /\ Classified(o) >= m /\ Classified(o) <= m
      /\ UNCHANGED <<threadOf, ostatus, decisions, pending, wave>>
      /\ \A q \in Orch \ {o} : opc'[q] = opc[q]
  BY DEF LoopInv, LoopTyped, AccountInv, Accounted, AllClassified, Classified, Stands, Alive,
         a, b, m
<1>2. wave[o] = <<>> /\ Len(wave[o]) = 0 /\ Sent(o) = {}
  BY <1>1, NoneIn DEF Settled, Sent, Wave
<1>3. Classified(o) = m /\ b + a + 0 = m
  BY <1>0, <1>1
<1>4. Told(o) \cup Waiting(o) = Thread
  <2>1. DOMAIN Threads = 1 .. Len(Threads)
    BY OrchAssumption, LenProperties
  <2> QED
    BY <1>1, <1>3, <2>1 DEF Accounted, Thread, m
<1>5. /\ Told(o)' = Told(o) /\ Waiting(o)' = Waiting(o) /\ Sent(o)' = Sent(o)
  BY <1>1 DEF Told, Waiting, Sent, Wave
<1>6. Len(decisions[o]) + Len(pending[o]) + Len(wave[o]) = Len(Threads)
  BY <1>2, <1>3 DEF a, b, m
<1>7. Accounted(o)'
  BY <1>1, <1>2, <1>4, <1>5, <1>6 DEF Accounted
<1> QED
  BY <1>1, <1>7, OneAccountMoves

\* What a log says that is told of all the pending threads, or of the wave's.
LEMMA ToldAll ==
  ASSUME LoopInv, AccountInv, NEW o \in Orch, NEW ts \in Seq(Thread), NEW r \in Reasons,
         decisions'[o] = decisions[o] \o Skip(ts, r)
  PROVE  /\ decisions'[o] \in Seq(Decision)
         /\ Len(decisions'[o]) = Len(decisions[o]) + Len(ts)
         /\ Told(o)' = Told(o) \cup {ts[i] : i \in DOMAIN ts}
<1> DEFINE log == decisions[o] \o Skip(ts, r)
<1>1. decisions[o] \in Seq(Decision)
  BY Lists
<1>2. /\ log \in Seq(Decision) /\ Len(log) = Len(decisions[o]) + Len(ts)
      /\ {log[i].thread : i \in DOMAIN log}
           = {decisions[o][i].thread : i \in DOMAIN decisions[o]} \cup {ts[i] : i \in DOMAIN ts}
  BY <1>1, SkipTells
<1>3. decisions'[o] = log
  OBVIOUS
<1> HIDE DEF log
<1> QED
  BY <1>2, <1>3 DEF Told

\* Skipping all that is pending, with no pass out, accounts for every thread.
LEMMA AllSkipped ==
  ASSUME LoopInv, AccountInv, NEW o \in Orch, opc[o] \in {"looping", "filling"},
         wave[o] = <<>>, NEW r \in Reasons,
         decisions'[o] = decisions[o] \o Skip(pending[o], r)
  PROVE  /\ decisions'[o] \in Seq(Decision)
         /\ Len(decisions'[o]) = Len(Threads) /\ Told(o)' = Thread
<1> DEFINE a == Len(pending[o])
           b == Len(decisions[o])
           m == Len(Threads)
<1>0. pending[o] \in Seq(Thread) /\ a \in Nat /\ b \in Nat /\ m \in Nat
  BY Lists
<1> HIDE DEF a, b, m
<1>1. /\ decisions'[o] \in Seq(Decision) /\ Len(decisions'[o]) = b + a
      /\ Told(o)' = Told(o) \cup Waiting(o)
  BY <1>0, ToldAll DEF Waiting, a, b
<1>2. Len(wave[o]) = 0 /\ Sent(o) = {}
  BY NoneIn DEF Sent, Wave
<1>3. b + a + 0 = m /\ Told(o) \cup Waiting(o) \cup Sent(o) = Thread
  BY <1>2 DEF AccountInv, Accounted, a, b, m
<1>4. b + a = m
  BY <1>0, <1>3
<1> QED
  BY <1>1, <1>2, <1>3, <1>4 DEF m

\* The loop stops, or finds nothing left.
LEMMA ClosingAccounts ==
  ASSUME LoopInv, AccountInv, NEW o \in Orch, StopLoop(o) \/ NothingLeft(o)
  PROVE  AccountInv'
<1> USE DEF column, orow
<1>1. /\ LoopTyped /\ Settled(o) /\ Stands(o)
      /\ opc[o] = "looping" /\ opc'[o] = "closing"
      /\ UNCHANGED <<threadOf, ostatus, pending, wave>>
      /\ \A q \in Orch \ {o} : opc'[q] = opc[q]
  BY DEF LoopInv, LoopTyped, StopLoop, NothingLeft
<1>2. wave[o] = <<>>
  BY <1>1 DEF Settled
<1>3. \E r \in Reasons : decisions'[o] = decisions[o] \o Skip(pending[o], r)
  <2>1. CASE StopLoop(o)
    <3> DEFINE Said(r) == decisions' = [decisions EXCEPT ![o] = @ \o Skip(pending[o], r)]
    <3>1. Said("cancelled") \/ Said("max_passes") \/ Said("budget_exhausted")
      BY <2>1 DEF StopLoop, SkipAll
    <3>2. {"cancelled", "max_passes", "budget_exhausted"} \subseteq Reasons
      BY DEF Reasons
    <3>3. ASSUME NEW r \in Reasons, Said(r)
          PROVE  decisions'[o] = decisions[o] \o Skip(pending[o], r)
      BY <1>1, <3>3 DEF LoopTyped
    <3> QED
      BY <3>1, <3>2, <3>3
  <2>2. CASE NothingLeft(o)
    <3>1. pending[o] = <<>> /\ decisions' = decisions
      BY <2>2 DEF NothingLeft
    <3>2. decisions[o] \in Seq(Decision) /\ Skip(pending[o], "cancelled") = <<>>
      BY <3>1, Lists DEF Skip
    <3>3. decisions[o] \o <<>> = decisions[o]
      BY <3>2, ConcatEmptySeq
    <3>4. "cancelled" \in Reasons
      BY DEF Reasons
    <3> QED
      BY <3>1, <3>2, <3>3, <3>4
  <2> QED
    BY <2>1, <2>2
<1>4. /\ decisions'[o] \in Seq(Decision)
      /\ Len(decisions'[o]) = Len(Threads) /\ Told(o)' = Thread
  BY <1>1, <1>2, <1>3, AllSkipped
<1>5. Sent(o)' = Sent(o) /\ Sent(o) \subseteq Thread
  <2>1. Sent(o)' = Sent(o)
    BY <1>1 DEF Sent, Wave
  <2> QED
    BY <2>1 DEF AccountInv, Accounted
<1>6. Accounted(o)'
  BY <1>1, <1>4, <1>5 DEF Accounted
<1>7. \A q \in Orch \ {o} : decisions'[q] = decisions[q]
  BY <1>1 DEF LoopTyped, StopLoop, NothingLeft, SkipAll
<1> QED
  BY <1>1, <1>6, <1>7, OneAccountMoves

\* A full wave is launched; an empty one closes the loop.
LEMMA LaunchAccounts ==
  ASSUME LoopInv, AccountInv, NEW o \in Orch, Launch(o)
  PROVE  AccountInv'
<1> USE DEF column, orow
<1>1. /\ LoopTyped /\ Stands(o) /\ Alive(o) /\ opc[o] = "filling"
      /\ opc'[o] = (IF wave[o] = <<>> THEN "closing" ELSE "waving")
      /\ UNCHANGED <<threadOf, ostatus, pending, wave>>
      /\ \A q \in Orch \ {o} : opc'[q] = opc[q] /\ decisions'[q] = decisions[q]
  BY DEF LoopInv, LoopTyped, Launch, SkipAll, Alive
<1>2. CASE wave[o] # <<>>
  <2>1. decisions'[o] = decisions[o] /\ opc'[o] = "waving" /\ ostatus'[o] # "completed"
    BY <1>1, <1>2 DEF Launch, Stands
  <2>2. Accounted(o)'
    BY <1>1, <2>1, AccountsStay
  <2> QED
    BY <1>1, <2>2, OneAccountMoves
<1>3. CASE wave[o] = <<>>
  <2>1. decisions'[o] = decisions[o] \o Skip(pending[o], "budget_exhausted")
    <3>1. CASE pending[o] # <<>>
      BY <1>1, <1>3, <3>1 DEF LoopTyped, Launch, SkipAll
    <3>2. CASE pending[o] = <<>>
      <4>1. decisions' = decisions
        BY <1>3, <3>2 DEF Launch
      <4>2. decisions[o] \in Seq(Decision) /\ Skip(pending[o], "budget_exhausted") = <<>>
        BY <3>2, Lists DEF Skip
      <4> QED
        BY <4>1, <4>2, ConcatEmptySeq
    <3> QED
      BY <3>1, <3>2
  <2>2. "budget_exhausted" \in Reasons
    BY DEF Reasons
  <2>3. /\ decisions'[o] \in Seq(Decision)
        /\ Len(decisions'[o]) = Len(Threads) /\ Told(o)' = Thread
    BY <1>1, <1>3, <2>1, <2>2, AllSkipped
  <2>4. Sent(o)' = Sent(o) /\ Sent(o) \subseteq Thread
    <3>1. Sent(o)' = Sent(o)
      BY <1>1 DEF Sent, Wave
    <3> QED
      BY <3>1 DEF AccountInv, Accounted
  <2>5. Accounted(o)'
    BY <1>1, <1>3, <2>3, <2>4 DEF Accounted
  <2> QED
    BY <1>1, <2>5, OneAccountMoves
<1> QED
  BY <1>2, <1>3

\* A busy thread is decided and leaves the list.
LEMMA BusyAccounts ==
  ASSUME LoopInv, AccountInv, NEW o \in Orch, SkipBusy(o)
  PROVE  AccountInv'
<1> USE DEF column
<1> DEFINE t == Head(pending[o])
           rest == Tail(pending[o])
           a == Len(pending[o])
           b == Len(decisions[o])
           c == Len(wave[o])
           k == Len(Tail(pending[o]))
           m == Len(Threads)
           left == {Tail(pending[o])[i] : i \in DOMAIN Tail(pending[o])}
<1>0. /\ pending[o] \in Seq(Thread) /\ a \in Nat /\ b \in Nat /\ c \in Nat /\ m \in Nat
  BY Lists
<1>1. /\ LoopTyped /\ Stands(o) /\ Alive(o)
      /\ opc[o] = "filling" /\ pending[o] # <<>>
      /\ decisions' = [decisions EXCEPT ![o] = @ \o Skip(<<t>>, "pass_in_flight")]
      /\ pending' = [pending EXCEPT ![o] = rest]
      /\ UNCHANGED <<threadOf, ostatus, opc, wave>>
  BY DEF LoopInv, SkipBusy, Filling, Alive
<1>2. /\ t \in Thread /\ rest \in Seq(Thread) /\ a = 1 + k
      /\ Waiting(o) = {t} \cup left
  BY <1>0, <1>1, HeadAndRest DEF Waiting
<1>3. k \in Nat
  BY <1>2, LenProperties
<1> HIDE DEF t, rest, a, b, c, k, m, left
<1>4. /\ pending'[o] = rest
      /\ decisions'[o] = decisions[o] \o Skip(<<t>>, "pass_in_flight")
      /\ \A q \in Orch \ {o} : UNCHANGED <<decisions[q], pending[q]>>
  BY <1>1 DEF LoopTyped
<1>5. /\ decisions'[o] \in Seq(Decision) /\ Len(decisions'[o]) = b + 1
      /\ Told(o)' = Told(o) \cup {t}
  <2>1. /\ <<t>> \in Seq(Thread) /\ Len(<<t>>) = 1 /\ "pass_in_flight" \in Reasons
        /\ {<<t>>[i] : i \in DOMAIN <<t>>} = {t}
    BY <1>2 DEF Reasons
  <2> QED
    BY <1>4, <2>1, ToldAll DEF b
<1>6. Len(pending'[o]) = k /\ Waiting(o)' = left
  BY <1>4 DEF Waiting, k, left, rest
<1>7. Sent(o)' = Sent(o) /\ Len(wave'[o]) = c
  BY <1>1 DEF Sent, Wave, c
<1>8. b + a + c = m /\ Told(o) \cup Waiting(o) \cup Sent(o) = Thread /\ Sent(o) \subseteq Thread
  BY <1>1 DEF AccountInv, Accounted, a, b, c, m
<1>9. (b + 1) + k + c = m /\ (Told(o) \cup {t}) \cup left \cup Sent(o) = Thread
  <2>1. (b + 1) + k + c = m
    BY <1>0, <1>2, <1>3, <1>8
  <2>2. (Told(o) \cup {t}) \cup left \cup Sent(o) = Thread
    BY <1>2, <1>8
  <2> QED
    BY <2>1, <2>2
<1>10. Accounted(o)'
  <2>1. opc'[o] = "filling" /\ ostatus'[o] # "completed"
    BY <1>1 DEF Stands
  <2> QED
    BY <1>5, <1>6, <1>7, <1>8, <1>9, <2>1 DEF Accounted, m
<1> QED
  BY <1>1, <1>4, <1>10, OneAccountMoves

\* A commission sends the head of the list out with a new pass.
LEMMA CommissionAccounts ==
  ASSUME OneCycle, LoopInv, AccountInv, NEW o \in Orch, NEW p \in Fresh, CommissionNext(o, p)
  PROVE  AccountInv'
<1> DEFINE t == Head(pending[o])
           rest == Tail(pending[o])
           a == Len(pending[o])
           b == Len(decisions[o])
           c == Len(wave[o])
           k == Len(Tail(pending[o]))
           m == Len(Threads)
           left == {Tail(pending[o])[i] : i \in DOMAIN Tail(pending[o])}
<1>0. /\ pending[o] \in Seq(Thread) /\ wave[o] \in Seq(Pass)
      /\ a \in Nat /\ b \in Nat /\ c \in Nat /\ m \in Nat
  BY Lists
<1>1. /\ LoopTyped /\ Stands(o) /\ Alive(o) /\ Minted
      /\ opc[o] = "filling" /\ pending[o] # <<>>
      /\ p \in Pass /\ by[p] = NoOne
      /\ threadOf' = [threadOf EXCEPT ![p] = t]
      /\ wave' = [wave EXCEPT ![o] = Append(@, p)]
      /\ pending' = [pending EXCEPT ![o] = rest]
      /\ UNCHANGED <<ostatus, decisions, opc>>
  BY DEF LoopInv, CommissionNext, CommissionReserved, Filling, Fresh, Alive, OneCycle, Minted
<1>2. /\ t \in Thread /\ rest \in Seq(Thread) /\ a = 1 + k
      /\ Waiting(o) = {t} \cup left
  BY <1>0, <1>1, HeadAndRest DEF Waiting
<1>3. k \in Nat
  BY <1>2, LenProperties
<1> HIDE DEF t, rest, a, b, c, k, m, left
<1>4. /\ pending'[o] = rest /\ wave'[o] = Append(wave[o], p)
      /\ \A q \in Orch \ {o} : UNCHANGED <<pending[q], wave[q]>>
  BY <1>1 DEF LoopTyped
<1>5. \A q \in Orch : p \notin Wave(q) /\ \A x \in Wave(q) : threadOf'[x] = threadOf[x]
  <2>1. \A q \in Orch : Wave(q) \subseteq Own(q) /\ p \notin Own(q)
    BY <1>1, OrchAssumption DEF LoopInv, Settled, Own
  <2>2. \A x \in Pass : x # p => threadOf'[x] = threadOf[x]
    BY <1>1 DEF Minted
  <2> QED
    BY <2>1, <2>2 DEF Own
<1>6. ASSUME NEW q \in Orch \ {o} PROVE Accounted(q)'
  BY <1>1, <1>4, <1>5, AccountsStay
<1>7. Len(wave'[o]) = c + 1 /\ Wave(o)' = Wave(o) \cup {p}
  <2>1. /\ Len(wave'[o]) = Len(wave[o]) + 1 /\ Len(wave[o]) \in Nat
        /\ wave'[o][Len(wave[o]) + 1] = p
        /\ \A i \in 1 .. Len(wave[o]) : wave'[o][i] = wave[o][i]
        /\ DOMAIN wave[o] = 1 .. Len(wave[o])
        /\ DOMAIN wave'[o] = 1 .. Len(wave[o]) + 1
    BY <1>0, <1>1, <1>4, AppendProperties, LenProperties
  <2> QED
    BY <2>1 DEF Wave, c
<1>8. Sent(o)' = Sent(o) \cup {t}
  <2>1. threadOf'[p] = t
    BY <1>1 DEF Minted
  <2> QED
    BY <1>5, <1>7, <2>1 DEF Sent
<1>9. Len(pending'[o]) = k /\ Waiting(o)' = left /\ Told(o)' = Told(o) /\ Len(decisions'[o]) = b
  BY <1>1, <1>4 DEF Waiting, Told, k, left, rest, b
<1>10. /\ b + a + c = m /\ Told(o) \cup Waiting(o) \cup Sent(o) = Thread
       /\ Sent(o) \subseteq Thread /\ decisions[o] \in Seq(Decision)
  BY <1>1 DEF AccountInv, Accounted, a, b, c, m
<1>11. b + k + (c + 1) = m
  BY <1>0, <1>2, <1>3, <1>10
<1>12. Told(o) \cup left \cup (Sent(o) \cup {t}) = Thread /\ Sent(o) \cup {t} \subseteq Thread
  BY <1>2, <1>10
<1>13. Accounted(o)'
  <2>1. opc'[o] = "filling" /\ ostatus'[o] # "completed" /\ decisions'[o] = decisions[o]
    BY <1>1 DEF Stands
  <2> QED
    BY <1>7, <1>8, <1>9, <1>10, <1>11, <1>12, <2>1 DEF Accounted, m
<1> QED
  BY <1>6, <1>13 DEF AccountInv

\* A wave that has returned is decided as it was commissioned.
LEMMA WaveAccounts ==
  ASSUME LoopInv, AccountInv, NEW o \in Orch, WaveReturns(o)
  PROVE  AccountInv'
<1> USE DEF column
<1> DEFINE ws == [i \in DOMAIN wave[o] |-> threadOf[wave[o][i]]]
           a == Len(pending[o])
           b == Len(decisions[o])
           c == Len(wave[o])
           m == Len(Threads)
<1>0. wave[o] \in Seq(Pass) /\ a \in Nat /\ b \in Nat /\ c \in Nat /\ m \in Nat
  BY Lists
<1>1. /\ LoopTyped /\ Stands(o) /\ Alive(o)
      /\ opc[o] = "waving" /\ opc' = [opc EXCEPT ![o] = "looping"]
      /\ decisions' = [decisions EXCEPT ![o] = @ \o Skip(ws, "commissioned")]
      /\ wave' = [wave EXCEPT ![o] = <<>>]
      /\ UNCHANGED <<threadOf, ostatus, pending>>
  BY DEF LoopInv, WaveReturns, Alive
<1>2. b + a + c = m /\ Told(o) \cup Waiting(o) \cup Sent(o) = Thread /\ Sent(o) \subseteq Thread
  BY <1>1 DEF AccountInv, Accounted, a, b, c, m
<1>3. ws \in Seq(Thread) /\ Len(ws) = c /\ {ws[i] : i \in DOMAIN ws} = Sent(o)
  <2>1. DOMAIN wave[o] = 1 .. c
    BY <1>0, LenProperties DEF c
  <2>2. Sent(o) = {threadOf[wave[o][i]] : i \in DOMAIN wave[o]}
    BY DEF Sent, Wave
  <2>3. ws \in [1 .. c -> Thread]
    BY <1>2, <2>1, <2>2
  <2> HIDE DEF c
  <2>4. ws \in Seq(Thread) /\ Len(ws) = c
    <3> HIDE DEF ws
    <3> QED
      BY <1>0, <2>3, AsList
  <2>5. {ws[i] : i \in DOMAIN ws} = Sent(o)
    BY <2>2
  <2> QED
    BY <2>4, <2>5
<1> HIDE DEF ws, a, b, c, m
<1>4. /\ decisions'[o] = decisions[o] \o Skip(ws, "commissioned")
      /\ wave'[o] = <<>> /\ opc'[o] = "looping"
      /\ \A q \in Orch \ {o} : UNCHANGED <<decisions[q], wave[q], opc[q]>>
  BY <1>1 DEF LoopTyped
<1>5. /\ decisions'[o] \in Seq(Decision) /\ Len(decisions'[o]) = b + c
      /\ Told(o)' = Told(o) \cup Sent(o)
  <2>1. "commissioned" \in Reasons
    BY DEF Reasons
  <2> QED
    BY <1>3, <1>4, <2>1, ToldAll DEF b
<1>6. Len(wave'[o]) = 0 /\ Sent(o)' = {}
  BY <1>4, NoneIn DEF Sent, Wave
<1>7. Len(pending'[o]) = a /\ Waiting(o)' = Waiting(o)
  BY <1>1 DEF Waiting, a
<1>8. (b + c) + a + 0 = m
  BY <1>0, <1>2
<1>9. Accounted(o)'
  <2>1. ostatus'[o] # "completed"
    BY <1>1 DEF Stands
  <2>2. Told(o)' \cup Waiting(o)' \cup Sent(o)' = Thread
    BY <1>2, <1>5, <1>6, <1>7
  <2> QED
    BY <1>4, <1>5, <1>6, <1>7, <1>8, <2>1, <2>2 DEF Accounted, m
<1> QED
  BY <1>1, <1>4, <1>9, OneAccountMoves

\* Every step keeps the accounts.
LEMMA AccountStep ==
  OneCycle /\ LoopInv /\ AccountInv /\ [ONext]_<<vars, ovars>> => AccountInv'
<1> SUFFICES ASSUME OneCycle, LoopInv, AccountInv, [ONext]_<<vars, ovars>>
             PROVE  AccountInv'
  OBVIOUS
<1> USE DEF ovars, orow, loop, column
<1>1. ASSUME UNCHANGED <<orow, loop>>,
             \A q \in Orch : \A p \in Wave(q) : threadOf'[p] = threadOf[p]
      PROVE  AccountInv'
  <2>1. ASSUME NEW q \in Orch PROVE Accounted(q)'
    BY <1>1, AccountsStay
  <2> QED
    BY <2>1 DEF AccountInv
<1>2. CASE UNCHANGED <<orow, loop, threadOf>>
  BY <1>1, <1>2
<1>3. ASSUME NEW o \in Orch, OrchWork(o) PROVE AccountInv'
  <2>1. \/ \E raisable \in BOOLEAN : Classify(o, raisable)
        \/ AllClassified(o) \/ StopLoop(o) \/ OpenWave(o) \/ NothingLeft(o)
        \/ \E p \in Fresh : CommissionNext(o, p)
        \/ SkipBusy(o) \/ PotGone(o) \/ Launch(o) \/ WaveReturns(o) \/ Complete(o)
    BY <1>3 DEF OrchWork
  <2> QED
    BY <2>1, ClassifyAccounts, ClassifiedAccounts, ClosingAccounts, StayingStep,
       CommissionAccounts, BusyAccounts, LaunchAccounts, WaveAccounts
<1>4. ASSUME NEW o \in Orch,
             Start(o) \/ OrchFails(o) \/ OrchDies(o) \/ OrchSweep(o) \/ Cancel(o)
      PROVE  AccountInv'
  BY <1>4, StartAccounts, StayingStep
<1>5. ASSUME NEW p \in Routed, NEW t \in Thread, RoutePass(p, t) PROVE AccountInv'
  <2>1. /\ p \in Pass /\ status[p] = "none"
        /\ threadOf' = [threadOf EXCEPT ![p] = t]
        /\ UNCHANGED <<orow, loop>>
    BY <1>5, OrchAssumption DEF RoutePass, Commission
  <2>2. \A q \in Orch : Wave(q) \subseteq Own(q) /\ p \notin Own(q)
    BY <2>1, OrchAssumption DEF OneCycle, Minted, LoopInv, Settled, Own
  <2>3. \A q \in Orch : \A x \in Wave(q) : x \in Pass /\ x # p
    BY <2>2 DEF Own
  <2>4. \A q \in Orch : \A x \in Wave(q) : threadOf'[x] = threadOf[x]
    BY <2>1, <2>3 DEF OneCycle, Minted
  <2> QED
    BY <1>1, <2>1, <2>4
<1>6. ASSUME NEW p \in Pass, PassWorks(p) \/ PassDies(p) \/ PassSwept(p) PROVE AccountInv'
  BY <1>2, <1>6 DEF PassWorks, PassDies, PassSwept
<1>7. CASE Funding
  BY <1>2, <1>7 DEF Funding
<1> QED
  BY <1>2, <1>3, <1>4, <1>5, <1>6, <1>7 DEF ONext

\* Before any orchestration there is nothing to account for.
LEMMA AccountStart == OInit => AccountInv
<1> SUFFICES ASSUME OInit, NEW o \in Orch PROVE Accounted(o)
  BY DEF AccountInv
<1>1. /\ opc[o] = "none" /\ ostatus[o] = "none" /\ decisions[o] = <<>> /\ wave[o] = <<>>
  BY DEF OInit
<1>2. Sent(o) = {} /\ <<>> \in Seq(Decision)
  BY <1>1, NoneIn DEF Sent, Wave
<1> QED
  BY <1>1, <1>2 DEF Accounted

\* The accounts are right throughout.
LEMMA AccountAlways ==
  ASSUME ~LateSweep
  PROVE  OSpec => []AccountInv
<1>1. OSpec => []OneCycle
  <2>1. OInit => OneCycle
    BY DEF OInit, Init, OneCycle, Minted, OneCyclePerThread
  <2>2. OSpec => []TypeOK
    BY Composition, TypeCorrect, PTL DEF ImplementsPasses
  <2> QED
    BY <2>1, <2>2, OneCycleStep, PTL DEF OSpec
<1> QED
  BY <1>1, LoopAlways, AccountStart, AccountStep, PTL DEF OSpec

\* A completed orchestration decides every thread once, for any number of threads, passes
\* and peers: none is lost between the leftovers of a wave, the skips and its results.
THEOREM DecidedTheorem ==
  ASSUME ~LateSweep
  PROVE  OSpec => []DecidedOnce
<1>1. AccountInv => DecidedOnce
  BY DEF AccountInv, Accounted, Told, DecidedOnce
<1> QED
  BY <1>1, AccountAlways, PTL

\* Types of the orchestrations and of the columns they keep of the passes.
THEOREM OrchTypes ==
  ASSUME ~LateSweep
  PROVE  OSpec => []OTypeOK
<1>1. OInit => RestTyped
  BY DEF OInit, RestTyped
<1>2. LoopInv => LoopTyped
  BY DEF LoopInv
<1>3. LoopTyped /\ RestTyped /\ [ONext]_<<vars, ovars>> => RestTyped'
  BY RestStep
<1>4. OSpec => []TypeOK
  BY Composition, TypeCorrect, PTL DEF ImplementsPasses
<1>5. OSpec => []Minted
  <2>1. OInit => OneCycle
    BY DEF OInit, Init, OneCycle, Minted, OneCyclePerThread
  <2>2. OneCycle => Minted
    BY DEF OneCycle
  <2> QED
    BY <1>4, <2>1, <2>2, OneCycleStep, PTL DEF OSpec
<1>6. TypeOK /\ Minted /\ LoopTyped /\ RestTyped /\ AccountInv => OTypeOK
  <2> SUFFICES ASSUME TypeOK, Minted, LoopTyped, RestTyped, AccountInv PROVE OTypeOK
    OBVIOUS
  <2>1. decisions \in [Orch -> Seq(Decision)]
    BY DEF LoopTyped, AccountInv, Accounted
  <2> QED
    BY <2>1 DEF Minted, LoopTyped, RestTyped, OTypeOK
<1> QED
  BY <1>1, <1>2, <1>3, <1>4, <1>5, <1>6, LoopAlways, AccountAlways, PTL DEF OSpec
=============================================================================
