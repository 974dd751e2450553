-------------------------- MODULE PassBudgetProofs --------------------------
(***************************************************************************)
(* Theorems about the pot and the passes, for any number of passes, any    *)
(* funding, prices and caps, and calls of any size.  All but type          *)
(* correctness assume ~LateSweep: the reader's cutoff outlives a live      *)
(* worker's longest silence.                                               *)
(***************************************************************************)
EXTENDS PassBudget, TLAPS

\* What the row says at each point of the worker's life.
RowOf(p) ==
  /\ pc[p] = "none" <=> status[p] = "none"
  /\ pc[p] \notin Gone => status[p] = "running"
  /\ pc[p] = "over" => status[p] \in Ended
  /\ pc[p] = "planning" => held[p] > 0 /\ held[p] = slice[p]
  /\ status[p] \in Ended => held[p] = 0

RowsTell == \A p \in Pass : RowOf(p)

Solvent == TypeOK /\ RowsTell /\ PotNotOversold

-----------------------------------------------------------------------------
(* What the helpers compute. *)

\* A slice is never empty and never more than what is available.
LEMMA ReserveBound ==
  ASSUME TypeOK, Available > 0
  PROVE  /\ ReserveAmount \in Nat /\ ReserveAmount > 0
         /\ ReserveAmount <= Available
<1>1. Available \in Int /\ Cost(MaxTokens) \in Nat
  <2>1. funded \in Int /\ spent \in Int /\ reserved \in Int
    BY DEF TypeOK
  <2>2. Rate \in Nat /\ MaxTokens \in Nat
    BY PassAssumption
  <2>3. MaxTokens * Rate \in Nat
    BY <2>2
  <2> QED
    BY <2>1, <2>3 DEF Available, Cost
<1> QED
  BY <1>1 DEF ReserveAmount, Least

\* A batch never exceeds the runs left.
LEMMA BatchBound ==
  ASSUME NEW left \in 0 .. MaxRuns
  PROVE  BatchCap(left) \in 0 .. MaxRuns
BY PassAssumption DEF BatchCap, Least
-----------------------------------------------------------------------------
(* Types. *)

\* A new project has the types.
LEMMA StartTyped == Init => TypeOK
<1> SUFFICES ASSUME Init PROVE TypeOK
  OBVIOUS
<1>1. 0 \in 0 .. MaxRuns /\ 0 \in 0 .. MaxReplans
  BY PassAssumption
<1>2. funded \in Nat /\ spent \in Nat /\ reserved \in Int /\ unheld \in Nat
  BY PassAssumption DEF Init
<1> QED
  BY <1>1, <1>2 DEF Init, TypeOK, Stages

\* A release leaves a row of the right type.
LEMMA ReleaseTyped ==
  ASSUME TypeOK, NEW p \in Pass, Release(p)
  PROVE  reserved' \in Int /\ held' \in [Pass -> Nat]
BY DEF TypeOK, Release

\* A finished row has the types.
LEMMA FinalizeTyped ==
  ASSUME TypeOK, NEW p \in Pass, NEW s \in Ended, Finalize(p, s)
  PROVE  /\ reserved' \in Int /\ held' \in [Pass -> Nat]
         /\ status' \in [Pass -> {"none", "running"} \cup Ended]
         /\ pc' \in [Pass -> Stages]
BY ReleaseTyped DEF TypeOK, Finalize, Stages

\* A debit adds a bill that is never negative.
LEMMA DebitTyped ==
  ASSUME TypeOK, NEW p \in Pass, NEW n \in Nat, NEW bill \in Nat, Debit(p, n, bill)
  PROVE  /\ tokens' \in [Pass -> Nat] /\ billed' \in [Pass -> Nat]
         /\ spent' \in Nat /\ unheld' \in Nat
BY DEF TypeOK, Debit

\* The steps of a worker keep the types.
LEMMA WorkTyped ==
  ASSUME TypeOK, NEW p \in Pass, Work(p)
  PROVE  TypeOK'
<1> USE DEF vars, pot, row, worker, around
<1> "failed" \in Ended /\ "completed" \in Ended
  BY DEF Ended
<1>1. CASE Begin(p)
  BY <1>1 DEF Begin, TypeOK, Stages
<1>2. CASE Refuse(p)
  BY <1>2, FinalizeTyped DEF Refuse, TypeOK
<1>3. CASE Open(p)
  <2>1. CASE Available <= 0
    BY <1>3, <2>1, FinalizeTyped DEF Open, TypeOK
  <2>2. CASE ~(Available <= 0)
    BY <1>3, <2>2 DEF Open, TypeOK, Stages
  <2> QED
    BY <2>1, <2>2
<1>4. CASE Reserve(p)
  <2>1. CASE Available <= 0
    BY <1>4, <2>1, FinalizeTyped DEF Reserve, TypeOK
  <2>2. CASE ~(Available <= 0)
    <3>1. ReserveAmount \in Nat
      BY <2>2, ReserveBound DEF TypeOK, Available
    <3> QED
      BY <1>4, <2>2, <3>1 DEF Reserve, TypeOK, Stages
  <2> QED
    BY <2>1, <2>2
<1>5. CASE PlanReturns(p)
  <2>1. PICK n \in 0 .. MaxCall, bill \in 0 .. MaxCall : Debit(p, n, bill)
    BY <1>5 DEF PlanReturns
  <2>2. /\ tokens' \in [Pass -> Nat] /\ billed' \in [Pass -> Nat]
        /\ spent' \in Nat /\ unheld' \in Nat
    BY <2>1, DebitTyped, PassAssumption
  <2>3. PICK k \in 0 .. BatchCap(MaxRuns) :
          /\ batch' = [batch EXCEPT ![p] = k]
          /\ pc' = [pc EXCEPT ![p] = IF k = 0 THEN "closing" ELSE "running"]
    BY <1>5 DEF PlanReturns
  <2>4. k \in 0 .. MaxRuns
    <3>1. MaxRuns \in 0 .. MaxRuns
      BY PassAssumption
    <3> QED
      BY <3>1, BatchBound, PassAssumption
  <2>5. batch' \in [Pass -> 0 .. MaxRuns] /\ pc' \in [Pass -> Stages]
    BY <2>3, <2>4 DEF TypeOK, Stages
  <2> QED
    BY <1>5, <2>2, <2>5, ReleaseTyped, PassAssumption DEF PlanReturns, TypeOK
<1>6. CASE PlanFails(p)
  <2>1. PICK n \in 0 .. MaxCall, bill \in 0 .. MaxCall : Debit(p, n, bill)
    BY <1>6 DEF PlanFails
  <2>2. /\ tokens' \in [Pass -> Nat] /\ billed' \in [Pass -> Nat]
        /\ spent' \in Nat /\ unheld' \in Nat
    BY <2>1, DebitTyped, PassAssumption
  <2> QED
    BY <1>6, <2>2, FinalizeTyped DEF PlanFails, TypeOK
<1>8. CASE RunStep(p)
  BY <1>8, PassAssumption DEF RunStep, TypeOK
<1>9. CASE StopRunning(p)
  BY <1>9, PassAssumption DEF StopRunning, TypeOK, Stages
<1>10. CASE EndBatch(p)
  BY <1>10, PassAssumption DEF EndBatch, TypeOK, Stages
<1>11. CASE ReplanReturns(p)
  <2>1. tokens' \in [Pass -> Nat]
    BY <1>11, PassAssumption DEF ReplanReturns, TypeOK
  <2>2. PICK k \in 0 .. BatchCap(runs[p]) :
          /\ batch' = [batch EXCEPT ![p] = k]
          /\ pc' = [pc EXCEPT ![p] = IF k = 0 THEN "closing" ELSE "running"]
    BY <1>11 DEF ReplanReturns
  <2>3. k \in 0 .. MaxRuns
    <3>1. runs[p] \in 0 .. MaxRuns
      BY DEF TypeOK
    <3> QED
      BY <3>1, BatchBound, PassAssumption
  <2>4. batch' \in [Pass -> 0 .. MaxRuns] /\ pc' \in [Pass -> Stages]
    BY <2>2, <2>3 DEF TypeOK, Stages
  <2> QED
    BY <1>11, <2>1, <2>4 DEF ReplanReturns, TypeOK
<1>12. CASE ReplanFails(p)
  <2>1. tokens' \in [Pass -> Nat]
    BY <1>12, PassAssumption DEF ReplanFails, TypeOK
  <2> QED
    BY <1>12, <2>1 DEF ReplanFails, TypeOK, Stages
<1>13. CASE Finish(p)
  BY <1>13, FinalizeTyped DEF Finish, TypeOK
<1>14. CASE Fails(p)
  BY <1>14, FinalizeTyped DEF Fails, TypeOK
<1> QED
  BY <1>1, <1>2, <1>3, <1>4, <1>5, <1>6, <1>8, <1>9, <1>10, <1>11, <1>12,
     <1>13, <1>14 DEF Work

\* Every step of the system keeps the types.
LEMMA StepTyped == TypeOK /\ [Next]_vars => TypeOK'
<1> SUFFICES ASSUME TypeOK, [Next]_vars PROVE TypeOK'
  OBVIOUS
<1> USE DEF vars, pot, row, worker, around
<1>1. CASE UNCHANGED vars
  BY <1>1 DEF TypeOK
<1>2. ASSUME NEW p \in Pass, Commission(p) PROVE TypeOK'
  BY <1>2 DEF Commission, TypeOK, Stages
<1>3. ASSUME NEW p \in Pass, CommissionReserved(p) PROVE TypeOK'
  <2>1. ReserveAmount \in Nat
    BY <1>3, ReserveBound DEF CommissionReserved
  <2> QED
    BY <1>3, <2>1 DEF CommissionReserved, TypeOK, Stages
<1>4. ASSUME NEW p \in Pass, Dies(p) PROVE TypeOK'
  BY <1>4 DEF Dies, TypeOK, Stages
<1>5. ASSUME NEW p \in Pass, Sweep(p) PROVE TypeOK'
  BY <1>5, ReleaseTyped DEF Sweep, TypeOK, Ended
<1>6. CASE Fund
  BY <1>6 DEF Fund, TypeOK
<1>7. CASE SeatSpent
  BY <1>7 DEF SeatSpent, TypeOK
<1>8. CASE TurnStarts
  BY <1>8 DEF TurnStarts, TypeOK
<1>9. CASE TurnEnds
  <2>1. PICK bill \in 0 .. MaxCall : spent' = spent + bill /\ unheld' = unheld + bill
    BY <1>9 DEF TurnEnds
  <2>2. spent' \in Nat /\ unheld' \in Nat
    BY <2>1, PassAssumption DEF TypeOK
  <2>3. turn' \in BOOLEAN
    BY <1>9 DEF TurnEnds
  <2> QED
    BY <1>9, <2>2, <2>3 DEF TurnEnds, TypeOK
<1>10. ASSUME NEW p \in Pass, Work(p) PROVE TypeOK'
  BY <1>10, WorkTyped
<1>11. CASE Next
  <2>1. CASE \E p \in Pass : PassNext(p)
    <3>1. PICK p \in Pass : PassNext(p)
      BY <2>1
    <3> QED
      BY <1>2, <1>3, <1>4, <1>5, <1>10, <3>1 DEF PassNext
  <2> QED
    BY <1>6, <1>7, <1>8, <1>9, <1>11, <2>1 DEF Next
<1> QED
  BY <1>1, <1>11

\* Whatever the funding, the prices and the caps, every column and local of a pass keeps its
\* type: counters stay within their caps, holds and bills are never negative.
THEOREM TypeCorrect == Spec => []TypeOK
<1>1. Init => TypeOK
  BY StartTyped
<1>2. TypeOK /\ [Next]_vars => TypeOK'
  BY StepTyped
<1> QED
  BY <1>1, <1>2, PTL DEF Spec

-----------------------------------------------------------------------------
(* The holds and what is reserved. *)

\* A row that was not commissioned, or whose worker is still to reserve, holds nothing.
NoneHeldYet ==
  \A p \in Pass :
    /\ status[p] = "none" \/ pc[p] \in {"opening", "reserving"} => held[p] = 0
    /\ pc[p] # "none" => status[p] # "none"

\* A step of p moves its hold alone, and what is reserved with it.
Moves(p) ==
  \/ UNCHANGED <<reserved, held>>
  \/ \E h \in Nat : held' = [held EXCEPT ![p] = h] /\ reserved' = reserved + h - held[p]

\* A release gives back what the row held.
LEMMA ReleaseMoves ==
  ASSUME TypeOK, NEW p \in Pass, Release(p)
  PROVE  Moves(p)
<1>1. held' = [held EXCEPT ![p] = 0] /\ reserved' = reserved + 0 - held[p]
  BY DEF Release, TypeOK
<1> QED
  BY <1>1 DEF Moves

\* A hold is taken where there was none.
LEMMA HoldMoves ==
  ASSUME TypeOK, NEW p \in Pass, held[p] = 0, NEW h \in Nat,
         held' = [held EXCEPT ![p] = h], reserved' = reserved + h
  PROVE  Moves(p)
<1>1. reserved' = reserved + h - held[p]
  BY DEF TypeOK
<1> QED
  BY <1>1 DEF Moves

\* A row that ends, or that moves on after its reserve, has no early hold.
LEMMA ReleaseEarly ==
  ASSUME TypeOK, NoneHeldYet, NEW p \in Pass, held' = [held EXCEPT ![p] = 0],
         \A q \in Pass \ {p} : status'[q] = status[q] /\ pc'[q] = pc[q],
         status'[p] # "none"
  PROVE  NoneHeldYet'
BY DEF NoneHeldYet, TypeOK

\* A step of a worker.
LEMMA WorkMoves ==
  ASSUME TypeOK, NoneHeldYet, NEW p \in Pass, Work(p)
  PROVE  Moves(p) /\ NoneHeldYet'
<1> USE DEF pot, row, around
<1>1. CASE Begin(p)
  <2>1. Moves(p)
    BY <1>1 DEF Begin, Moves
  <2>2. held' = held /\ status' = status /\ pc[p] = "commissioned"
        /\ pc' = [pc EXCEPT ![p] = IF held[p] = 0 THEN "opening" ELSE "planning"]
    BY <1>1 DEF Begin
  <2> QED
    BY <2>1, <2>2 DEF NoneHeldYet, TypeOK
<1>2. CASE \E s \in Ended : Finalize(p, s)
  <2>1. PICK s \in Ended : Finalize(p, s)
    BY <1>2
  <2>2. Release(p) /\ status' = [status EXCEPT ![p] = s] /\ pc' = [pc EXCEPT ![p] = "over"]
    BY <2>1 DEF Finalize
  <2> QED
    BY <2>2, ReleaseMoves, ReleaseEarly DEF Release, TypeOK, Ended
<1>3. CASE Open(p) /\ Available > 0
  <2>1. UNCHANGED <<reserved, held, status>> /\ pc' = [pc EXCEPT ![p] = "reserving"]
        /\ pc[p] = "opening"
    BY <1>3 DEF Open, Available, TypeOK
  <2> QED
    BY <2>1 DEF Moves, NoneHeldYet, TypeOK
<1>4. CASE Reserve(p) /\ Available > 0
  <2>1. /\ pc[p] = "reserving" /\ status' = status
        /\ held' = [held EXCEPT ![p] = ReserveAmount] /\ reserved' = reserved + ReserveAmount
        /\ pc' = [pc EXCEPT ![p] = "planning"]
    BY <1>4 DEF Reserve, Available, TypeOK
  <2>2. held[p] = 0
    BY <2>1 DEF NoneHeldYet
  <2>3. ReserveAmount \in Nat
    BY <1>4, ReserveBound
  <2>4. Moves(p)
    BY <2>1, <2>2, <2>3, HoldMoves
  <2>5. ASSUME NEW q \in Pass, status'[q] = "none" \/ pc'[q] \in {"opening", "reserving"}
        PROVE  held'[q] = 0
    <3>1. CASE q = p
      BY <2>1, <2>5, <3>1 DEF NoneHeldYet, TypeOK
    <3>2. CASE q # p
      BY <2>1, <2>5, <3>2 DEF NoneHeldYet, TypeOK
    <3> QED
      BY <3>1, <3>2
  <2>6. \A q \in Pass : pc'[q] # "none" => status'[q] # "none"
    BY <2>1 DEF NoneHeldYet, TypeOK
  <2> QED
    BY <2>4, <2>5, <2>6 DEF NoneHeldYet
<1>5. CASE PlanReturns(p)
  <2>1. Release(p) /\ status' = status /\ pc[p] = "planning"
        /\ \E l \in {"closing", "running"} : pc' = [pc EXCEPT ![p] = l]
    BY <1>5 DEF PlanReturns
  <2>2. status'[p] # "none"
    BY <2>1 DEF NoneHeldYet
  <2> QED
    BY <2>1, <2>2, ReleaseMoves, ReleaseEarly DEF Release, TypeOK
<1>6. CASE RunStep(p) \/ StopRunning(p) \/ EndBatch(p) \/ ReplanReturns(p) \/ ReplanFails(p)
  <2>1. UNCHANGED <<reserved, held, status>>
    BY <1>6 DEF pot, row, RunStep, StopRunning, EndBatch, ReplanReturns, ReplanFails
  <2>2. pc' = pc \/ \E l \in {"running", "closing", "replanning"} : pc' = [pc EXCEPT ![p] = l]
    <3>1. CASE RunStep(p) \/ StopRunning(p) \/ ReplanFails(p)
      BY <3>1 DEF RunStep, StopRunning, ReplanFails
    <3>2. CASE EndBatch(p)
      BY <3>2 DEF EndBatch
    <3>3. CASE ReplanReturns(p)
      BY <3>3 DEF ReplanReturns
    <3> QED
      BY <1>6, <3>1, <3>2, <3>3
  <2>3. \A q \in Pass : /\ pc'[q] \in {"opening", "reserving"} => pc'[q] = pc[q]
                        /\ pc'[q] # "none" => pc[q] # "none"
    BY <1>6, <2>2 DEF TypeOK, RunStep, StopRunning, EndBatch, ReplanReturns, ReplanFails
  <2> QED
    BY <2>1, <2>3 DEF Moves, NoneHeldYet
<1>7. Available \in Int
  BY DEF Available, TypeOK
<1>8. CASE Refuse(p) \/ PlanFails(p) \/ Finish(p) \/ Fails(p)
  BY <1>2, <1>8 DEF Refuse, PlanFails, Finish, Fails, Ended
<1>9. CASE (Open(p) \/ Reserve(p)) /\ ~(Available > 0)
  BY <1>2, <1>7, <1>9 DEF Open, Reserve, Ended
<1> QED
  BY <1>1, <1>3, <1>4, <1>5, <1>6, <1>8, <1>9 DEF Work

\* Every step of the system.
LEMMA StepMoves ==
  TypeOK /\ NoneHeldYet /\ [Next]_vars =>
    NoneHeldYet' /\ (UNCHANGED <<reserved, held>> \/ \E p \in Pass : Moves(p))
<1> SUFFICES ASSUME TypeOK, NoneHeldYet, [Next]_vars
             PROVE  NoneHeldYet' /\ (UNCHANGED <<reserved, held>> \/ \E p \in Pass : Moves(p))
  OBVIOUS
<1> USE DEF vars, pot, row, worker, around
<1>1. CASE UNCHANGED vars
  BY <1>1 DEF NoneHeldYet
<1>2. ASSUME NEW p \in Pass, Commission(p) PROVE NoneHeldYet' /\ Moves(p)
  BY <1>2 DEF Commission, Moves, NoneHeldYet, TypeOK
<1>3. ASSUME NEW p \in Pass, CommissionReserved(p) PROVE NoneHeldYet' /\ Moves(p)
  <2>1. ReserveAmount \in Nat /\ held[p] = 0
    BY <1>3, ReserveBound DEF CommissionReserved, NoneHeldYet
  <2>2. Moves(p)
    BY <1>3, <2>1, HoldMoves DEF CommissionReserved
  <2> QED
    BY <1>3, <2>2 DEF CommissionReserved, NoneHeldYet, TypeOK
<1>4. ASSUME NEW p \in Pass, Work(p) PROVE NoneHeldYet' /\ Moves(p)
  BY <1>4, WorkMoves
<1>5. ASSUME NEW p \in Pass, Dies(p) PROVE NoneHeldYet' /\ Moves(p)
  BY <1>5 DEF Dies, Gone, Moves, NoneHeldYet, TypeOK
<1>6. ASSUME NEW p \in Pass, Sweep(p) PROVE NoneHeldYet' /\ Moves(p)
  <2>1. Release(p) /\ pc' = pc /\ status' = [status EXCEPT ![p] = "failed"]
    BY <1>6 DEF Sweep
  <2> QED
    BY <2>1, ReleaseMoves, ReleaseEarly DEF Release, TypeOK
<1>7. CASE Fund \/ SeatSpent \/ TurnStarts \/ TurnEnds
  BY <1>7 DEF Fund, SeatSpent, TurnStarts, TurnEnds, NoneHeldYet
<1> QED
  BY <1>1, <1>2, <1>3, <1>4, <1>5, <1>6, <1>7 DEF Next, PassNext

\* What is reserved follows the holds of the rows, step by step from nothing
\* (reserve_compute_for_pass, release_compute_reservation); it needs no assumption on sweeps.
THEOREM AddUpTheorem == Spec => HoldsAddUp
<1>1. Init => NoneHeldYet
  BY DEF Init, NoneHeldYet
<1>2. TypeOK /\ NoneHeldYet /\ [Next]_vars => NoneHeldYet'
  BY StepMoves
<1>3. TypeOK /\ NoneHeldYet /\ [Next]_vars =>
        [\/ UNCHANGED <<reserved, held>>
         \/ \E p \in Pass : /\ held' = [held EXCEPT ![p] = held'[p]]
                              /\ reserved' = reserved + held'[p] - held[p]]_vars
  <2> SUFFICES ASSUME TypeOK, [Next]_vars, NEW p \in Pass, Moves(p), ~UNCHANGED <<reserved, held>>
               PROVE  /\ held' = [held EXCEPT ![p] = held'[p]]
                      /\ reserved' = reserved + held'[p] - held[p]
    BY StepMoves
  <2>1. PICK h \in Nat : held' = [held EXCEPT ![p] = h] /\ reserved' = reserved + h - held[p]
    BY DEF Moves
  <2>2. held'[p] = h
    BY <2>1 DEF TypeOK
  <2> QED
    BY <2>1, <2>2
<1> QED
  BY <1>1, <1>2, <1>3, TypeCorrect, PTL DEF Spec, HoldsAddUp

-----------------------------------------------------------------------------
(* The rows tell the worker's stage. *)

\* A new project has no row to tell anything.
LEMMA StartRows == Init => RowsTell
BY DEF Init, RowsTell, RowOf, Gone, Ended

\* A finished worker's row has a verdict and no hold.
LEMMA FinalizeRows ==
  ASSUME TypeOK, RowsTell, NEW p \in Pass, NEW s \in Ended, Finalize(p, s),
         UNCHANGED slice
  PROVE  RowsTell'
BY DEF TypeOK, RowsTell, RowOf, Finalize, Release, Gone, Ended

\* The steps of a worker keep its row telling, whatever readers do.
LEMMA WorkRows ==
  ASSUME TypeOK, RowsTell, NEW p \in Pass, Work(p)
  PROVE  RowsTell'
<1> USE DEF vars, pot, row, worker, around
<1> "failed" \in Ended /\ "completed" \in Ended
  BY DEF Ended
<1>1. CASE Begin(p)
  BY <1>1 DEF Begin, TypeOK, RowsTell, RowOf, Gone, Ended
<1>2. CASE Refuse(p)
  BY <1>2, FinalizeRows DEF Refuse
<1>3. CASE Open(p)
  <2>1. CASE Available <= 0
    BY <1>3, <2>1, FinalizeRows DEF Open
  <2>2. CASE ~(Available <= 0)
    BY <1>3, <2>2 DEF Open, TypeOK, RowsTell, RowOf, Gone, Ended
  <2> QED
    BY <2>1, <2>2
<1>4. CASE Reserve(p)
  <2>1. CASE Available <= 0
    BY <1>4, <2>1, FinalizeRows DEF Reserve
  <2>2. CASE ~(Available <= 0)
    <3>1. ReserveAmount \in Nat /\ ReserveAmount > 0
      BY <2>2, ReserveBound DEF TypeOK, Available
    <3> QED
      BY <1>4, <2>2, <3>1 DEF Reserve, TypeOK, RowsTell, RowOf, Gone, Ended
  <2> QED
    BY <2>1, <2>2
<1>5. CASE PlanReturns(p)
  <2>1. PICK k \in 0 .. BatchCap(MaxRuns) :
          pc' = [pc EXCEPT ![p] = IF k = 0 THEN "closing" ELSE "running"]
    BY <1>5 DEF PlanReturns
  <2> QED
    BY <1>5, <2>1 DEF PlanReturns, Release, TypeOK, RowsTell, RowOf, Gone, Ended
<1>6. CASE PlanFails(p)
  BY <1>6, FinalizeRows DEF PlanFails
<1>8. CASE RunStep(p)
  BY <1>8 DEF RunStep, RowsTell, RowOf
<1>9. CASE StopRunning(p)
  BY <1>9 DEF StopRunning, TypeOK, RowsTell, RowOf, Gone, Ended
<1>10. CASE EndBatch(p)
  BY <1>10 DEF EndBatch, TypeOK, RowsTell, RowOf, Gone, Ended
<1>11. CASE ReplanReturns(p)
  <2>1. PICK k \in 0 .. BatchCap(runs[p]) :
          pc' = [pc EXCEPT ![p] = IF k = 0 THEN "closing" ELSE "running"]
    BY <1>11 DEF ReplanReturns
  <2> QED
    BY <1>11, <2>1 DEF ReplanReturns, TypeOK, RowsTell, RowOf, Gone, Ended
<1>12. CASE ReplanFails(p)
  BY <1>12 DEF ReplanFails, TypeOK, RowsTell, RowOf, Gone, Ended
<1>13. CASE Finish(p)
  BY <1>13, FinalizeRows DEF Finish
<1>14. CASE Fails(p)
  BY <1>14, FinalizeRows DEF Fails
<1> QED
  BY <1>1, <1>2, <1>3, <1>4, <1>5, <1>6, <1>8, <1>9, <1>10, <1>11, <1>12,
     <1>13, <1>14 DEF Work

\* So do all steps, while only lost workers' rows are swept.
LEMMA StepRows ==
  ASSUME ~LateSweep
  PROVE  TypeOK /\ RowsTell /\ [Next]_vars => RowsTell'
<1> SUFFICES ASSUME TypeOK, RowsTell, [Next]_vars PROVE RowsTell'
  OBVIOUS
<1> USE DEF vars, pot, row, worker, around
<1>1. CASE UNCHANGED vars
  BY <1>1 DEF RowsTell, RowOf
<1>2. ASSUME NEW p \in Pass, Commission(p) PROVE RowsTell'
  BY <1>2 DEF Commission, TypeOK, RowsTell, RowOf, Gone, Ended
<1>3. ASSUME NEW p \in Pass, CommissionReserved(p) PROVE RowsTell'
  <2>1. ReserveAmount \in Nat /\ ReserveAmount > 0
    BY <1>3, ReserveBound DEF CommissionReserved
  <2> QED
    BY <1>3, <2>1 DEF CommissionReserved, TypeOK, RowsTell, RowOf, Gone, Ended
<1>4. ASSUME NEW p \in Pass, Dies(p) PROVE RowsTell'
  BY <1>4 DEF Dies, TypeOK, RowsTell, RowOf, Gone, Ended
<1>5. ASSUME NEW p \in Pass, Sweep(p) PROVE RowsTell'
  BY <1>5 DEF Sweep, Untouched, Release, TypeOK, RowsTell, RowOf, Gone, Ended
<1>6. CASE Fund \/ SeatSpent \/ TurnStarts \/ TurnEnds
  BY <1>6 DEF Fund, SeatSpent, TurnStarts, TurnEnds, RowsTell, RowOf
<1>7. ASSUME NEW p \in Pass, Work(p) PROVE RowsTell'
  BY <1>7, WorkRows
<1>8. CASE \E p \in Pass : PassNext(p)
  <2>1. PICK p \in Pass : PassNext(p)
    BY <1>8
  <2> QED
    BY <1>2, <1>3, <1>4, <1>5, <1>7, <2>1 DEF PassNext
<1> QED
  BY <1>1, <1>6, <1>7, <1>8 DEF Next

-----------------------------------------------------------------------------
(* The pot. *)

\* A release only lowers what is reserved.
LEMMA ReleaseSolvent ==
  ASSUME TypeOK, PotNotOversold, NEW p \in Pass, Release(p),
         UNCHANGED <<funded, spent, unheld>>
  PROVE  PotNotOversold'
<1>1. held[p] \in Nat
  BY DEF TypeOK
<1> QED
  BY <1>1 DEF TypeOK, PotNotOversold, Release

\* A slice taken out of what is available leaves the pot solvent.
LEMMA ReserveSolvent ==
  ASSUME TypeOK, PotNotOversold, Available > 0, reserved' = reserved + ReserveAmount,
         UNCHANGED <<funded, spent, unheld>>
  PROVE  PotNotOversold'
<1>1. ReserveAmount \in Nat /\ ReserveAmount <= Available
  BY ReserveBound
<1> QED
  BY <1>1 DEF TypeOK, PotNotOversold, Available

\* The bill of the planning call takes the place of the hold.
LEMMA DebitSolvent ==
  ASSUME TypeOK, PotNotOversold, NEW p \in Pass, held[p] = slice[p],
         NEW n \in Nat, NEW bill \in Nat, Debit(p, n, bill), Release(p), UNCHANGED funded
  PROVE  PotNotOversold'
<1>1. held[p] \in Nat /\ slice[p] \in Nat
  BY DEF TypeOK
<1> DEFINE past == IF bill > slice[p] THEN bill - slice[p] ELSE 0
<1>2. past \in Nat /\ bill - held[p] <= past
  BY <1>1
<1>3. spent' = spent + bill /\ unheld' = unheld + past /\ reserved' = reserved - held[p]
  BY DEF Debit, Release
<1> HIDE DEF past
<1> QED
  BY <1>1, <1>2, <1>3 DEF TypeOK, PotNotOversold

\* No step of a worker takes more than is available.
LEMMA WorkSolvent ==
  ASSUME TypeOK, RowsTell, PotNotOversold, NEW p \in Pass, Work(p)
  PROVE  PotNotOversold'
<1> USE DEF vars, pot, row, worker, around
<1>1. CASE Open(p)
  <2>1. CASE Available <= 0
    BY <1>1, <2>1, ReleaseSolvent DEF Open, Finalize
  <2>2. CASE ~(Available <= 0)
    BY <1>1, <2>2 DEF Open, PotNotOversold
  <2> QED
    BY <2>1, <2>2
<1>2. CASE Reserve(p)
  <2>1. CASE Available <= 0
    BY <1>2, <2>1, ReleaseSolvent DEF Reserve, Finalize
  <2>2. CASE ~(Available <= 0)
    <3>1. Available > 0
      BY <2>2 DEF TypeOK, Available
    <3> QED
      BY <1>2, <2>2, <3>1, ReserveSolvent DEF Reserve
  <2> QED
    BY <2>1, <2>2
<1>3. CASE PlanReturns(p) \/ PlanFails(p)
  <2>1. pc[p] = "planning" /\ Release(p) /\ UNCHANGED funded
    BY <1>3 DEF PlanReturns, PlanFails, Finalize
  <2>2. PICK n \in 0 .. MaxCall, bill \in 0 .. MaxCall : Debit(p, n, bill)
    BY <1>3 DEF PlanReturns, PlanFails
  <2>3. held[p] = slice[p]
    BY <2>1 DEF RowsTell, RowOf
  <2> QED
    BY <2>1, <2>2, <2>3, DebitSolvent, PassAssumption
<1>4. CASE Refuse(p) \/ Finish(p) \/ Fails(p)
  BY <1>4, ReleaseSolvent DEF Refuse, Finish, Fails, Finalize
<1>5. CASE Begin(p) \/ RunStep(p) \/ StopRunning(p) \/ EndBatch(p)
           \/ ReplanReturns(p) \/ ReplanFails(p)
  BY <1>5 DEF Begin, RunStep, StopRunning, EndBatch, ReplanReturns, ReplanFails,
              PotNotOversold
<1> QED
  BY <1>1, <1>2, <1>3, <1>4, <1>5 DEF Work

\* Nor does any other step.
LEMMA StepSolvent == TypeOK /\ RowsTell /\ PotNotOversold /\ [Next]_vars => PotNotOversold'
<1> SUFFICES ASSUME TypeOK, RowsTell, PotNotOversold, [Next]_vars PROVE PotNotOversold'
  OBVIOUS
<1> USE DEF vars, pot, row, worker, around
<1>1. CASE UNCHANGED vars \/ SeatSpent \/ TurnStarts
  BY <1>1 DEF SeatSpent, TurnStarts, PotNotOversold
<1>2. ASSUME NEW p \in Pass, Commission(p) \/ Dies(p) PROVE PotNotOversold'
  BY <1>2 DEF Commission, Dies, PotNotOversold
<1>3. ASSUME NEW p \in Pass, CommissionReserved(p) PROVE PotNotOversold'
  BY <1>3, ReserveSolvent DEF CommissionReserved
<1>4. ASSUME NEW p \in Pass, Sweep(p) PROVE PotNotOversold'
  BY <1>4, ReleaseSolvent DEF Sweep
<1>5. CASE Fund
  BY <1>5 DEF Fund, TypeOK, PotNotOversold
<1>6. CASE TurnEnds
  <2>1. PICK bill \in 0 .. MaxCall : spent' = spent + bill /\ unheld' = unheld + bill
    BY <1>6 DEF TurnEnds
  <2> QED
    BY <1>6, <2>1, PassAssumption DEF TurnEnds, TypeOK, PotNotOversold
<1>7. ASSUME NEW p \in Pass, Work(p) PROVE PotNotOversold'
  BY <1>7, WorkSolvent
<1>8. CASE \E p \in Pass : PassNext(p)
  <2>1. PICK p \in Pass : PassNext(p)
    BY <1>8
  <2> QED
    BY <1>2, <1>3, <1>4, <1>7, <2>1 DEF PassNext
<1> QED
  BY <1>1, <1>5, <1>6, <1>7, <1>8 DEF Next

-----------------------------------------------------------------------------
(* The theorems. *)

\* The inductive invariant: types, what the rows tell, and a pot not oversold.
LEMMA AlwaysSolvent ==
  ASSUME ~LateSweep
  PROVE  Spec => []Solvent
<1>1. Init => Solvent
  BY StartTyped, StartRows, PassAssumption DEF Solvent, Init, PotNotOversold
<1>2. Solvent /\ [Next]_vars => Solvent'
  BY StepTyped, StepRows, StepSolvent DEF Solvent
<1> QED
  BY <1>1, <1>2, PTL DEF Spec

\* Any number of concurrent passes, holds and harness turns never oversell the pot by more
\* than what was billed without a hold.
THEOREM PotTheorem ==
  ASSUME ~LateSweep
  PROVE  Spec => []PotNotOversold
<1>1. Solvent => PotNotOversold
  BY DEF Solvent
<1> QED
  BY <1>1, AlwaysSolvent, PTL

\* An ended pass pins nothing, whoever ended it.
THEOREM EndedTheorem ==
  ASSUME ~LateSweep
  PROVE  Spec => []EndedHoldsNothing
<1>1. Solvent => EndedHoldsNothing
  BY DEF Solvent, RowsTell, RowOf, EndedHoldsNothing
<1> QED
  BY <1>1, AlwaysSolvent, PTL

\* A planning call always has a hold of the size its policy believes in.
THEOREM PlansTheorem ==
  ASSUME ~LateSweep
  PROVE  Spec => []PlansOnHold
<1>1. Solvent => PlansOnHold
  BY DEF Solvent, RowsTell, RowOf, PlansOnHold
<1> QED
  BY <1>1, AlwaysSolvent, PTL

\* A trace that has a verdict keeps it.
THEOREM VerdictTheorem ==
  ASSUME ~LateSweep
  PROVE  Spec => StatusIsFinal
<1> DEFINE Final == \A p \in Pass : status[p] \in Ended => status'[p] = status[p]
<1>1. Solvent /\ [Next]_vars => [Final]_vars
  <2> SUFFICES ASSUME Solvent, Next, NEW p \in Pass, status[p] \in Ended
               PROVE  status'[p] = status[p]
    OBVIOUS
  <2> USE DEF vars, pot, row, worker, around
  <2>1. pc[p] \in {"none", "over", "dead"} /\ status[p] # "running" /\ pc[p] # "none"
    BY DEF Solvent, RowsTell, RowOf, Gone, Ended
  <2>2. CASE Fund \/ SeatSpent \/ TurnStarts \/ TurnEnds
    BY <2>2 DEF Fund, SeatSpent, TurnStarts, TurnEnds
  <2>3. CASE \E q \in Pass : PassNext(q)
    <3>1. PICK q \in Pass : PassNext(q)
      BY <2>3
    <3>2. status' = status \/ (p # q /\ \E s : status' = [status EXCEPT ![q] = s])
      BY <2>1, <3>1 DEF PassNext, Work, Commission, CommissionReserved, Begin, Refuse, Open,
         Reserve, PlanReturns, PlanFails, RunStep, StopRunning, EndBatch,
         ReplanReturns, ReplanFails, Finish, Fails, Finalize, Dies, Sweep, Gone, Ended
    <3> QED
      BY <3>2 DEF Solvent, TypeOK
  <2> QED
    BY <2>2, <2>3 DEF Next
<1> QED
  BY <1>1, AlwaysSolvent, PTL DEF Spec, StatusIsFinal
=============================================================================
