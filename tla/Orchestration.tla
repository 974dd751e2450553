---------------------------- MODULE Orchestration ----------------------------
(***************************************************************************)
(* Orchestrations over the passes of PassBudget: each one classifies the   *)
(* threads of the project, commissions passes in waves, awaits a wave and  *)
(* goes round until nothing is left, a cap, the pot or a cancel stops it.  *)
(* A campaign runs several of them as its cycles.                          *)
(*                                                                         *)
(* Every step of PassBudget is a whole transaction.  Here one transaction  *)
(* outlasts its step: a commission that finds the pot empty returns        *)
(* without commit or rollback, so the orchestrator's session keeps the     *)
(* project row locked.  lock says who does, and everyone else who needs    *)
(* the row waits.                                                          *)
(***************************************************************************)
EXTENDS PassBudget, Sequences

CONSTANTS
  Orch,         \* OrchestrationRun rows
  Threads,      \* the threads of the project, oldest first
  Concurrency,  \* OrchestrationRun.concurrency
  MaxPasses,    \* orchestration_max_passes
  Routed,       \* bound: the pass rows left to the route, the others to orchestrations
  Cycles,       \* running orchestrations allowed: ResearchCampaign.concurrency, or 1
  NoOne         \* no orchestration

ASSUME OrchAssumption ==
  /\ Concurrency \in Nat \ {0} /\ MaxPasses \in Nat /\ Cycles \in Nat \ {0}
  /\ Routed \subseteq Pass /\ NoOne \notin Orch /\ Threads \in Seq(STRING)

VARIABLES
  \* OrchestrationRun rows
  ostatus, commissioned, cancel, decisions, stop,
  \* AgentRun columns the orchestrator reads
  threadOf,  \* threadOf[p]: thread_id
  by,        \* by[p]: the orchestration that commissioned p, or NoOne for the route
  \* the orchestrator's loop
  opc, pending, slots, wave, hit,
  \* the session that has left the project row locked, or NoOne
  lock

orow == <<ostatus, commissioned, cancel, decisions, stop>>
column == <<threadOf, by>>
loop == <<opc, pending, slots, wave, hit>>
ovars == <<orow, column, loop, lock>>

Thread == {Threads[i] : i \in DOMAIN Threads}
Alive(o) == opc[o] \notin {"none", "over", "dead"}

\* Mutant of Busy: the passes of other orchestrations are not looked at.
BusyByRoute(t) == \E p \in Pass : threadOf[p] = t /\ by[p] = NoOne /\ status[p] = "running"

\* _thread_has_running_pass
Busy(t) == \E p \in Pass : threadOf[p] = t /\ status[p] = "running"

Skip(ts, reason) == [i \in DOMAIN ts |-> [thread |-> ts[i], reason |-> reason]]

\* A session other than the one that keeps the row may not have it.
RowFree(o) == lock \in {NoOne, o}

\* Mutant of SessionOf: a singleton wave gets a session of its own too.
OwnSession(p) == NoOne

\* A singleton wave runs on the orchestrator's session, other passes on their own.
SessionOf(p) == IF by[p] # NoOne /\ wave[by[p]] = <<p>> THEN by[p] ELSE NoOne

\* The next row of the table.
Fresh == {p \in Pass \ Routed : status[p] = "none"}

\* Mutant of WaveOver: the first pass that returns ends the wave.
WaveTouched(o) == \E i \in DOMAIN wave[o] : pc[wave[o][i]] = "over"

\* asyncio.gather: every pass of the wave has returned.
WaveOver(o) == \A i \in DOMAIN wave[o] : pc[wave[o][i]] = "over"

\* Has the pass been handed to a coroutine that is still there.
Worked(p) == by[p] # NoOne => opc[by[p]] = "waving"

\* Stages whose step locks the project row or writes a row that refers to it; an outcome
\* of such a step that does neither may as well come before or after the wait.
NeedsRow == {"commissioned", "reserving", "planning", "running"}

-----------------------------------------------------------------------------
OInit ==
  /\ Init
  /\ ostatus = [o \in Orch |-> "none"]
  /\ commissioned = [o \in Orch |-> 0]
  /\ cancel = [o \in Orch |-> FALSE]
  /\ decisions = [o \in Orch |-> <<>>]
  /\ stop = [o \in Orch |-> "none"]
  /\ threadOf = [p \in Pass |-> "none"]
  /\ by = [p \in Pass |-> NoOne]
  /\ opc = [o \in Orch |-> "none"]
  /\ pending = [o \in Orch |-> <<>>]
  /\ slots = [o \in Orch |-> 0]
  /\ wave = [o \in Orch |-> <<>>]
  /\ hit = [o \in Orch |-> {}]
  /\ lock = NoOne

\* start_orchestration: refused while as many run as a campaign may hold.
Start(o) ==
  /\ ostatus[o] = "none"
  /\ RowFree(NoOne)
  /\ Cardinality({q \in Orch : ostatus[q] = "running"}) < Cycles
  /\ ostatus' = [ostatus EXCEPT ![o] = "running"]
  /\ opc' = [opc EXCEPT ![o] = "opening"]
  /\ UNCHANGED <<vars, commissioned, cancel, decisions, stop, column, pending, slots,
                 wave, hit, lock>>

\* classify_project_threads, oldest first: a thread is pending or decided.
Classified(o) == Len(pending[o]) + Len(decisions[o])

\* classify_thread.  raisable: the thread is open and has a raisable claim now.
Classify(o, raisable) ==
  LET t == Threads[Classified(o) + 1]
      eligible == raisable /\ ~Busy(t)
  IN
  /\ opc[o] = "opening"
  /\ Classified(o) < Len(Threads)
  /\ pending' = [pending EXCEPT ![o] = IF eligible THEN Append(@, t) ELSE @]
  /\ decisions' = [decisions EXCEPT
       ![o] = IF eligible THEN @ ELSE @ \o Skip(<<t>>, "ineligible")]
  /\ UNCHANGED <<vars, ostatus, commissioned, cancel, stop, column, opc, slots, wave, hit,
                 lock>>

AllClassified(o) ==
  /\ opc[o] = "opening"
  /\ Classified(o) >= Len(Threads)
  /\ opc' = [opc EXCEPT ![o] = "looping"]
  /\ UNCHANGED <<vars, orow, column, pending, slots, wave, hit, lock>>

\* Mutant of SkipAll: the thread at hand is passed over.
SkipRest(o, reason) ==
  /\ decisions' = [decisions EXCEPT ![o] = @ \o Skip(Tail(pending[o]), reason)]
  /\ hit' = [hit EXCEPT ![o] = @ \cup {reason}]
  /\ lock' = IF lock = o THEN NoOne ELSE lock

\* _skip_all commits, and so gives back a row the session still had locked.
SkipAll(o, reason) ==
  /\ decisions' = [decisions EXCEPT ![o] = @ \o Skip(pending[o], reason)]
  /\ hit' = [hit EXCEPT ![o] = @ \cup {reason}]
  /\ lock' = IF lock = o THEN NoOne ELSE lock

\* The head of the loop: cancelled, the pass cap, an empty pot, or another wave.
StopLoop(o) ==
  /\ opc[o] = "looping"
  /\ pending[o] # <<>>
  /\ \/ cancel[o] /\ SkipAll(o, "cancelled")
     \/ ~cancel[o] /\ commissioned[o] >= MaxPasses /\ SkipAll(o, "max_passes")
     \/ /\ ~cancel[o] /\ commissioned[o] < MaxPasses
        /\ Available <= 0 /\ SkipAll(o, "budget_exhausted")
  /\ opc' = [opc EXCEPT ![o] = "closing"]
  /\ UNCHANGED <<vars, ostatus, commissioned, cancel, stop, column, pending, slots, wave>>

\* Mutant of OpenWave: the slots forget the passes of earlier waves.
OpenFullWave(o) ==
  /\ opc[o] = "looping"
  /\ pending[o] # <<>>
  /\ ~cancel[o] /\ commissioned[o] < MaxPasses /\ Available > 0
  /\ slots' = [slots EXCEPT ![o] = Least(Concurrency, Len(pending[o]))]
  /\ opc' = [opc EXCEPT ![o] = "filling"]
  /\ UNCHANGED <<vars, orow, column, pending, wave, hit, lock>>

\* The next wave takes as many threads as concurrency and the pass cap leave.
OpenWave(o) ==
  /\ opc[o] = "looping"
  /\ pending[o] # <<>>
  /\ ~cancel[o] /\ commissioned[o] < MaxPasses /\ Available > 0
  /\ slots' = [slots EXCEPT ![o] =
                 Least(Concurrency, Least(MaxPasses - commissioned[o], Len(pending[o])))]
  /\ opc' = [opc EXCEPT ![o] = "filling"]
  /\ UNCHANGED <<vars, orow, column, pending, wave, hit, lock>>

NothingLeft(o) ==
  /\ opc[o] = "looping"
  /\ pending[o] = <<>>
  /\ opc' = [opc EXCEPT ![o] = "closing"]
  /\ UNCHANGED <<vars, orow, column, pending, slots, wave, hit, lock>>

Filling(o) == /\ opc[o] = "filling"
              /\ lock # o                       \* the last commission found the pot empty
              /\ Len(wave[o]) < slots[o]
              /\ pending[o] # <<>>

\* _commission_reserved_pass mints and commits a pass that holds a slice.
CommissionNext(o, p) ==
  LET t == Head(pending[o]) IN
  /\ Filling(o) /\ RowFree(o)
  /\ ~Busy(t)
  /\ CommissionReserved(p)
  /\ threadOf' = [threadOf EXCEPT ![p] = t]
  /\ by' = [by EXCEPT ![p] = o]
  /\ wave' = [wave EXCEPT ![o] = Append(@, p)]
  /\ commissioned' = [commissioned EXCEPT ![o] = @ + 1]
  /\ pending' = [pending EXCEPT ![o] = Tail(@)]
  /\ UNCHANGED <<ostatus, cancel, decisions, stop, opc, slots, hit, lock>>

\* SKIP_THREAD_BUSY: a pass got there first; the decision's commit frees the row.
SkipBusy(o) ==
  LET t == Head(pending[o]) IN
  /\ Filling(o) /\ RowFree(o)
  /\ Busy(t)
  /\ decisions' = [decisions EXCEPT ![o] = @ \o Skip(<<t>>, "pass_in_flight")]
  /\ pending' = [pending EXCEPT ![o] = Tail(@)]
  /\ UNCHANGED <<vars, ostatus, commissioned, cancel, stop, column, opc, slots, wave, hit,
                 lock>>

\* None: the pot is gone.  The transaction that locked the row stays open.
PotGone(o) ==
  /\ Filling(o) /\ RowFree(o)
  /\ ~Busy(Head(pending[o]))
  /\ Available <= 0
  /\ lock' = o
  /\ UNCHANGED <<vars, orow, column, loop>>

\* The wave is as full as it gets.
Launch(o) ==
  /\ opc[o] = "filling"
  /\ ~Filling(o)
  /\ IF wave[o] = <<>> /\ pending[o] # <<>>
     THEN SkipAll(o, "budget_exhausted")
     ELSE UNCHANGED <<decisions, hit, lock>>
  /\ opc' = [opc EXCEPT ![o] = IF wave[o] = <<>> THEN "closing" ELSE "waving"]
  /\ UNCHANGED <<vars, ostatus, commissioned, cancel, stop, column, pending, slots, wave>>

\* Every pass of the wave has returned: note what became of each.
WaveReturns(o) ==
  /\ opc[o] = "waving"
  /\ WaveOver(o)
  /\ decisions' = [decisions EXCEPT ![o] =
       @ \o Skip([i \in DOMAIN wave[o] |-> threadOf[wave[o][i]]], "commissioned")]
  /\ hit' = [hit EXCEPT ![o] = IF Available <= 0 THEN @ \cup {"budget_exhausted"} ELSE @]
  /\ wave' = [wave EXCEPT ![o] = <<>>]
  /\ lock' = IF lock = o THEN NoOne ELSE lock
  /\ opc' = [opc EXCEPT ![o] = "looping"]
  /\ UNCHANGED <<vars, ostatus, commissioned, cancel, stop, column, pending, slots>>

\* The final commit, with the first reason that applies.
StopReason(o) == IF "cancelled" \in hit[o] THEN "cancelled"
                 ELSE IF "budget_exhausted" \in hit[o] THEN "budget_exhausted"
                 ELSE IF "max_passes" \in hit[o] THEN "max_passes"
                 ELSE "no_open_work"

Complete(o) ==
  /\ opc[o] = "closing"
  /\ ostatus' = [ostatus EXCEPT ![o] = "completed"]
  /\ stop' = [stop EXCEPT ![o] = StopReason(o)]
  /\ opc' = [opc EXCEPT ![o] = "over"]
  /\ UNCHANGED <<vars, commissioned, cancel, decisions, column, pending, slots, wave, hit,
                 lock>>

\* The loop raises (the crew's seat is suspended between two commissions, the database
\* fails): roll back and fail the row.  Commissioned passes of the wave keep no worker.
\* A wave of several passes is gathered before anything can be raised out of it.
OrchFails(o) ==
  /\ Alive(o)
  /\ opc[o] = "waving" /\ Len(wave[o]) > 1 => WaveOver(o)
  /\ ostatus' = [ostatus EXCEPT ![o] = "failed"]
  /\ stop' = [stop EXCEPT ![o] = "error"]
  /\ opc' = [opc EXCEPT ![o] = "over"]
  /\ lock' = IF lock = o THEN NoOne ELSE lock
  /\ UNCHANGED <<vars, commissioned, cancel, decisions, column, pending, slots, wave, hit>>

\* The process dies; the database drops its sessions and their locks.
OrchDies(o) ==
  /\ Alive(o)
  /\ opc' = [opc EXCEPT ![o] = "dead"]
  /\ lock' = IF lock = o THEN NoOne ELSE lock
  /\ UNCHANGED <<vars, orow, column, pending, slots, wave, hit>>

\* A read sweeps the row of a lost orchestrator.
OrchSweep(o) ==
  /\ ostatus[o] = "running" /\ opc[o] = "dead"
  /\ ostatus' = [ostatus EXCEPT ![o] = "failed"]
  /\ stop' = [stop EXCEPT ![o] = "error"]
  /\ UNCHANGED <<vars, commissioned, cancel, decisions, column, loop, lock>>

\* request_cancel
Cancel(o) ==
  /\ ostatus[o] = "running" /\ ~cancel[o]
  /\ cancel' = [cancel EXCEPT ![o] = TRUE]
  /\ UNCHANGED <<vars, ostatus, commissioned, decisions, stop, column, loop, lock>>

-----------------------------------------------------------------------------
\* A member commissions a pass by the route: no look at what runs on the thread.
RoutePass(p, t) ==
  /\ RowFree(NoOne)
  /\ Commission(p)
  /\ threadOf' = [threadOf EXCEPT ![p] = t]
  /\ UNCHANGED <<orow, by, loop, lock>>

\* A pass works where its session has the row, or need not have it; the commit of a pass
\* that runs on the orchestrator's session gives the row back.
PassWorks(p) ==
  /\ Worked(p)
  /\ pc[p] \in NeedsRow => RowFree(SessionOf(p))
  /\ Work(p)
  /\ lock' = IF SessionOf(p) # NoOne /\ lock = SessionOf(p) THEN NoOne ELSE lock
  /\ UNCHANGED <<orow, column, loop>>

\* A pass is lost alone if the route runs it, else with its orchestrator.
PassDies(p) ==
  /\ by[p] # NoOne => ~Alive(by[p])
  /\ Dies(p)
  /\ UNCHANGED ovars

PassSwept(p) == Sweep(p) /\ UNCHANGED ovars

Funding == RowFree(NoOne) /\ Fund /\ UNCHANGED ovars

OrchWork(o) == \/ (\E raisable \in BOOLEAN : Classify(o, raisable)) \/ AllClassified(o)
               \/ StopLoop(o) \/ OpenWave(o) \/ NothingLeft(o)
               \/ \E p \in Fresh : CommissionNext(o, p)
               \/ SkipBusy(o) \/ PotGone(o) \/ Launch(o) \/ WaveReturns(o) \/ Complete(o)

ONext == \/ \E o \in Orch : \/ Start(o) \/ OrchWork(o) \/ OrchFails(o) \/ OrchDies(o)
                            \/ OrchSweep(o) \/ Cancel(o)
         \/ \E p \in Routed, t \in Thread : RoutePass(p, t)
         \/ \E p \in Pass : PassWorks(p) \/ PassDies(p) \/ PassSwept(p)
         \/ Funding

OSpec == OInit /\ [][ONext]_<<vars, ovars>>

\* The event loop resumes every coroutine that is not waiting for the row.
OFairSpec == /\ OSpec
             /\ \A o \in Orch : WF_<<vars, ovars>>(OrchWork(o))
             /\ \A p \in Pass : WF_<<vars, ovars>>(PassWorks(p))

-----------------------------------------------------------------------------
Reasons == {"ineligible", "pass_in_flight", "cancelled", "max_passes", "budget_exhausted",
            "commissioned"}

Decision == [thread : Thread, reason : Reasons]

\* The rows, the columns and the loops have the types the code gives them; what a sequence
\* of decisions says of the threads is DecidedOnce.
OTypeOK ==
  /\ TypeOK
  /\ ostatus \in [Orch -> {"none", "running"} \cup Ended]
  /\ commissioned \in [Orch -> Nat]
  /\ cancel \in [Orch -> BOOLEAN]
  /\ decisions \in [Orch -> Seq(Decision)]
  /\ stop \in [Orch -> {"none", "error", "no_open_work"} \cup Reasons]
  /\ threadOf \in [Pass -> Thread \cup {"none"}]
  /\ by \in [Pass -> Orch \cup {NoOne}]
  /\ opc \in [Orch -> {"none", "opening", "looping", "filling", "waving", "closing", "over",
                       "dead"}]
  /\ pending \in [Orch -> Seq(Thread)]
  /\ slots \in [Orch -> Nat]
  /\ wave \in [Orch -> Seq(Pass)]
  /\ hit \in [Orch -> SUBSET Reasons]
  /\ lock \in Orch \cup {NoOne}

\* Peer cycles never work one thread at the same time, although both may have classified
\* it as eligible.
OneCyclePerThread ==
  \A p, q \in Pass :
    /\ p # q /\ by[p] # NoOne /\ by[q] # NoOne
    /\ status[p] = "running" /\ status[q] = "running"
    => threadOf[p] # threadOf[q]

\* A completed orchestration accounts for every thread once: none is lost between the
\* leftovers of a wave, the skips and the wave's results, and none is decided twice.
DecidedOnce ==
  \A o \in Orch : ostatus[o] = "completed" =>
    /\ Len(decisions[o]) = Len(Threads)
    /\ {decisions[o][i].thread : i \in DOMAIN decisions[o]} = Thread

\* passes_commissioned counts the orchestration's passes, and never more than it may.
CountsItsPasses ==
  \A o \in Orch :
    /\ commissioned[o] = Cardinality({p \in Pass : by[p] = o})
    /\ commissioned[o] <= MaxPasses

\* A completed orchestration has none of its passes left running.
NoneLeftRunning ==
  \A o \in Orch : ostatus[o] = "completed" => \A p \in Pass : by[p] = o => status[p] \in Ended

\* An orchestration is not left running: it ends unless its process dies.
OrchestrationEnds ==
  \A o \in Orch : ostatus[o] = "running" ~> (ostatus[o] # "running" \/ opc[o] = "dead")

\* The composed system is a system of passes: everything PassBudget says of one holds here.
ImplementsPasses == Spec

Rows == INSTANCE CycleRows

\* An orchestration keeps what CycleRows promises a campaign about its row: it closes once,
\* never counts past its cap, and gives only stop reasons the row bears out, whatever its
\* loop, its crash and the sweeps do.
ImplementsRows == Rows!RowsSpec
=============================================================================
