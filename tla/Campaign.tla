------------------------------- MODULE Campaign -------------------------------
(***************************************************************************)
(* A research campaign: waves of orchestrations (its cycles) until nothing *)
(* is left, the pot, the cycle cap, the error budget or a cancel stops it. *)
(* The orchestrations are the rows of CycleRows; their passes, the pot and *)
(* the claims stay outside, so what the campaign reads of them is chosen   *)
(* anew at every read.                                                     *)
(*                                                                         *)
(* A step is what happens between two awaits that another session could    *)
(* slip between with a visible effect.                                     *)
(***************************************************************************)
EXTENDS CycleRows, Sequences

CONSTANTS
  Camp,         \* ResearchCampaign rows
  MaxCycles,    \* ResearchCampaign.max_cycles
  Width,        \* ResearchCampaign.concurrency
  ErrorBudget,  \* ResearchCampaign.error_budget
  MaxEligible,  \* bound: the threads of the project
  NoOrch,       \* a cycle without an orchestration
  NoCamp        \* the owner of a standalone orchestration

ASSUME CampAssumption ==
  /\ MaxCycles \in Nat \ {0} /\ Width \in Nat \ {0} /\ ErrorBudget \in Nat \ {0}
  /\ MaxPasses \in Nat \ {0} /\ MaxEligible \in Nat
  /\ NoOrch \notin Orch /\ NoCamp \notin Camp /\ Width <= 4

VARIABLES
  \* ResearchCampaign rows
  cstatus, current, asked, errors, completed, cycles, cstop,
  atCancel,  \* history: current when the cancel was committed
  \* the loop of run_campaign; when it has decided to stop, cpc is the reason
  cpc,
  slots,     \* cycles this wave may still start
  planned,   \* the wave: [cycle, orch] in the order planned
  marked,    \* the running rows a request_cancel has read, or Idle
  \* OrchestrationRun rows
  owner,     \* the campaign whose loop commissioned it, or NoCamp
  lost       \* run_orchestration is gone from it: it raised, or its process died

crow == <<cstatus, current, asked, errors, completed, cycles, cstop, atCancel>>
loop == <<cpc, slots, planned>>
work == <<owner, lost>>
vars == <<rows, crow, loop, marked, work>>

Idle == {NoOrch}
Verdict == {"cancelled", "max_cycles", "no_open_work", "budget_exhausted", "error_budget"}

-----------------------------------------------------------------------------
Running(os) == {o \in os : ostatus[o] = "running"}
Mine(c) == {o \in Orch : owner[o] = c}
Alive(c) == cpc[c] \notin {"none", "over", "dead"}
Planned(c) == {planned[c][i].orch : i \in DOMAIN planned[c]} \ {NoOrch}

\* A running orchestration somebody is working: the route's task, or the campaign's wave.
Worked(o) ==
  /\ ostatus[o] = "running" /\ o \notin lost
  /\ owner[o] # NoCamp => cpc[owner[o]] = "waving"

\* A running orchestration nobody works or will work.
Orphan(o) ==
  /\ ostatus[o] = "running"
  /\ o \in lost \/ (owner[o] # NoCamp /\ ~Alive(owner[o]))

LesserOf(a, b) == IF a < b THEN a ELSE b

\* _cycle_slots: a second cycle only where one orchestration cannot cover the threads.
CycleSlots(c, eligible) ==
  LesserOf(LesserOf(Width, MaxCycles - current[c]), (eligible + MaxPasses - 1) \div MaxPasses)

-----------------------------------------------------------------------------
Init ==
  /\ RowsInit
  /\ cstatus = [c \in Camp |-> "none"]
  /\ current = [c \in Camp |-> 0]
  /\ asked = [c \in Camp |-> FALSE]
  /\ errors = [c \in Camp |-> 0]
  /\ completed = [c \in Camp |-> 0]
  /\ cycles = [c \in Camp |-> <<>>]
  /\ cstop = [c \in Camp |-> "none"]
  /\ atCancel = [c \in Camp |-> 0]
  /\ cpc = [c \in Camp |-> "none"]
  /\ slots = [c \in Camp |-> 0]
  /\ planned = [c \in Camp |-> <<>>]
  /\ marked = [c \in Camp |-> Idle]
  /\ owner = [o \in Orch |-> NoCamp]
  /\ lost = {}

\* Mutant of Start: the orchestrations of the project are not looked at.
StartBeside(c) ==
  /\ cstatus[c] = "none"
  /\ \A d \in Camp : cstatus[d] # "running"
  /\ cstatus' = [cstatus EXCEPT ![c] = "running"]
  /\ cpc' = [cpc EXCEPT ![c] = "looking"]
  /\ UNCHANGED <<rows, current, asked, errors, completed, cycles, cstop, atCancel, slots,
                 planned, marked, work>>

\* start_campaign, under the project's lock.
Start(c) ==
  /\ cstatus[c] = "none"
  /\ \A d \in Camp : cstatus[d] # "running"
  /\ Running(Orch) = {}
  /\ cstatus' = [cstatus EXCEPT ![c] = "running"]
  /\ cpc' = [cpc EXCEPT ![c] = "looking"]
  /\ UNCHANGED <<rows, current, asked, errors, completed, cycles, cstop, atCancel, slots,
                 planned, marked, work>>

\* start_orchestration by the route: no running orchestration, no running campaign.
StartAlone(o) ==
  /\ Running(Orch) = {}
  /\ \A c \in Camp : cstatus[c] # "running"
  /\ Open(o)
  /\ UNCHANGED <<crow, loop, marked, work>>

-----------------------------------------------------------------------------
\* The head of the loop finds a reason to stop.  eligible: the threads classified
\* eligible; funded: the pot has something available.
LookStops(c, eligible, funded) ==
  /\ cpc[c] = "looking"
  /\ \/ asked[c] /\ cpc' = [cpc EXCEPT ![c] = "cancelled"]
     \/ ~asked[c] /\ current[c] >= MaxCycles /\ cpc' = [cpc EXCEPT ![c] = "max_cycles"]
     \/ /\ ~asked[c] /\ current[c] < MaxCycles /\ eligible = 0
        /\ cpc' = [cpc EXCEPT ![c] = "no_open_work"]
     \/ /\ ~asked[c] /\ current[c] < MaxCycles /\ eligible > 0 /\ ~funded
        /\ cpc' = [cpc EXCEPT ![c] = "budget_exhausted"]
  /\ UNCHANGED <<rows, crow, slots, planned, marked, work>>

\* The head of the loop sizes a wave.
LookOpensWave(c, eligible) ==
  /\ cpc[c] = "looking"
  /\ ~asked[c] /\ current[c] < MaxCycles /\ eligible > 0
  /\ slots' = [slots EXCEPT ![c] = CycleSlots(c, eligible)]
  /\ cpc' = [cpc EXCEPT ![c] = "planning"]
  /\ UNCHANGED <<rows, crow, planned, marked, work>>

\* Mutant of MayPlan: the campaign is not reloaded between two cycles of a wave.
MayPlanBlind(c) == Len(planned[c]) < slots[c]

\* What the reload before each cycle of the wave allows.
MayPlan(c) == Len(planned[c]) < slots[c] /\ ~asked[c] /\ current[c] < MaxCycles

PlanNext(c) ==
  /\ cpc[c] = "planning" /\ MayPlan(c)
  /\ cpc' = [cpc EXCEPT ![c] = "counting"]
  /\ UNCHANGED <<rows, crow, slots, planned, marked, work>>

\* current_cycle is committed before the cycle has an orchestration.
CountCycle(c) ==
  /\ cpc[c] = "counting"
  /\ current' = [current EXCEPT ![c] = @ + 1]
  /\ cpc' = [cpc EXCEPT ![c] = "beginning"]
  /\ UNCHANGED <<rows, cstatus, asked, errors, completed, cycles, cstop, atCancel, slots,
                 planned, marked, work>>

\* start_orchestration for the campaign: as many may run as the wave is wide.
Begin(c, o) ==
  /\ cpc[c] = "beginning"
  /\ Cardinality(Running(Orch)) < Width
  /\ Open(o)
  /\ owner' = [owner EXCEPT ![o] = c]
  /\ planned' = [planned EXCEPT ![c] = Append(@, [cycle |-> current[c], orch |-> o])]
  /\ cpc' = [cpc EXCEPT ![c] = "planning"]
  /\ UNCHANGED <<crow, slots, marked, lost>>

\* Mutant of BeginFails: a cycle that does not start leaves no trace.
BeginFailsMute(c) ==
  /\ cpc[c] = "beginning"
  /\ cpc' = [cpc EXCEPT ![c] = "planning"]
  /\ UNCHANGED <<rows, crow, slots, planned, marked, work>>

\* start_orchestration raises: the cycle is kept as an error.
BeginFails(c) ==
  /\ cpc[c] = "beginning"
  /\ planned' = [planned EXCEPT ![c] = Append(@, [cycle |-> current[c], orch |-> NoOrch])]
  /\ cpc' = [cpc EXCEPT ![c] = "planning"]
  /\ UNCHANGED <<rows, crow, slots, marked, work>>

\* The wave is planned: run it, if any cycle of it has an orchestration.
PlanEnds(c) ==
  /\ cpc[c] = "planning" /\ ~MayPlan(c)
  /\ cpc' = [cpc EXCEPT ![c] = IF Planned(c) = {} THEN "recording" ELSE "waving"]
  /\ UNCHANGED <<rows, crow, slots, planned, marked, work>>

-----------------------------------------------------------------------------
\* An orchestration's own steps; what it promises is all the campaign knows of them.
Commissions(o) == Worked(o) /\ CountPass(o) /\ UNCHANGED <<crow, loop, marked, work>>

Ends(o, reason) == Worked(o) /\ Close(o, reason) /\ UNCHANGED <<crow, loop, marked, work>>

LoopFails(o) == Worked(o) /\ Lose({o}) /\ UNCHANGED <<crow, loop, marked, work>>

\* run_orchestration raises out of the wave, or the process of a standalone one dies.
Vanishes(o) ==
  /\ Worked(o)
  /\ lost' = lost \cup {o}
  /\ UNCHANGED <<rows, crow, loop, marked, owner>>

\* Mutant of WaveReturns: the rows of the cycles that raised are left as they are.
WaveReturnsBare(c) ==
  /\ cpc[c] = "waving"
  /\ \A o \in Planned(c) : ~Worked(o)
  /\ cpc' = [cpc EXCEPT ![c] = "recording"]
  /\ UNCHANGED <<rows, crow, slots, planned, marked, work>>

\* Mutant of WaveReturns: the wave waits for rows to close, not for cycles to return.
WaveReturnsByRow(c) ==
  /\ cpc[c] = "waving"
  /\ Running(Planned(c)) = {}
  /\ cpc' = [cpc EXCEPT ![c] = "recording"]
  /\ UNCHANGED <<rows, crow, slots, planned, marked, work>>

\* _run_cycle_wave: every cycle has returned or raised; a row left running is failed.
WaveReturns(c) ==
  /\ cpc[c] = "waving"
  /\ \A o \in Planned(c) : ~Worked(o)
  /\ Lose(Running(Planned(c)))
  /\ cpc' = [cpc EXCEPT ![c] = "recording"]
  /\ UNCHANGED <<crow, slots, planned, marked, work>>

-----------------------------------------------------------------------------
WaveNumber(c) == IF cycles[c] = <<>> THEN 1 ELSE cycles[c][Len(cycles[c])].wave + 1

\* _cycle_row.  error: the cycle has no result; failed: it feeds the error budget.
CycleRow(c, p) ==
  LET none == p.orch \notin Orch \/ p.orch \in lost
  IN [cycle |-> p.cycle,
      wave |-> WaveNumber(c),
      error |-> none,
      failed |-> none \/ ostatus[p.orch] = "failed",
      stop |-> IF none THEN "none" ELSE stop[p.orch],
      ran |-> ~none /\ commissioned[p.orch] > 0]

WaveRows(c) == [i \in DOMAIN planned[c] |-> CycleRow(c, planned[c][i])]

\* Mutant of ErrorsAfter: a cycle that went well does not clear the count.
ErrorsEver(n, new) == n + Cardinality({i \in DOMAIN new : new[i].failed})

\* consecutive_errors after these cycles, taken in the order planned.
ErrorsAfter(n, new) ==
  LET well == {i \in DOMAIN new : ~new[i].failed}
  IN IF well = {} THEN n + Len(new)
     ELSE Len(new) - (CHOOSE i \in well : \A j \in well : j <= i)

Some(new, reason) == \E i \in DOMAIN new : new[i].stop = reason

\* The wave found everything scanned: one cycle passed over all it found, or none had any.
ScannedOut(new) ==
  /\ ~Some(new, "max_passes")
  /\ \/ \E i \in DOMAIN new : new[i].stop = "no_open_work" /\ new[i].ran
     \/ \A i \in DOMAIN new : new[i].stop = "no_open_work" /\ ~new[i].ran

\* Mutant of AfterWave: the error budget is tested first, and one failure early.
AfterWaveHasty(c, new, funded) ==
  IF new = <<>> THEN "looking"
  ELSE IF ErrorsAfter(errors[c], new) + 1 >= ErrorBudget THEN "error_budget"
  ELSE IF asked[c] \/ Some(new, "cancelled") THEN "cancelled"
  ELSE IF Some(new, "budget_exhausted") \/ ~funded THEN "budget_exhausted"
  ELSE IF ScannedOut(new) THEN "no_open_work"
  ELSE "looking"

\* The stop tests after a wave, in their order, or the next wave.
AfterWave(c, new, funded) ==
  IF new = <<>> THEN "looking"
  ELSE IF asked[c] \/ Some(new, "cancelled") THEN "cancelled"
  ELSE IF Some(new, "budget_exhausted") \/ ~funded THEN "budget_exhausted"
  ELSE IF ScannedOut(new) THEN "no_open_work"
  ELSE IF ErrorsAfter(errors[c], new) >= ErrorBudget THEN "error_budget"
  ELSE "looking"

\* The locals of a wave go with it.
LeaveWave(c, how) ==
  /\ cpc' = [cpc EXCEPT ![c] = how]
  /\ slots' = [slots EXCEPT ![c] = 0]
  /\ planned' = [planned EXCEPT ![c] = <<>>]

\* The campaign is reloaded, the wave's rows are written, the stop tests are made on what
\* the reload showed.
Record(c, funded) ==
  /\ cpc[c] = "recording"
  /\ cycles' = [cycles EXCEPT ![c] = @ \o WaveRows(c)]
  /\ errors' = [errors EXCEPT ![c] = ErrorsAfter(@, WaveRows(c))]
  /\ completed' = [completed EXCEPT
       ![c] = @ + Cardinality({i \in DOMAIN WaveRows(c) : ~WaveRows(c)[i].error})]
  /\ LeaveWave(c, AfterWave(c, WaveRows(c), funded))
  /\ UNCHANGED <<rows, cstatus, current, asked, cstop, atCancel, marked, work>>

\* _finalize, with the reason the loop has found.
Finish(c) ==
  /\ cpc[c] \in Verdict
  /\ cstatus' = [cstatus EXCEPT ![c] = "completed"]
  /\ cstop' = [cstop EXCEPT ![c] = cpc[c]]
  /\ LeaveWave(c, "over")
  /\ UNCHANGED <<rows, current, asked, errors, completed, cycles, atCancel, marked, work>>

\* Anything raised out of the loop fails the row; the orchestrations of a wave that was
\* planned and not run keep their rows running.
CampaignFails(c) ==
  /\ Alive(c)
  /\ \A o \in Mine(c) : ~Worked(o)
  /\ cstatus' = [cstatus EXCEPT ![c] = "failed"]
  /\ cstop' = [cstop EXCEPT ![c] = "error"]
  /\ LeaveWave(c, "over")
  /\ UNCHANGED <<rows, current, asked, errors, completed, cycles, atCancel, marked, work>>

\* The process dies, with the wave it runs.
CampaignDies(c) ==
  /\ Alive(c)
  /\ LeaveWave(c, "dead")
  /\ UNCHANGED <<rows, crow, marked, work>>

\* A read sweeps a row that has outlived its time.
SweepCampaign(c) ==
  /\ cstatus[c] = "running" /\ cpc[c] = "dead"
  /\ cstatus' = [cstatus EXCEPT ![c] = "failed"]
  /\ cstop' = [cstop EXCEPT ![c] = "error"]
  /\ UNCHANGED <<rows, current, asked, errors, completed, cycles, atCancel, loop, marked, work>>

SweepOrchestration(o) ==
  /\ Orphan(o)
  /\ Lose({o})
  /\ UNCHANGED <<crow, loop, marked, work>>

\* request_cancel reads the campaign running and the running orchestrations ...
\* Bound: one request; a repeat would do to later rows what CancelOne does.
CancelReads(c) ==
  /\ cstatus[c] = "running" /\ ~asked[c] /\ marked[c] = Idle
  /\ marked' = [marked EXCEPT ![c] = Running(Orch)]
  /\ UNCHANGED <<rows, crow, loop, work>>

\* ... and flags them all in one commit, whatever has happened in between.
CancelCommits(c) ==
  /\ marked[c] # Idle
  /\ asked' = [asked EXCEPT ![c] = TRUE]
  /\ atCancel' = [atCancel EXCEPT ![c] = current[c]]
  /\ AskCancel(marked[c])
  /\ marked' = [marked EXCEPT ![c] = Idle]
  /\ UNCHANGED <<cstatus, current, errors, completed, cycles, cstop, loop, work>>

\* The orchestration's own Stop route.
CancelOne(o) ==
  /\ ostatus[o] = "running" /\ ~cancel[o]
  /\ AskCancel({o})
  /\ UNCHANGED <<crow, loop, marked, work>>

-----------------------------------------------------------------------------
CampWork(c) ==
  \/ \E eligible \in 0 .. MaxEligible :
       LookOpensWave(c, eligible) \/ \E funded \in BOOLEAN : LookStops(c, eligible, funded)
  \/ PlanNext(c) \/ CountCycle(c) \/ (\E o \in Orch : Begin(c, o)) \/ BeginFails(c)
  \/ PlanEnds(c) \/ WaveReturns(c) \/ (\E funded \in BOOLEAN : Record(c, funded))
  \/ Finish(c)

OrchWork(o) == Commissions(o) \/ (\E reason \in Reason : Ends(o, reason)) \/ LoopFails(o)

Next ==
  \/ \E c \in Camp : \/ Start(c) \/ CampWork(c) \/ CampaignFails(c) \/ CampaignDies(c)
                     \/ SweepCampaign(c) \/ CancelReads(c) \/ CancelCommits(c)
  \/ \E o \in Orch : \/ StartAlone(o) \/ OrchWork(o) \/ Vanishes(o) \/ SweepOrchestration(o)
                     \/ CancelOne(o)

Spec == Init /\ [][Next]_vars

\* The event loop resumes the campaign and the orchestrations of its wave, each of which
\* ends unless it vanishes (OrchestrationEnds of Orchestration).
FairSpec == /\ Spec
            /\ \A c \in Camp : WF_vars(CampWork(c))
            /\ \A o \in Orch : WF_vars(OrchWork(o))

-----------------------------------------------------------------------------
Row == [cycle : Nat, wave : Nat, error : BOOLEAN, failed : BOOLEAN,
        stop : Reason \cup {"none", "error"}, ran : BOOLEAN]

\* Rows of orchestrations and campaigns, and the locals of the loops, keep their types.
CTypeOK ==
  /\ ostatus \in [Orch -> {"none", "running"} \cup Closed]
  /\ commissioned \in [Orch -> 0 .. MaxPasses]
  /\ cancel \in [Orch -> BOOLEAN]
  /\ stop \in [Orch -> Reason \cup {"none", "error"}]
  /\ cstatus \in [Camp -> {"none", "running"} \cup Closed]
  /\ current \in [Camp -> 0 .. MaxCycles]
  /\ asked \in [Camp -> BOOLEAN]
  /\ errors \in [Camp -> Nat]
  /\ completed \in [Camp -> Nat]
  /\ cycles \in [Camp -> Seq(Row)]
  /\ cstop \in [Camp -> Verdict \cup {"none", "error"}]
  /\ atCancel \in [Camp -> Nat]
  /\ cpc \in [Camp -> {"none", "looking", "planning", "counting", "beginning", "waving",
                       "recording", "over", "dead"} \cup Verdict]
  /\ slots \in [Camp -> 0 .. Width]
  /\ planned \in [Camp -> Seq([cycle : Nat, orch : Orch \cup {NoOrch}])]
  /\ marked \in [Camp -> SUBSET (Orch \cup {NoOrch})]
  /\ owner \in [Orch -> Camp \cup {NoCamp}]
  /\ lost \in SUBSET Orch

\* One loop per project: one running campaign at most, and while it runs every running
\* orchestration is one of its cycles, never more of them than the campaign is wide.
\* Crashes and the two sweeps, each on its own clock, do not break it.
OneLoop ==
  \A c \in Camp : cstatus[c] = "running" =>
    /\ \A d \in Camp : cstatus[d] = "running" => d = c
    /\ Running(Orch) \subseteq Mine(c)
    /\ Cardinality(Running(Orch)) <= Width

\* The trace of a campaign: its cycles are numbered 1, 2, ... without a gap or a double
\* whatever failed to start, never more than the cap, and a completed campaign has a row
\* for every cycle it counted.
CyclesNumbered ==
  \A c \in Camp :
    /\ \A i \in DOMAIN cycles[c] : cycles[c][i].cycle = i
    /\ Len(cycles[c]) <= current[c]
    /\ cstatus[c] = "completed" => Len(cycles[c]) = current[c]

\* consecutive_errors is what its name says, although the cycles of a wave end together:
\* the cycles at the end of the trace that failed, and the one before them did not.
ErrorsAreTrailing ==
  \A c \in Camp :
    LET all == Len(cycles[c])
    IN /\ errors[c] <= all
       /\ \A i \in all - errors[c] + 1 .. all : cycles[c][i].failed
       /\ errors[c] < all => ~cycles[c][all - errors[c]].failed

\* A committed cancel is honoured between two cycles of a wave too: at most the cycle that
\* was being counted is started after it.
CancelBites == \A c \in Camp : asked[c] => current[c] <= atCancel[c] + 1

\* A completed campaign leaves no cycle of its own running.
CompletedLeavesNone ==
  \A c \in Camp : cstatus[c] = "completed" => Running(Mine(c)) = {}

\* A completed campaign stopped for the reason it gives.
StopsForCause ==
  \A c \in Camp : cstatus[c] = "completed" =>
    /\ cstop[c] = "max_cycles" => Len(cycles[c]) = MaxCycles
    /\ cstop[c] = "error_budget" => errors[c] >= ErrorBudget
    /\ cstop[c] = "cancelled" => asked[c] \/ Some(cycles[c], "cancelled")

\* A campaign is not left running: it ends unless its process dies.
CampaignEnds ==
  \A c \in Camp : cstatus[c] = "running" ~> (cstatus[c] # "running" \/ cpc[c] = "dead")
=============================================================================
