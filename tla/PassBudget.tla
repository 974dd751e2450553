----------------------------- MODULE PassBudget -----------------------------
(***************************************************************************)
(* The project pot and the agent passes that spend it.  A pass is one      *)
(* AgentRun row and the worker executing it: it holds a slice of the pot,  *)
(* pays for its first planning call, gives the slice back, runs            *)
(* instruments and replans, and ends.  The row outlives the worker: a      *)
(* reader sweeps a row whose worker is lost.                               *)
(*                                                                         *)
(* A step is one committed transaction.  The steps that read the pot to    *)
(* take from it hold the project row FOR UPDATE; an insert of a debit, a   *)
(* run or a funding row takes the same row FOR KEY SHARE through its       *)
(* foreign key and so waits: what they read cannot change under them.      *)
(***************************************************************************)
EXTENDS Integers, FiniteSets

CONSTANTS
  Pass,        \* AgentRun rows
  Rate,        \* what one token costs (effective_rate_per_1k)
  MaxTokens,   \* agent_pass_max_tokens, the safety cap a hold is sized by
  MaxRuns,     \* agent_pass_max_runs
  MaxReplans,  \* agent_pass_max_replans
  MaxBatch,    \* agent_pass_max_batch_runs
  MaxCall,     \* bound on the tokens, and on the bill, of one model call
  Funds,       \* settled funding at first
  MaxFunds,    \* bound on the funding
  LateSweep    \* may a live pass leave its row untouched past the stale cutoff

ASSUME PassAssumption ==
  /\ Rate \in Nat /\ MaxTokens \in Nat /\ MaxRuns \in Nat /\ MaxReplans \in Nat
  /\ MaxBatch \in Nat /\ MaxCall \in Nat /\ Funds \in Nat /\ MaxFunds \in Nat
  /\ LateSweep \in BOOLEAN

VARIABLES
  \* the sums project_budget reads
  funded,    \* settled FundingAllocation rows
  spent,     \* ComputeDebit amounts
  reserved,  \* AgentRun.reserved_amount
  \* AgentRun rows
  status,    \* status[p], or "none" before the row exists
  held,      \* held[p]: reserved_amount, 0 for NULL
  tokens,    \* tokens[p]: tokens_used
  billed,    \* billed[p]: tokens of the pass's debit row, 0 for no row
  \* the worker of a pass
  pc,
  slice,     \* slice[p]: what its budget policy may use
  ceiling,   \* ceiling[p]: does it watch the project pot too (enforce_project_ceiling)
  runs,      \* runs[p]: remaining_runs
  replans,   \* replans[p]: remaining_replans
  batch,     \* batch[p]: steps left of the current plan version
  \* around it
  capped,    \* has the agent seat reached a lifetime cap
  turn,      \* is a harness turn in flight
  unheld     \* what was billed beyond a hold: overshoot of calls, harness turns

pot == <<funded, spent, reserved, unheld>>
row == <<status, held, tokens, billed>>
worker == <<pc, slice, ceiling, runs, replans, batch>>
around == <<capped, turn>>
vars == <<pot, row, worker, around>>

Least(a, b) == IF a < b THEN a ELSE b
Ended == {"completed", "failed"}
Gone == {"none", "over", "dead"}     \* no worker

Available == funded - spent - reserved

\* tokens_to_cost
Cost(n) == n * Rate

\* pass_reserve_amount: the envelope, or all there is when the model is free.
ReserveAmount == IF Cost(MaxTokens) = 0 THEN Available ELSE Least(Cost(MaxTokens), Available)

\* Mutant of BatchCap: one step more than the runs left.
BatchPastCap(left) == left + 1

\* _batch_cap
BatchCap(left) == IF MaxReplans = 0 THEN left ELSE Least(left, MaxBatch)

\* ProjectBudgetPolicy.check
SliceLeft(p) == slice[p] > 0 /\ Cost(tokens[p]) < slice[p]

\* May its policy and, when it watches it, the project pot still pay a step.
Funded(p) == SliceLeft(p) /\ (ceiling[p] => Available > 0)

\* _stop_reason: the slice, the pot or the seat is used up.
MayRun(p) == Funded(p) /\ ~capped

\* Mutant of Release: the sum the next reserve reads keeps the hold.
ReleaseRowOnly(p) == /\ held' = [held EXCEPT ![p] = 0]
                     /\ UNCHANGED reserved

\* release_compute_reservation
Release(p) == /\ held' = [held EXCEPT ![p] = 0]
              /\ reserved' = reserved - held[p]

\* Mutant of Finalize: the verdict is committed, the hold stays.
FinalizeHolding(p, s) == /\ UNCHANGED <<held, reserved>>
                         /\ status' = [status EXCEPT ![p] = s]
                         /\ pc' = [pc EXCEPT ![p] = "over"]

\* _finalize: drop the hold and commit a terminal status.
Finalize(p, s) == /\ Release(p)
                  /\ status' = [status EXCEPT ![p] = s]
                  /\ pc' = [pc EXCEPT ![p] = "over"]

-----------------------------------------------------------------------------
Init ==
  /\ funded = Funds /\ spent = 0 /\ reserved = 0 /\ unheld = 0
  /\ status = [p \in Pass |-> "none"]
  /\ held = [p \in Pass |-> 0]
  /\ tokens = [p \in Pass |-> 0]
  /\ billed = [p \in Pass |-> 0]
  /\ pc = [p \in Pass |-> "none"]
  /\ slice = [p \in Pass |-> 0]
  /\ ceiling = [p \in Pass |-> FALSE]
  /\ runs = [p \in Pass |-> 0]
  /\ replans = [p \in Pass |-> 0]
  /\ batch = [p \in Pass |-> 0]
  /\ capped = FALSE
  /\ turn = FALSE

\* start_agent_pass from the route: a running row that holds nothing yet.
Commission(p) ==
  /\ status[p] = "none"
  /\ status' = [status EXCEPT ![p] = "running"]
  /\ pc' = [pc EXCEPT ![p] = "commissioned"]
  /\ UNCHANGED <<pot, held, tokens, billed, slice, ceiling, runs, replans, batch,
                 around>>

\* _commission_reserved_pass: the orchestrator mints the row with its slice.
CommissionReserved(p) ==
  /\ status[p] = "none"
  /\ Available > 0
  /\ status' = [status EXCEPT ![p] = "running"]
  /\ held' = [held EXCEPT ![p] = ReserveAmount]
  /\ reserved' = reserved + ReserveAmount
  /\ pc' = [pc EXCEPT ![p] = "commissioned"]
  /\ UNCHANGED <<funded, spent, unheld, tokens, billed, slice, ceiling, runs, replans,
                 batch, around>>

\* Mutant of Begin: a pass without a hold plans at once.
BeginUnheld(p) ==
  /\ pc[p] = "commissioned"
  /\ ~capped
  /\ pc' = [pc EXCEPT ![p] = "planning"]
  /\ UNCHANGED <<pot, row, slice, ceiling, runs, replans, batch, around>>

\* The worker starts: crew actor, membership, seat cap under the project lock.
\* A hold already on the row becomes its policy.
Begin(p) ==
  /\ pc[p] = "commissioned"
  /\ ~capped
  /\ slice' = [slice EXCEPT ![p] = held[p]]
  /\ ceiling' = [ceiling EXCEPT ![p] = held[p] = 0]
  /\ pc' = [pc EXCEPT ![p] = IF held[p] = 0 THEN "opening" ELSE "planning"]
  /\ UNCHANGED <<pot, row, runs, replans, batch, around>>

\* No such thread, not a member, a seat at its cap, or a role without a model.
Refuse(p) ==
  /\ pc[p] = "commissioned"
  /\ Finalize(p, "failed")
  /\ UNCHANGED <<funded, spent, unheld, tokens, billed, slice, ceiling, runs, replans,
                 batch, around>>

\* The opening read of the pot, before any lock.
Open(p) ==
  /\ pc[p] = "opening"
  /\ IF Available <= 0
     THEN Finalize(p, "failed")
     ELSE /\ pc' = [pc EXCEPT ![p] = "reserving"]
          /\ UNCHANGED <<reserved, held, status>>
  /\ UNCHANGED <<funded, spent, unheld, tokens, billed, slice, ceiling, runs, replans,
                 batch, around>>

\* Mutant of Reserve: it trusts the opening read and does not look again under the lock.
ReserveOnOpening(p) ==
  /\ pc[p] = "reserving"
  /\ held' = [held EXCEPT ![p] = Cost(MaxTokens)]
  /\ reserved' = reserved + Cost(MaxTokens)
  /\ slice' = [slice EXCEPT ![p] = Cost(MaxTokens)]
  /\ pc' = [pc EXCEPT ![p] = "planning"]
  /\ UNCHANGED <<funded, spent, unheld, status, tokens, billed, ceiling, runs, replans,
                 batch, around>>

\* reserve_compute_for_pass, under the project lock.
Reserve(p) ==
  /\ pc[p] = "reserving"
  /\ IF Available <= 0
     THEN /\ Finalize(p, "failed")
          /\ UNCHANGED slice
     ELSE /\ held' = [held EXCEPT ![p] = ReserveAmount]
          /\ reserved' = reserved + ReserveAmount
          /\ slice' = [slice EXCEPT ![p] = ReserveAmount]
          /\ pc' = [pc EXCEPT ![p] = "planning"]
          /\ UNCHANGED status
  /\ UNCHANGED <<funded, spent, unheld, tokens, billed, ceiling, runs, replans, batch,
                 around>>

\* record_compute_debit: a row for tokens that moved, whatever its amount; the bill is
\* priced per prompt and completion token and need not be Cost(n).
Debit(p, n, bill) ==
  /\ n = 0 => bill = 0
  /\ tokens' = [tokens EXCEPT ![p] = n]
  /\ billed' = [billed EXCEPT ![p] = n]
  /\ spent' = spent + bill
  /\ unheld' = unheld + (IF bill > slice[p] THEN bill - slice[p] ELSE 0)

\* The first planning call answers: debit, release and plan in one commit. A batch it may
\* not run is skipped at the first step's own reading of the pot.
PlanReturns(p) ==
  /\ pc[p] = "planning"
  /\ \E n, bill \in 0 .. MaxCall : Debit(p, n, bill)
  /\ Release(p)
  /\ runs' = [runs EXCEPT ![p] = MaxRuns]
  /\ replans' = [replans EXCEPT ![p] = MaxReplans]
  /\ \E k \in 0 .. BatchCap(MaxRuns) :
       /\ batch' = [batch EXCEPT ![p] = k]
       /\ pc' = [pc EXCEPT ![p] = IF k = 0 THEN "closing" ELSE "running"]
  /\ UNCHANGED <<funded, status, slice, ceiling, around>>

\* The first planning call fails, perhaps after tokens moved (AgentLlmError).
PlanFails(p) ==
  /\ pc[p] = "planning"
  /\ \E n, bill \in 0 .. MaxCall : Debit(p, n, bill)
  /\ Finalize(p, "failed")
  /\ UNCHANGED <<funded, slice, ceiling, runs, replans, batch,
                 around>>

\* One instrument step of the batch, landed or failed: the attempt costs the cap.
RunStep(p) ==
  /\ pc[p] = "running"
  /\ batch[p] > 0 /\ runs[p] > 0
  /\ MayRun(p)
  /\ runs' = [runs EXCEPT ![p] = @ - 1]
  /\ batch' = [batch EXCEPT ![p] = @ - 1]
  /\ UNCHANGED <<pot, row, pc, slice, ceiling, replans, around>>

\* A budget stop: the rest of the batch is skipped and there is no replan.
StopRunning(p) ==
  /\ pc[p] = "running"
  /\ batch[p] > 0 /\ runs[p] > 0
  /\ ~MayRun(p)
  /\ batch' = [batch EXCEPT ![p] = 0]
  /\ pc' = [pc EXCEPT ![p] = "closing"]
  /\ UNCHANGED <<pot, row, slice, ceiling, runs, replans, around>>

\* The batch is through: replan while both caps allow it.
EndBatch(p) ==
  /\ pc[p] = "running"
  /\ batch[p] = 0 \/ runs[p] = 0
  /\ IF runs[p] = 0 \/ replans[p] = 0
     THEN /\ pc' = [pc EXCEPT ![p] = "closing"]
          /\ UNCHANGED replans
     ELSE /\ pc' = [pc EXCEPT ![p] = "replanning"]
          /\ replans' = [replans EXCEPT ![p] = @ - 1]
  /\ UNCHANGED <<pot, row, slice, ceiling, runs, batch, around>>

\* A replan answers: its tokens join the row and no debit is written.
ReplanReturns(p) ==
  /\ pc[p] = "replanning"
  /\ \E n \in 0 .. MaxCall : tokens' = [tokens EXCEPT ![p] = @ + n]
  /\ \E k \in 0 .. BatchCap(runs[p]) :
       /\ batch' = [batch EXCEPT ![p] = k]
       /\ pc' = [pc EXCEPT ![p] = IF k = 0 THEN "closing" ELSE "running"]
  /\ UNCHANGED <<pot, status, held, billed, slice, ceiling, runs, replans, around>>

\* A replan fails: the pass closes with what has landed.
ReplanFails(p) ==
  /\ pc[p] = "replanning"
  /\ \E n \in 0 .. MaxCall : tokens' = [tokens EXCEPT ![p] = @ + n]
  /\ pc' = [pc EXCEPT ![p] = "closing"]
  /\ UNCHANGED <<pot, status, held, billed, slice, ceiling, runs, replans, batch,
                 around>>

\* The closing commit.
Finish(p) ==
  /\ pc[p] = "closing"
  /\ Finalize(p, "completed")
  /\ UNCHANGED <<funded, spent, unheld, tokens, billed, slice, ceiling, runs, replans,
                 batch, around>>

\* Anything unexpected: roll back, reload the row, fail it.
Fails(p) ==
  /\ pc[p] \notin Gone
  /\ Finalize(p, "failed")
  /\ UNCHANGED <<funded, spent, unheld, tokens, billed, slice, ceiling, runs, replans,
                 batch, around>>

-----------------------------------------------------------------------------
\* The process dies, or even the failed commit fails: the row stays running.
Dies(p) ==
  /\ pc[p] \notin Gone
  /\ pc' = [pc EXCEPT ![p] = "dead"]
  /\ UNCHANGED <<pot, row, slice, ceiling, runs, replans, batch,
                 around>>

\* Mutant of Untouched: the cutoff is shorter than a live worker's silence.
UntouchedBriefly(p) == pc[p] \notin Gone

\* A worker whose row a reader may find older than the cutoff: a lost one, or one that
\* waits on a model call, which has a timeout per read and none in all.
Untouched(p) == pc[p] = "dead" \/ (LateSweep /\ pc[p] \in {"planning", "replanning"})

\* _sweep_if_stale on a read: the row fails and its hold is dropped; a live worker
\* does not notice.
Sweep(p) ==
  /\ status[p] = "running"
  /\ Untouched(p)
  /\ Release(p)
  /\ status' = [status EXCEPT ![p] = "failed"]
  /\ UNCHANGED <<funded, spent, unheld, tokens, billed, worker, around>>

\* create_funding of a native, settled allocation.
Fund ==
  /\ funded < MaxFunds
  /\ funded' = funded + 1
  /\ UNCHANGED <<spent, reserved, unheld, row, worker, around>>

\* Some other pass or turn of the same seat reaches its lifetime cap.
SeatSpent ==
  /\ ~capped
  /\ capped' = TRUE
  /\ UNCHANGED <<pot, row, worker, turn>>

\* A harness turn is admitted: its hold row has amount 0 (at most one: HarnessMeter).
TurnStarts ==
  /\ ~turn
  /\ funded = 0 \/ Available > 0
  /\ turn' = TRUE
  /\ UNCHANGED <<pot, row, worker, capped>>

\* record_spend or release_hold of that turn; a provider's overshoot is billed too.
TurnEnds ==
  /\ turn
  /\ \E bill \in 0 .. MaxCall : spent' = spent + bill /\ unheld' = unheld + bill
  /\ turn' = FALSE
  /\ UNCHANGED <<funded, reserved, row, worker, capped>>

Work(p) == \/ Begin(p) \/ Refuse(p) \/ Open(p) \/ Reserve(p)
           \/ PlanReturns(p) \/ PlanFails(p)
           \/ RunStep(p) \/ StopRunning(p) \/ EndBatch(p)
           \/ ReplanReturns(p) \/ ReplanFails(p) \/ Finish(p) \/ Fails(p)

PassNext(p) == Commission(p) \/ CommissionReserved(p) \/ Work(p) \/ Dies(p) \/ Sweep(p)

Next == (\E p \in Pass : PassNext(p)) \/ Fund \/ SeatSpent \/ TurnStarts \/ TurnEnds

Spec == Init /\ [][Next]_vars

\* A live worker is always resumed: its calls have timeouts, its locks are short.
FairSpec == Spec /\ \A p \in Pass : WF_vars(Work(p))

-----------------------------------------------------------------------------
Stages == {"none", "commissioned", "opening", "reserving", "planning",
           "running", "replanning", "closing", "over", "dead"}

TypeOK ==
  /\ funded \in Nat /\ spent \in Nat /\ reserved \in Int /\ unheld \in Nat
  /\ status \in [Pass -> {"none", "running"} \cup Ended]
  /\ held \in [Pass -> Nat]
  /\ tokens \in [Pass -> Nat]
  /\ billed \in [Pass -> Nat]
  /\ pc \in [Pass -> Stages]
  /\ slice \in [Pass -> Nat]
  /\ ceiling \in [Pass -> BOOLEAN]
  /\ runs \in [Pass -> 0 .. MaxRuns]
  /\ replans \in [Pass -> 0 .. MaxReplans]
  /\ batch \in [Pass -> 0 .. MaxRuns]
  /\ capped \in BOOLEAN
  /\ turn \in BOOLEAN

\* Concurrent passes cannot oversell the pot: what is spent and held exceeds the funding
\* by no more than what was billed without a hold, the part of a call's bill over its
\* pass's slice and the harness turns' bills.
PotNotOversold == spent + reserved <= funded + unheld

\* What the next reserve will read as reserved changes with the hold of one row and by as
\* much: no hold is overwritten, and a crash, a sweep or an error never leaves money that no
\* row accounts for (ProjectBudget.reserved is the sum of AgentRun.reserved_amount).
HoldsAddUp ==
  [][\/ UNCHANGED <<reserved, held>>
     \/ \E p \in Pass : /\ held' = [held EXCEPT ![p] = held'[p]]
                          /\ reserved' = reserved + held'[p] - held[p]]_vars

\* A pass that has ended pins nothing of the pot, whichever of its worker, its error
\* handler or a reader's sweep ended it.
EndedHoldsNothing == \A p \in Pass : status[p] \in Ended => held[p] = 0

\* No model is called for a pass that holds nothing: an exhausted project never spends.
PlansOnHold == \A p \in Pass : pc[p] = "planning" => held[p] > 0 /\ held[p] = slice[p]

\* A trace's verdict is final: a row swept as lost is not completed later by a worker
\* that was alive, nor a finished one failed by a late sweep.
StatusIsFinal ==
  [][\A p \in Pass : status[p] \in Ended => status'[p] = status[p]]_vars

\* Every token a finished pass recorded was billed to the project.
TokensBilled ==
  \A p \in Pass : status[p] = "completed" => billed[p] = tokens[p]

\* A hold is given back unless the worker is lost: errors, refusals, budget stops and
\* failed plans all end in a release.
HoldsReturn == \A p \in Pass : held[p] > 0 ~> (held[p] = 0 \/ pc[p] = "dead")
=============================================================================
