# OpenTheory: models, checks and proofs

OpenTheory is a FastAPI/PostgreSQL service in which humans and agents do research on
shared projects. This directory models what can go wrong in it when several sessions,
processes and people act at once: who may spend and how much, who may act, what the
append-only ledger tells, and what an instrument's answer is worth. Paths are relative to
`backend/app/`.

Read first: `PassBudget.tla` (a pass and its pot), `HarnessMeter.tla` (the gateway's
budget), `Campaign.tla` (the loop above the passes), `Ledger.tla` (what they write),
`Roster.tla` (who may do it), `Bench.tla` (one run of an instrument).

## The system

A *project* row carries threads, claims, members, an agent roster, an append-only ledger of
checkpoints, and a pot of money (`FundingAllocation` minus `ComputeDebit` minus the holds of
running passes). What must be decided against the pot or the roster locks the project row
`FOR UPDATE`; the ledger is written without a lock. Who acts:

* **Harness turns.** Gateway processes outside the API serve completions for one project.
  Each keeps an in-memory `HarnessSession` (turn index, bound actor) and shares the debit
  table with the others. A turn holds the rest of the UTC day's tokens by an amount-0 debit
  row, calls the provider, and settles.
* **Agent passes.** A background task per `AgentRun` row: hold a slice of the pot, plan
  with a model, choose a branch, run instruments, replan, finish. A reader of the row sweeps
  it when it looks lost.
* **Orchestrations.** A background task per `OrchestrationRun` row: classify the project's
  threads, commission passes in waves, await each wave.
* **Campaigns.** A background task per `ResearchCampaign` row: waves of orchestrations.
* **People** over HTTP: they write the ledger, run instruments, manage members, agents and
  tokens, and start, cancel and read all of the above.

They meet in the project row's lock, in the sums over `ComputeDebit`, `AgentRun.reserved_amount`
and `FundingAllocation`, in the `status` columns they read of each other, in the branches they
write on, and in the semaphore of each process that bounds how many instruments run.

### Inventory

| component (source) | state | operations | what is hard | what makes it correct | status |
|---|---|---|---|---|---|
| harness meter (`harness/session.py`, `gateway.py`, `turns.py`, `services/harness_meter.py`) | debit, hold and release rows; session's turn index and bound actor | authorize, record_spend, release_hold, advance, recover stale holds | overlapping requests and processes, crash between hold and settlement, a turn slower than the TTL, midnight, overshoot | one running turn, day's cap, every hold released once, no false refusal | `HarnessMeter` |
| seat caps (`services/agent_caps.py`) | roster caps, debits by actor | load room, refuse | two turns of a seat in two processes | a seat's lifetime spend is bounded | in `HarnessMeter`; a flag in `PassBudget` |
| pot (`services/compute.py`, `funding.py`) | funded, spent, reserved | fund, reserve, debit, release | concurrent reserves, bills that differ from holds | not oversold; holds add up | `PassBudget` |
| agent pass (`services/agent_runs.py`) | `AgentRun` row; locals of the worker | commission, execute, finalize, sweep; choose and adopt a branch | failure at every await, sweep of a live worker, reads before locks | holds return, verdict final; open agent lines bounded | `PassBudget` (money), `Ledger` (branch, writes) |
| orchestration (`services/orchestration.py`) | `OrchestrationRun` row; pending, wave | start, run, cancel, sweep | waves, peers on one thread, lock kept over a wave | one cycle per thread, passes counted, it ends | `Orchestration`; its promise is `CycleRows` |
| campaign (`services/campaigns.py`) | `ResearchCampaign` row; wave | start, run, cancel, sweep | cancel against a wave being started, error budget over parallel cycles, cycles that never start, two sweeps | one loop, trailing errors, cancel bites, stop reason with cause | `Campaign` |
| ledger (`services/checkpoints.py`, `branches.py`, `merges.py`, `tags.py`) | checkpoints, parents, refs, branches, tags | create, fork, close, merge, tag | status read without a lock, stamp at the flush and visible at the commit, unique name | ledger tells what the rows say; sealed lines go quiet | `Ledger` |
| validations, claims, threads, evidence (`services/validations.py`, `claims.py`, `evidence.py`) | rows | create, attach, validate | read by diff and blame at any moment | attribution | in `Ledger` |
| tool runs (`services/tool_runs.py`) | artifact, evidence, links, checkpoint | run instrument | refused after the evidence is flushed; failed after the commit | one verdict and one row a call; provenance | `Ledger`, `Bench` |
| grounding, diff, blame (`services/grounding.py`, `diff.py`, `blame.py`, `signals.py`) | none (derived) | grade, headline, compare two checkpoints, explain | presence by ref or by date, merges, rows nobody named | forward diffs only add; blame explains diff | `Grounding`, `ResearchDiff` |
| roster, members, tokens (`services/agent_roster.py`, `project_members.py`, `agent_tokens.py`, `agent_actors.py`) | seats, roles, session tokens | deploy, suspend, revoke, resume, transfer, remove, mint, rotate | requests that check and then write; transfer against seats | one owner; a live token's agent may act; running seats were chosen | `Roster` |
| invitations (`services/invitations.py`) | invitation row | invite, accept, decline, revoke | accept against revoke, two locks | one member per accepted invitation | `Roster`; its promise is `Membership` |
| toolbench (`toolbench/`) | semaphore, child processes, pipes | acquire, execute, drain, terminate; the instruments | deadlines against hand-over, answers against signals, deaths; what an answer may claim | no slot lost, no stray child, minted from an answer, grade earned | `Bench`, `Formula`, `Instruments` |
| live MCP door (`harness/live_mcp.py`) | none | tool calls | failure after the commit | what it tells is so | `run_instrument` in `Bench` |
| ops snapshot, composition, campaign child, planner and pricing, routes, schemas, account, migrations, frontend | little or none | read, validate, call out | wording, configuration, network | - | not modelled |

`PROJECT.json` lists the same components with reasons, and every hazard at its line.

## Modules

| module | what it is |
|---|---|
| `MeteredSlot` | what the meter promises: a slot that one request owns; spend net of overshoot fits the day |
| `HarnessMeter`, `HarnessMeterProofs` | the meter, step by step between the awaits of the code; theorems |
| `PassBudget`, `PassBudgetProofs` | pot and passes, a step is a committed transaction; theorems |
| `CycleRows` | what an orchestration promises whoever commissions it |
| `Orchestration`, `OrchestrationProofs` | EXTENDS `PassBudget`: orchestrators, the project row's lock where it outlasts a step; theorems |
| `Campaign`, `CampaignProofs` | EXTENDS `CycleRows`: campaigns over what orchestrations promise; theorems |
| `Grounding` | grades, rungs, headline and movement of a claim, as operators on sets of evidence |
| `Ledger` | EXTENDS `Grounding`: sessions that write checkpoints, branches, claims, evidence, validations, tags; agent passes on their line |
| `ResearchDiff`, `LedgerProofs` | EXTENDS `Ledger`: signal, ancestors, diff, blame, and the properties; theorems |
| `Membership` | what a project promises about its people |
| `Roster`, `RosterProofs` | roles, invitations, seats and tokens under two row locks; theorems |
| `Workbench` | what the toolbench promises: bounded, one verdict a call, written once |
| `Bench`, `BenchProofs` | one run of an instrument from the door to its row, with its child process; theorems |
| `Formula`, `FormulaProofs` | formulas of the Z3 instruments: which are admitted, how they are typed, what Z3 is asked and what was meant; theorem |
| `Instruments` | what each instrument may answer, and what is true of the question |
| `Toolbench` | `Bench` with `Instruments` and `Grounding`: what a recorded grade is worth |
| `MC*` | constants for TLC |

Five abstractions are stated as specifications and shown to be implemented: `HarnessMeter`
implements `MeteredSlot` (the owner of the slot is the running request); `Orchestration`
implements `PassBudget!Spec` with the identity mapping (by proof alone), and
`CycleRows!RowsSpec`, on which `Campaign` is built; `Roster` implements `Membership`; `Bench` implements `Workbench`.
`HarnessMeter` is present in `PassBudget` as `TurnStarts` and `TurnEnds` (one turn at a time,
with a bill that no hold covers): the justification is the theorem `OneTurnTheorem`.

Operators that follow a line `Mutant of X` are plausible defects of `X`; no specification
uses them. `PROJECT.json` says which property each one breaks.

### HarnessMeter and the code

`pc[r]` follows a request through `gateway.chat_completions`: `quoting` (price quote
awaited), `locking` (member found, waiting for the project row), `calling` (hold committed,
provider awaited), `settling` or `failed` (answer there, `record_spend` or `release_hold`
waiting for the row), `recorded` (committed, `advance()` not yet run). `Identify` writes
`bound` before the lock is asked for, as `authorize` does, and may refuse at any time: the
credentials of the session and of the MCP child may disagree. `Authorize` is the whole locked
transaction: orphans are released, the gates asked in order, the hold written. A refusal
writes nothing, because its transaction rolls back, orphan releases included. `used` is the
sum that `harness_tokens_used_today` would return and is kept incrementally; at midnight it
restarts. `spentToday` and `overToday` are today's spend rows, with the `overshoot_tokens`
mark. Prices are one dollar a token: the known price matters for whether the pot bounds the
clamp, not for how much. `Crash` loses the session and the locals of its requests, not the
rows. `turns.supervise_turn` takes the same steps as a request, from `Identify` on, with a
session of its own for each call.

### PassBudget and the code

A worker's `pc` names the transaction it is about to run: `commissioned` (row committed),
`opening` (unlocked read of the pot), `reserving` (`reserve_compute_for_pass`), `planning`
(waiting for the planner), `running` (a step of the batch), `replanning`, `closing`. The
readings of the pot that are not under the lock are steps of their own (`Open`, `RunStep`,
`StopRunning`), so other actors come in between. The *bill* of a call and its token count are
chosen independently: the debit is priced by prompt and completion tokens, the hold by one
effective rate. `unheld` accumulates what was billed that no hold covered; the code has no
such column, it is what the bound of `PotNotOversold` is about. `Dies` includes the case that
even the commit of the failure fails. `Sweep` changes the row and not the worker: a live
worker goes on. `LateSweep` says whether a reader's cutoff may find a live worker, one waiting
on a model call, too old.

### Orchestration and the code

`opc` is the place in `_execute`: `opening` (classification), `looping` (head of the loop),
`filling` (commissioning the wave one by one), `waving` (gather), `closing`. The sequence
`pending` keeps its order; leftovers of a wave are what remains of it. `hit` collects
`hit_budget`, `hit_cap` and `cancelled`, from which the stop reason follows with the code's
priority. `lock` is the session that keeps the project row locked after its step: only
`_commission_reserved_pass` returning `None` does that. Steps that ask for the row, or insert
a row that refers to it (PostgreSQL takes `FOR KEY SHARE` on it), wait (`NeedsRow`,
`RowFree`). A pass of a wave of one runs on the orchestrator's session and does not wait for
it (`SessionOf`). An orchestrator that fails in the middle of a wave leaves its passes without
a worker (`Worked`).

### Campaign and the code

`cpc` is the place in `run_campaign`: `looking` (head of the loop), `planning` (the campaign is
reloaded before each cycle of the wave), `counting` (`current_cycle` is about to be committed),
`beginning` (`start_orchestration`), `waving`, `recording`, or the verdict `_finalize` is about
to write. The claims, the pot and the passes are outside: what the campaign reads of them
(`eligible`, `funded`) is chosen anew at every read. A cancel is two steps, the read of the
running rows (`CancelReads`) and the commit of the flags (`CancelCommits`), because cycles start
and end in between. `lost` are the orchestrations whose coroutine raised out of the wave or
whose process died; `Lose` is the row's failure, by the wave's handler or by a sweep. A campaign
and its orchestrations are swept by different cutoffs: `SweepCampaign` and `SweepOrchestration`
come in either order. `errors` is `consecutive_errors`; `AfterWave` asks the stop tests in the
code's order. `atCancel` is history.

### Ledger and the code

`tx[s]` is the transaction of a session. Three steps: it reads and decides (the reads of one
service are one step: a commit between two of them is left out); `Flush`
gives the rows their `created_at` (`TimestampMixin` sets it in Python when the row is flushed);
`Commit` makes them visible. So rows may become visible in another order than that of their
stamps. A row is identified by its stamp, and the rows of one transaction share one. An update of
the same branch, or an insert of the same tag, waits for the session that has flushed it first
(`Waits`); the loser of a tag fails (`Conflicts`), the later seal of a branch overwrites the
earlier. `Lost` is a session that ends with nothing committed. Merges take the newest
checkpoint of each source as parents; the checkpoints of validations, tool runs, closes and tags
have no parent in the code, and so none here. An agent pass (`pass[s]`) chooses a line
(`ReuseLine`, `ForkLine`, `StayOnMain`), commits its name on the run row (`AdoptLine`) and
writes on it; `PassRuns` keeps the evidence of a refused step, as the pass's handler commits
without a rollback, while the route (`RunInstrument`) drops it.

`ResearchDiff` has what is read: `Ancestors` (as the intersection of the closed sets: no
recursion, so that it can be reasoned about), `MergeBase`, presence by ref or else by date, the
signal and the evidence at a checkpoint, `Diff` and `BlameStep`. `Grounding` has the grades.

### Roster and the code

A management request locks the project row and then reads (`Manage`: `seen` is what it read),
decides and writes (`RemoveMember`, `Transfer`, `Invite`, `Deploy`, `Patch`, `Resume`, `Mint`,
`Rotate`, `RevokeToken`). An accept locks the invitation's row first and the project row by its
insert (foreign key); a revoke the other way round: the two can wait for each other, PostgreSQL
aborts one, and `Rollback` is that abort, a refusal or a failure. The suspensions and
revocations of a transfer are part of its transaction. `CrewReads` and `CrewSeated` are the
first pass of a project, which reads the owner without the lock. `left` is history: who handed
the project over since the seat was given.

### Bench and the code

`pc[c]` follows a call of `run_instrument`: in line for the semaphore of its process, the child
started, its pipe drained against the clock, the child joined, terminated, killed, the slot
given back, the row written, the answer told. Time is a choice: any wait with a deadline may
run out, and nothing makes a child answer, exit, or die of a signal in time. The semaphore is
asyncio's: `release` hands the slot to the first in line, who may have given up before it is
resumed (`GiveUpHanded`). The library queues a newcomer also while a handed waiter has not
resumed, which differs from `Enter` in timing only. `Die` may leave half an answer in the pipe
(`torn`). A call that starts is put to one *question*, an instrument with abstracted inputs.

`Formula` keeps what the Z3 instruments do to a formula: which syntax is admitted, how names get
a sort, how a chained comparison, an implication or a quantifier is translated, with the
precedence of the parser; and, apart from it, what the text means in Python's reading.
`Instruments` has an operator for each instrument: the set of statuses it may answer to a
question, from the structure of its code (checks, ladders, caps, fallbacks), and `Earned`, what
is true of the question. The engines (Z3, Lean, SymPy, Arb, the catalogues) are external and
answer correctly or not at all.

## What is checked

`cd tla; tlc -workers 2 -config X.cfg M`.

| run | module | size | question |
|---|---|---|---|
| `meter_day` | `MCHarnessMeter` | 2 processes, 3 requests, 1 capped seat, cap 2, days of 3 ticks, TTL 2, turns of 1 | the meter's safety with crashes, orphans, midnight; refinement of `MeteredSlot` |
| `meter_slow` | `MCHarnessMeter` | 1 process, 2 requests, 2 credentials, TTL 1 shorter than a turn (2) | a live turn's hold is recovered under it: holds still come back |
| `pass_pot` | `MCPassBudget` | 2 passes, 2 runs, 1 replan, pot 1 to 2 | the pot's safety and that holds return |
| `orch_cycles` | `MCOrchestration` | 2 orchestrations, 2 threads, 2 pass rows, one pass each | peers of a campaign; refinement of `CycleRows` |
| `orch_waves` | `MCOrchestration` | 1 orchestration, 2 threads, 3 rows of which 1 is a member's | waves, what becomes of each thread, liveness |
| `orch_stuck` | `MCOrchestration` | waves of 3 over 3 threads, pot for 2 | expected violation of `OrchestrationEnds` |
| `campaign` | `MCCampaign` | 1 campaign of 3 cycles in waves of 2, error budget 2, 2 orchestration rows | campaign beside standalone orchestrations, cancels, deaths, sweeps; it ends |
| `ledger_lines` | `MCLedger` | 1 thread, 3 branches, 1 tag, 2 sessions that are both workers, 4 flushes | forks, seals and tags that race; agent lines |
| `ledger_diff` | `MCLedger` | 2 branches, 1 claim, 2 sessions, runs that prove and refute, 4 flushes | diff, blame and grounding of every ledger that can come about |
| `ledger_orphan` | `MCLedger` | 1 branch, 1 claim, 2 sessions, 5 flushes | expected violation of `EvidenceHasProvenance` |
| `roster` | `MCRoster` | 2 accounts, 1 named agent and the crew, 2 tokens, 2 requests | ownership, invitations, tokens, seats; refinement of `Membership` |
| `bench` | `MCBench` | 3 calls at 1 slot; about 580 questions, of every instrument | slots, children, deadlines; what a recorded grade is worth; refinement of `Workbench` |

### Properties

* Meter. `RunningTurnHolds`, `DailyCap`: the day's room goes to one turn at a time, over all
  processes, and bounds the day's spend. `LedgerBalances`: no release is lost, doubled or
  credited to a wrong hold. `HonestRefusal`: a daily-cap refusal has a reason, and a dead turn's
  hold is none for longer than the TTL. `AgentCapHolds`: the seat's lifetime cap. `HoldsComeBack`:
  liveness, also when the TTL is too short.
* Pot. `PotNotOversold`: what is spent and held exceeds what was funded only by bills no hold
  covered. `EndedHoldsNothing`; `HoldsReturn` (liveness).
* Orchestrations. `OneCyclePerThread` over peers, `CountsItsPasses` (the counter and the rows),
  `NoneLeftRunning`, `DecidedOnce` (no thread is lost between a wave, its leftovers and the skips,
  nor decided twice), `OrchestrationEnds`, `ImplementsRows`.
* Campaigns. `OneLoop`, `ErrorsAreTrailing` (the error budget over cycles that end together),
  `CancelBites` (one more cycle at most), `CompletedLeavesNone`, `StopsForCause`, `CampaignEnds`.
* Ledger. `LedgerTells`: rows and events agree, whoever raced to seal a branch or take a name.
  `SealedStaysQuiet`: once nothing is in flight on a sealed line, nothing comes.
  `AgentLinesBounded`: racing passes fork a line each, never more than the workers that can race.
  `SettledStays`: refuted is final, and proven gives way to refuted alone.
* Diff and blame. `ForwardDiffOnlyAdds`: toward a descendant nothing is removed and no rung lost.
  `BlameExplainsDiff`: a change has a checkpoint in the interval that blame lists, or a row that
  no checkpoint ever named. `BlameCreditsRung`: the rung recorded evidence gives is reached by a
  step of the chain.
* Roster. `OneOwner`, `MemberAccepted`, `LiveTokensAct`, `SeatsChosen`, `ImplementsDoor`.
* Bench. `SlotsConserved`, `NoStrayChild`, `MintedFromAnswer`, `GradesEarned`, `EveryCallEnds`,
  `ImplementsWorkbench`.

The type invariants, and the invariants that the proofs lean on (`OneRunningTurn`,
`ReleasedOnce`, `PlansOnHold`, `HoldsAddUp`, `StatusIsFinal`, `CyclesNumbered`, `MergeBaseIsNewest`,
`RefsResolve`), are proved and have no run of their own.

### Bounds, and why they are enough

* Meter: two processes and three requests: one turn runs, one is in the gates, one is an
  orphan; a fourth only repeats one of these. One seat shares its cap over both processes. Two
  UTC days, so a midnight comes with every state of a request; `MaxNow` stops the clock there.
  `Overshoot` 1: whether a provider may report past the clamp matters, not how far.
* Passes: two on a pot that pays one slice: both may read it open, the second reserve must
  be refused under the lock, or succeed when funding (`MaxFunds`) arrived between the read
  and the lock. A slice smaller than the envelope needs an envelope of 2 and is left to the
  theorem `PotTheorem`, which covers every size. `MaxCall` 2 makes calls larger than the
  slice (1), equal and free. Two runs, one replan, batches of one: every branch of the loop,
  among them a second batch and a replan without runs left.
* Orchestrations: `MaxRuns` is 0, since what a pass does between plan and close does not
  touch anything an orchestration reads (`pass_pot` checks it). `Routed` splits the pass rows
  between the route and the orchestrations: which rows a member may mint is a bound only.
* Campaign: three cycles in waves of two give a full wave, a wave cut short by the cap, and a
  wave that follows one with errors; an error budget of 2 is reached within a wave, over two
  waves, or interrupted. Two rows are all that may run at once; with a third cycle one of them
  fails to start. One cancel (`marked`): a repeat does to later rows what `CancelOne` does.
* Ledger: `MaxStamps` bounds the flushes. Four are a root, a fork, a seal or write in flight and
  one that overtakes it; three branches and two workers let both fork while an old line is
  closed. `ledger_diff` has two branches with one claim, so that evidence comes before, beside
  and after a merge; its outcome `contradicts` is the only one a single validation needs to
  change a signal, and its two runs are the strongest support and a refutation. Proofs cover the
  rest.
* Roster: two accounts, of whom one is in at first: every transfer, removal and return; two
  requests are one that reads and one that writes meanwhile; two tokens are an old one and its
  successor. `CrewRace` is off: what it would show is described below.
* Bench: with one slot, three calls are one at the bench, one that was handed the slot and one
  behind it. A question is asked by one call alone; two calls ask the same compute question,
  or one does beside two retrievals. Questions are small: two to three grid points, integers -1 to 3,
  formulas of depth three with every connective and quantifier, sources with up to three traits.
* Symmetry: requests (`meter_day`), passes and orchestrations (`orch_cycles`), sessions and
  branches (ledger), requests, tokens and accounts but the founder (`roster`). No run with
  fairness uses it.
* Deadlock is checked in `roster` (a request can always be rolled back) and `bench` (whose only
  rest is that every call has ended or is stuck and every child is gone). The other systems are
  finite in number and stop when they have ended, or when a bound is reached: `CHECK_DEADLOCK
  FALSE`. That nobody waits for ever is what the liveness properties say.

### Fairness

* `HarnessMeter!FairSpec`: weak fairness of each request's next step. The event loop
  resumes every coroutine, the provider call has a total deadline (`gateway.complete`), and
  the project row is locked for single transactions only. Crashes, rotations and removals
  have none.
* `PassBudget!FairSpec`: weak fairness of each live worker's next step: model calls have read
  timeouts and instruments wall-clock limits. No fairness of readers: nobody has to poll, so
  a dead worker's hold may stay for ever and `HoldsReturn` excepts dead workers.
* `Orchestration!OFairSpec`: weak fairness of each orchestrator and of each worker, when they
  are not waiting for the row. `Cancel`, `Start`, funding, death and sweeps have none.
* `Campaign!FairSpec`: weak fairness of the campaign's next step and of each orchestration that
  is worked, which is what `OrchestrationEnds` grants. Sweeps, cancels and failures have none.
* `Bench!FairSpec`: weak fairness of the parent only. A child owes nothing: it may never
  answer, never exit, and ignore SIGTERM.

## Where the code falls short

Two disagreements between the code and what it says of itself are runs:

1. **A wave that waits for itself** (`orch_stuck`). `_commission_reserved_pass` returns `None`
   with the row locked (`services/orchestration.py:612-617`). With `orchestration_concurrency`
   of 3 or more, two passes of the wave already wait for that row while their orchestrator
   awaits them. With the default of 2 it does not happen (`orch_waves`): a wave that meets
   an empty pot has at most one pass and runs on the session that has the lock.
2. **Evidence without provenance** (`ledger_orphan`). A pass whose line is sealed under it has
   flushed its evidence when the chokepoint refuses the checkpoint; the handler commits
   (`services/agent_runs.py:679-680`), although its comment says "nothing was minted".

The others are hypotheses of the models or of the theorems, or choices of what is asked, and a
reader of the results should know them:

* **Midnight** (`QuietMidnight`). A turn in flight at midnight holds room of yesterday and is
  billed to today, beside a turn of today; `harness/turns.py:22-26` promises overlapping
  authorizes cannot debit past the cap.
* **Turn cap.** The index is compared before the awaits and advanced after the answer, so
  overlapping requests pass it together; `harness/turns.py:18` says crossing the cap refuses.
  No property states the cap.
* **The actor of a spend.** `bound_actor_id` belongs to the process's session. After the
  credential file was replaced, another request, even a refused one, re-binds it, and the
  running turn's spend is stamped with the new actor (`Identify`, `Stamped`). `meter_slow`
  rotates credentials; the property that a spend bears the admitted actor is violated there, and
  is not a run.
* **Replans are not billed.** `services/compute.py:139-140` says tokens that moved are always
  billed; only the first planning call has a debit.
* **A live pass can be swept** (`LateSweep`). `services/agent_runs.py:996-997` says it cannot.
  The planner's call has a timeout per read and none in total, so it may stay silent longer
  than the cutoff. With `LateSweep` `PotNotOversold` fails.
* **Main line by a stale reading.** A pass that saw an empty pot skips the branch lookup; if the
  pot has money again at the first step, that step lands on the main line although the thread
  has a branch point (`services/agent_runs.py:129`). `PassBudget` leaves the line out, `Ledger`
  the pot.
* **The crew's first owner** (`CrewRace`). A first pass reads the owner without the lock
  (`services/agent_actors.py:96`) and may seat the crew, active, for somebody who has handed the
  project over meanwhile; `docs/plans/agent-actor-identity.md` has the new owner resume each
  agent. With `CrewRace` `SeatsChosen` fails.
* **Accept against revoke.** Each holds the row the other asks for; PostgreSQL aborts one, which
  is a 500. `services/invitations.py:345` says the revoke "serializes on the row". Nothing wrong
  is committed (`MemberAccepted`).
* **Small ones of the roster.** An invitation that offers OWNER is accepted by the schema and can
  never be accepted by its invitee (unique index). `remove_member` leaves the seats ACTIVE that
  the removed admin answers for.
* **Half an answer** (`DrainSticks`). A child killed in the middle of writing a large answer
  leaves its parent in `Queue.get` for good: the `except (EOFError, OSError)` of `_drain_result`
  counts on an end of file, but the parent holds the write end open itself. `EveryCallEnds` names
  this as the only way not to end.
* **A lost reading.** `create_checkpoint` commits and reads its row back; when that read raises,
  the door says `minted: false`, "mints nothing" (`harness/live_mcp.py:465`), and the row exists.
  `MintedFromAnswer` leaves exactly this to the answer `failed`.
* **Texts that are left out of `bench`**, because the answer would not bear its grade: `^` (the
  formula path binds it weaker than `*`, SymPy's like `**`), decimals in `calc.eval`,
  `expr.compare` and `geometry.coordinate_measure` (floats are accepted although
  `calc_eval.py:5-6` says "exact, never a float": `0.1 + 0.2 == 0.3` is refuted), failing points
  of `counterexample.search` that SymPy cannot decide, a `theorem` line inside a Lean comment, a
  first hit of a free-text catalogue search that is another work.

## What is proved

All proofs are checked by `tlapm` for every value of the constants that satisfies the
modules' assumptions (`MeterAssumption`, `PassAssumption`, `OrchAssumption`, `CampAssumption`,
`LedgerAssumption`, `RosterAssumption`, `BenchAssumption`, `FormulaAssumption`: ranges, distinctness
and finiteness only; `ToolbenchAssumption`, which joins the bench and the instruments).

**Meter.** `TypeOK` needs nothing else. `LedgerBalances`, `ReleasedOnce` and `HonestRefusal`
assume `QuietMidnight`. `OneRunningTurn`, `RunningTurnHolds`, `DailyCap` and `ImplementsSlot`
assume also `TTL > MaxTurn`, which the process checks when it starts
(`assert_hold_ttl_covers_turn`). The induction is in two layers. `Balanced` says that today's sum
is the spend plus at most one open hold, and that an open hold leaves no room. The last part is
what makes it inductive: only because a hold takes all the room, nobody else passes the gate
before it is released. `Exclusive` adds that a running turn's hold is younger than the TTL, so it
is never an orphan, and that the open hold is exactly the room that was left, so a spend within
the clamp fits. `LedgerBalances` holds without the second layer: a TTL that is too short costs
room and no accounts. `AgentCapHolds` assumes further `OneSeat`: the credential file of a process
names one seat. It is true only so: where the file changes seats,
a turn admitted against one cap is billed to another ("The actor of a spend", above). `Seats` adds
to the two layers that a turn is billed to the seat it was admitted for (`Seated`), and that the
running turn's clamp fits what the cap leaves (`Reserved`), over a sum of overshoots that grows
with each settled turn. The lemmas on `SumFunctionOnSet` (`SumAdd`, `SumRemove` and others)
are proved from its definition; requests are finitely many.

**Passes.** `PotNotOversold`, `EndedHoldsNothing`, `PlansOnHold` and `StatusIsFinal` assume
`~LateSweep`. The inductive invariant `Solvent` joins types, `PotNotOversold` and `RowOf`, which
ties the row to the worker's place: a worker in `planning` has a hold of the size of its slice.
Without it the plan's debit could not be matched with the release that comes with it. `HoldsAddUp`
needs no assumption: `reserved`, which the code sums over the rows and the model keeps
incrementally, moves with one hold and by as much, because no hold is taken where one is
(`NoneHeldYet`).

**Orchestration.** `OSpec => ImplementsPasses`: each of the composed actions is a step of the
passes or leaves them alone. From it `PotNotOversold` follows for the orchestrated system
(`OrchestratedPot`), and type correctness (`OrchTypes`) for the proof of `OneCyclePerThread`, whose
invariant needs that only commissioned rows have an owner. `CountsItsPasses`, `NoneLeftRunning`
and `ImplementsRows` assume `~LateSweep` and rest on `LoopInv`, which ties the loop's locals to
the rows: the wave is among the rows of the orchestration, the counter is their number and leaves
room for what the wave may still commission, and outside a wave the passes of a live loop have
ended. `DecidedOnce` (`~LateSweep`) rests on `AccountInv`: each thread is, until the loop closes, in
exactly one of what is decided, what is pending and what the wave works on, and once only. The
wave is a sequence, as the code's list of commissioned passes is, so that what it tells of its
threads can be taken off it one by one.

**Campaign.** All six safety properties, for every width, cap and error budget, from one
invariant `CInv`: types, `OneLoop`, `Rows` (whose orchestration is whose) and for each campaign
`Part(c)`, which carries the trace through the phases of a wave: how many cycles are counted and
not yet recorded, that the planned ones are numbered after the recorded ones, how far the
counter is past the cancel, and that a verdict has its cause. `TrailGrows` is the lemma on
sequences behind `ErrorsAreTrailing`.

**Ledger.** From `LInv`: types; `SealTold` and `TagTold`; `ParentsAged` (a parent is older than
its child: without it nothing is known about ancestors), `LinesBegun` (a branch has its first
checkpoint), `TagsPoint`; and what is in flight: `Drafts` (a draft's parents and rows are
committed already), `Apart` (two drafts never open one branch, nor hold one name flushed),
`Passes` (the branch a pass is about to adopt is there, or its own session is committing it). From it: `LedgerTells`, `SealedStaysQuiet`,
`ForwardDiffOnlyAdds`, `BlameExplainsDiff`, `BlameCreditsRung`, `SettledStays`, and two facts
about the readers, `RefsResolve` and `MergeBaseIsNewest`. `Ancestors` is an intersection of closed
sets, so that an ancestor of an ancestor is one by definition. The newest of a set of stamps
exists because the reverse order on `1 .. n` is well-founded. `AgentLinesBounded` counts what
is about to come with what is there (`RaceBound`): a fork is decided only where the thread has no
open agent line, so the open lines and the passes that race for another are never more than the
workers, who are finitely many.

**Roster.** `DoorInv` has the two locks (`ProjectHeld`: what a request has read of the roles
still holds, and no two are at it; `RowHeld`: the invitation an accept has read is pending still),
`OneOwner` and `MemberAccepted`. From it the refinement of `Membership`. `SeatInv` adds tokens and
seats; `SeatsChosen` assumes `~CrewRace`.

**Bench.** `BenchInv` joins types, `SlotsConserved` (free slots and those who hold one add up; a
call waits exactly when it is in line, once) and, for each call, `Course`: what its child, pipe,
answer, row and reply can be at each place. `Course` makes the rest inductive: a call that has an
answer has a child that will not put another, so nothing can come after the row. Calls are
independent in `Course` but for the one that is handed a slot (`Others`). From it `SlotsConserved`,
`NoStrayChild`, `MintedFromAnswer` and the refinement of `Workbench`, whose bound on who is at the
bench needs the count of slots.

**What a grade is worth.** `TranslationTheorem` (in `FormulaProofs`) is about the translation
alone: where a formula has a term, the term is true under exactly the assignments the text holds
under, to any depth. `Term` and `Reads` are recursive functions, that is, CHOICES of a function
that fits an equation. `WalkExists` builds one that does, from the formulas of less than each
depth (`Walked`), which agree where they meet (`OneValue`); induction is on a formula of least
depth that fails. The rest, `TermSays`, goes over the kinds of nodes. Assumed: formulas are finite
trees (`Layered`: there is a depth), and `Legible`: as the parser makes them, and with no `^`
beside another operator, which the two parsers read differently. `GradesTheorem` adds the
ladder of each instrument (`ProveEarned`, `LeanEarned`, `IntervalEarned`, ...): an answer
that has a grade, or counts as a citation, is true of its question. With `Course`, by which a row
is an answer to the call's own question, `GradesEarned` holds whatever the interleaving. Its
hypothesis on questions is `Plain`: SymPy's have no decimal that is rounded and an
`expr.compare` has a relation, and a point that a search cannot decide does not fail. These
are what "Texts that are left out of `bench`" says the code does not keep, or what a
question is. TLC checks on every run of `bench` that its questions meet all of them
(`LegibleFormulas`, `PlainQuestions`).

**Only model-checked.** All liveness (`HoldsComeBack`, `HoldsReturn`, `OrchestrationEnds`,
`CampaignEnds`, `EveryCallEnds`), which is out of the prover's reach under fairness. Every
safety property that a run checks is a theorem too.

The library's induction theorems take an operator as a parameter, which the provers cannot
instantiate. Where a proof needs an induction over data, it is over a set: the set of the
cases that fail has a least element (`Shallowest`, and the stamps of the ledger), or the set of
the subsets that are good holds all (`SetInduction`).

## What is left out

* `supervise_session`'s stop at the first refusal; the USD form of a seat cap; the composition
  check of the gateway.
* Harness turns and seat caps in `Orchestration`: they act on the pot as in `PassBudget`, and
  would only multiply the states. The pot in `Campaign` (a choice) and in `Ledger`.
* Unlocked readings of the pot are single steps, although `project_budget` runs three
  statements; listed as a hazard. The same holds of the reads of one ledger service, and of
  `resolve_agent_session_token`, which reads token and seat in two.
* A checkpoint's client may name any relation kind for its parents; merges and forks are the only
  ones told apart. Validations of checkpoints and artifacts write the same rows as those of a
  branch. The door checks membership and pot before a long run and not again when it is recorded.
* The death of the API process with its benches (its children go with it, or end by themselves),
  the grandchild that Lean starts in a session of its own, the retrieval cache, Z3's division.
* Creation and editing of a project and its caps, first sign-in, read gates.
* Connection pools, network failures of the database inside a commit (a commit happens or
  does not), and the price catalogue.
* The parts marked "not modelled" in the inventory: they keep no state that outlives a call
  (composition, probe, snapshot, planner, routes), or none that a property needs (account,
  migrations, frontend).

## Plan

1. `OrchestrationEnds` for a wave of any width once the lock is released on the empty pot.
2. The refinements as theorems of the fair specifications: what of each liveness property is a
   matter of safety (that something that must happen has not become impossible) can be proved.
