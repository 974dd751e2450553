------------------------------- MODULE Bench -------------------------------
(***************************************************************************)
(* One run of an instrument, from the door to the ledger: run_instrument   *)
(* takes a slot of the process's semaphore or gives up; a compute          *)
(* instrument runs in a child process whose answer comes back over a pipe  *)
(* that the parent reads while it watches the clock and the child; a       *)
(* retrieval is awaited with the same clock.  The slot is given back       *)
(* before the checkpoint is written.                                       *)
(*                                                                         *)
(* Time is a choice: a wait that has a deadline may run out at any moment. *)
(* Nothing makes a child answer or exit, and a signal that was sent to it  *)
(* may take effect later than the parent waits.                            *)
(***************************************************************************)
EXTENDS FiniteSets, Integers, Sequences

CONSTANTS
  Call,       \* calls of run_instrument
  Slots,      \* toolbench_max_concurrent_runs
  Question,   \* instruments with their inputs
  Awaited,    \* the questions of the async instruments
  Asks,       \* who may ask what: a set of functions from calls to questions or None
  Verdicts,   \* what the instrument may answer, by question
  None

Status == {"result", "refuted", "undecided"}
Envelope == Status \cup {"value_error", "memory", "worker_error"}

ASSUME BenchAssumption ==
  /\ IsFiniteSet(Call) /\ Slots \in Nat \ {0}
  /\ None \notin Question /\ Awaited \subseteq Question
  /\ Asks \subseteq [Call -> Question \cup {None}]
  /\ Verdicts \in [Question -> SUBSET Envelope]

VARIABLES
  ask,    \* the question of each call; None if it is never made
  pc,     \* where a call is
  free,   \* value of the semaphore
  line,   \* calls that wait for a slot, first come first served
  child,  \* the child process of a call
  pipe,   \* what the child has put and nobody has read
  sent,   \* the last signal the parent sent
  got,    \* what the parent's wait ended with
  row,    \* the checkpoint written, if any: the status it records
  told    \* what the caller is told

vars == <<ask, pc, free, line, child, pipe, sent, got, row, told>>

Init ==
  /\ ask \in Asks
  /\ pc = [c \in Call |-> "idle"]
  /\ free = Slots
  /\ line = <<>>
  /\ child = [c \in Call |-> "none"]
  /\ pipe = [c \in Call |-> "empty"]
  /\ sent = [c \in Call |-> "none"]
  /\ got = [c \in Call |-> "nothing"]
  /\ row = [c \in Call |-> "none"]
  /\ told = [c \in Call |-> "nothing"]

Goes(c, l) == pc' = [pc EXCEPT ![c] = l]
Tells(c, what) == told' = [told EXCEPT ![c] = what]
Hears(c, what) == got' = [got EXCEPT ![c] = what]
Sends(c, signal) == sent' = [sent EXCEPT ![c] = signal]

Alive(c) == child[c] \in {"busy", "flushing"}

\* After the slot is taken and before it is given back.
Working == {"starting", "draining", "stuck", "awaiting", "reaping", "terminating", "grace",
            "last_grace", "concluding"}
Holders == {c \in Call : pc[c] \in Working \cup {"handed"}}

-----------------------------------------------------------------------------
\* The door: an unknown instrument, an actor who is no member, a pot that is spent.
TurnedAtDoor(c) ==
  /\ pc[c] = "idle" /\ ask[c] # None
  /\ Goes(c, "done") /\ Tells(c, "unwelcome")
  /\ UNCHANGED <<ask, free, line, child, pipe, sent, got, row>>

\* The service: a claim or a thread of another project, inputs the instrument does not take.
\* Nothing has been asked for, and nothing added to the session.
TurnedByService(c) ==
  /\ pc[c] = "idle" /\ ask[c] # None
  /\ Goes(c, "done") /\ Tells(c, "invalid")
  /\ UNCHANGED <<ask, free, line, child, pipe, sent, got, row>>

Enter(c) ==
  /\ pc[c] = "idle" /\ ask[c] # None
  /\ \/ /\ free > 0 /\ line = <<>>
        /\ free' = free - 1 /\ Goes(c, "starting")
        /\ UNCHANGED line
     \/ /\ ~(free > 0 /\ line = <<>>)
        /\ line' = Append(line, c) /\ Goes(c, "waiting")
        /\ UNCHANGED free
  /\ UNCHANGED <<ask, child, pipe, sent, got, row, told>>

\* Mutant of GivesBack: the value goes up, nobody in line is woken.
GivesBackAsleep(c, l) ==
  /\ free' = free + 1 /\ Goes(c, l) /\ UNCHANGED line

\* Mutant of GivesBack: the one in line goes on, and so does whoever comes next.
GivesBackOver(c, l) ==
  IF line = <<>> THEN free' = free + 1 /\ Goes(c, l) /\ UNCHANGED line
  ELSE /\ line' = Tail(line) /\ free' = free + 1
       /\ pc' = [pc EXCEPT ![c] = l, ![Head(line)] = "handed"]

\* Semaphore.release: the slot goes to the first in line, or back to the pool.  c goes to l.
GivesBack(c, l) ==
  IF line = <<>> THEN free' = free + 1 /\ Goes(c, l) /\ UNCHANGED line
  ELSE /\ line' = Tail(line)
       /\ pc' = [pc EXCEPT ![c] = l, ![Head(line)] = "handed"]
       /\ UNCHANGED free

\* The one that was handed the slot is resumed.
Wake(c) ==
  /\ pc[c] = "handed"
  /\ Goes(c, "starting")
  /\ UNCHANGED <<ask, free, line, child, pipe, sent, got, row, told>>

\* wait_for runs out while the call is in line.
GiveUp(c) ==
  /\ pc[c] = "waiting"
  /\ \E i \in 1..Len(line) :
       /\ line[i] = c
       /\ line' = SubSeq(line, 1, i - 1) \o SubSeq(line, i + 1, Len(line))
  /\ Goes(c, "done") /\ Tells(c, "busy")
  /\ UNCHANGED <<ask, free, child, pipe, sent, got, row>>

\* wait_for runs out after the slot was handed over and before the call is resumed: acquire
\* puts it back and wakes the next.
GiveUpHanded(c) ==
  /\ pc[c] = "handed"
  /\ GivesBack(c, "done")
  /\ Tells(c, "busy")
  /\ UNCHANGED <<ask, child, pipe, sent, got, row>>

-----------------------------------------------------------------------------
\* execute_instrument: an async instrument is awaited, any other gets a child of its own.
Dispatch(c) ==
  /\ pc[c] = "starting"
  /\ \/ /\ ask[c] \in Awaited /\ Goes(c, "awaiting")
        /\ UNCHANGED <<child, got>>
     \/ /\ ask[c] \notin Awaited /\ Goes(c, "draining")
        /\ child' = [child EXCEPT ![c] = "busy"]
        /\ UNCHANGED got
     \/ \* the process cannot be started
        /\ ask[c] \notin Awaited /\ Goes(c, "concluding")
        /\ Hears(c, "worker_error")
        /\ UNCHANGED child
  /\ UNCHANGED <<ask, free, line, pipe, sent, row, told>>

\* The awaited retrieval answers, raises, or is cancelled by the clock.
Await(c) ==
  /\ pc[c] = "awaiting"
  /\ \E e \in Verdicts[ask[c]] \cup {"worker_error", "timeout"} : Hears(c, e)
  /\ Goes(c, "concluding")
  /\ UNCHANGED <<ask, free, line, child, pipe, sent, row, told>>

\* The worker puts one envelope: the instrument's answer, or the kind of its failure.  The
\* child cannot exit before a large one has been read.
Put(c) ==
  /\ child[c] = "busy"
  /\ child' = [child EXCEPT ![c] = "flushing"]
  /\ \E e \in Verdicts[ask[c]] \cup {"memory", "worker_error"} : pipe' = [pipe EXCEPT ![c] = e]
  /\ UNCHANGED <<ask, pc, free, line, sent, got, row, told>>

Exit(c) ==
  /\ child[c] = "flushing"
  /\ child' = [child EXCEPT ![c] = "exited"]
  /\ UNCHANGED <<ask, pc, free, line, pipe, sent, got, row, told>>

\* The child dies of itself or of the kernel: before it has put anything, while its answer
\* waits to be written, in the middle of writing it, or after.
Die(c) ==
  /\ Alive(c)
  /\ \E how \in {"crashed", "oom"} : child' = [child EXCEPT ![c] = how]
  /\ \/ UNCHANGED pipe
     \/ /\ pipe[c] \in Envelope
        /\ \E left \in {"empty", "torn"} : pipe' = [pipe EXCEPT ![c] = left]
  /\ UNCHANGED <<ask, pc, free, line, sent, got, row, told>>

\* A signal of the parent takes effect.
Fall(c) ==
  /\ Alive(c) /\ sent[c] # "none"
  /\ child' = [child EXCEPT ![c] = "stopped"]
  /\ UNCHANGED <<ask, pc, free, line, pipe, sent, got, row, told>>

-----------------------------------------------------------------------------
\* _drain_result: the queue is polled while the child runs.
DrainGets(c) ==
  /\ pc[c] = "draining" /\ pipe[c] \in Envelope
  /\ Hears(c, pipe[c]) /\ pipe' = [pipe EXCEPT ![c] = "empty"]
  /\ Goes(c, "reaping")
  /\ UNCHANGED <<ask, free, line, child, sent, row, told>>

\* The poll sees half a message and the read waits for the rest: it will not come, and no end
\* of file either, since the parent holds the other end of the pipe open itself.
DrainSticks(c) ==
  /\ pc[c] = "draining" /\ pipe[c] = "torn"
  /\ Goes(c, "stuck")
  /\ UNCHANGED <<ask, free, line, child, pipe, sent, got, row, told>>

\* The poll came back empty and the child is dead: one last look finds nothing either.
DrainFindsDead(c) ==
  /\ pc[c] = "draining" /\ ~Alive(c) /\ pipe[c] = "empty"
  /\ Hears(c, "none")
  /\ Goes(c, "reaping")
  /\ UNCHANGED <<ask, free, line, child, pipe, sent, row, told>>

\* Mutant of DrainTimesOut: the clock is only looked at when the child has ended.
DrainTimesOutLate(c) ==
  /\ pc[c] = "draining" /\ ~Alive(c)
  /\ Hears(c, "timeout")
  /\ Goes(c, "terminating")
  /\ UNCHANGED <<ask, free, line, child, pipe, sent, row, told>>

DrainTimesOut(c) ==
  /\ pc[c] = "draining"
  /\ Hears(c, "timeout")
  /\ Goes(c, "terminating")
  /\ UNCHANGED <<ask, free, line, child, pipe, sent, row, told>>

\* After an envelope, or a death: the child is joined for a moment, then terminated.
Reap(c) ==
  /\ pc[c] = "reaping"
  /\ \/ ~Alive(c) /\ Goes(c, "concluding")
     \/ Alive(c) /\ Goes(c, "terminating")
  /\ UNCHANGED <<ask, free, line, child, pipe, sent, got, row, told>>

\* _terminate: SIGTERM, a second of grace, SIGKILL, another second.
Terminate(c) ==
  /\ pc[c] = "terminating"
  /\ \/ ~Alive(c) /\ Goes(c, "concluding") /\ UNCHANGED sent
     \/ Alive(c) /\ Sends(c, "term") /\ Goes(c, "grace")
  /\ UNCHANGED <<ask, free, line, child, pipe, got, row, told>>

\* Mutant of Grace: a child that ignores SIGTERM is left alone.
GraceOnly(c) ==
  /\ pc[c] = "grace"
  /\ Goes(c, "concluding")
  /\ UNCHANGED <<ask, free, line, child, pipe, sent, got, row, told>>

Grace(c) ==
  /\ pc[c] = "grace"
  /\ \/ ~Alive(c) /\ Goes(c, "concluding") /\ UNCHANGED sent
     \/ Alive(c) /\ Sends(c, "kill") /\ Goes(c, "last_grace")
  /\ UNCHANGED <<ask, free, line, child, pipe, got, row, told>>

LastGrace(c) ==
  /\ pc[c] = "last_grace"
  /\ Goes(c, "concluding")
  /\ UNCHANGED <<ask, free, line, child, pipe, sent, got, row, told>>

-----------------------------------------------------------------------------
\* What a run that gave no answer is called: an answerless child that was killed is taken
\* for one that ran out of memory.
Failure(c) ==
  CASE got[c] = "timeout" -> "timeout"
    [] got[c] = "memory" \/ (got[c] = "none" /\ child[c] = "oom") -> "memory"
    [] OTHER -> "failed"

\* Mutant of Conclude: a run whose child was stopped still takes what the queue holds.
ConcludeFromQueue(c) ==
  /\ pc[c] = "concluding"
  /\ IF pipe[c] \in Status \/ got[c] \in Status
     THEN /\ GivesBack(c, "recording") /\ UNCHANGED told
          /\ got' = [got EXCEPT ![c] = IF pipe[c] \in Status THEN pipe[c] ELSE @]
     ELSE GivesBack(c, "done") /\ Tells(c, Failure(c)) /\ UNCHANGED got
  /\ UNCHANGED <<ask, child, pipe, sent, row>>

\* The slot is given back; a failure ends the call with nothing added to the session.
Conclude(c) ==
  /\ pc[c] = "concluding"
  /\ IF got[c] \in Status
     THEN GivesBack(c, "recording") /\ UNCHANGED told
     ELSE GivesBack(c, "done") /\ Tells(c, Failure(c))
  /\ UNCHANGED <<ask, child, pipe, sent, got, row>>

\* Artifact, evidence, links and checkpoint are committed together, or the write is refused
\* (a branch that was closed meanwhile) and rolled back.
Record(c) ==
  /\ pc[c] = "recording"
  /\ \/ /\ row' = [row EXCEPT ![c] = got[c]]
        /\ Goes(c, "recorded") /\ UNCHANGED told
     \/ /\ Goes(c, "done") /\ Tells(c, "failed")
        /\ UNCHANGED row
  /\ UNCHANGED <<ask, free, line, child, pipe, sent, got>>

\* create_checkpoint reads its row back, which may fail after the commit; the door makes a
\* payload of the answer or of the exception.
Reply(c) ==
  /\ pc[c] = "recorded"
  /\ \E what \in {"checkpoint", "failed"} : Tells(c, what)
  /\ Goes(c, "done")
  /\ UNCHANGED <<ask, free, line, child, pipe, sent, got, row>>

Parent(c) ==
  \/ TurnedAtDoor(c) \/ TurnedByService(c) \/ Enter(c) \/ Wake(c) \/ GiveUp(c) \/ GiveUpHanded(c)
  \/ Dispatch(c) \/ Await(c)
  \/ DrainGets(c) \/ DrainSticks(c) \/ DrainFindsDead(c) \/ DrainTimesOut(c)
  \/ Reap(c) \/ Terminate(c) \/ Grace(c) \/ LastGrace(c)
  \/ Conclude(c) \/ Record(c) \/ Reply(c)

Child(c) == Put(c) \/ Exit(c) \/ Die(c) \/ Fall(c)

\* Every call has ended or is stuck, and every child has ended.
Rest == \A c \in Call : (pc[c] \in {"done", "stuck"} \/ ask[c] = None) /\ ~Alive(c)
Resting == Rest /\ UNCHANGED vars

Next == (\E c \in Call : Parent(c) \/ Child(c)) \/ Resting

Spec == Init /\ [][Next]_vars

\* The event loop and the worker thread go on; nothing is assumed of the children.
FairSpec == Spec /\ \A c \in Call : WF_vars(Parent(c))

-----------------------------------------------------------------------------
Labels == {"idle", "waiting", "handed", "recording", "recorded", "done"} \cup Working
Outcomes == Envelope \cup {"nothing", "none", "timeout"}
Fates == {"none", "busy", "flushing", "exited", "crashed", "oom", "stopped"}

\* The type of every variable.
TypeOK ==
  /\ ask \in [Call -> Question \cup {None}]
  /\ pc \in [Call -> Labels]
  /\ free \in 0..Slots
  /\ line \in Seq(Call)
  /\ child \in [Call -> Fates]
  /\ pipe \in [Call -> Envelope \cup {"empty", "torn"}]
  /\ sent \in [Call -> {"none", "term", "kill"}]
  /\ got \in [Call -> Outcomes]
  /\ row \in [Call -> Status \cup {"none"}]
  /\ told \in [Call -> {"nothing", "unwelcome", "invalid", "busy", "timeout", "memory", "failed",
                        "checkpoint"}]

\* No slot is lost and none is made, whatever the order of handing over, giving up and
\* giving back (policy.acquire_run_slot over asyncio's semaphore): the free ones and the
\* held ones are all there are, and while somebody waits in line none is free.
SlotsConserved ==
  /\ free + Cardinality(Holders) = Slots
  /\ line # <<>> => free = 0
  /\ \A c \in Call : pc[c] = "waiting" <=> \E i \in 1..Len(line) : line[i] = c
  /\ \A i, j \in 1..Len(line) : line[i] = line[j] => i = j

\* A child never outlives its call unless SIGKILL is on its way (subprocess_runner: every way
\* out of _run_in_subprocess ends the child), so no more than Slots children compute.
NoStrayChild ==
  \A c \in Call : Alive(c) /\ sent[c] # "kill" => pc[c] \in Working

\* A checkpoint records the answer the child gave to this question, to a parent that was
\* still waiting for it; a call that is told of a checkpoint has one, and one that is told
\* why its run gave no answer has left nothing behind (tool_runs: "mint nothing, surface a
\* 4xx").  Only "failed" leaves it open: the read after the commit may fail too.
MintedFromAnswer ==
  \A c \in Call :
    /\ row[c] # "none" =>
         /\ row[c] = got[c] /\ row[c] \in Verdicts[ask[c]]
         /\ sent[c] # "none" => pipe[c] = "empty"
    /\ told[c] = "checkpoint" => row[c] # "none"
    /\ pc[c] = "done" /\ row[c] # "none" => told[c] \in {"checkpoint", "failed"}

\* Every call ends: a child that hangs, a full pipe and a full bench all have a deadline
\* (toolbench_wall_timeout_s, toolbench_acquire_timeout_s).  Half an answer has none, but
\* whoever waits behind it is turned away in time.
EveryCallEnds ==
  \A c \in Call : pc[c] = "waiting" \/ pc[c] \in Working ~> pc[c] \in {"done", "stuck"}

-----------------------------------------------------------------------------
\* Bench implements Workbench.
Place(c) ==
  IF pc[c] \in Working THEN "bench"
  ELSE IF pc[c] \in {"idle", "waiting", "handed"} THEN "away" ELSE "over"

W == INSTANCE Workbench WITH
       NoWord <- "none",
       place <- [c \in Call |-> Place(c)],
       heard <- [c \in Call |-> IF got[c] \in Status THEN got[c] ELSE "none"],
       written <- row

\* The processes and their races behave as the promise of module Workbench
\* (tool_runs.run_instrument): bounded, one verdict per call, written once.
ImplementsWorkbench == W!BenchSpec
=============================================================================
