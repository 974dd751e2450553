-------------------------------- MODULE Ledger --------------------------------
(***************************************************************************)
(* The ledger of one project: checkpoints with their parents and refs, the *)
(* branches they sit on, claims, evidence, validations and tags.  Nothing  *)
(* locks it.  A session reads, gives its rows their created_at when it     *)
(* flushes them, and commits: three steps, with other sessions in between. *)
(*                                                                         *)
(* A row is identified by its created_at.  The rows of one transaction     *)
(* share it: their order among themselves is never asked for.              *)
(***************************************************************************)
EXTENDS Grounding, FiniteSets

CONSTANTS
  Thread, Branch, Claim, TagName,
  Slot,        \* database sessions at work at the same time
  Worker,      \* the sessions a background pass can run on
  Main,        \* branch_id NULL: the main line
  NoThread,    \* thread_id NULL
  NoClaim,     \* a run that targets no claim
  Outcome,     \* bound: the outcomes validators choose
  Run,         \* bound: <<instrument, status, relation>> a run may come back with
  MaxParents,  \* bound: the parents a client names
  MaxStamps    \* bound: the flushes of a behaviour

Closing == {"dead_end", "closed"}
ValidationOutcome == {"passed", "failed", "inconclusive", "needs_reproduction",
                      "contradicts", "retract"}

ASSUME LedgerAssumption ==
  /\ Worker \subseteq Slot /\ IsFiniteSet(Worker)
  /\ Main \notin Branch /\ NoThread \notin Thread /\ NoClaim \notin Claim
  /\ Outcome \subseteq ValidationOutcome
  /\ Run \subseteq Instrument \X ResultStatus \X (Relation \cup {"default"})
  /\ MaxParents \in Nat /\ MaxStamps \in Nat

VARIABLES
  now,          \* the last created_at given
  checkpoints,  \* checkpoints rows with their parents and checkpoint_refs
  branch,       \* branches rows
  claim,        \* claims rows; at 0: not there
  evidence,     \* evidence rows with their claim link
  validations,  \* validations rows of claims
  tags,         \* name -> the checkpoint it points at, or 0
  adopted,      \* branches that some AgentRun.branch_id names
  tx,           \* the transaction of each session
  pass          \* the agent pass that uses the session

tables == <<checkpoints, branch, claim, evidence, validations, tags>>
vars == <<now, tables, adopted, tx, pass>>

-----------------------------------------------------------------------------
Ref(type, to, role) == [type |-> type, to |-> to, role |-> role]

\* A transaction that writes nothing; at is 0 until it is flushed.
Blank == [live |-> FALSE, at |-> 0, records |-> FALSE, line |-> Main, thread |-> NoThread,
          parents |-> {}, refs |-> {}, seals |-> {}, verdict |-> "open", opens |-> {},
          asserts |-> {}, finds |-> {}, judges |-> {}, names |-> {}, tagged |-> 0]

Init ==
  /\ now = 0
  /\ checkpoints = {}
  /\ branch = [b \in Branch |-> [status |-> "none", thread |-> NoThread, at |-> 0]]
  /\ claim = [c \in Claim |-> [at |-> 0, thread |-> NoThread]]
  /\ evidence = {} /\ validations = {}
  /\ tags = [n \in TagName |-> 0]
  /\ adopted = {}
  /\ tx = [s \in Slot |-> Blank]
  /\ pass = [s \in Slot |-> [stage |-> "off", thread |-> NoThread, line |-> Main]]

Stamps == {k.at : k \in checkpoints}
Claims == {c \in Claim : claim[c].at > 0}
Fresh(b) == branch[b].status = "none" /\ \A s \in Slot : b \notin tx[s].opens
Newest(S) == CHOOSE k \in S : \A j \in S : j.at <= k.at

\* _latest_on_branch; _latest_main_line and latest_thread_checkpoint, of a thread if given
OnBranch(b) == {k \in checkpoints : k.line = b}
OnMain(t) == {k \in checkpoints : k.line = Main /\ (t # NoThread => k.thread = t)}

\* Mutant of MayLand: the chokepoint does not ask for the branch's status.
MayLandAnywhere(line) == line \in {Main} \cup {b \in Branch : branch[b].status # "none"}

\* create_checkpoint lets a row onto the main line or an open branch.
MayLand(line) == line \in {Main} \cup {b \in Branch : branch[b].status = "open"}

Unflushed == {s \in Slot : tx[s].live /\ tx[s].at = 0}

Begin(s, d) ==
  /\ ~tx[s].live
  /\ now + Cardinality(Unflushed) < MaxStamps
  /\ tx' = [tx EXCEPT ![s] = [d EXCEPT !.live = TRUE]]
  /\ UNCHANGED <<now, tables, adopted>>

ByClient(s) == pass[s].stage = "off" /\ UNCHANGED pass

-----------------------------------------------------------------------------
\* create_claim, attach_evidence: one row, and no checkpoint.
CreateClaim(s, c, t) ==
  /\ claim[c].at = 0 /\ \A r \in Slot : c \notin tx[r].asserts
  /\ Begin(s, [Blank EXCEPT !.asserts = {c}, !.thread = t])
  /\ ByClient(s)

AttachEvidence(s, c, rel) ==
  /\ c \in Claims
  /\ Begin(s, [Blank EXCEPT !.finds =
                 {[claim |-> c, relation |-> rel, tool |-> NoTool, status |-> "result"]}])
  /\ ByClient(s)

\* The route of create_checkpoint: parents and refs as the client likes.
CreateCheckpoint(s, line, t, parents, refs) ==
  /\ MayLand(line)
  /\ Begin(s, [Blank EXCEPT !.records = TRUE, !.line = line, !.thread = t,
                            !.parents = parents, !.refs = refs])
  /\ ByClient(s)

\* Mutant of Judgement: the assessment forgets what it assessed.
JudgementOfNone(type, to, thread, outcome) ==
  [Blank EXCEPT !.records = TRUE, !.thread = thread,
                !.refs = {Ref(type, to, "validated")}]

\* create_validation: the row and its checkpoint on the main line, with no parent.
Judgement(type, to, thread, outcome) ==
  [Blank EXCEPT !.records = TRUE, !.thread = thread,
                !.refs = {Ref(type, to, "validated")},
                !.judges = IF type = "claim" THEN {[claim |-> to, outcome |-> outcome]} ELSE {}]

ValidateClaim(s, c, outcome) ==
  /\ c \in Claims
  /\ Begin(s, Judgement("claim", c, claim[c].thread, outcome))
  /\ ByClient(s)

ValidateBranch(s, b, outcome) ==
  /\ branch[b].status # "none"
  /\ Begin(s, Judgement("branch", b, NoThread, outcome))
  /\ ByClient(s)

-----------------------------------------------------------------------------
\* Mutant of Fork: the first checkpoint without its branch row.
ForkUnopened(b, t, fork) ==
  [Blank EXCEPT !.records = TRUE, !.line = b, !.thread = t, !.parents = {fork},
                !.refs = {Ref("branch", b, "created")}]

\* create_branch: an open branch and its first checkpoint, parented on the fork.
Fork(b, t, fork) ==
  [Blank EXCEPT !.records = TRUE, !.line = b, !.thread = t, !.parents = {fork},
                !.opens = {b}, !.refs = {Ref("branch", b, "created")}]

CreateBranch(s, b, t, fork) ==
  /\ Fresh(b) /\ fork \in Stamps
  /\ Begin(s, Fork(b, t, fork))
  /\ ByClient(s)

\* Mutant of Close: the status is written, the closing checkpoint names nothing.
CloseSilently(b, verdict) ==
  [Blank EXCEPT !.records = TRUE, !.thread = branch[b].thread, !.seals = {b},
                !.verdict = verdict]

\* close_branch: the branch cannot carry its own closing, the main line does.
Close(b, verdict) ==
  [Blank EXCEPT !.records = TRUE, !.thread = branch[b].thread, !.seals = {b},
                !.verdict = verdict, !.refs = {Ref("branch", b, "closed")}]

CloseBranch(s, b, verdict) ==
  /\ branch[b].status = "open"
  /\ Begin(s, Close(b, verdict))
  /\ ByClient(s)

\* The thread of a merge: as asked, or the one all sources share.
MergeThread(sources, t) ==
  IF t # NoThread THEN t
  ELSE IF \E u \in Thread : \A b \in sources : branch[b].thread = u
       THEN CHOOSE u \in Thread : \A b \in sources : branch[b].thread = u
       ELSE NoThread

\* The newest checkpoint of every source and of the line that receives the merge.
MergeHeads(sources, target, t) ==
  LET into == IF target = Main THEN OnMain(t) ELSE OnBranch(target)
  IN {Newest(OnBranch(b)).at : b \in sources} \cup {Newest(K).at : K \in {into} \ {{}}}

MergeBranches(s, sources, target, asked, about) ==
  LET t == MergeThread(sources, asked)
      heads == MergeHeads(sources, target, t)
  IN /\ sources # {} /\ target \notin sources
     /\ \A b \in sources : branch[b].status = "open"
     /\ MayLand(target)
     /\ Cardinality(heads) >= 2
     /\ Begin(s, [Blank EXCEPT !.records = TRUE, !.line = target, !.thread = t,
                    !.parents = heads, !.seals = sources, !.verdict = "merged",
                    !.refs = {Ref("branch", b, "merged") : b \in sources}
                               \cup {Ref("claim", c, "merged") : c \in about}])
     /\ ByClient(s)

\* create_tag: recorded on the tagged line while that is open.
CreateTag(s, n, k) ==
  /\ tags[n] = 0
  /\ Begin(s, [Blank EXCEPT !.records = TRUE, !.thread = k.thread,
                 !.line = IF MayLand(k.line) THEN k.line ELSE Main,
                 !.names = {n}, !.tagged = k.at, !.refs = {Ref("tag", n, "created")}])
  /\ ByClient(s)

-----------------------------------------------------------------------------
\* What a finished run writes for its claim: the relation defaults from the outcome.
DefaultRelation(status) ==
  CASE status = "result" -> "support" [] status = "refuted" -> "weaken"
    [] status = "undecided" -> "context"

Finding(c, run) ==
  [claim |-> c, tool |-> run[1], status |-> run[2],
   relation |-> IF run[3] = "default" THEN DefaultRelation(run[2]) ELSE run[3]]

\* run_instrument: evidence if a claim is targeted, and a checkpoint with no parent.
Landed(line, t, c, run) ==
  [Blank EXCEPT !.records = TRUE, !.line = line,
                !.thread = IF c = NoClaim THEN t ELSE claim[c].thread,
                !.finds = IF c = NoClaim THEN {} ELSE {Finding(c, run)},
                !.refs = IF c = NoClaim THEN {} ELSE {Ref("claim", c, "evidenced")}]

\* The tool-run route: when the chokepoint refuses the line, its session is dropped with
\* the rows flushed so far.
RunInstrument(s, line, t, c, run) ==
  /\ c \in Claims \cup {NoClaim}
  /\ MayLand(line)
  /\ Begin(s, Landed(line, t, c, run))
  /\ ByClient(s)

-----------------------------------------------------------------------------
\* An agent pass on a session of its own: choose a line, then run on it.
PassStarts(s, t) ==
  /\ pass[s].stage = "off" /\ ~tx[s].live
  /\ pass' = [pass EXCEPT ![s] = [stage |-> "choosing", thread |-> t, line |-> Main]]
  /\ UNCHANGED <<now, tables, adopted, tx>>

\* Mutant of AgentLines: asks for branches of no thread, and agent lines all have one.
AgentLinesElsewhere(t) ==
  {b \in adopted : branch[b].thread = NoThread /\ branch[b].status = "open"}

\* The open branches that a run on the thread names.
AgentLines(t) == {b \in adopted : branch[b].thread = t /\ branch[b].status = "open"}

\* select_agent_branch: the newest open agent line, else a fork, else the main line.
ReuseLine(s) ==
  LET lines == AgentLines(pass[s].thread)
  IN /\ pass[s].stage = "choosing" /\ lines # {}
     /\ pass' = [pass EXCEPT ![s].stage = "adopting",
                   ![s].line = CHOOSE b \in lines : \A l \in lines : branch[l].at <= branch[b].at]
     /\ UNCHANGED <<now, tables, adopted, tx>>

ForkLine(s, b) ==
  LET t == pass[s].thread
  IN /\ pass[s].stage = "choosing" /\ AgentLines(t) = {}
     /\ OnMain(t) # {} /\ Fresh(b)
     /\ Begin(s, Fork(b, t, Newest(OnMain(t)).at))
     /\ pass' = [pass EXCEPT ![s].stage = "adopting", ![s].line = b]

StayOnMain(s) ==
  LET t == pass[s].thread
  IN /\ pass[s].stage = "choosing" /\ AgentLines(t) = {} /\ OnMain(t) = {}
     /\ pass' = [pass EXCEPT ![s].stage = "running"]
     /\ UNCHANGED <<now, tables, adopted, tx>>

\* The run row gets its branch in a commit of its own, after the fork's.
AdoptLine(s) ==
  /\ pass[s].stage = "adopting" /\ ~tx[s].live
  /\ adopted' = adopted \cup {pass[s].line}
  /\ pass' = [pass EXCEPT ![s].stage = "running"]
  /\ UNCHANGED <<now, tables, tx>>

\* A step of the pass.  When the chokepoint refuses the line, the evidence is flushed
\* already, and the commit of the failed step keeps it.
PassRuns(s, c, run) ==
  LET p == pass[s]
      kept == Landed(p.line, p.thread, c, run)
  IN /\ p.stage = "running"
     /\ c \in {d \in Claims : claim[d].thread = p.thread} \cup {NoClaim}
     /\ Begin(s, IF MayLand(p.line) THEN kept
                 ELSE [Blank EXCEPT !.finds = kept.finds])
     /\ UNCHANGED pass

\* A replan of a pass without a branch asks for one again.
ReplanChooses(s) ==
  /\ pass[s].stage = "running" /\ pass[s].line = Main /\ ~tx[s].live
  /\ pass' = [pass EXCEPT ![s].stage = "choosing"]
  /\ UNCHANGED <<now, tables, adopted, tx>>

PassEnds(s) ==
  /\ pass[s].stage = "running" /\ ~tx[s].live
  /\ pass' = [pass EXCEPT ![s].stage = "off"]
  /\ UNCHANGED <<now, tables, adopted, tx>>

-----------------------------------------------------------------------------
\* The flush: the rows get their created_at.  An update waits for an uncommitted update of
\* the same branch, an insert of a tag for an uncommitted insert of the same name.
Waits(s) == \E r \in Slot \ {s} :
  /\ tx[r].at > 0
  /\ tx[r].seals \cap tx[s].seals # {} \/ tx[r].names \cap tx[s].names # {}

Flush(s) ==
  /\ tx[s].live /\ tx[s].at = 0 /\ ~Waits(s)
  /\ \A n \in tx[s].names : tags[n] = 0
  /\ now' = now + 1
  /\ tx' = [tx EXCEPT ![s].at = now + 1]
  /\ UNCHANGED <<tables, adopted, pass>>

\* The unique constraint: the name was taken since it was looked up.
Conflicts(s) ==
  /\ tx[s].live /\ tx[s].at = 0 /\ ~Waits(s)
  /\ \E n \in tx[s].names : tags[n] # 0
  /\ tx' = [tx EXCEPT ![s] = Blank]
  /\ UNCHANGED <<now, tables, adopted, pass>>

\* The refs a checkpoint has to the rows written with it.
OwnRefs(d) ==
  {Ref("evidence", d.at, "recorded") : f \in d.finds}
    \cup {Ref("validation", d.at, "recorded") : j \in d.judges}

Checkpoint(d) ==
  [at |-> d.at, line |-> d.line, thread |-> d.thread, parents |-> d.parents,
   refs |-> d.refs \cup OwnRefs(d)]

Commit(s) ==
  LET d == tx[s] IN
  /\ d.live /\ d.at > 0
  /\ checkpoints' = checkpoints \cup (IF d.records THEN {Checkpoint(d)} ELSE {})
  /\ branch' = [b \in Branch |->
       IF b \in d.opens THEN [status |-> "open", thread |-> d.thread, at |-> d.at]
       ELSE IF b \in d.seals THEN [branch[b] EXCEPT !.status = d.verdict]
       ELSE branch[b]]
  /\ claim' = [c \in Claim |->
       IF c \in d.asserts THEN [at |-> d.at, thread |-> d.thread] ELSE claim[c]]
  /\ evidence' = evidence \cup
       {[at |-> d.at, claim |-> f.claim, relation |-> f.relation, tool |-> f.tool,
         status |-> f.status] : f \in d.finds}
  /\ validations' = validations \cup
       {[at |-> d.at, claim |-> j.claim, outcome |-> j.outcome] : j \in d.judges}
  /\ tags' = [n \in TagName |-> IF n \in d.names THEN d.tagged ELSE tags[n]]
  /\ tx' = [tx EXCEPT ![s] = Blank]
  /\ UNCHANGED <<now, adopted, pass>>

\* The session is lost, with what it has not committed and the pass that used it.
Lost(s) ==
  /\ tx[s].live \/ pass[s].stage # "off"
  /\ tx' = [tx EXCEPT ![s] = Blank]
  /\ pass' = [pass EXCEPT ![s].stage = "off"]
  /\ UNCHANGED <<now, tables, adopted>>

-----------------------------------------------------------------------------
Lines == Branch \cup {Main}
Threads == Thread \cup {NoThread}

\* Refs a client can name: claims and evidence there are.
ClientRefs == {Ref("claim", c, "uses") : c \in Claims}
                \cup {Ref("evidence", e.at, "uses") : e \in evidence}

Write(s) ==
  \/ \E c \in Claim, t \in Thread : CreateClaim(s, c, t)
  \/ \E c \in Claim, rel \in Relation : AttachEvidence(s, c, rel)
  \/ \E l \in Lines, t \in Threads, ps \in SUBSET Stamps, rs \in SUBSET ClientRefs :
       /\ Cardinality(ps) <= MaxParents /\ Cardinality(rs) <= 1
       /\ CreateCheckpoint(s, l, t, ps, rs)
  \/ \E c \in Claim, o \in Outcome : ValidateClaim(s, c, o)
  \/ \E b \in Branch, o \in Outcome : ValidateBranch(s, b, o)

Line(s) ==
  \/ \E b \in Branch, t \in Threads, f \in Stamps : CreateBranch(s, b, t, f)
  \/ \E b \in Branch, v \in Closing : CloseBranch(s, b, v)
  \/ \E B \in SUBSET Branch, l \in Lines, t \in Threads, C \in SUBSET Claims :
       MergeBranches(s, B, l, t, C)
  \/ \E n \in TagName, k \in checkpoints : CreateTag(s, n, k)
  \/ \E l \in Lines, t \in Threads, c \in Claim \cup {NoClaim}, r \in Run :
       RunInstrument(s, l, t, c, r)

Agent(s) ==
  \/ s \in Worker /\ \E t \in Thread : PassStarts(s, t)
  \/ ReuseLine(s) \/ (\E b \in Branch : ForkLine(s, b)) \/ StayOnMain(s) \/ AdoptLine(s)
  \/ \E c \in Claim \cup {NoClaim}, r \in Run : PassRuns(s, c, r)
  \/ ReplanChooses(s) \/ PassEnds(s)

Next == \E s \in Slot :
  Write(s) \/ Line(s) \/ Agent(s) \/ Flush(s) \/ Conflicts(s) \/ Commit(s) \/ Lost(s)

Spec == Init /\ [][Next]_vars
=============================================================================
