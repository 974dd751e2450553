----------------------------- MODULE ResearchDiff -----------------------------
(***************************************************************************)
(* What is read from the ledger: the signal and the grounding of a claim,  *)
(* now and at a checkpoint, the semantic diff of two checkpoints, and the  *)
(* blame chain of a claim.  And what the ledger promises.                  *)
(***************************************************************************)
EXTENDS Ledger

-----------------------------------------------------------------------------
\* compute_signal, validations oldest first: the latest of contradiction and retraction
\* decides whether the claim is contested, else one pass validates it.
Signal(rows) ==
  LET against == {v \in rows : v.outcome \in {"contradicts", "failed"}}
      cleared == {v \in rows : v.outcome = "retract"}
  IN IF \E v \in against : \A w \in cleared : w.at < v.at THEN "contested"
     ELSE IF \E v \in rows : v.outcome = "passed" THEN "validated"
     ELSE "none"

\* The live reads of a claim.
ValidationsOf(c) == {v \in validations : v.claim = c}
EvidenceOf(c) == {e \in evidence : e.claim = c}

-----------------------------------------------------------------------------
\* The parent map.
Parents(k) == UNION {j.parents : j \in {i \in checkpoints : i.at = k}}

\* walk_ancestors: the checkpoint and all it descends from.
Closed(S) == \A j \in S : Parents(j) \subseteq S
Ancestors(k) == {j \in 1 .. now : \A S \in SUBSET (1 .. now) : k \in S /\ Closed(S) => j \in S}

\* Mutant of MergeBase: sorted the other way.
MergeBaseOldest(f, t) ==
  LET common == Ancestors(f) \cap Ancestors(t)
      proper == UNION {UNION {Ancestors(p) : p \in Parents(k)} : k \in common}
      lowest == common \ proper
  IN IF common = {} THEN 0
     ELSE CHOOSE k \in lowest : \A j \in lowest : k <= j

\* lowest_common_ancestor: the newest common ancestor that is not a proper ancestor of a
\* common one; 0 if the tips do not meet.
MergeBase(f, t) ==
  LET common == Ancestors(f) \cap Ancestors(t)
      proper == UNION {UNION {Ancestors(p) : p \in Parents(k)} : k \in common}
      lowest == common \ proper
  IN IF common = {} THEN 0
     ELSE CHOOSE k \in lowest : \A j \in lowest : j <= k

-----------------------------------------------------------------------------
\* Checkpoints with a ref to the row.
Naming(type, to) == {k.at : k \in {j \in checkpoints :
                                   \E r \in j.refs : r.type = type /\ r.to = to}}

\* Mutant of PresentAt: only the tip and its parents are looked at.
PresentNearby(c, k) ==
  \/ Naming("claim", c) \cap ({k} \cup Parents(k)) # {}
  \/ Naming("claim", c) = {} /\ claim[c].at <= k

\* _claim_present: named on the line, or named nowhere and older than the tip.
PresentAt(c, k) ==
  \/ Naming("claim", c) \cap Ancestors(k) # {}
  \/ Naming("claim", c) = {} /\ claim[c].at <= k

\* _signal_at: the validations that a checkpoint of the line recorded.
SignalIn(c, line) ==
  Signal({v \in ValidationsOf(c) : Naming("validation", v.at) \cap line # {}})

\* _grounding_at: evidence the line names, or nobody names and older than the tip.
EvidenceIn(c, line, tip) ==
  {e \in EvidenceOf(c) :
     \/ Naming("evidence", e.at) \cap line # {}
     \/ Naming("evidence", e.at) = {} /\ e.at <= tip}

SignalAt(c, k) == SignalIn(c, Ancestors(k))
EvidenceAt(c, k) == EvidenceIn(c, Ancestors(k), k)

\* classify_claim_delta.
ClaimDelta(c, f, t) ==
  CASE PresentAt(c, t) /\ ~PresentAt(c, f) -> "added"
    [] PresentAt(c, f) /\ ~PresentAt(c, t) -> "removed"
    [] PresentAt(c, f) /\ PresentAt(c, t) /\ SignalAt(c, f) # SignalAt(c, t)
         -> "status_changed"
    [] OTHER -> "none"

\* The evidence of an absent claim is empty.
Before(c, k) == IF PresentAt(c, k) THEN EvidenceAt(c, k) ELSE {}

Moves(c, f, t) ==
  [from |-> Headline(Before(c, f)), to |-> Headline(Before(c, t)),
   movement |-> Movement(Before(c, f), Before(c, t))]

\* semantic_diff of two checkpoints.
Diff(f, t) ==
  [claims |-> [c \in Claims |-> ClaimDelta(c, f, t)],
   grounding |->
     [c \in {b \in Claims : Changed(Before(b, f), Before(b, t))} |-> Moves(c, f, t)],
   base |-> MergeBase(f, t),
   added |-> Ancestors(t) \ Ancestors(f),
   left |-> Ancestors(f) \ Ancestors(t)]

-----------------------------------------------------------------------------
\* resolve_ref: a tag is the checkpoint it names, a branch and the main line are their
\* newest; 0 is a 404.
Tip(K) == IF K = {} THEN 0 ELSE Newest(K).at

\* Mutant of TagTip: the tag follows the line of its checkpoint.
TagOfLine(n) == Tip({k \in checkpoints : k.at = tags[n]} \cap OnMain(NoThread))

TagTip(n) == tags[n]
BranchTip(b) == Tip(OnBranch(b))

-----------------------------------------------------------------------------
\* Mutant of Touching: the checkpoints that name the claim are not looked for.
TouchingRows(c) ==
  (UNION {Naming("evidence", e.at) : e \in EvidenceOf(c)})
    \cup (UNION {Naming("validation", v.at) : v \in ValidationsOf(c)})

\* Mutant of Touching: only the checkpoints that name the claim.
TouchingClaim(c) == Naming("claim", c)

\* classify_touch: the checkpoints that touch the claim, by its evidence or validations too.
Touching(c) ==
  Naming("claim", c)
    \cup (UNION {Naming("evidence", e.at) : e \in EvidenceOf(c)})
    \cup (UNION {Naming("validation", v.at) : v \in ValidationsOf(c)})

\* blame_claim: the claim before and after a checkpoint of its chain.  Before a merge is the
\* union of its parents' lines, dated by the newest.
BlameStep(c, k) ==
  LET line == Ancestors(k)
      before == line \ {k}
      tip == CHOOSE j \in before : \A i \in before : i <= j
  IN [signal |-> IF before = {} THEN "none" ELSE SignalIn(c, before),
      evidence |-> IF before = {} THEN {} ELSE EvidenceIn(c, before, tip),
      signal_after |-> SignalIn(c, line), evidence_after |-> EvidenceIn(c, line, k)]

-----------------------------------------------------------------------------
Statuses == {"none", "open", "merged", "dead_end", "closed"}
Sealed(b) == branch[b].status \notin {"none", "open"}

\* The rows have the types of their columns.
LTypeOK ==
  /\ now \in Nat
  /\ \A k \in checkpoints :
       /\ k.at \in 1 .. now /\ k.line \in Lines /\ k.thread \in Threads
       /\ k.parents \subseteq 1 .. now
       /\ k.line = Main \/ branch[k.line].status # "none"
  /\ branch \in [Branch -> [status : Statuses, thread : Threads, at : 0 .. now]]
  /\ claim \in [Claim -> [at : 0 .. now, thread : Threads]]
  /\ \A e \in evidence : e.at \in 1 .. now /\ e.claim \in Claims
  /\ \A v \in validations : v.at \in 1 .. now /\ v.claim \in Claims
  /\ tags \in [TagName -> 0 .. now]
  /\ adopted \subseteq {b \in Branch : branch[b].status # "none"}

\* create_checkpoint: a sealed line is "preserved, not extended".  Its status is read
\* without a lock, so what is in flight may still land; but once nothing is, nothing comes.
Quiet(b) == Sealed(b) /\ \A s \in Slot : tx[s].live /\ tx[s].records => tx[s].line # b

SealedStaysQuiet ==
  [][\A b \in Branch : Quiet(b) => Quiet(b)' /\ OnBranch(b)' = OnBranch(b)]_vars

\* close_branch, merge_branches, create_tag: the ledger tells what the rows say.  An open
\* branch has no closing event and a sealed one has an event of its kind, whoever raced to
\* seal it; a name that two clients asked for has one event.
Told(type, to, role) ==
  {k \in checkpoints : \E r \in k.refs : r.type = type /\ r.to = to /\ r.role = role}

SealTold == \A b \in Branch :
  /\ branch[b].status = "merged" => Told("branch", b, "merged") # {}
  /\ branch[b].status \in Closing => Told("branch", b, "closed") # {}
  /\ ~Sealed(b) => Told("branch", b, "merged") \cup Told("branch", b, "closed") = {}

TagTold == \A n \in TagName :
  IF tags[n] = 0 THEN Told("tag", n, "created") = {}
  ELSE \E k \in checkpoints : Told("tag", n, "created") = {k} /\ tags[n] < k.at

LedgerTells == SealTold /\ TagTold

\* select_agent_branch: passes that race each fork a line, but a thread never has more
\* open agent lines than workers that can race.
AgentLinesBounded == \A t \in Thread :
  Cardinality({b \in adopted : branch[b].thread = t /\ branch[b].status = "open"})
    <= Cardinality(Worker)

\* A diff toward a descendant only adds: no claim is removed, no rung is lost, and a
\* headline that changes is settled, raised or a first citation.
Forward(f, t) == f \in Ancestors(t)

ForwardDiffOnlyAdds ==
  \A f, t \in Stamps : Forward(f, t) =>
    LET d == Diff(f, t) IN
    /\ d.left = {} /\ d.base = f
    /\ \A c \in Claims :
         /\ d.claims[c] # "removed"
         /\ Support(Before(c, f)) <= Support(Before(c, t))
         /\ c \in DOMAIN d.grounding =>
              d.grounding[c].movement # "unchanged" \/ d.grounding[c].to = "cited"

\* What semantic_diff shows of a claim, blame_claim explains: a checkpoint of the interval
\* touches the claim, unless the cause is a row that no checkpoint ever named.
Unnamed(c) ==
  {n \in {claim[c].at} : Naming("claim", c) = {}}
    \cup {e.at : e \in {r \in EvidenceOf(c) : Naming("evidence", r.at) = {}}}

BlameExplainsDiff ==
  \A f, t \in Stamps : Forward(f, t) =>
    \A c \in Claims :
      LET d == Diff(f, t) IN
      d.claims[c] # "none" \/ c \in DOMAIN d.grounding =>
        d.added \cap Touching(c) # {} \/ \E n \in Unnamed(c) : f < n /\ n <= t

\* blame_claim: a step never loses evidence, the signal moves only where the claim was
\* assessed, and the rung that recorded evidence gives a claim today is reached by a step.
Recorded(c) == {e \in EvidenceOf(c) : Naming("evidence", e.at) # {}}

BlameCreditsRung ==
  \A c \in Claims :
    /\ \A k \in Touching(c) :
         LET b == BlameStep(c, k) IN
         /\ b.evidence \subseteq b.evidence_after
         /\ b.signal # b.signal_after => \E v \in ValidationsOf(c) : k \in Naming("validation", v.at)
    /\ Support(Recorded(c)) > 0 =>
         \E k \in Touching(c) : Support(Recorded(c)) <= Support(BlameStep(c, k).evidence_after)

\* resolve_ref: "branch has no checkpoints" is said of no branch, and a tag's checkpoint exists.
RefsResolve ==
  /\ \A b \in Branch : branch[b].status # "none" => BranchTip(b) \in Stamps
  /\ \A n \in TagName : tags[n] # 0 => TagTip(n) \in Stamps

\* lowest_common_ancestor: dropping the ancestors of common ancestors and then taking the
\* newest finds the newest common ancestor.
MergeBaseIsNewest ==
  \A f, t \in Stamps :
    LET common == Ancestors(f) \cap Ancestors(t)
    IN common # {} => MergeBase(f, t) \in common /\ \A j \in common : j <= MergeBase(f, t)

\* The grounding of a claim is read live from rows nobody deletes: a refuted claim stays
\* refuted, a proven one stays settled.
SettledStays ==
  [][\A c \in Claim :
       /\ Headline(EvidenceOf(c)) = "refuted" => Headline(EvidenceOf(c)') = "refuted"
       /\ Headline(EvidenceOf(c)) = "proven" => Headline(EvidenceOf(c)') \in Settled]_vars

\* agent_runs.py: a step that fails "raised before any db.add, so nothing was minted": every
\* row of an instrument has the checkpoint that recorded it.
EvidenceHasProvenance ==
  \A e \in evidence : e.tool # NoTool => Naming("evidence", e.at) # {}
=============================================================================
