---------------------------- MODULE LedgerProofs ----------------------------
(***************************************************************************)
(* Proofs about the ledger and what is read from it, for any number of     *)
(* sessions, branches, claims and flushes.                                 *)
(***************************************************************************)
EXTENDS ResearchDiff, FiniteSetTheorems, WellFoundedInduction, TLAPS

-----------------------------------------------------------------------------
(* Grades. *)

\* A grade is one of the five rungs.
LEMMA GradeType == ASSUME NEW e PROVE GradeOf(e) \in 0 .. 4
  BY DEF GradeOf, GradeFor

\* The strongest of the rows is there: grades are bounded.
LEMMA RungIsMax ==
  ASSUME NEW rows, NEW side
  PROVE  /\ Rung(rows, side) \in 0 .. 4
         /\ \A e \in rows : e.relation = side => GradeOf(e) <= Rung(rows, side)
         /\ Rung(rows, side) = 0 \/ \E e \in rows : e.relation = side /\ GradeOf(e) = Rung(rows, side)
<1> DEFINE S == {0} \cup {GradeOf(e) : e \in {r \in rows : r.relation = side}}
<1>1. S \subseteq 0 .. 4 /\ 0 \in S
  BY GradeType
<1>2. \E g \in S : \A h \in S : h <= g
  <2>1. CASE 4 \in S BY <2>1, <1>1
  <2>2. CASE 4 \notin S /\ 3 \in S BY <2>2, <1>1
  <2>3. CASE 4 \notin S /\ 3 \notin S /\ 2 \in S BY <2>3, <1>1
  <2>4. CASE 4 \notin S /\ 3 \notin S /\ 2 \notin S /\ 1 \in S BY <2>4, <1>1
  <2>5. CASE 4 \notin S /\ 3 \notin S /\ 2 \notin S /\ 1 \notin S BY <2>5, <1>1
  <2> QED BY <2>1, <2>2, <2>3, <2>4, <2>5
<1>3. Rung(rows, side) \in S /\ \A h \in S : h <= Rung(rows, side)
  BY <1>2 DEF Rung
<1> QED BY <1>1, <1>3

\* More rows, no weaker rung.
LEMMA RungGrows ==
  ASSUME NEW R, NEW S, R \subseteq S, NEW side
  PROVE  Rung(R, side) <= Rung(S, side)
<1>1. Rung(R, side) \in 0 .. 4 /\ Rung(S, side) \in 0 .. 4
  BY RungIsMax
<1>2. CASE Rung(R, side) = 0
  BY <1>1, <1>2
<1>3. CASE \E e \in R : e.relation = side /\ GradeOf(e) = Rung(R, side)
  <2>1. PICK e \in R : e.relation = side /\ GradeOf(e) = Rung(R, side)
    BY <1>3
  <2> QED BY <2>1, RungIsMax
<1> QED BY <1>2, <1>3, RungIsMax

\* More rows: the headline stays, or it is settled, or the support is raised, or the first
\* citation has come.
LEMMA HeadlineGrows ==
  ASSUME NEW R, NEW S, R \subseteq S
  PROVE  /\ Support(R) \in 0 .. 4 /\ Support(S) \in 0 .. 4 /\ Support(R) <= Support(S)
         /\ Counter(R) \in 0 .. 4 /\ Counter(S) \in 0 .. 4 /\ Counter(R) <= Counter(S)
         /\ Headline(R) = "refuted" => Headline(S) = "refuted"
         /\ Headline(R) = "proven" => Headline(S) \in Settled
         /\ Changed(R, S) => Movement(R, S) # "unchanged" \/ Headline(S) = "cited"
<1>1. /\ Support(R) \in 0 .. 4 /\ Support(S) \in 0 .. 4 /\ Support(R) <= Support(S)
      /\ Counter(R) \in 0 .. 4 /\ Counter(S) \in 0 .. 4 /\ Counter(R) <= Counter(S)
  BY RungIsMax, RungGrows DEF Support, Counter
<1>2. Headline(R) = "refuted" <=> Counter(R) >= 3
  BY <1>1 DEF Headline, Named
<1>3. Headline(S) = "refuted" <=> Counter(S) >= 3
  BY <1>1 DEF Headline, Named
<1>4. Headline(R) = "proven" <=> Counter(R) < 3 /\ Support(R) = 4
  BY <1>1 DEF Headline, Named
<1>5. Headline(S) = "proven" <=> Counter(S) < 3 /\ Support(S) = 4
  BY <1>1 DEF Headline, Named
<1>6. ASSUME Changed(R, S), Movement(R, S) = "unchanged" PROVE Headline(S) = "cited"
  <2>1. Headline(R) # Headline(S) /\ Headline(S) \notin Settled /\ ~(Support(S) > Support(R))
    BY <1>6 DEF Changed, Movement
  <2>2. Support(R) = Support(S)
    BY <2>1, <1>1
  <2>3. Counter(S) < 3 /\ Counter(R) < 3
    BY <2>1, <1>3, <1>1 DEF Settled
  <2>4. Support(S) = 0
    BY <2>1, <2>2, <2>3, <1>1 DEF Headline
  <2> QED BY <2>1, <2>2, <2>3, <2>4, <1>1 DEF Headline
<1> QED BY <1>1, <1>2, <1>3, <1>4, <1>5, <1>6 DEF Settled

-----------------------------------------------------------------------------
(* Ancestors. *)

\* A set of naturals with a bound has a greatest element.
LEMMA MaxExists ==
  ASSUME NEW n \in Nat, NEW S, S \subseteq 0 .. n, S # {}
  PROVE  \E m \in S : \A j \in S : j <= m
<1> DEFINE T == {n - j : j \in S}
<1>1. T \subseteq Nat /\ T # {}
  OBVIOUS
<1>2. PICK x \in T : \A y \in T : ~(<<y, x>> \in OpToRel(<, Nat))
  BY <1>1, NatLessThanWellFounded, WFMin
<1>3. \A y \in T : ~(y < x)
  BY <1>1, <1>2 DEF OpToRel
<1>4. PICK m \in S : x = n - m
  BY <1>2
<1>5. \A j \in S : j <= m
  BY <1>1, <1>3, <1>4
<1> QED BY <1>5

\* What the reads below rest on: rows are stamped in the past and after their parents.
Ordered ==
  /\ now \in Nat
  /\ \A k \in checkpoints : k.at \in 1 .. now /\ k.parents \subseteq 1 .. k.at - 1
  /\ \A c \in Claim : claim[c].at \in Nat
  /\ \A e \in evidence : e.at \in Nat

\* Parents have earlier stamps.
LEMMA ParentsOlder ==
  ASSUME Ordered, NEW k \in Nat
  PROVE  Parents(k) \subseteq 1 .. k - 1 /\ Parents(k) \subseteq 1 .. now
  BY DEF Ordered, Parents

\* A checkpoint is among its own ancestors, which are no younger.
LEMMA AncestorsOlder ==
  ASSUME Ordered, NEW k \in 1 .. now
  PROVE  k \in Ancestors(k) /\ Ancestors(k) \subseteq 1 .. k
<1> now \in Nat
  BY DEF Ordered
<1>1. k \in Ancestors(k)
  BY DEF Ancestors
<1> DEFINE S == 1 .. k
<1>2. S \in SUBSET (1 .. now) /\ k \in S
  OBVIOUS
<1>3. Closed(S)
  BY ParentsOlder DEF Closed
<1>4. Ancestors(k) \subseteq S
  <2> HIDE DEF S
  <2> QED BY <1>2, <1>3 DEF Ancestors
<1> QED BY <1>1, <1>4

\* Ancestry is transitive.
LEMMA AncestorsOfAncestor ==
  ASSUME NEW f, NEW t, f \in Ancestors(t)
  PROVE  Ancestors(f) \subseteq Ancestors(t)
  BY DEF Ancestors

\* A parent and all its ancestors are strictly older.
LEMMA AncestorsOfParent ==
  ASSUME Ordered, NEW k \in 1 .. now, NEW p \in Parents(k)
  PROVE  p \in 1 .. k - 1 /\ Ancestors(p) \subseteq 1 .. p
<1>1. p \in 1 .. k - 1 /\ p \in 1 .. now
  BY ParentsOlder DEF Ordered
<1> QED BY <1>1, AncestorsOlder

\* Two checkpoints that meet: the merge base is their newest common ancestor.
LEMMA MergeBaseLemma ==
  ASSUME Ordered, NEW f \in 1 .. now, NEW t \in 1 .. now,
         Ancestors(f) \cap Ancestors(t) # {}
  PROVE  /\ MergeBase(f, t) \in Ancestors(f) \cap Ancestors(t)
         /\ \A j \in Ancestors(f) \cap Ancestors(t) : j <= MergeBase(f, t)
<1> DEFINE common == Ancestors(f) \cap Ancestors(t)
           proper == UNION {UNION {Ancestors(p) : p \in Parents(k)} : k \in common}
           lowest == common \ proper
<1>0. now \in Nat
  BY DEF Ordered
<1>1. common \subseteq 1 .. now /\ common \subseteq 0 .. now
  BY <1>0 DEF Ancestors
<1>2. PICK m \in common : \A j \in common : j <= m
  BY <1>0, <1>1, MaxExists
<1>3. m \notin proper
  <2>1. SUFFICES ASSUME NEW k \in common, NEW p \in Parents(k), m \in Ancestors(p)
                 PROVE  FALSE
    OBVIOUS
  <2>2. p \in 1 .. k - 1 /\ m \in 1 .. p /\ k \in 1 .. now
    BY <1>1, <2>1, AncestorsOfParent
  <2>3. k <= m
    BY <1>2
  <2> QED BY <2>2, <2>3, <1>0, <1>1
<1>4. m \in lowest /\ \A j \in lowest : j <= m
  BY <1>2, <1>3
<1>5. MergeBase(f, t) = CHOOSE k \in lowest : \A j \in lowest : j <= k
  BY DEF MergeBase
<1>6. MergeBase(f, t) \in lowest /\ \A j \in lowest : j <= MergeBase(f, t)
  <2> HIDE DEF lowest
  <2> QED BY <1>4, <1>5
<1>7. MergeBase(f, t) = m
  BY <1>0, <1>1, <1>4, <1>6
<1> QED BY <1>2, <1>7

\* Toward a descendant, what was read at the older tip is read at the newer one.
LEMMA PresenceGrows ==
  ASSUME Ordered, NEW f \in 1 .. now, NEW t \in 1 .. now, Forward(f, t), NEW c \in Claim
  PROVE  /\ f <= t /\ Ancestors(f) \subseteq Ancestors(t)
         /\ PresentAt(c, f) => PresentAt(c, t)
         /\ Before(c, f) \subseteq Before(c, t)
<1>1. Ancestors(f) \subseteq Ancestors(t)
  BY AncestorsOfAncestor DEF Forward
<1>2. f <= t
  BY AncestorsOlder DEF Forward
<1>3. PresentAt(c, f) => PresentAt(c, t)
  BY <1>1, <1>2 DEF PresentAt, Ordered
<1>4. EvidenceAt(c, f) \subseteq EvidenceAt(c, t)
  BY <1>1, <1>2 DEF EvidenceAt, EvidenceIn, EvidenceOf, Ordered
<1> QED BY <1>1, <1>2, <1>3, <1>4 DEF Before

\* Forward diffs, from the order of stamps alone.
LEMMA DiffLemma == Ordered => ForwardDiffOnlyAdds
<1> SUFFICES ASSUME Ordered, NEW f \in Stamps, NEW t \in Stamps, Forward(f, t)
             PROVE  /\ Diff(f, t).left = {} /\ Diff(f, t).base = f
                    /\ \A c \in Claims :
                         /\ Diff(f, t).claims[c] # "removed"
                         /\ Support(Before(c, f)) <= Support(Before(c, t))
                         /\ c \in DOMAIN Diff(f, t).grounding =>
                              \/ Diff(f, t).grounding[c].movement # "unchanged"
                              \/ Diff(f, t).grounding[c].to = "cited"
  BY DEF ForwardDiffOnlyAdds
<1>1. f \in 1 .. now /\ t \in 1 .. now
  BY DEF Ordered, Stamps
<1>2. Ancestors(f) \subseteq Ancestors(t) /\ f \in Ancestors(f) /\ Ancestors(f) \subseteq 1 .. f
  BY <1>1, AncestorsOfAncestor, AncestorsOlder DEF Forward
<1>3. Diff(f, t).left = {}
  BY <1>2 DEF Diff
<1>4. MergeBase(f, t) = f
  <2>1. f \in Ancestors(f) \cap Ancestors(t)
    BY <1>2
  <2>2. MergeBase(f, t) \in Ancestors(f) /\ f <= MergeBase(f, t)
    BY <1>1, <2>1, MergeBaseLemma
  <2> QED BY <1>1, <1>2, <2>2
<1>5. ASSUME NEW c \in Claims
      PROVE  /\ ClaimDelta(c, f, t) # "removed"
             /\ Support(Before(c, f)) <= Support(Before(c, t))
             /\ Changed(Before(c, f), Before(c, t)) =>
                  Moves(c, f, t).movement # "unchanged" \/ Moves(c, f, t).to = "cited"
  <2>1. c \in Claim
    BY DEF Claims
  <2>2. (PresentAt(c, f) => PresentAt(c, t)) /\ Before(c, f) \subseteq Before(c, t)
    BY <1>1, <2>1, PresenceGrows
  <2>3. ClaimDelta(c, f, t) # "removed"
    BY <2>2 DEF ClaimDelta
  <2> QED BY <2>2, <2>3, HeadlineGrows DEF Moves
<1> QED BY <1>3, <1>4, <1>5 DEF Diff

\* Blame explains diffs, from the order of stamps alone.
LEMMA BlameLemma == Ordered => BlameExplainsDiff
<1> SUFFICES ASSUME Ordered, NEW f \in Stamps, NEW t \in Stamps, Forward(f, t), NEW c \in Claims,
                    (Ancestors(t) \ Ancestors(f)) \cap Touching(c) = {},
                    \A n \in Unnamed(c) : ~(f < n /\ n <= t)
             PROVE  ClaimDelta(c, f, t) = "none" /\ ~Changed(Before(c, f), Before(c, t))
  BY DEF BlameExplainsDiff, Diff
<1>1. f \in 1 .. now /\ t \in 1 .. now /\ c \in Claim
  BY DEF Ordered, Stamps, Claims
<1>2. /\ f <= t /\ Ancestors(f) \subseteq Ancestors(t)
      /\ PresentAt(c, f) => PresentAt(c, t)
  BY <1>1, PresenceGrows
<1>3. \A K : K \subseteq Touching(c) => (K \cap Ancestors(t) # {} <=> K \cap Ancestors(f) # {})
  BY <1>2
<1>4. PresentAt(c, f) <=> PresentAt(c, t)
  <2>1. Naming("claim", c) \subseteq Touching(c)
    BY DEF Touching
  <2>2. Naming("claim", c) = {} => claim[c].at \in Unnamed(c)
    BY DEF Unnamed
  <2> QED BY <1>1, <1>2, <1>3, <2>1, <2>2 DEF PresentAt, Ordered
<1>5. SignalAt(c, f) = SignalAt(c, t)
  <2>1. \A v \in ValidationsOf(c) : Naming("validation", v.at) \subseteq Touching(c)
    BY DEF Touching
  <2>2. {v \in ValidationsOf(c) : Naming("validation", v.at) \cap Ancestors(f) # {}}
          = {v \in ValidationsOf(c) : Naming("validation", v.at) \cap Ancestors(t) # {}}
    BY <1>3, <2>1
  <2> QED BY <2>2 DEF SignalAt, SignalIn
<1>6. EvidenceAt(c, f) = EvidenceAt(c, t)
  <2>1. \A e \in EvidenceOf(c) : Naming("evidence", e.at) \subseteq Touching(c)
    BY DEF Touching
  <2>2. \A e \in EvidenceOf(c) : Naming("evidence", e.at) = {} => e.at \in Unnamed(c)
    BY DEF Unnamed
  <2>3. \A e \in EvidenceOf(c) : e.at \in Nat
    BY DEF EvidenceOf, Ordered
  <2> QED BY <1>1, <1>2, <1>3, <2>1, <2>2, <2>3 DEF EvidenceAt, EvidenceIn
<1>7. Before(c, f) = Before(c, t)
  BY <1>4, <1>6 DEF Before
<1>8. ~Changed(Before(c, f), Before(c, t))
  <2>1. Support(Before(c, t)) \in 0 .. 4
    BY RungIsMax DEF Support
  <2> QED BY <1>7, <2>1 DEF Changed, Movement
<1> QED BY <1>4, <1>5, <1>8 DEF ClaimDelta

\* A step of a blame chain: the line before it is older, so it reads no more.
LEMMA StepGrows ==
  ASSUME Ordered, NEW c \in Claim, NEW k \in 1 .. now
  PROVE  BlameStep(c, k).evidence \subseteq BlameStep(c, k).evidence_after
<1> DEFINE line == Ancestors(k)
           before == line \ {k}
           tip == CHOOSE j \in before : \A i \in before : i <= j
<1>0. now \in Nat
  BY DEF Ordered
<1>1. line \subseteq 1 .. k
  BY AncestorsOlder
<1>2. CASE before = {}
  BY <1>2 DEF BlameStep
<1>3. CASE before # {}
  <2>1. before \subseteq 0 .. now
    BY <1>0, <1>1
  <2>2. \E j \in before : \A i \in before : i <= j
    <3> HIDE DEF before
    <3> QED BY <1>0, <1>3, <2>1, MaxExists
  <2>3. tip \in before
    <3> HIDE DEF before
    <3> QED BY <2>2
  <2>4. tip \in 1 .. k
    BY <1>1, <2>3
  <2> HIDE DEF tip
  <2>5. EvidenceIn(c, before, tip) \subseteq EvidenceIn(c, line, k)
    BY <2>4 DEF EvidenceIn, EvidenceOf, Ordered
  <2>6. /\ BlameStep(c, k).evidence = EvidenceIn(c, before, tip)
        /\ BlameStep(c, k).evidence_after = EvidenceIn(c, line, k)
    BY <1>3 DEF BlameStep, tip
  <2> QED BY <2>5, <2>6
<1> QED BY <1>2, <1>3

\* A step of the chain without a validation of the claim keeps its signal.
LEMMA StepSignals ==
  ASSUME Ordered, NEW c \in Claim, NEW k \in 1 .. now,
         \A v \in ValidationsOf(c) : k \notin Naming("validation", v.at)
  PROVE  BlameStep(c, k).signal = BlameStep(c, k).signal_after
<1> DEFINE before == Ancestors(k) \ {k}
           rows(line) == {v \in ValidationsOf(c) : Naming("validation", v.at) \cap line # {}}
<1>1. rows(before) = rows(Ancestors(k))
  OBVIOUS
<1>2. before = {} => rows(before) = {}
  OBVIOUS
<1>3. Signal({}) = "none"
  BY DEF Signal
<1>4. /\ BlameStep(c, k).signal = IF before = {} THEN "none" ELSE Signal(rows(before))
      /\ BlameStep(c, k).signal_after = Signal(rows(Ancestors(k)))
  BY DEF BlameStep, SignalIn
<1> QED BY <1>1, <1>2, <1>3, <1>4

\* Blame credits the rung, from the order of stamps alone.
LEMMA CreditsLemma == Ordered => BlameCreditsRung
<1> SUFFICES ASSUME Ordered, NEW c \in Claims
             PROVE  /\ \A k \in Touching(c) :
                         /\ BlameStep(c, k).evidence \subseteq BlameStep(c, k).evidence_after
                         /\ BlameStep(c, k).signal # BlameStep(c, k).signal_after =>
                              \E v \in ValidationsOf(c) : k \in Naming("validation", v.at)
                    /\ Support(Recorded(c)) > 0 =>
                         \E k \in Touching(c) :
                           Support(Recorded(c)) <= Support(BlameStep(c, k).evidence_after)
  BY DEF BlameCreditsRung
<1>1. c \in Claim
  BY DEF Claims
<1>2. \A type, to : Naming(type, to) \subseteq 1 .. now
  BY DEF Naming, Ordered
<1>3. Touching(c) \subseteq 1 .. now
  BY <1>2 DEF Touching
<1>4. ASSUME Support(Recorded(c)) > 0
      PROVE  \E k \in Touching(c) :
               Support(Recorded(c)) <= Support(BlameStep(c, k).evidence_after)
  <2>1. PICK e \in Recorded(c) : e.relation = "support" /\ GradeOf(e) = Support(Recorded(c))
    BY <1>4, RungIsMax DEF Support
  <2>2. PICK k \in Naming("evidence", e.at) : TRUE
    BY DEF Recorded
  <2>3. k \in Touching(c) /\ k \in 1 .. now
    BY <1>2, <2>2 DEF Touching, Recorded
  <2>4. k \in Ancestors(k)
    BY <2>3, AncestorsOlder
  <2>5. e \in EvidenceIn(c, Ancestors(k), k)
    BY <2>2, <2>4 DEF EvidenceIn, Recorded
  <2>6. e \in BlameStep(c, k).evidence_after
    BY <2>5 DEF BlameStep
  <2>7. GradeOf(e) <= Support(BlameStep(c, k).evidence_after)
    BY <2>1, <2>6, RungIsMax DEF Support
  <2> QED BY <2>1, <2>3, <2>7
<1> QED BY <1>1, <1>3, <1>4, StepGrows, StepSignals

-----------------------------------------------------------------------------
(* The inductive invariant. *)

Verdicts == {"merged"} \cup Closing
RefTypes == {"claim", "evidence", "validation", "branch", "tag"}
Roles == {"uses", "validated", "recorded", "evidenced", "created", "closed", "merged"}
Refs == [type : RefTypes, to : Branch \cup Claim \cup TagName \cup Nat, role : Roles]
Finds == [claim : Claim, relation : Relation, tool : Instrument \cup {NoTool},
          status : ResultStatus]
Judges == [claim : Claim, outcome : ValidationOutcome]
Draft == [live : BOOLEAN, at : Nat, records : BOOLEAN, line : Lines, thread : Threads,
          parents : SUBSET Nat, refs : SUBSET Refs, seals : SUBSET Branch,
          verdict : {"open"} \cup Verdicts, opens : SUBSET Branch, asserts : SUBSET Claim,
          finds : SUBSET Finds, judges : SUBSET Judges, names : SUBSET TagName, tagged : Nat]

\* A transaction parents on what was committed before it was stamped.
ParentsBefore(d) ==
  d.at <= now /\ \A p \in d.parents : p \in 1 .. now /\ (d.at > 0 => p < d.at)

\* It opens branches that are not there, with their first checkpoint.
OpensNew(d) ==
  /\ d.line \in Branch => branch[d.line].status # "none" \/ d.line \in d.opens
  /\ \A b \in d.opens : branch[b].status = "none" /\ d.records /\ d.line = b

\* What it seals it tells, and nothing else.
TellsSeals(d) ==
  /\ \A b \in d.seals :
       /\ branch[b].status # "none" /\ d.records /\ d.verdict \in Verdicts
       /\ d.verdict = "merged" => Ref("branch", b, "merged") \in d.refs
       /\ d.verdict \in Closing => Ref("branch", b, "closed") \in d.refs
  /\ \A r \in d.refs : r.type = "branch" /\ r.role \in {"merged", "closed"} => r.to \in d.seals

\* The same of the names it gives; once flushed, the name is its own.
TellsNames(d) ==
  /\ \A n \in d.names :
       /\ d.records /\ Ref("tag", n, "created") \in d.refs
       /\ d.tagged \in 1 .. now /\ d.tagged \in Stamps
       /\ d.at > 0 => tags[n] = 0 /\ d.tagged < d.at
  /\ \A r \in d.refs : r.type = "tag" => r.to \in d.names

AboutClaims(d) ==
  (\A f \in d.finds : f.claim \in Claims) /\ (\A j \in d.judges : j.claim \in Claims)

DraftOK(d) ==
  ParentsBefore(d) /\ OpensNew(d) /\ TellsSeals(d) /\ TellsNames(d) /\ AboutClaims(d)

Drafts == tx \in [Slot -> Draft] /\ \A s \in Slot : DraftOK(tx[s])

\* Two transactions never open one branch, nor hold one name flushed.
Apart == \A s, r \in Slot : s # r =>
  /\ tx[s].opens \cap tx[r].opens = {}
  /\ tx[s].at > 0 /\ tx[r].at > 0 => tx[s].names \cap tx[r].names = {}

ParentsAged == \A k \in checkpoints : k.parents \subseteq 1 .. k.at - 1

\* A branch has a checkpoint.
LinesBegun == \A b \in Branch : branch[b].status # "none" => OnBranch(b) # {}

PassType == [stage : {"off", "choosing", "adopting", "running"}, thread : Threads, line : Lines]

\* A pass adopts a branch that is there, or that its own session is about to commit.
Adopting(s) ==
  pass[s].stage = "adopting" =>
    /\ pass[s].line \in Branch
    /\ \/ branch[pass[s].line].status # "none"
       \/ tx[s].live /\ pass[s].line \in tx[s].opens /\ tx[s].names = {}

Passes == pass \in [Slot -> PassType] /\ \A s \in Slot : Adopting(s)

\* A tag points at a checkpoint.
TagsPoint == \A n \in TagName : tags[n] # 0 => tags[n] \in Stamps

LInv == /\ LTypeOK /\ SealTold /\ TagTold /\ ParentsAged /\ LinesBegun /\ TagsPoint
        /\ Drafts /\ Apart /\ Passes

\* A draft with nothing in it is well formed.
LEMMA BlankIsDraft == LTypeOK => Blank \in Draft /\ DraftOK(Blank)
<1> SUFFICES ASSUME LTypeOK PROVE Blank \in Draft /\ DraftOK(Blank)
  OBVIOUS
<1> now \in Nat
  BY LedgerAssumption DEF LTypeOK
<1>1. Blank \in Draft
  BY DEF Blank, Draft, Lines, Threads
<1>2. DraftOK(Blank)
  BY LedgerAssumption DEF Blank, DraftOK, ParentsBefore, OpensNew, TellsSeals, TellsNames, AboutClaims
<1> QED BY <1>1, <1>2

\* An empty ledger satisfies the invariant.
LEMMA InitLemma == Init => LInv
<1> SUFFICES ASSUME Init PROVE LInv
  OBVIOUS
<1>1. LTypeOK
  BY LedgerAssumption DEF Init, LTypeOK, Statuses, Threads
<1>2. SealTold /\ TagTold /\ ParentsAged /\ LinesBegun /\ TagsPoint
  BY DEF Init, SealTold, TagTold, Told, Sealed, ParentsAged, LinesBegun, TagsPoint, Closing
<1>3. Drafts
  BY <1>1, BlankIsDraft DEF Init, Drafts
<1>4. Apart
  BY DEF Init, Apart, Blank
<1>5. Passes
  BY DEF Init, Passes, PassType, Adopting, Threads, Lines
<1> QED BY <1>1, <1>2, <1>3, <1>4, <1>5 DEF LInv

-----------------------------------------------------------------------------
(* A service that starts: it reads, and its draft is sound. *)

\* A draft that records lands on the main line, on a line that is open, or on its own.
Lands(d) == d.records => d.line = Main \/ d.line \in d.opens \/ MayLand(d.line)

\* What Begin asks of the draft it is given.
Sound(s, d) ==
  /\ d \in Draft /\ d.at = 0 /\ DraftOK(d) /\ Lands(d)
  /\ \A b \in d.opens : Fresh(b)

\* A sound draft may be begun at any time.
LEMMA BeginLemma ==
  ASSUME LInv, NEW s \in Slot, NEW d, Sound(s, d), Begin(s, d),
         pass' \in [Slot -> PassType],
         \A r \in Slot \ {s} : pass'[r] = pass[r],
         pass'[s].stage = "adopting" =>
           /\ pass'[s].line \in Branch
           /\ branch[pass'[s].line].status # "none" \/ (pass'[s].line \in d.opens /\ d.names = {})
  PROVE  LInv'
<1> DEFINE e == [d EXCEPT !.live = TRUE]
<1>1. /\ e \in Draft /\ e.live /\ e.at = 0 /\ e.line = d.line /\ e.parents = d.parents
      /\ e.refs = d.refs /\ e.seals = d.seals /\ e.verdict = d.verdict /\ e.opens = d.opens
      /\ e.finds = d.finds /\ e.judges = d.judges /\ e.names = d.names /\ e.tagged = d.tagged
      /\ e.records = d.records
  BY DEF Sound, Draft
<1>2. DraftOK(e)
  <2>1. ParentsBefore(e) BY <1>1 DEF Sound, DraftOK, ParentsBefore
  <2>2. OpensNew(e) BY <1>1 DEF Sound, DraftOK, OpensNew
  <2>3. TellsSeals(e) BY <1>1 DEF Sound, DraftOK, TellsSeals
  <2>4. TellsNames(e) BY <1>1 DEF Sound, DraftOK, TellsNames
  <2>5. AboutClaims(e) BY <1>1 DEF Sound, DraftOK, AboutClaims
  <2> QED BY <2>1, <2>2, <2>3, <2>4, <2>5 DEF DraftOK
<1>3. /\ tx' = [tx EXCEPT ![s] = e] /\ tx \in [Slot -> Draft]
      /\ UNCHANGED <<now, checkpoints, branch, claim, evidence, validations, tags, adopted>>
  BY DEF LInv, Drafts, Begin, tables
<1>4. tx' \in [Slot -> Draft] /\ tx'[s] = e /\ \A r \in Slot \ {s} : tx'[r] = tx[r]
  <2> HIDE DEF e
  <2> QED BY <1>1, <1>3
<1> HIDE DEF e
<1>5. LTypeOK' /\ SealTold' /\ TagTold' /\ ParentsAged' /\ LinesBegun' /\ TagsPoint'
  <2>1. LTypeOK'
    BY <1>3 DEF LInv, LTypeOK, Claims
  <2>2. SealTold' /\ TagTold' /\ ParentsAged' /\ LinesBegun' /\ TagsPoint'
    BY <1>3 DEF LInv, SealTold, TagTold, Told, Sealed, ParentsAged, LinesBegun, OnBranch,
         TagsPoint, Stamps
  <2> QED BY <2>1, <2>2
<1>6. Drafts'
  <2>1. \A r \in Slot : DraftOK(tx'[r])
    BY <1>2, <1>4 DEF LInv, Drafts
  <2> QED BY <1>4, <2>1, <1>3
          DEF Drafts, DraftOK, ParentsBefore, OpensNew, TellsSeals, TellsNames, AboutClaims, Claims, Stamps
<1>7. Apart'
  <2>1. \A r \in Slot \ {s} : tx[r].opens \cap e.opens = {}
    BY <1>1 DEF Sound, Fresh
  <2> QED BY <1>1, <1>4, <2>1 DEF LInv, Apart
<1>8. Passes'
  <2>1. \A r \in Slot \ {s} : Adopting(r)'
    BY <1>3, <1>4 DEF LInv, Passes, Adopting
  <2>2. Adopting(s)'
    BY <1>1, <1>3, <1>4 DEF Adopting
  <2> QED BY <2>1, <2>2 DEF Passes
<1> QED BY <1>5, <1>6, <1>7, <1>8 DEF LInv

\* A service starts with a sound draft.  Those that clients call leave the passes alone.
Starts(s) == \E d \in Draft : Sound(s, d) /\ Begin(s, d)
Serves(s) == \E d \in Draft : Sound(s, d) /\ Begin(s, d) /\ ByClient(s)

\* Every service ends its reads with a sound draft.
LEMMA ServesLemma ==
  ASSUME LInv, NEW s \in Slot, Serves(s)
  PROVE  LInv' /\ Starts(s)
<1>1. PICK d \in Draft : Sound(s, d) /\ Begin(s, d) /\ ByClient(s)
  BY DEF Serves
<1>2. pass' \in [Slot -> PassType] /\ \A r \in Slot : pass'[r] = pass[r]
  BY <1>1 DEF LInv, Passes, ByClient
<1>3. pass'[s].stage # "adopting"
  BY <1>1, <1>2 DEF ByClient
<1>4. LInv'
  BY <1>1, <1>2, <1>3, BeginLemma
<1> QED BY <1>1, <1>4 DEF Starts

\* A row with the greatest stamp is there to be found.
LEMMA NewestIn ==
  ASSUME LTypeOK, NEW S, S \subseteq checkpoints, S # {}
  PROVE  Newest(S) \in S
<1>1. now \in Nat /\ \A k \in S : k.at \in 0 .. now
  BY LedgerAssumption DEF LTypeOK
<1> DEFINE A == {k.at : k \in S}
<1>2. PICK m \in A : \A j \in A : j <= m
  <2>1. A \subseteq 0 .. now /\ A # {}
    BY <1>1
  <2> HIDE DEF A
  <2> QED BY <1>1, <2>1, MaxExists
<1>3. \E k \in S : \A j \in S : j.at <= k.at
  BY <1>2
<1> QED BY <1>3 DEF Newest

\* The draft of a validation is a draft.
LEMMA JudgedDraft ==
  ASSUME NEW t \in Threads, NEW R \in SUBSET Refs, NEW J \in SUBSET Judges
  PROVE  [Blank EXCEPT !.records = TRUE, !.thread = t, !.refs = R, !.judges = J] \in Draft
  BY DEF Draft, Blank, Lines

\* The draft of a client checkpoint is a draft.
LEMMA ClientDraft ==
  ASSUME NEW l \in Lines, NEW t \in Threads, NEW P \in SUBSET Nat, NEW R \in SUBSET Refs
  PROVE  [Blank EXCEPT !.records = TRUE, !.line = l, !.thread = t, !.parents = P, !.refs = R] \in Draft
  BY DEF Draft, Blank

\* Claims, evidence, validations and checkpoints of a client are served soundly.
LEMMA WriteLemma ==
  ASSUME LInv, NEW s \in Slot, Write(s)
  PROVE  Serves(s)
<1>0. LTypeOK /\ now \in Nat /\ Blank \in Draft /\ DraftOK(Blank)
  BY LedgerAssumption, BlankIsDraft DEF LInv, LTypeOK
<1>1. ASSUME NEW c \in Claim, NEW t \in Thread, CreateClaim(s, c, t) PROVE Serves(s)
  <2> DEFINE d == [Blank EXCEPT !.asserts = {c}, !.thread = t]
  <2>1. d \in Draft
    BY DEF Draft, Blank, Threads, Lines
  <2>2. Sound(s, d)
    BY <1>0, <2>1 DEF Sound, Lands, DraftOK, ParentsBefore, OpensNew, TellsSeals, TellsNames, AboutClaims, Blank
  <2> QED BY <1>1, <2>2 DEF CreateClaim, Serves, Sound
<1>2. ASSUME NEW c \in Claim, NEW rel \in Relation, AttachEvidence(s, c, rel) PROVE Serves(s)
  <2> DEFINE f == [claim |-> c, relation |-> rel, tool |-> NoTool, status |-> "result"]
             d == [Blank EXCEPT !.finds = {f}]
  <2>1. f \in Finds /\ c \in Claims
    BY <1>2 DEF Finds, ResultStatus, AttachEvidence
  <2>2. d \in Draft
    BY <2>1 DEF Draft, Blank, Threads, Lines
  <2>3. Sound(s, d)
    BY <1>0, <2>1, <2>2 DEF Sound, Lands, DraftOK, ParentsBefore, OpensNew, TellsSeals, TellsNames, AboutClaims, Blank
  <2> QED BY <1>2, <2>3 DEF AttachEvidence, Serves, Sound
<1>3. ASSUME NEW l \in Lines, NEW t \in Threads, NEW ps \in SUBSET Stamps,
             NEW rs \in SUBSET ClientRefs, CreateCheckpoint(s, l, t, ps, rs)
      PROVE  Serves(s)
  <2> DEFINE d == [Blank EXCEPT !.records = TRUE, !.line = l, !.thread = t,
                                !.parents = ps, !.refs = rs]
  <2>1. ps \subseteq 1 .. now
    BY <1>0 DEF Stamps, LTypeOK
  <2>2. rs \subseteq Refs /\ \A r \in rs : r.type \in {"claim", "evidence"}
    BY <1>0 DEF ClientRefs, Ref, Refs, RefTypes, Roles, Claims, LTypeOK
  <2>3. d \in Draft
    <3>1. ps \in SUBSET Nat /\ rs \in SUBSET Refs
      BY <1>0, <2>1, <2>2
    <3> QED BY <3>1, ClientDraft
  <2>4. MayLand(l) /\ (l \in Branch => branch[l].status # "none")
    BY <1>3, LedgerAssumption DEF CreateCheckpoint, MayLand
  <2>5. Sound(s, d)
    BY <1>0, <2>1, <2>2, <2>3, <2>4
       DEF Sound, Lands, DraftOK, ParentsBefore, OpensNew, TellsSeals, TellsNames, AboutClaims, Blank
  <2> QED BY <1>3, <2>5 DEF CreateCheckpoint, Serves, Sound
<1>4. ASSUME NEW c \in Claim, NEW o \in Outcome, ValidateClaim(s, c, o) PROVE Serves(s)
  <2> DEFINE d == Judgement("claim", c, claim[c].thread, o)
  <2>1. c \in Claims /\ claim[c].thread \in Threads /\ o \in ValidationOutcome
    BY <1>0, <1>4, LedgerAssumption DEF ValidateClaim, LTypeOK
  <2>2. Ref("claim", c, "validated") \in Refs /\ [claim |-> c, outcome |-> o] \in Judges
    BY <2>1 DEF Ref, Refs, RefTypes, Roles, Judges
  <2>3. d = [Blank EXCEPT !.records = TRUE, !.thread = claim[c].thread,
                          !.refs = {Ref("claim", c, "validated")},
                          !.judges = {[claim |-> c, outcome |-> o]}]
    BY DEF Judgement
  <2> HIDE DEF d
  <2>4. d \in Draft
    <3>1. {Ref("claim", c, "validated")} \in SUBSET Refs
      BY <2>2
    <3>2. {[claim |-> c, outcome |-> o]} \in SUBSET Judges
      BY <2>2
    <3> QED BY <2>1, <2>3, <3>1, <3>2, JudgedDraft
  <2> USE DEF d
  <2>5. Sound(s, d)
    BY <1>0, <2>1, <2>4, LedgerAssumption
       DEF Sound, Lands, DraftOK, ParentsBefore, OpensNew, TellsSeals, TellsNames, AboutClaims, Blank, Judgement, Ref
  <2> QED BY <1>4, <2>5 DEF ValidateClaim, Serves, Sound
<1>5. ASSUME NEW b \in Branch, NEW o \in Outcome, ValidateBranch(s, b, o) PROVE Serves(s)
  <2> DEFINE d == Judgement("branch", b, NoThread, o)
  <2>1. Ref("branch", b, "validated") \in Refs
    BY DEF Ref, Refs, RefTypes, Roles
  <2>2. d \in Draft
    BY <2>1 DEF Judgement, Draft, Blank, Lines, Threads
  <2>3. Sound(s, d)
    BY <1>0, <2>2, LedgerAssumption
       DEF Sound, Lands, DraftOK, ParentsBefore, OpensNew, TellsSeals, TellsNames, AboutClaims, Blank, Judgement, Ref
  <2> QED BY <1>5, <2>3 DEF ValidateBranch, Serves, Sound
<1> QED BY <1>1, <1>2, <1>3, <1>4, <1>5 DEF Write

\* The draft of an instrument run is a draft.
LEMMA RunDraft ==
  ASSUME NEW l \in Lines, NEW t \in Threads, NEW F \in SUBSET Finds, NEW R \in SUBSET Refs
  PROVE  [Blank EXCEPT !.records = TRUE, !.line = l, !.thread = t, !.finds = F, !.refs = R] \in Draft
  BY DEF Draft, Blank

\* A fork is sound wherever it comes from.
LEMMA ForkSound ==
  ASSUME LInv, NEW s \in Slot, NEW b \in Branch, NEW t \in Threads, NEW fork \in Stamps, Fresh(b)
  PROVE  Sound(s, Fork(b, t, fork)) /\ Fork(b, t, fork).opens = {b} /\ Fork(b, t, fork).names = {}
<1> DEFINE d == Fork(b, t, fork)
<1>0. LTypeOK /\ now \in Nat /\ Blank \in Draft /\ DraftOK(Blank)
  BY LedgerAssumption, BlankIsDraft DEF LInv, LTypeOK
<1>1. fork \in 1 .. now /\ fork \in Nat
  BY <1>0 DEF Stamps, LTypeOK
<1>2. Ref("branch", b, "created") \in Refs
  BY DEF Ref, Refs, RefTypes, Roles
<1>3. d \in Draft /\ d.opens = {b} /\ d.names = {}
  BY <1>1, <1>2 DEF Fork, Draft, Blank, Lines
<1>4. DraftOK(d)
  BY <1>0, <1>1 DEF DraftOK, ParentsBefore, OpensNew, TellsSeals, TellsNames, AboutClaims, Blank, Fork, Ref, Fresh
<1>5. d.at = 0 /\ d.line \in d.opens
  BY DEF Fork, Blank
<1> QED BY <1>3, <1>4, <1>5 DEF Sound, Lands

\* What a run writes, on a line that it may land on.
LEMMA LandedSound ==
  ASSUME LInv, NEW s \in Slot, NEW l \in Lines, NEW t \in Threads,
         NEW c \in Claims \cup {NoClaim}, NEW run \in Run
  PROVE  /\ MayLand(l) => Sound(s, Landed(l, t, c, run))
         /\ Sound(s, [Blank EXCEPT !.finds = Landed(l, t, c, run).finds])
         /\ Landed(l, t, c, run).opens = {}
<1> DEFINE d == Landed(l, t, c, run)
<1>0. LTypeOK /\ now \in Nat /\ Blank \in Draft /\ DraftOK(Blank)
  BY LedgerAssumption, BlankIsDraft DEF LInv, LTypeOK
<1>1. run[1] \in Instrument /\ run[2] \in ResultStatus /\ run[3] \in Relation \cup {"default"}
  BY LedgerAssumption
<1>2. d.finds \subseteq Finds /\ \A f \in d.finds : f.claim \in Claims
  BY <1>1 DEF Landed, Finding, DefaultRelation, Finds, Blank, ResultStatus, Relation, Claims
<1>3. d.refs \subseteq Refs /\ \A r \in d.refs : r.type = "claim"
  BY DEF Landed, Blank, Ref, Refs, RefTypes, Roles, Claims
<1>4. d.thread \in Threads
  BY <1>0 DEF Landed, Blank, LTypeOK, Claims
<1>5. /\ d.live = FALSE /\ d.at = 0 /\ d.records = TRUE /\ d.line = l /\ d.parents = {}
      /\ d.seals = {} /\ d.verdict = "open" /\ d.opens = {} /\ d.asserts = {} /\ d.judges = {}
      /\ d.names = {} /\ d.tagged = 0
  BY DEF Landed, Blank
<1>6. d \in Draft
  <2> DEFINE u == IF c = NoClaim THEN t ELSE claim[c].thread
             F == IF c = NoClaim THEN {} ELSE {Finding(c, run)}
             R == IF c = NoClaim THEN {} ELSE {Ref("claim", c, "evidenced")}
  <2>1. d = [Blank EXCEPT !.records = TRUE, !.line = l, !.thread = u, !.finds = F, !.refs = R]
    BY DEF Landed
  <2>2. d.finds = F /\ d.refs = R /\ d.thread = u
    BY DEF Landed, Blank
  <2> HIDE DEF d, u, F, R
  <2>3. u \in Threads /\ F \in SUBSET Finds /\ R \in SUBSET Refs
    BY <1>2, <1>3, <1>4, <2>2
  <2>4. [Blank EXCEPT !.records = TRUE, !.line = l, !.thread = u, !.finds = F, !.refs = R] \in Draft
    BY <2>3, RunDraft
  <2> QED BY <2>1, <2>4, Zenon
<1> HIDE DEF d
<1>7. ASSUME MayLand(l) PROVE DraftOK(d)
  <2>1. l \in Branch => branch[l].status # "none"
    BY <1>7, LedgerAssumption DEF MayLand
  <2> QED BY <1>0, <1>2, <1>3, <1>5, <2>1
          DEF DraftOK, ParentsBefore, OpensNew, TellsSeals, TellsNames, AboutClaims
<1> DEFINE k == [Blank EXCEPT !.finds = d.finds]
<1>8. k \in Draft /\ k.at = 0 /\ k.opens = {} /\ ~k.records
  BY <1>2 DEF Draft, Blank, Lines, Threads
<1>9. DraftOK(k)
  BY <1>0, <1>2, LedgerAssumption
     DEF Blank, DraftOK, ParentsBefore, OpensNew, TellsSeals, TellsNames, AboutClaims
<1>10. Sound(s, k)
  BY <1>8, <1>9 DEF Sound, Lands
<1>11. MayLand(l) => Sound(s, d)
  BY <1>5, <1>6, <1>7 DEF Sound, Lands
<1> QED BY <1>5, <1>10, <1>11 DEF d

\* The merge names the thread it was asked for, or one that its sources share, and parents
\* on checkpoints.
LEMMA MergeReads ==
  ASSUME LInv, NEW S \in SUBSET Branch, NEW l \in Lines, NEW asked \in Threads, NEW t,
         \A b \in S : branch[b].status = "open"
  PROVE  MergeThread(S, asked) \in Threads /\ MergeHeads(S, l, t) \subseteq 1 .. now
<1>1. MergeThread(S, asked) \in Threads
  BY DEF MergeThread, Threads
<1>2. \A b \in S : OnBranch(b) # {} /\ OnBranch(b) \subseteq checkpoints
  BY DEF LInv, LinesBegun, OnBranch
<1>3. \A b \in S : Newest(OnBranch(b)) \in checkpoints
  BY <1>2, NewestIn DEF LInv
<1> DEFINE into == IF l = Main THEN OnMain(t) ELSE OnBranch(l)
<1>4. into \subseteq checkpoints
  BY DEF OnMain, OnBranch
<1> HIDE DEF into
<1>5. \A K \in {into} \ {{}} : Newest(K) \in checkpoints
  BY <1>4, NewestIn DEF LInv
<1>6. \A k \in checkpoints : k.at \in 1 .. now
  BY DEF LInv, LTypeOK
<1>7. MergeHeads(S, l, t)
        = {Newest(OnBranch(b)).at : b \in S} \cup {Newest(K).at : K \in {into} \ {{}}}
  BY DEF MergeHeads, into
<1> QED BY <1>1, <1>3, <1>5, <1>6, <1>7

\* The draft of a merge is a draft.
LEMMA MergeDraft ==
  ASSUME NEW l \in Lines, NEW t \in Threads, NEW P \in SUBSET Nat, NEW S \in SUBSET Branch,
         NEW R \in SUBSET Refs
  PROVE  [Blank EXCEPT !.records = TRUE, !.line = l, !.thread = t, !.parents = P,
                       !.seals = S, !.verdict = "merged", !.refs = R] \in Draft
  BY DEF Draft, Blank, Verdicts

\* The draft of a tag is a draft.
LEMMA TagDraft ==
  ASSUME NEW l \in Lines, NEW t \in Threads, NEW N \in SUBSET TagName, NEW k \in Nat,
         NEW R \in SUBSET Refs
  PROVE  [Blank EXCEPT !.records = TRUE, !.thread = t, !.line = l, !.names = N,
                       !.tagged = k, !.refs = R] \in Draft
  BY DEF Draft, Blank

\* Forks, closes, merges and tags are served soundly.
LEMMA LineLemma ==
  ASSUME LInv, NEW s \in Slot, Line(s)
  PROVE  Serves(s)
<1>0. LTypeOK /\ now \in Nat /\ Blank \in Draft /\ DraftOK(Blank)
  BY LedgerAssumption, BlankIsDraft DEF LInv, LTypeOK
<1>1. ASSUME NEW b \in Branch, NEW t \in Threads, NEW f \in Stamps, CreateBranch(s, b, t, f)
      PROVE  Serves(s)
  <2>1. Sound(s, Fork(b, t, f))
    BY <1>1, ForkSound DEF CreateBranch
  <2> QED BY <1>1, <2>1 DEF CreateBranch, Serves, Sound
<1>2. ASSUME NEW b \in Branch, NEW v \in Closing, CloseBranch(s, b, v) PROVE Serves(s)
  <2> DEFINE d == Close(b, v)
  <2>1. branch[b].thread \in Threads /\ branch[b].status = "open"
    BY <1>0, <1>2 DEF LTypeOK, CloseBranch
  <2>2. Ref("branch", b, "closed") \in Refs
    BY DEF Ref, Refs, RefTypes, Roles
  <2>3. d \in Draft
    BY <2>1, <2>2 DEF Close, Draft, Blank, Lines, Verdicts
  <2>4. Sound(s, d)
    BY <1>0, <2>1, <2>3, LedgerAssumption
       DEF Sound, Lands, DraftOK, ParentsBefore, OpensNew, TellsSeals, TellsNames, AboutClaims, Blank,
           Close, Ref, Closing, Verdicts
  <2> QED BY <1>2, <2>4 DEF CloseBranch, Serves, Sound
<1>3. ASSUME NEW S \in SUBSET Branch, NEW l \in Lines, NEW asked \in Threads,
             NEW C \in SUBSET Claims, MergeBranches(s, S, l, asked, C)
      PROVE  Serves(s)
  <2> DEFINE t == MergeThread(S, asked)
             P == MergeHeads(S, l, t)
             R == {Ref("branch", b, "merged") : b \in S} \cup {Ref("claim", c, "merged") : c \in C}
             d == [Blank EXCEPT !.records = TRUE, !.line = l, !.thread = t, !.parents = P,
                                !.seals = S, !.verdict = "merged", !.refs = R]
  <2>1. /\ \A b \in S : branch[b].status = "open"
        /\ MayLand(l) /\ Begin(s, d) /\ ByClient(s)
    BY <1>3 DEF MergeBranches
  <2>2. t \in Threads /\ P \subseteq 1 .. now
    BY <2>1, MergeReads
  <2>3. R \in SUBSET Refs
    BY DEF Ref, Refs, RefTypes, Roles, Claims
  <2>4. /\ \A b \in S : Ref("branch", b, "merged") \in R
        /\ \A r \in R : (r.type = "branch" => r.to \in S) /\ r.type # "tag"
    BY DEF Ref
  <2>5. l \in Branch => branch[l].status # "none"
    BY <2>1, LedgerAssumption DEF MayLand
  <2> HIDE DEF t, P, R
  <2>6. d \in Draft
    <3>1. P \in SUBSET Nat
      BY <1>0, <2>2
    <3> QED BY <2>2, <2>3, <3>1, MergeDraft
  <2>7. Sound(s, d)
    BY <1>0, <2>1, <2>2, <2>4, <2>5, <2>6
       DEF Sound, Lands, DraftOK, ParentsBefore, OpensNew, TellsSeals, TellsNames, AboutClaims, Blank,
           Closing, Verdicts
  <2> QED BY <2>1, <2>7 DEF Serves, Sound
<1>4. ASSUME NEW n \in TagName, NEW k \in checkpoints, CreateTag(s, n, k) PROVE Serves(s)
  <2> DEFINE l == IF MayLand(k.line) THEN k.line ELSE Main
             d == [Blank EXCEPT !.records = TRUE, !.thread = k.thread, !.line = l,
                                !.names = {n}, !.tagged = k.at, !.refs = {Ref("tag", n, "created")}]
  <2>1. tags[n] = 0 /\ Begin(s, d) /\ ByClient(s)
    BY <1>4 DEF CreateTag
  <2>2. k.line \in Lines /\ k.thread \in Threads /\ k.at \in 1 .. now /\ k.at \in Stamps
    BY <1>0 DEF LTypeOK, Stamps
  <2>3. l \in Lines /\ (l = Main \/ MayLand(l)) /\ (l \in Branch => branch[l].status # "none")
    BY <2>2, LedgerAssumption DEF MayLand, Lines
  <2>4. Ref("tag", n, "created") \in Refs
    BY DEF Ref, Refs, RefTypes, Roles
  <2> HIDE DEF l
  <2>5. d \in Draft
    <3>1. {Ref("tag", n, "created")} \in SUBSET Refs /\ {n} \in SUBSET TagName /\ k.at \in Nat
      BY <2>2, <2>4
    <3> QED BY <2>2, <2>3, <3>1, TagDraft
  <2>6. Sound(s, d)
    BY <1>0, <2>2, <2>3, <2>5
       DEF Sound, Lands, DraftOK, ParentsBefore, OpensNew, TellsSeals, TellsNames, AboutClaims, Blank, Ref
  <2> QED BY <2>1, <2>6 DEF Serves, Sound
<1>5. ASSUME NEW l \in Lines, NEW t \in Threads, NEW c \in Claim \cup {NoClaim}, NEW r \in Run,
             RunInstrument(s, l, t, c, r)
      PROVE  Serves(s)
  <2>1. c \in Claims \cup {NoClaim}
    BY <1>5 DEF RunInstrument
  <2>2. Sound(s, Landed(l, t, c, r))
    BY <1>5, <2>1, LandedSound DEF RunInstrument
  <2> QED BY <1>5, <2>2 DEF RunInstrument, Serves, Sound
<1> QED BY <1>1, <1>2, <1>3, <1>4, <1>5 DEF Line

-----------------------------------------------------------------------------
(* The pass: it moves on, or it starts a transaction. *)

\* What only moves an agent pass keeps the invariant.
LEMMA PassMoves ==
  ASSUME LInv, NEW s \in Slot, NEW p \in PassType, pass' = [pass EXCEPT ![s] = p],
         UNCHANGED <<now, tables, tx>>,
         adopted' \subseteq {b \in Branch : branch[b].status # "none"},
         p.stage = "adopting" => p.line \in Branch /\ branch[p.line].status # "none"
  PROVE  LInv'
<1>1. /\ UNCHANGED <<now, checkpoints, branch, claim, evidence, validations, tags>>
      /\ tx' = tx
  BY DEF tables
<1>2. pass' \in [Slot -> PassType] /\ pass'[s] = p /\ \A r \in Slot \ {s} : pass'[r] = pass[r]
  BY DEF LInv, Passes
<1>3. LTypeOK'
  BY <1>1 DEF LInv, LTypeOK, Claims
<1>4. SealTold' /\ TagTold' /\ ParentsAged' /\ LinesBegun' /\ TagsPoint'
  BY <1>1 DEF LInv, SealTold, TagTold, Told, Sealed, ParentsAged, LinesBegun, OnBranch,
         TagsPoint, Stamps
<1>5. Drafts'
  BY <1>1
     DEF LInv, Drafts, DraftOK, ParentsBefore, OpensNew, TellsSeals, TellsNames, AboutClaims, Claims, Stamps
<1>6. Apart'
  BY <1>1 DEF LInv, Apart
<1>7. Passes'
  <2>1. \A r \in Slot \ {s} : Adopting(r)'
    BY <1>1, <1>2 DEF LInv, Passes, Adopting
  <2>2. Adopting(s)'
    BY <1>1, <1>2 DEF Adopting
  <2> QED BY <1>2, <2>1, <2>2 DEF Passes
<1> QED BY <1>3, <1>4, <1>5, <1>6, <1>7 DEF LInv

\* The newest of the open agent lines is there.
LEMMA NewestLine ==
  ASSUME LTypeOK, NEW L \in SUBSET Branch, L # {}
  PROVE  (CHOOSE b \in L : \A l \in L : branch[l].at <= branch[b].at) \in L
<1>1. now \in Nat /\ \A b \in L : branch[b].at \in 0 .. now
  BY LedgerAssumption DEF LTypeOK
<1> DEFINE A == {branch[b].at : b \in L}
<1>2. PICK m \in A : \A j \in A : j <= m
  <2>1. A \subseteq 0 .. now /\ A # {}
    BY <1>1
  <2> HIDE DEF A
  <2> QED BY <1>1, <2>1, MaxExists
<1>3. \E b \in L : \A l \in L : branch[l].at <= branch[b].at
  BY <1>2
<1> QED BY <1>3

\* A pass starts a transaction or leaves them all alone.
AgentMoves(s) == LInv' /\ (Starts(s) \/ UNCHANGED <<tables, tx>>)

\* The steps of an agent pass move the pass or begin a sound draft.
LEMMA AgentLemma ==
  ASSUME LInv, NEW s \in Slot, Agent(s)
  PROVE  AgentMoves(s)
<1>0. /\ LTypeOK /\ pass \in [Slot -> PassType] /\ Adopting(s)
      /\ pass[s].thread \in Threads /\ pass[s].line \in Lines
      /\ adopted \subseteq {b \in Branch : branch[b].status # "none"}
  BY DEF LInv, LTypeOK, Passes, PassType
<1>1. ASSUME NEW t \in Thread, PassStarts(s, t) PROVE AgentMoves(s)
  <2> DEFINE p == [stage |-> "choosing", thread |-> t, line |-> Main]
  <2>1. p \in PassType
    BY DEF PassType, Threads, Lines
  <2> QED BY <1>0, <1>1, <2>1, PassMoves DEF PassStarts, AgentMoves
<1>2. CASE ReuseLine(s)
  <2> DEFINE L == AgentLines(pass[s].thread)
             b == CHOOSE b \in L : \A l \in L : branch[l].at <= branch[b].at
             p == [pass[s] EXCEPT !.stage = "adopting", !.line = b]
  <2>1. /\ L # {} /\ L \subseteq Branch
        /\ \A l \in L : branch[l].status # "none"
    BY <1>0, <1>2 DEF ReuseLine, AgentLines
  <2>2. /\ pass' = [pass EXCEPT ![s].stage = "adopting", ![s].line = b]
        /\ UNCHANGED <<now, tables, adopted, tx>>
    BY <1>2, Zenon DEF ReuseLine
  <2>3. b \in L
    <3> HIDE DEF L
    <3> QED BY <1>0, <2>1, NewestLine
  <2> HIDE DEF b, L
  <2>4. p \in PassType /\ p.line = b /\ p.stage = "adopting"
    BY <1>0, <2>1, <2>3 DEF PassType, Lines
  <2>5. pass' = [pass EXCEPT ![s] = p]
    BY <1>0, <2>2
  <2>6. p.line \in Branch /\ branch[p.line].status # "none"
    BY <2>1, <2>3, <2>4
  <2> HIDE DEF p
  <2>7. LInv'
    BY <1>0, <2>2, <2>4, <2>5, <2>6, PassMoves
  <2> QED BY <2>2, <2>7 DEF AgentMoves
<1>3. ASSUME NEW b \in Branch, ForkLine(s, b) PROVE AgentMoves(s)
  <2> DEFINE t == pass[s].thread
             k == Newest(OnMain(t))
             d == Fork(b, t, k.at)
             p == [pass[s] EXCEPT !.stage = "adopting", !.line = b]
  <2>1. OnMain(t) # {} /\ Fresh(b) /\ Begin(s, d)
    BY <1>3 DEF ForkLine
  <2>2. k.at \in Stamps
    <3>1. k \in OnMain(t)
      BY <1>0, <2>1, NewestIn DEF OnMain
    <3> QED BY <3>1 DEF OnMain, Stamps
  <2>3. Sound(s, d) /\ d.opens = {b} /\ d.names = {}
    BY <1>0, <2>1, <2>2, ForkSound
  <2>4. pass' = [pass EXCEPT ![s] = p]
    BY <1>0, <1>3 DEF ForkLine
  <2>5. p \in PassType /\ p.line = b
    BY <1>0 DEF PassType, Lines
  <2> HIDE DEF d, p
  <2>6. pass' \in [Slot -> PassType] /\ pass'[s] = p /\ \A r \in Slot \ {s} : pass'[r] = pass[r]
    BY <1>0, <2>4, <2>5
  <2> QED BY <2>1, <2>3, <2>5, <2>6, BeginLemma DEF AgentMoves, Starts, Sound
<1>4. CASE StayOnMain(s)
  <2> DEFINE p == [pass[s] EXCEPT !.stage = "running"]
  <2>1. p \in PassType /\ p.stage = "running"
    BY <1>0 DEF PassType
  <2>2. pass' = [pass EXCEPT ![s] = p] /\ UNCHANGED <<now, tables, adopted, tx>>
    BY <1>0, <1>4 DEF StayOnMain
  <2> QED BY <1>0, <2>1, <2>2, PassMoves DEF AgentMoves
<1>5. CASE AdoptLine(s)
  <2> DEFINE p == [pass[s] EXCEPT !.stage = "running"]
  <2>1. p \in PassType /\ p.stage = "running"
    BY <1>0 DEF PassType
  <2>2. pass' = [pass EXCEPT ![s] = p] /\ UNCHANGED <<now, tables, tx>>
    BY <1>0, <1>5 DEF AdoptLine
  <2>3. adopted' \subseteq {b \in Branch : branch[b].status # "none"}
    BY <1>0, <1>5 DEF AdoptLine, Adopting
  <2> QED BY <2>1, <2>2, <2>3, PassMoves DEF AgentMoves
<1>6. ASSUME NEW c \in Claim \cup {NoClaim}, NEW r \in Run, PassRuns(s, c, r) PROVE AgentMoves(s)
  <2> DEFINE l == pass[s].line
             kept == Landed(l, pass[s].thread, c, r)
             d == IF MayLand(l) THEN kept ELSE [Blank EXCEPT !.finds = kept.finds]
  <2>1. /\ pass[s].stage = "running" /\ UNCHANGED pass /\ c \in Claims \cup {NoClaim}
        /\ Begin(s, d)
    BY <1>6 DEF PassRuns
  <2>2. Sound(s, d)
    BY <1>0, <2>1, LandedSound
  <2> HIDE DEF d
  <2>3. LInv'
    BY <1>0, <2>1, <2>2, BeginLemma
  <2> QED BY <2>1, <2>2, <2>3 DEF AgentMoves, Starts, Sound
<1>7. CASE ReplanChooses(s)
  <2> DEFINE p == [pass[s] EXCEPT !.stage = "choosing"]
  <2>1. p \in PassType /\ p.stage = "choosing"
    BY <1>0 DEF PassType
  <2>2. pass' = [pass EXCEPT ![s] = p] /\ UNCHANGED <<now, tables, adopted, tx>>
    BY <1>0, <1>7 DEF ReplanChooses
  <2> QED BY <1>0, <2>1, <2>2, PassMoves DEF AgentMoves
<1>8. CASE PassEnds(s)
  <2> DEFINE p == [pass[s] EXCEPT !.stage = "off"]
  <2>1. p \in PassType /\ p.stage = "off"
    BY <1>0 DEF PassType
  <2>2. pass' = [pass EXCEPT ![s] = p] /\ UNCHANGED <<now, tables, adopted, tx>>
    BY <1>0, <1>8 DEF PassEnds
  <2> QED BY <1>0, <2>1, <2>2, PassMoves DEF AgentMoves
<1> QED BY <1>1, <1>2, <1>3, <1>4, <1>5, <1>6, <1>7, <1>8 DEF Agent

-----------------------------------------------------------------------------
(* A transaction that is flushed, refused, lost or committed. *)

\* A flush stamps the draft with a time nobody has had.
LEMMA FlushLemma ==
  ASSUME LInv, NEW s \in Slot, Flush(s)
  PROVE  LInv'
<1> DEFINE e == [tx[s] EXCEPT !.at = now + 1]
<1>0. LTypeOK /\ now \in Nat /\ tx \in [Slot -> Draft] /\ tx[s] \in Draft /\ DraftOK(tx[s])
  BY DEF LInv, LTypeOK, Drafts
<1>1. /\ now' = now + 1 /\ tx' = [tx EXCEPT ![s] = e] /\ pass' = pass /\ ~Waits(s)
      /\ \A n \in tx[s].names : tags[n] = 0
      /\ UNCHANGED <<checkpoints, branch, claim, evidence, validations, tags, adopted>>
  BY <1>0 DEF Flush, tables
<1>2. /\ e \in Draft /\ e.at = now + 1 /\ e.live = tx[s].live /\ e.line = tx[s].line
      /\ e.parents = tx[s].parents /\ e.refs = tx[s].refs /\ e.seals = tx[s].seals
      /\ e.verdict = tx[s].verdict /\ e.opens = tx[s].opens /\ e.finds = tx[s].finds
      /\ e.judges = tx[s].judges /\ e.names = tx[s].names /\ e.tagged = tx[s].tagged
      /\ e.records = tx[s].records
  BY <1>0 DEF Draft
<1> HIDE DEF e
<1>3. tx' \in [Slot -> Draft] /\ tx'[s] = e /\ \A r \in Slot \ {s} : tx'[r] = tx[r]
  BY <1>0, <1>1, <1>2
<1>4. LTypeOK'
  <2>1. 0 .. now \subseteq 0 .. now' /\ 1 .. now \subseteq 1 .. now' /\ now' \in Nat
    BY <1>0, <1>1
  <2>2. /\ branch' \in [Branch -> [status : Statuses, thread : Threads, at : 0 .. now']]
        /\ claim' \in [Claim -> [at : 0 .. now', thread : Threads]]
        /\ tags' \in [TagName -> 0 .. now']
    BY <1>0, <1>1, <2>1 DEF LTypeOK
  <2> QED BY <1>0, <1>1, <2>1, <2>2 DEF LTypeOK, Claims
<1>5. SealTold' /\ TagTold' /\ ParentsAged' /\ LinesBegun' /\ TagsPoint'
  BY <1>1 DEF LInv, SealTold, TagTold, Told, Sealed, ParentsAged, LinesBegun, OnBranch,
         TagsPoint, Stamps
<1>6. Drafts'
  <2>1. ASSUME NEW r \in Slot \ {s} PROVE DraftOK(tx[r])'
    <3>1. DraftOK(tx[r]) /\ tx'[r] = tx[r] /\ tx[r] \in Draft
      BY <1>3, <2>1 DEF LInv, Drafts
    <3>2. ParentsBefore(tx[r])'
      BY <1>0, <1>1, <3>1 DEF DraftOK, ParentsBefore, Draft
    <3>3. OpensNew(tx[r])' /\ TellsSeals(tx[r])' /\ AboutClaims(tx[r])'
      BY <1>1, <3>1 DEF DraftOK, OpensNew, TellsSeals, AboutClaims, Claims
    <3>4. TellsNames(tx[r])'
      BY <1>0, <1>1, <3>1 DEF DraftOK, TellsNames, Stamps
    <3> QED BY <3>2, <3>3, <3>4 DEF DraftOK
  <2>2. DraftOK(tx[s])'
    <3>1. ParentsBefore(tx[s])'
      BY <1>0, <1>1, <1>2, <1>3 DEF DraftOK, ParentsBefore
    <3>2. OpensNew(tx[s])'
      BY <1>0, <1>1, <1>2, <1>3 DEF DraftOK, OpensNew
    <3>3. TellsSeals(tx[s])'
      BY <1>0, <1>1, <1>2, <1>3 DEF DraftOK, TellsSeals
    <3>4. TellsNames(tx[s])'
      BY <1>0, <1>1, <1>2, <1>3 DEF DraftOK, TellsNames, Stamps
    <3>5. AboutClaims(tx[s])'
      BY <1>0, <1>1, <1>2, <1>3 DEF DraftOK, AboutClaims, Claims
    <3> QED BY <3>1, <3>2, <3>3, <3>4, <3>5 DEF DraftOK
  <2> QED BY <1>3, <2>1, <2>2 DEF Drafts
<1>7. Apart'
  <2>1. \A r \in Slot \ {s} : tx[r].at > 0 => tx[r].names \cap e.names = {}
    BY <1>1, <1>2 DEF Waits
  <2> QED BY <1>2, <1>3, <2>1 DEF LInv, Apart
<1>8. Passes'
  BY <1>1, <1>2, <1>3 DEF LInv, Passes, Adopting
<1> QED BY <1>4, <1>5, <1>6, <1>7, <1>8 DEF LInv

\* A transaction that goes leaves nothing behind.
LEMMA DropLemma ==
  ASSUME LInv, NEW s \in Slot, tx' = [tx EXCEPT ![s] = Blank],
         UNCHANGED <<now, tables, adopted>>,
         pass' \in [Slot -> PassType],
         \A r \in Slot \ {s} : pass'[r] = pass[r],
         pass'[s].stage = "adopting" =>
           pass'[s].line \in Branch /\ branch[pass'[s].line].status # "none"
  PROVE  LInv'
<1>0. LTypeOK /\ tx \in [Slot -> Draft] /\ Blank \in Draft /\ DraftOK(Blank)
  BY BlankIsDraft DEF LInv, Drafts
<1>1. UNCHANGED <<now, checkpoints, branch, claim, evidence, validations, tags, adopted>>
  BY DEF tables
<1>2. tx' \in [Slot -> Draft] /\ tx'[s] = Blank /\ \A r \in Slot \ {s} : tx'[r] = tx[r]
  BY <1>0
<1>3. LTypeOK'
  BY <1>1 DEF LInv, LTypeOK, Claims
<1>4. SealTold' /\ TagTold' /\ ParentsAged' /\ LinesBegun' /\ TagsPoint'
  BY <1>1 DEF LInv, SealTold, TagTold, Told, Sealed, ParentsAged, LinesBegun, OnBranch,
         TagsPoint, Stamps
<1>5. Drafts'
  <2>1. \A r \in Slot : DraftOK(tx'[r])
    BY <1>0, <1>2 DEF LInv, Drafts
  <2> QED BY <1>1, <1>2, <2>1
          DEF Drafts, DraftOK, ParentsBefore, OpensNew, TellsSeals, TellsNames, AboutClaims, Claims, Stamps
<1>6. Apart'
  <2>1. Blank.opens = {} /\ Blank.names = {}
    BY DEF Blank
  <2> QED BY <1>2, <2>1 DEF LInv, Apart
<1>7. Passes'
  <2>1. \A r \in Slot \ {s} : Adopting(r)'
    BY <1>1, <1>2 DEF LInv, Passes, Adopting
  <2>2. Adopting(s)'
    BY <1>1 DEF Adopting
  <2> QED BY <2>1, <2>2 DEF Passes
<1> QED BY <1>3, <1>4, <1>5, <1>6, <1>7 DEF LInv

\* A draft that meets a unique name is dropped.
LEMMA ConflictsLemma ==
  ASSUME LInv, NEW s \in Slot, Conflicts(s)
  PROVE  LInv'
<1>1. pass' = pass /\ pass \in [Slot -> PassType] /\ tx[s].names # {}
  BY DEF Conflicts, LInv, Passes
<1>2. Adopting(s)
  BY DEF LInv, Passes
<1> QED BY <1>1, <1>2, DropLemma DEF Conflicts, Adopting

\* A lost session drops its draft.
LEMMA LostLemma ==
  ASSUME LInv, NEW s \in Slot, Lost(s)
  PROVE  LInv'
<1>1. pass \in [Slot -> PassType] /\ pass' = [pass EXCEPT ![s].stage = "off"]
  BY DEF Lost, LInv, Passes
<1>2. /\ pass' \in [Slot -> PassType] /\ pass'[s].stage = "off"
      /\ \A r \in Slot \ {s} : pass'[r] = pass[r]
  BY <1>1 DEF PassType
<1> QED BY <1>2, DropLemma DEF Lost

\* What a commit writes.
LEMMA CommitWrites ==
  ASSUME LInv, NEW s \in Slot, Commit(s)
  PROVE  LET d == tx[s] IN
         /\ d \in Draft /\ DraftOK(d) /\ d.at \in 1 .. now /\ d.live /\ now' = now
         /\ Checkpoint(d).at = d.at /\ Checkpoint(d).line = d.line
         /\ Checkpoint(d).thread = d.thread /\ Checkpoint(d).parents = d.parents
         /\ d.refs \subseteq Checkpoint(d).refs
         /\ \A r \in Checkpoint(d).refs :
              r.type \in {"branch", "tag", "claim"} => r \in d.refs
         /\ checkpoints' = checkpoints \cup (IF d.records THEN {Checkpoint(d)} ELSE {})
         /\ branch' \in [Branch -> [status : Statuses, thread : Threads, at : 0 .. now]]
         /\ \A b \in d.opens :
              branch'[b].status = "open" /\ branch[b].status = "none" /\ b \notin d.seals
         /\ \A b \in d.seals : branch'[b].status = d.verdict
         /\ \A b \in Branch : b \notin d.opens /\ b \notin d.seals => branch'[b] = branch[b]
         /\ \A c \in Claim : claim[c].at > 0 => claim'[c].at > 0
         /\ tx' \in [Slot -> Draft] /\ tx'[s] = Blank
         /\ \A r \in Slot \ {s} : tx'[r] = tx[r]
<1> DEFINE d == tx[s]
<1>0. LTypeOK /\ now \in Nat /\ tx \in [Slot -> Draft] /\ Blank \in Draft
  BY BlankIsDraft DEF LInv, LTypeOK, Drafts
<1>1. d \in Draft /\ DraftOK(d) /\ d.at \in Nat
  BY <1>0 DEF LInv, Drafts, Draft
<1>2. d.at \in 1 .. now /\ d.live /\ now' = now
  BY <1>0, <1>1 DEF Commit, DraftOK, ParentsBefore
<1>3. /\ Checkpoint(d).at = d.at /\ Checkpoint(d).line = d.line
      /\ Checkpoint(d).thread = d.thread /\ Checkpoint(d).parents = d.parents
      /\ Checkpoint(d).refs = d.refs \cup OwnRefs(d)
  BY DEF Checkpoint
<1>4. \A r \in OwnRefs(d) : r.type \in {"evidence", "validation"}
  BY DEF OwnRefs, Ref
<1>5. \A b \in d.opens : branch[b].status = "none" /\ b \notin d.seals
  BY <1>1 DEF DraftOK, OpensNew, TellsSeals, Draft
<1>6. \A c \in Claim : claim[c].at > 0 => claim'[c].at > 0
  BY <1>2 DEF Commit
<1>7. tx' \in [Slot -> Draft] /\ tx'[s] = Blank /\ \A r \in Slot \ {s} : tx'[r] = tx[r]
  <2>1. tx' = [tx EXCEPT ![s] = Blank]
    BY DEF Commit
  <2> QED BY <1>0, <2>1
<1>8. \A r \in Checkpoint(d).refs : r.type \in {"branch", "tag", "claim"} => r \in d.refs
  BY <1>3, <1>4
<1>9. checkpoints' = checkpoints \cup (IF d.records THEN {Checkpoint(d)} ELSE {})
  BY DEF Commit
<1> DEFINE opened == [status |-> "open", thread |-> d.thread, at |-> d.at]
           sealed(b) == [branch[b] EXCEPT !.status = d.verdict]
<1>10. branch' = [b \in Branch |-> IF b \in d.opens THEN opened
                                   ELSE IF b \in d.seals THEN sealed(b) ELSE branch[b]]
  BY DEF Commit
<1>11. branch \in [Branch -> [status : Statuses, thread : Threads, at : 0 .. now]]
  BY <1>0 DEF LTypeOK
<1>12. d.thread \in Threads /\ d.opens \subseteq Branch /\ d.seals \subseteq Branch
  BY <1>1 DEF Draft
<1>13. opened \in [status : Statuses, thread : Threads, at : 0 .. now] /\ opened.status = "open"
  BY <1>0, <1>2, <1>12 DEF Statuses
<1>14. \A b \in d.seals : d.verdict \in Verdicts
  BY <1>1 DEF DraftOK, TellsSeals
<1>15. \A b \in d.seals :
         /\ sealed(b) \in [status : Statuses, thread : Threads, at : 0 .. now]
         /\ sealed(b).status = d.verdict
  BY <1>11, <1>12, <1>14 DEF Verdicts, Closing, Statuses
<1> HIDE DEF d, opened, sealed
<1>16. branch' \in [Branch -> [status : Statuses, thread : Threads, at : 0 .. now]]
  BY <1>10, <1>11, <1>13, <1>15
<1>17. /\ \A b \in d.opens : branch'[b] = opened
       /\ \A b \in d.seals : branch'[b] = sealed(b)
       /\ \A b \in Branch : b \notin d.opens /\ b \notin d.seals => branch'[b] = branch[b]
  BY <1>5, <1>10, <1>12
<1> QED BY <1>1, <1>2, <1>3, <1>5, <1>6, <1>7, <1>8, <1>9, <1>13, <1>15, <1>16, <1>17 DEF d

\* What is committed stays: branches, claims and their events.
LEMMA CommitKeeps ==
  ASSUME LInv, NEW s \in Slot, Commit(s)
  PROVE  /\ \A b \in Branch :
              /\ branch[b].status # "none" => branch'[b].status # "none"
              /\ branch'[b].status # "none" => branch[b].status # "none" \/ b \in tx[s].opens
         /\ Claims \subseteq Claims' /\ Stamps \subseteq Stamps'
<1> DEFINE d == tx[s]
<1>1. /\ DraftOK(d) /\ checkpoints \subseteq checkpoints'
      /\ \A b \in d.opens :
           branch'[b].status = "open" /\ branch[b].status = "none" /\ b \notin d.seals
      /\ \A b \in d.seals : branch'[b].status = d.verdict
      /\ \A b \in Branch : b \notin d.opens /\ b \notin d.seals => branch'[b] = branch[b]
      /\ \A c \in Claim : claim[c].at > 0 => claim'[c].at > 0
  BY CommitWrites
<1>2. \A b \in d.seals : branch[b].status # "none" /\ d.verdict # "none"
  BY <1>1 DEF DraftOK, TellsSeals, Verdicts, Closing
<1>3. Claims \subseteq Claims' /\ Stamps \subseteq Stamps'
  BY <1>1 DEF Claims, Stamps
<1> QED BY <1>1, <1>2, <1>3

\* A commit keeps types, the age of parents and the begin of every line.
LEMMA CommitTypes ==
  ASSUME LInv, NEW s \in Slot, Commit(s)
  PROVE  LTypeOK' /\ ParentsAged' /\ LinesBegun'
<1> DEFINE d == tx[s]
<1>0. LTypeOK /\ now \in Nat
  BY DEF LInv, LTypeOK
<1>1. /\ d \in Draft /\ DraftOK(d) /\ d.at \in 1 .. now /\ now' = now
      /\ Checkpoint(d).at = d.at /\ Checkpoint(d).line = d.line
      /\ Checkpoint(d).thread = d.thread /\ Checkpoint(d).parents = d.parents
      /\ checkpoints' = checkpoints \cup (IF d.records THEN {Checkpoint(d)} ELSE {})
  BY CommitWrites
<1>2. /\ \A b \in Branch :
            /\ branch[b].status # "none" => branch'[b].status # "none"
            /\ branch'[b].status # "none" => branch[b].status # "none" \/ b \in d.opens
      /\ Claims \subseteq Claims'
  BY CommitKeeps
<1>3. /\ branch' \in [Branch -> [status : Statuses, thread : Threads, at : 0 .. now]]
      /\ \A b \in d.opens : branch'[b].status = "open"
  BY CommitWrites
<1>4. claim' = [c \in Claim |->
        IF c \in d.asserts THEN [at |-> d.at, thread |-> d.thread] ELSE claim[c]]
  BY DEF Commit
<1>5. evidence' = evidence \cup
       {[at |-> d.at, claim |-> f.claim, relation |-> f.relation, tool |-> f.tool,
         status |-> f.status] : f \in d.finds}
  BY DEF Commit
<1>6. validations' = validations \cup
       {[at |-> d.at, claim |-> j.claim, outcome |-> j.outcome] : j \in d.judges}
  BY DEF Commit
<1>7. tags' = [n \in TagName |-> IF n \in d.names THEN d.tagged ELSE tags[n]] /\ adopted' = adopted
  BY DEF Commit
<1> HIDE DEF d
<1>8. /\ d.line \in Lines /\ d.thread \in Threads /\ d.verdict \in {"open"} \cup Verdicts
      /\ \A b \in d.opens : d.line = b /\ d.records
      /\ d.line \in Branch => branch[d.line].status # "none" \/ d.line \in d.opens
      /\ d.parents \subseteq 1 .. now /\ d.parents \subseteq 1 .. d.at - 1
      /\ \A n \in d.names : d.tagged \in 1 .. now
      /\ AboutClaims(d)
  BY <1>1, <1>0 DEF Draft, DraftOK, OpensNew, ParentsBefore, TellsNames
<1>10. claim' \in [Claim -> [at : 0 .. now, thread : Threads]]
  <2>1. claim \in [Claim -> [at : 0 .. now, thread : Threads]]
    BY <1>0 DEF LTypeOK
  <2>2. [at |-> d.at, thread |-> d.thread] \in [at : 0 .. now, thread : Threads]
    BY <1>0, <1>1, <1>8
  <2> QED BY <1>4, <2>1, <2>2
<1>11. tags' \in [TagName -> 0 .. now]
  BY <1>0, <1>7, <1>8 DEF LTypeOK
<1>12. \A e \in evidence' : e.at \in 1 .. now /\ e.claim \in Claims'
  BY <1>0, <1>1, <1>2, <1>5, <1>8 DEF LTypeOK, AboutClaims
<1>13. \A v \in validations' : v.at \in 1 .. now /\ v.claim \in Claims'
  BY <1>0, <1>1, <1>2, <1>6, <1>8 DEF LTypeOK, AboutClaims
<1>14. d.line \in Branch => branch'[d.line].status # "none"
  BY <1>2, <1>3, <1>8
<1>15. ASSUME NEW k \in checkpoints'
       PROVE  /\ k.at \in 1 .. now /\ k.line \in Lines /\ k.thread \in Threads
              /\ k.parents \subseteq 1 .. now /\ k.parents \subseteq 1 .. k.at - 1
              /\ k.line = Main \/ branch'[k.line].status # "none"
  <2>1. CASE k \in checkpoints
    BY <1>0, <1>2, <2>1 DEF LInv, LTypeOK, ParentsAged, Lines
  <2>2. CASE k = Checkpoint(d)
    BY <1>1, <1>8, <1>14, <2>2 DEF Lines
  <2> QED BY <1>1, <2>1, <2>2
<1>16. adopted' \subseteq {b \in Branch : branch'[b].status # "none"}
  BY <1>0, <1>2, <1>7 DEF LTypeOK
<1>17. LTypeOK'
  BY <1>0, <1>1, <1>3, <1>10, <1>11, <1>12, <1>13, <1>15, <1>16 DEF LTypeOK
<1>18. ParentsAged'
  BY <1>15 DEF ParentsAged
<1>19. LinesBegun'
  BY <1>1, <1>2, <1>8 DEF LInv, LinesBegun, OnBranch
<1> QED BY <1>17, <1>18, <1>19

\* A commit keeps rows and events in agreement.
LEMMA CommitTells ==
  ASSUME LInv, NEW s \in Slot, Commit(s)
  PROVE  SealTold' /\ TagTold' /\ TagsPoint'
<1> DEFINE d == tx[s]
           k == Checkpoint(d)
<1>0. LTypeOK /\ SealTold /\ TagTold
  BY DEF LInv
<1>1. /\ DraftOK(d) /\ d.at \in 1 .. now /\ k.at = d.at
      /\ checkpoints' = checkpoints \cup (IF d.records THEN {k} ELSE {})
      /\ d.refs \subseteq k.refs
      /\ \A r \in k.refs : r.type \in {"branch", "tag", "claim"} => r \in d.refs
      /\ \A b \in d.opens :
           branch'[b].status = "open" /\ branch[b].status = "none" /\ b \notin d.seals
      /\ \A b \in d.seals : branch'[b].status = d.verdict
      /\ \A b \in Branch : b \notin d.opens /\ b \notin d.seals => branch'[b] = branch[b]
  BY CommitWrites
<1>2. tags' = [n \in TagName |-> IF n \in d.names THEN d.tagged ELSE tags[n]]
  BY DEF Commit
<1> HIDE DEF d, k
<1>3. \A type, to, role :
        /\ Told(type, to, role) \subseteq Told(type, to, role)'
        /\ Told(type, to, role)' \subseteq Told(type, to, role) \cup {k}
        /\ d.records /\ Ref(type, to, role) \in d.refs => k \in Told(type, to, role)'
        /\ k \in Told(type, to, role)' /\ k \notin Told(type, to, role) =>
             \E r \in k.refs : r.type = type /\ r.to = to /\ r.role = role
  BY <1>1 DEF Told, Ref
<1>4. ASSUME NEW b \in Branch
      PROVE  /\ branch'[b].status = "merged" => Told("branch", b, "merged")' # {}
             /\ branch'[b].status \in Closing => Told("branch", b, "closed")' # {}
             /\ ~Sealed(b)' => Told("branch", b, "merged")' \cup Told("branch", b, "closed")' = {}
  <2>0. /\ branch[b].status = "merged" => Told("branch", b, "merged") # {}
        /\ branch[b].status \in Closing => Told("branch", b, "closed") # {}
        /\ ~Sealed(b) => Told("branch", b, "merged") \cup Told("branch", b, "closed") = {}
        /\ branch \in [Branch -> [status : Statuses, thread : Threads, at : 0 .. now]]
    BY <1>0 DEF SealTold, LTypeOK
  <2>1. ASSUME b \notin d.seals
        PROVE  /\ Told("branch", b, "merged")' = Told("branch", b, "merged")
               /\ Told("branch", b, "closed")' = Told("branch", b, "closed")
    <3>1. \A r \in k.refs : ~(r.type = "branch" /\ r.to = b /\ r.role = "merged")
      BY <1>1, <2>1 DEF DraftOK, TellsSeals
    <3>2. \A r \in k.refs : ~(r.type = "branch" /\ r.to = b /\ r.role = "closed")
      BY <1>1, <2>1 DEF DraftOK, TellsSeals
    <3>3. Told("branch", b, "merged")' = Told("branch", b, "merged")
      BY <1>3, <3>1
    <3>4. Told("branch", b, "closed")' = Told("branch", b, "closed")
      BY <1>3, <3>2
    <3> QED BY <3>3, <3>4
  <2>2. CASE b \in d.opens
    <3>1. branch[b].status = "none" /\ b \notin d.seals /\ branch'[b].status = "open"
      BY <1>1, <2>2
    <3>2. ~Sealed(b)
      BY <3>1 DEF Sealed
    <3> QED BY <2>0, <2>1, <3>1, <3>2 DEF Closing
  <2>3. CASE b \notin d.opens /\ b \in d.seals
    <3>1. /\ branch'[b].status = d.verdict /\ d.records /\ d.verdict \in Verdicts
          /\ d.verdict = "merged" => Ref("branch", b, "merged") \in d.refs
          /\ d.verdict \in Closing => Ref("branch", b, "closed") \in d.refs
      BY <1>1, <2>0, <2>3 DEF DraftOK, TellsSeals
    <3>2. Sealed(b)'
      BY <3>1 DEF Sealed, Verdicts, Closing
    <3> QED BY <1>3, <3>1, <3>2
  <2>4. CASE b \notin d.opens /\ b \notin d.seals
    <3>1. branch'[b] = branch[b]
      BY <1>1, <2>4
    <3> QED BY <2>0, <2>1, <2>4, <3>1 DEF Sealed
  <2> QED BY <2>2, <2>3, <2>4
<1>5. ASSUME NEW n \in TagName
      PROVE  IF tags'[n] = 0 THEN Told("tag", n, "created")' = {}
             ELSE \E j \in checkpoints' : Told("tag", n, "created")' = {j} /\ tags'[n] < j.at
  <2>0. IF tags[n] = 0 THEN Told("tag", n, "created") = {}
        ELSE \E j \in checkpoints : Told("tag", n, "created") = {j} /\ tags[n] < j.at
    BY <1>0 DEF TagTold
  <2>1. CASE n \in d.names
    <3>1. /\ d.records /\ Ref("tag", n, "created") \in d.refs /\ d.tagged \in 1 .. now
          /\ tags[n] = 0 /\ d.tagged < d.at
      BY <1>1, <2>1 DEF DraftOK, TellsNames
    <3>2. Told("tag", n, "created")' = {k}
      BY <1>3, <2>0, <3>1
    <3>3. tags'[n] = d.tagged /\ k \in checkpoints'
      BY <1>1, <1>2, <2>1, <3>1
    <3> QED BY <1>1, <3>1, <3>2, <3>3
  <2>2. CASE n \notin d.names
    <3>1. \A r \in k.refs : ~(r.type = "tag" /\ r.to = n)
      BY <1>1, <2>2 DEF DraftOK, TellsNames
    <3>2. Told("tag", n, "created")' = Told("tag", n, "created")
      BY <1>3, <3>1
    <3>3. tags'[n] = tags[n]
      BY <1>2, <2>2
    <3> QED BY <1>1, <2>0, <3>2, <3>3
  <2> QED BY <2>1, <2>2
<1>6. TagsPoint'
  <2>1. Stamps \subseteq Stamps' /\ \A n \in d.names : d.tagged \in Stamps
    BY <1>1, CommitKeeps DEF DraftOK, TellsNames
  <2> QED BY <1>2, <2>1 DEF LInv, TagsPoint
<1> QED BY <1>4, <1>5, <1>6 DEF SealTold, TagTold

\* A commit keeps the invariant.
LEMMA CommitLemma ==
  ASSUME LInv, NEW s \in Slot, Commit(s)
  PROVE  LInv'
<1> DEFINE d == tx[s]
<1>1. LTypeOK' /\ ParentsAged' /\ LinesBegun' /\ SealTold' /\ TagTold' /\ TagsPoint'
  BY CommitTypes, CommitTells
<1>2. /\ DraftOK(d) /\ d.at \in 1 .. now /\ d.live /\ now' = now /\ now \in Nat
      /\ \A b \in d.opens : branch'[b].status = "open"
      /\ tx' \in [Slot -> Draft] /\ tx'[s] = Blank
      /\ \A r \in Slot \ {s} : tx'[r] = tx[r]
  BY CommitWrites DEF LInv, LTypeOK
<1>3. /\ \A b \in Branch :
            /\ branch[b].status # "none" => branch'[b].status # "none"
            /\ branch'[b].status # "none" => branch[b].status # "none" \/ b \in d.opens
      /\ Claims \subseteq Claims' /\ Stamps \subseteq Stamps'
  BY CommitKeeps
<1>4. /\ tags' = [n \in TagName |-> IF n \in d.names THEN d.tagged ELSE tags[n]]
      /\ pass' = pass
  BY DEF Commit
<1> HIDE DEF d
<1>5. ASSUME NEW r \in Slot \ {s} PROVE DraftOK(tx[r])'
  <2>1. /\ DraftOK(tx[r]) /\ tx[r] \in Draft /\ tx'[r] = tx[r]
        /\ tx[r].opens \cap d.opens = {}
        /\ tx[r].at > 0 => tx[r].names \cap d.names = {}
    BY <1>2, <1>5 DEF LInv, Drafts, Apart, d
  <2>2. ParentsBefore(tx[r])'
    BY <1>2, <2>1 DEF DraftOK, ParentsBefore
  <2>3. OpensNew(tx[r])'
    BY <1>3, <2>1 DEF DraftOK, OpensNew, Draft
  <2>4. TellsSeals(tx[r])'
    BY <1>3, <2>1 DEF DraftOK, TellsSeals, Draft
  <2>5. TellsNames(tx[r])'
    BY <1>2, <1>3, <1>4, <2>1 DEF DraftOK, TellsNames, Draft
  <2>6. AboutClaims(tx[r])'
    BY <1>3, <2>1 DEF DraftOK, AboutClaims
  <2> QED BY <2>2, <2>3, <2>4, <2>5, <2>6 DEF DraftOK
<1>6. Drafts'
  <2>1. DraftOK(Blank)'
    BY <1>1, <1>2, LedgerAssumption
       DEF Blank, DraftOK, ParentsBefore, OpensNew, TellsSeals, TellsNames, AboutClaims
  <2>2. \A r \in Slot : DraftOK(tx[r])'
    BY <1>2, <1>5, <2>1
       DEF DraftOK, ParentsBefore, OpensNew, TellsSeals, TellsNames, AboutClaims
  <2> QED BY <1>2, <2>2 DEF Drafts
<1>7. Apart'
  <2>1. Blank.opens = {} /\ Blank.names = {}
    BY DEF Blank
  <2> QED BY <1>2, <2>1 DEF LInv, Apart
<1>8. Passes'
  <2>1. ASSUME NEW r \in Slot PROVE Adopting(r)'
    <3>1. CASE pass[r].stage # "adopting"
      BY <1>4, <3>1 DEF Adopting
    <3>2. CASE pass[r].stage = "adopting" /\ branch[pass[r].line].status # "none"
      BY <1>3, <1>4, <3>2 DEF LInv, Passes, Adopting
    <3>3. CASE pass[r].stage = "adopting" /\ branch[pass[r].line].status = "none" /\ r # s
      BY <1>2, <1>4, <3>3 DEF LInv, Passes, Adopting
    <3>4. CASE pass[r].stage = "adopting" /\ branch[pass[r].line].status = "none" /\ r = s
      <4>1. pass[s].line \in Branch /\ pass[s].line \in d.opens
        BY <3>4 DEF LInv, Passes, Adopting, d
      <4>2. branch'[pass[s].line].status = "open"
        BY <1>2, <4>1
      <4> QED BY <1>4, <3>4, <4>1, <4>2 DEF Adopting
    <3> QED BY <3>1, <3>2, <3>3, <3>4
  <2> QED BY <1>4, <2>1 DEF LInv, Passes
<1> QED BY <1>1, <1>6, <1>7, <1>8 DEF LInv

-----------------------------------------------------------------------------
(* The invariant, and what follows from it. *)

\* A step that does nothing.
LEMMA StutterLemma == LInv /\ UNCHANGED vars => LInv'
<1> SUFFICES ASSUME LInv, UNCHANGED vars PROVE LInv'
  OBVIOUS
<1>1. UNCHANGED <<now, checkpoints, branch, claim, evidence, validations, tags, adopted, tx, pass>>
  BY DEF vars, tables
<1>2. LTypeOK'
  BY <1>1 DEF LInv, LTypeOK, Claims
<1>3. SealTold' /\ TagTold' /\ ParentsAged' /\ LinesBegun' /\ TagsPoint'
  BY <1>1 DEF LInv, SealTold, TagTold, Told, Sealed, ParentsAged, LinesBegun, OnBranch,
         TagsPoint, Stamps
<1>4. Drafts'
  BY <1>1
     DEF LInv, Drafts, DraftOK, ParentsBefore, OpensNew, TellsSeals, TellsNames, AboutClaims, Claims, Stamps
<1>5. Apart' /\ Passes'
  BY <1>1 DEF LInv, Apart, Passes, Adopting
<1> QED BY <1>2, <1>3, <1>4, <1>5 DEF LInv

\* Every step keeps the invariant.
LEMMA StepLemma == LInv /\ [Next]_vars => LInv'
<1> SUFFICES ASSUME LInv, [Next]_vars PROVE LInv'
  OBVIOUS
<1>1. ASSUME NEW s \in Slot,
             Write(s) \/ Line(s) \/ Agent(s) \/ Flush(s) \/ Conflicts(s) \/ Commit(s) \/ Lost(s)
      PROVE  LInv'
  BY <1>1, WriteLemma, LineLemma, ServesLemma, AgentLemma, FlushLemma, ConflictsLemma, CommitLemma,
     LostLemma DEF AgentMoves
<1> QED BY <1>1, StutterLemma DEF Next

\* The invariant gives the order that diff and blame rest on.
LEMMA OrderedLemma == LInv => Ordered
  BY DEF LInv, LTypeOK, ParentsAged, Ordered

\* No order of reads, flushes and commits leaves the invariant.
THEOREM InvariantTheorem == Spec => []LInv
  BY InitLemma, StepLemma, PTL DEF Spec

\* Rows keep their types, a checkpoint sits on a line that exists, and adopted branches do.
THEOREM TypesTheorem == Spec => []LTypeOK
<1>1. LInv => LTypeOK
  BY DEF LInv
<1> QED BY <1>1, InvariantTheorem, PTL

\* Whoever races to seal a branch or to take a name, the ledger tells what the rows say.
THEOREM TellsTheorem == Spec => []LedgerTells
<1>1. LInv => LedgerTells
  BY DEF LInv, LedgerTells
<1> QED BY <1>1, InvariantTheorem, PTL

\* A diff toward a descendant only adds.
THEOREM ForwardTheorem == Spec => []ForwardDiffOnlyAdds
<1>1. LInv => ForwardDiffOnlyAdds
  BY OrderedLemma, DiffLemma
<1> QED BY <1>1, InvariantTheorem, PTL

\* What a diff shows of a claim, its blame explains.
THEOREM BlameTheorem == Spec => []BlameExplainsDiff
<1>1. LInv => BlameExplainsDiff
  BY OrderedLemma, BlameLemma
<1> QED BY <1>1, InvariantTheorem, PTL

\* The chain of a claim loses nothing on the way and reaches the rung the claim has.
THEOREM CreditsTheorem == Spec => []BlameCreditsRung
<1>1. LInv => BlameCreditsRung
  BY OrderedLemma, CreditsLemma
<1> QED BY <1>1, InvariantTheorem, PTL

\* A branch and a tag always resolve to a checkpoint.
THEOREM RefsTheorem == Spec => []RefsResolve
<1>1. LInv => RefsResolve
  <2> SUFFICES ASSUME LInv PROVE RefsResolve
    OBVIOUS
  <2>1. ASSUME NEW b \in Branch, branch[b].status # "none" PROVE BranchTip(b) \in Stamps
    <3>1. OnBranch(b) # {} /\ OnBranch(b) \subseteq checkpoints
      BY <2>1 DEF LInv, LinesBegun, OnBranch
    <3>2. Newest(OnBranch(b)) \in checkpoints
      BY <3>1, NewestIn DEF LInv
    <3> QED BY <3>1, <3>2 DEF BranchTip, Tip, Stamps
  <2> QED BY <2>1 DEF RefsResolve, TagTip, LInv, TagsPoint
<1> QED BY <1>1, InvariantTheorem, PTL

\* The merge base is the newest common ancestor.
THEOREM MergeBaseTheorem == Spec => []MergeBaseIsNewest
<1>1. LInv => MergeBaseIsNewest
  <2>1. SUFFICES ASSUME Ordered, NEW f \in Stamps, NEW t \in Stamps,
                        Ancestors(f) \cap Ancestors(t) # {}
                 PROVE  /\ MergeBase(f, t) \in Ancestors(f) \cap Ancestors(t)
                        /\ \A j \in Ancestors(f) \cap Ancestors(t) : j <= MergeBase(f, t)
    BY OrderedLemma DEF MergeBaseIsNewest
  <2>2. f \in 1 .. now /\ t \in 1 .. now
    BY <2>1 DEF Ordered, Stamps
  <2> QED BY <2>1, <2>2, MergeBaseLemma
<1> QED BY <1>1, InvariantTheorem, PTL

\* Evidence only grows.
LEMMA EvidenceGrows == [Next]_vars => evidence \subseteq evidence'
<1> SUFFICES ASSUME [Next]_vars PROVE evidence \subseteq evidence'
  OBVIOUS
<1>1. CASE UNCHANGED vars
  BY <1>1 DEF vars, tables
<1>2. ASSUME NEW s \in Slot, Write(s) \/ Line(s) PROVE evidence' = evidence
  BY <1>2 DEF Write, Line, CreateClaim, AttachEvidence, CreateCheckpoint, ValidateClaim,
    ValidateBranch, CreateBranch, CloseBranch, MergeBranches, CreateTag, RunInstrument, Begin, tables
<1>3. ASSUME NEW s \in Slot, Agent(s) PROVE evidence' = evidence
  BY <1>3 DEF Agent, PassStarts, ReuseLine, ForkLine, StayOnMain, AdoptLine, PassRuns,
    ReplanChooses, PassEnds, Begin, tables
<1>4. ASSUME NEW s \in Slot, Flush(s) \/ Conflicts(s) \/ Lost(s) PROVE evidence' = evidence
  BY <1>4 DEF Flush, Conflicts, Lost, tables
<1>5. ASSUME NEW s \in Slot, Commit(s) PROVE evidence \subseteq evidence'
  BY <1>5 DEF Commit
<1> QED BY <1>1, <1>2, <1>3, <1>4, <1>5 DEF Next

\* A refuted claim stays refuted, a proven one stays settled.
THEOREM SettledTheorem == Spec => SettledStays
<1> DEFINE Stays == \A c \in Claim :
      /\ Headline(EvidenceOf(c)) = "refuted" => Headline(EvidenceOf(c)') = "refuted"
      /\ Headline(EvidenceOf(c)) = "proven" => Headline(EvidenceOf(c)') \in Settled
<1>1. ASSUME [Next]_vars, NEW c \in Claim
      PROVE  /\ Headline(EvidenceOf(c)) = "refuted" => Headline(EvidenceOf(c)') = "refuted"
             /\ Headline(EvidenceOf(c)) = "proven" => Headline(EvidenceOf(c)') \in Settled
  <2>1. EvidenceOf(c) \subseteq EvidenceOf(c)'
    BY <1>1, EvidenceGrows DEF EvidenceOf
  <2> QED BY <2>1, HeadlineGrows
<1>2. [Next]_vars => [Stays]_vars
  BY <1>1
<1> QED BY <1>2, PTL DEF Spec, SettledStays

-----------------------------------------------------------------------------
(* A sealed line that is quiet. *)

\* A step that leaves the tables alone and starts nothing on the line.
LEMMA StaysQuiet ==
  ASSUME NEW b \in Branch, Quiet(b), NEW s \in Slot, UNCHANGED tables,
         \A r \in Slot \ {s} : tx'[r] = tx[r],
         tx'[s].live /\ tx'[s].records => tx'[s].line # b
  PROVE  Quiet(b)' /\ OnBranch(b)' = OnBranch(b)
<1>1. branch' = branch /\ checkpoints' = checkpoints
  BY DEF tables
<1>2. \A r \in Slot : tx'[r].live /\ tx'[r].records => tx'[r].line # b
  BY DEF Quiet
<1> QED BY <1>1, <1>2 DEF Quiet, Sealed, OnBranch

\* What starts on a line finds it open, or opens it.
LEMMA StartsElsewhere ==
  ASSUME LInv, NEW b \in Branch, Quiet(b), NEW s \in Slot, Starts(s)
  PROVE  Quiet(b)' /\ OnBranch(b)' = OnBranch(b)
<1>1. PICK d \in Draft : Sound(s, d) /\ Begin(s, d)
  BY DEF Starts
<1> DEFINE e == [d EXCEPT !.live = TRUE]
<1>2. e \in Draft /\ e.records = d.records /\ e.line = d.line
  BY DEF Draft
<1>3. UNCHANGED tables /\ tx' = [tx EXCEPT ![s] = e] /\ tx \in [Slot -> Draft]
  BY <1>1 DEF Begin, LInv, Drafts
<1> HIDE DEF e
<1>4. tx'[s] = e /\ \A r \in Slot \ {s} : tx'[r] = tx[r]
  BY <1>2, <1>3
<1>5. ~MayLand(b) /\ ~Fresh(b) /\ Main # b
  BY LedgerAssumption DEF MayLand, Quiet, Sealed, Fresh
<1>6. d.records => d.line # b
  BY <1>1, <1>5 DEF Sound, Lands
<1> QED BY <1>2, <1>3, <1>4, <1>6, StaysQuiet

\* create_checkpoint: "a sealed line is preserved, not extended": what is in flight may still
\* land, but once nothing is, nothing comes, and no service unseals it.
THEOREM SealedTheorem == Spec => SealedStaysQuiet
<1> DEFINE Still == \A b \in Branch : Quiet(b) => Quiet(b)' /\ OnBranch(b)' = OnBranch(b)
<1>1. ASSUME LInv, NEW b \in Branch, Quiet(b), NEW s \in Slot,
             Write(s) \/ Line(s) \/ Agent(s)
      PROVE  Quiet(b)' /\ OnBranch(b)' = OnBranch(b)
  <2>1. CASE Starts(s)
    BY <1>1, <2>1, StartsElsewhere
  <2>2. CASE UNCHANGED <<tables, tx>>
    BY <1>1, <2>2 DEF tables, Quiet, Sealed, OnBranch
  <2> QED BY <1>1, <2>1, <2>2, WriteLemma, LineLemma, ServesLemma, AgentLemma DEF AgentMoves
<1>2. ASSUME LInv, NEW b \in Branch, Quiet(b), NEW s \in Slot, Flush(s)
      PROVE  Quiet(b)' /\ OnBranch(b)' = OnBranch(b)
  <2>1. tx' = [tx EXCEPT ![s].at = now + 1] /\ tx \in [Slot -> Draft] /\ UNCHANGED tables
    BY <1>2 DEF Flush, LInv, Drafts
  <2>2. /\ tx'[s].live = tx[s].live /\ tx'[s].records = tx[s].records /\ tx'[s].line = tx[s].line
        /\ \A r \in Slot \ {s} : tx'[r] = tx[r]
    BY <2>1 DEF Draft
  <2>3. tx'[s].live /\ tx'[s].records => tx'[s].line # b
    BY <1>2, <2>2 DEF Quiet
  <2> QED BY <1>2, <2>1, <2>2, <2>3, StaysQuiet
<1>3. ASSUME LInv, NEW b \in Branch, Quiet(b), NEW s \in Slot, Conflicts(s) \/ Lost(s)
      PROVE  Quiet(b)' /\ OnBranch(b)' = OnBranch(b)
  <2>1. tx' = [tx EXCEPT ![s] = Blank] /\ tx \in [Slot -> Draft] /\ UNCHANGED tables
    BY <1>3 DEF Conflicts, Lost, LInv, Drafts
  <2>2. tx'[s] = Blank /\ ~Blank.live /\ \A r \in Slot \ {s} : tx'[r] = tx[r]
    BY <2>1 DEF Blank
  <2> QED BY <1>3, <2>1, <2>2, StaysQuiet
<1>4. ASSUME LInv, NEW b \in Branch, Quiet(b), NEW s \in Slot, Commit(s)
      PROVE  Quiet(b)' /\ OnBranch(b)' = OnBranch(b)
  <2> DEFINE d == tx[s]
  <2>1. /\ DraftOK(d) /\ d.live /\ Checkpoint(d).line = d.line
        /\ checkpoints' = checkpoints \cup (IF d.records THEN {Checkpoint(d)} ELSE {})
        /\ \A c \in d.opens : branch[c].status = "none"
        /\ \A c \in d.seals : branch'[c].status = d.verdict
        /\ \A c \in Branch : c \notin d.opens /\ c \notin d.seals => branch'[c] = branch[c]
        /\ tx'[s] = Blank /\ \A r \in Slot \ {s} : tx'[r] = tx[r]
    BY <1>4, CommitWrites
  <2>2. d.records => d.line # b
    BY <1>4, <2>1 DEF Quiet
  <2>3. OnBranch(b)' = OnBranch(b)
    BY <2>1, <2>2 DEF OnBranch
  <2>4. \A c \in d.seals : d.verdict \notin {"none", "open"}
    BY <2>1 DEF DraftOK, TellsSeals, Verdicts, Closing
  <2>5. Sealed(b)'
    BY <1>4, <2>1, <2>4 DEF Quiet, Sealed
  <2>6. \A r \in Slot : tx'[r].live /\ tx'[r].records => tx'[r].line # b
    BY <1>4, <2>1 DEF Quiet, Blank
  <2> QED BY <2>3, <2>5, <2>6 DEF Quiet
<1>5. LInv /\ [Next]_vars => [Still]_vars
  <2>1. SUFFICES ASSUME LInv, [Next]_vars PROVE [Still]_vars
    OBVIOUS
  <2> QED BY <2>1, <1>1, <1>2, <1>3, <1>4 DEF Next
<1> QED BY <1>5, InvariantTheorem, PTL DEF Spec, SealedStaysQuiet

-----------------------------------------------------------------------------
(* Passes that race for a line. *)

\* The workers that are about to adopt a line which no run names yet.
Racing(t) == {s \in Worker : /\ pass[s].stage = "adopting" /\ pass[s].thread = t
                             /\ pass[s].line \notin adopted}

\* The line a pass is about to adopt is a line of its thread, or will be once committed.
ForkedFor(s) ==
  pass[s].stage = "adopting" =>
    IF branch[pass[s].line].status = "none" THEN tx[s].thread = pass[s].thread
    ELSE branch[pass[s].line].thread = pass[s].thread

\* Only workers run passes.
Employed(s) == s \notin Worker => pass[s].stage = "off"

\* A fork needs a thread without an open agent line; so whoever races comes out of the workers
\* that are left.
RaceBound(t) == Cardinality(AgentLines(t)) + Cardinality(Racing(t)) <= Cardinality(Worker)

RaceInv == /\ IsFiniteSet(adopted)
           /\ \A s \in Slot : ForkedFor(s) /\ Employed(s)
           /\ \A t \in Thread : RaceBound(t)

\* The two sets that are counted are finite.
LEMMA RaceFinite ==
  ASSUME IsFiniteSet(adopted), NEW t
  PROVE  /\ IsFiniteSet(AgentLines(t)) /\ Cardinality(AgentLines(t)) \in Nat
         /\ IsFiniteSet(Racing(t)) /\ Cardinality(Racing(t)) \in Nat
         /\ Cardinality(Racing(t)) <= Cardinality(Worker) /\ Cardinality(Worker) \in Nat
<1>1. AgentLines(t) \subseteq adopted /\ Racing(t) \subseteq Worker /\ IsFiniteSet(Worker)
  BY LedgerAssumption DEF AgentLines, Racing
<1> QED BY <1>1, FS_Subset, FS_CardinalityType

\* Fewer lines and fewer who race: the bound holds on.
LEMMA RaceShrinks ==
  ASSUME IsFiniteSet(adopted), IsFiniteSet(adopted)', NEW t, RaceBound(t),
         AgentLines(t)' \subseteq AgentLines(t), Racing(t)' \subseteq Racing(t)
  PROVE  RaceBound(t)'
<1>1. /\ IsFiniteSet(AgentLines(t)) /\ Cardinality(AgentLines(t)) \in Nat
      /\ IsFiniteSet(Racing(t)) /\ Cardinality(Racing(t)) \in Nat
      /\ Cardinality(Worker) \in Nat
  BY RaceFinite
<1>2. Cardinality(AgentLines(t)') <= Cardinality(AgentLines(t))
  BY <1>1, FS_Subset
<1>3. Cardinality(Racing(t)') <= Cardinality(Racing(t))
  BY <1>1, FS_Subset
<1>4. Cardinality(AgentLines(t)') \in Nat /\ Cardinality(Racing(t)') \in Nat
  BY <1>1, FS_Subset, FS_CardinalityType
<1> QED BY <1>1, <1>2, <1>3, <1>4 DEF RaceBound

\* A step that gives no line to adopt and adopts none.
LEMMA RaceKeeps ==
  ASSUME LTypeOK, RaceInv, adopted' = adopted,
         \A b \in adopted : branch'[b].status = "open" =>
           branch[b].status = "open" /\ branch'[b].thread = branch[b].thread,
         \A r \in Slot : \/ pass'[r] = pass[r]
                         \/ pass'[r].stage # "adopting"
                         \/ pass'[r].line \in adopted,
         \A r \in Slot : ForkedFor(r)' /\ Employed(r)'
  PROVE  RaceInv'
<1>1. ASSUME NEW t \in Thread PROVE RaceBound(t)'
  <2>1. AgentLines(t)' \subseteq AgentLines(t)
    BY DEF AgentLines
  <2>2. Racing(t)' \subseteq Racing(t)
    BY LedgerAssumption DEF Racing
  <2> QED BY <2>1, <2>2, RaceShrinks DEF RaceInv
<1> QED BY <1>1 DEF RaceInv

\* A service that a client calls is nobody's pass, and its session had none to commit.
LEMMA RaceServes ==
  ASSUME LInv, RaceInv, NEW s \in Slot, NEW d, Begin(s, d), UNCHANGED pass
  PROVE  RaceInv'
<1>1. /\ tx \in [Slot -> Draft] /\ ~tx[s].live /\ adopted' = adopted /\ branch' = branch
      /\ \A r \in Slot \ {s} : tx'[r] = tx[r]
  BY DEF Begin, LInv, Drafts, tables
<1>2. \A r \in Slot : ForkedFor(r)' /\ Employed(r)'
  BY <1>1 DEF RaceInv, ForkedFor, Employed, LInv, Passes, Adopting
<1> QED BY <1>1, <1>2, RaceKeeps DEF LInv

\* A pass that forks finds no open line, so only those who race with it count.
LEMMA RaceForks ==
  ASSUME LInv, RaceInv, NEW s \in Slot, NEW b \in Branch, ForkLine(s, b)
  PROVE  RaceInv'
<1> DEFINE u == pass[s].thread
           d == Fork(b, u, Newest(OnMain(u)).at)
           e == [d EXCEPT !.live = TRUE]
           p == [pass[s] EXCEPT !.stage = "adopting", !.line = b]
<1>1. /\ pass[s].stage = "choosing" /\ AgentLines(u) = {} /\ Fresh(b) /\ Begin(s, d)
      /\ pass' = [pass EXCEPT ![s].stage = "adopting", ![s].line = b]
  BY DEF ForkLine
<1>2. pass \in [Slot -> PassType] /\ tx \in [Slot -> Draft] /\ LTypeOK
  BY DEF LInv, Passes, Drafts
<1>3. p.stage = "adopting" /\ p.line = b /\ p.thread = u
  BY <1>2 DEF PassType
<1>4. pass'[s] = p /\ \A r \in Slot \ {s} : pass'[r] = pass[r]
  BY <1>1, <1>2
<1>5. e.thread = u
  BY DEF Fork, Blank
<1>6. adopted' = adopted /\ branch' = branch /\ tx' = [tx EXCEPT ![s] = e] /\ ~tx[s].live
  BY <1>1 DEF Begin, tables
<1>7. tx'[s] = e /\ \A r \in Slot \ {s} : tx'[r] = tx[r]
  BY <1>2, <1>6
<1> HIDE DEF e, p, d
<1>8. s \in Worker
  BY <1>1 DEF RaceInv, Employed
<1>9. \A r \in Slot : ForkedFor(r)' /\ Employed(r)'
  <2>1. ForkedFor(s)' /\ Employed(s)'
    BY <1>1, <1>3, <1>4, <1>5, <1>6, <1>7, <1>8 DEF ForkedFor, Employed, Fresh
  <2>2. ASSUME NEW r \in Slot \ {s} PROVE ForkedFor(r)' /\ Employed(r)'
    BY <1>4, <1>6, <1>7, <2>2 DEF RaceInv, ForkedFor, Employed
  <2> QED BY <2>1, <2>2
<1>10. ASSUME NEW t \in Thread PROVE RaceBound(t)'
  <2>1. AgentLines(t)' = AgentLines(t) /\ IsFiniteSet(adopted)'
    BY <1>6 DEF AgentLines, RaceInv
  <2>2. CASE t = u
    <3>1. Cardinality(AgentLines(t)') = 0
      BY <1>1, <2>1, <2>2, FS_EmptySet
    <3>2. Cardinality(Racing(t)') <= Cardinality(Worker) /\ Cardinality(Racing(t)') \in Nat
      <4>1. Racing(t)' \subseteq Worker /\ IsFiniteSet(Worker)
        BY LedgerAssumption DEF Racing
      <4> QED BY <4>1, FS_Subset, FS_CardinalityType
    <3> QED BY <3>1, <3>2 DEF RaceBound
  <2>3. CASE t # u
    <3>1. Racing(t)' \subseteq Racing(t)
      BY <1>3, <1>4, <1>6, <2>3, LedgerAssumption DEF Racing
    <3> QED BY <2>1, <3>1, RaceShrinks DEF RaceInv
  <2> QED BY <2>2, <2>3
<1> QED BY <1>6, <1>9, <1>10 DEF RaceInv

\* A pass that adopts its line no longer races: what the lines gain, the race loses.
LEMMA RaceAdopts ==
  ASSUME LInv, RaceInv, NEW s \in Slot, AdoptLine(s)
  PROVE  RaceInv'
<1> DEFINE l == pass[s].line
           p == [pass[s] EXCEPT !.stage = "running"]
<1>1. /\ pass[s].stage = "adopting" /\ ~tx[s].live /\ adopted' = adopted \cup {l}
      /\ pass' = [pass EXCEPT ![s].stage = "running"]
      /\ branch' = branch /\ tx' = tx
  BY DEF AdoptLine, tables
<1>2. pass \in [Slot -> PassType]
  BY DEF LInv, Passes
<1>3. pass'[s].stage = "running" /\ \A r \in Slot \ {s} : pass'[r] = pass[r]
  BY <1>1, <1>2
<1>4. l \in Branch /\ branch[l].thread = pass[s].thread
  BY <1>1 DEF LInv, Passes, Adopting, RaceInv, ForkedFor
<1>5. s \in Worker
  BY <1>1 DEF RaceInv, Employed
<1>6. IsFiniteSet(adopted')
  BY <1>1, FS_AddElement DEF RaceInv
<1>7. \A r \in Slot : ForkedFor(r)' /\ Employed(r)'
  BY <1>1, <1>3, <1>5 DEF RaceInv, ForkedFor, Employed
<1>8. ASSUME NEW t \in Thread PROVE RaceBound(t)'
  <2>1. Racing(t)' \subseteq Racing(t)
    BY <1>1, <1>3, LedgerAssumption DEF Racing
  <2>2. CASE AgentLines(t)' \subseteq AgentLines(t)
    BY <1>6, <2>1, <2>2, RaceShrinks DEF RaceInv
  <2>3. CASE ~(AgentLines(t)' \subseteq AgentLines(t))
    <3>1. l \notin adopted /\ t = pass[s].thread /\ AgentLines(t)' = AgentLines(t) \cup {l}
      BY <1>1, <1>4, <2>3 DEF AgentLines
    <3>2. s \in Racing(t) /\ s \notin Racing(t)'
      BY <1>1, <1>3, <1>5, <3>1 DEF Racing
    <3>3. /\ IsFiniteSet(AgentLines(t)) /\ Cardinality(AgentLines(t)) \in Nat
          /\ IsFiniteSet(Racing(t)) /\ Cardinality(Racing(t)) \in Nat
          /\ Cardinality(Worker) \in Nat
      BY RaceFinite DEF RaceInv
    <3>4. l \notin AgentLines(t)
      BY <3>1 DEF AgentLines
    <3>5. Cardinality(AgentLines(t)') = Cardinality(AgentLines(t)) + 1
      BY <3>1, <3>3, <3>4, FS_AddElement
    <3>6. /\ Cardinality(Racing(t) \ {s}) = Cardinality(Racing(t)) - 1
          /\ IsFiniteSet(Racing(t) \ {s})
      BY <3>2, <3>3, FS_RemoveElement
    <3>7. Racing(t)' \subseteq Racing(t) \ {s}
      BY <2>1, <3>2
    <3>8. Cardinality(Racing(t)') <= Cardinality(Racing(t)) - 1 /\ Cardinality(Racing(t)') \in Nat
      BY <3>6, <3>7, FS_Subset, FS_CardinalityType
    <3>9. RaceBound(t)
      BY DEF RaceInv
    <3> QED BY <3>3, <3>5, <3>8, <3>9 DEF RaceBound
  <2> QED BY <2>2, <2>3
<1> QED BY <1>6, <1>7, <1>8 DEF RaceInv

\* Any other step of a pass: it moves on, or takes a line that a run names already.
LEMMA RaceAgent ==
  ASSUME LInv, RaceInv, NEW s \in Slot, Agent(s)
  PROVE  RaceInv'
<1>0. pass \in [Slot -> PassType] /\ LTypeOK
  BY DEF LInv, Passes
<1>1. CASE (\E b \in Branch : ForkLine(s, b)) \/ AdoptLine(s)
  BY <1>1, RaceForks, RaceAdopts
<1>2. ASSUME NEW c \in Claim \cup {NoClaim}, NEW r \in Run, PassRuns(s, c, r)
      PROVE  RaceInv'
  BY <1>2, RaceServes DEF PassRuns
<1>3. CASE ReuseLine(s)
  <2> DEFINE L == AgentLines(pass[s].thread)
             b == CHOOSE b \in L : \A l \in L : branch[l].at <= branch[b].at
  <2>1. /\ pass[s].stage = "choosing" /\ L # {} /\ adopted' = adopted /\ branch' = branch
        /\ tx' = tx
    BY <1>3 DEF ReuseLine, tables
  <2>2. pass' = [pass EXCEPT ![s].stage = "adopting", ![s].line = b]
    BY <1>3, Zenon DEF ReuseLine
  <2>3. b \in L
    <3>1. L \in SUBSET Branch
      BY <1>0 DEF AgentLines, LTypeOK
    <3> HIDE DEF L
    <3> QED BY <1>0, <2>1, <3>1, NewestLine
  <2>4. b \in adopted /\ branch[b].thread = pass[s].thread /\ branch[b].status = "open"
    BY <2>3 DEF AgentLines
  <2> HIDE DEF b, L
  <2>5. /\ pass'[s].stage = "adopting" /\ pass'[s].line = b /\ pass'[s].thread = pass[s].thread
        /\ \A r \in Slot \ {s} : pass'[r] = pass[r]
    BY <1>0, <2>2 DEF PassType
  <2>6. \A r \in Slot : ForkedFor(r)' /\ Employed(r)'
    BY <2>1, <2>4, <2>5 DEF RaceInv, ForkedFor, Employed
  <2> QED BY <1>0, <2>1, <2>4, <2>5, <2>6, RaceKeeps
<1>4. CASE \/ s \in Worker /\ \E t \in Thread : PassStarts(s, t)
           \/ StayOnMain(s) \/ ReplanChooses(s) \/ PassEnds(s)
  <2>1. /\ adopted' = adopted /\ branch' = branch /\ tx' = tx
        /\ pass[s].stage # "off" \/ s \in Worker
    BY <1>4 DEF PassStarts, StayOnMain, ReplanChooses, PassEnds, tables
  <2>2. \/ \E t \in Thread : pass' = [pass EXCEPT ![s] = [stage |-> "choosing", thread |-> t, line |-> Main]]
        \/ \E g \in {"off", "choosing", "running"} : pass' = [pass EXCEPT ![s].stage = g]
    BY <1>4 DEF PassStarts, StayOnMain, ReplanChooses, PassEnds
  <2>3. pass'[s].stage # "adopting" /\ \A r \in Slot \ {s} : pass'[r] = pass[r]
    BY <1>0, <2>2 DEF PassType
  <2>4. s \in Worker
    BY <2>1 DEF RaceInv, Employed
  <2>5. \A r \in Slot : ForkedFor(r)' /\ Employed(r)'
    BY <2>1, <2>3, <2>4 DEF RaceInv, ForkedFor, Employed
  <2> QED BY <1>0, <2>1, <2>3, <2>5, RaceKeeps
<1> QED BY <1>1, <1>2, <1>3, <1>4 DEF Agent

\* A commit opens the line a pass is waiting for, in its thread; no line that a run names is
\* opened again.
LEMMA RaceCommits ==
  ASSUME LInv, RaceInv, NEW s \in Slot, Commit(s)
  PROVE  RaceInv'
<1> DEFINE d == tx[s]
<1>1. /\ \A b \in d.opens : branch'[b].status = "open" /\ branch[b].status = "none"
      /\ tx'[s] = Blank /\ \A r \in Slot \ {s} : tx'[r] = tx[r]
  BY CommitWrites
<1>2. pass' = pass /\ adopted' = adopted
  BY DEF Commit
<1>3. \A b \in Branch :
        /\ b \in d.opens => branch'[b].thread = d.thread
        /\ b \notin d.opens => branch'[b].thread = branch[b].thread
        /\ b \notin d.opens => branch'[b].status \in {branch[b].status, d.verdict}
  <2>1. branch' = [b \in Branch |->
           IF b \in d.opens THEN [status |-> "open", thread |-> d.thread, at |-> d.at]
           ELSE IF b \in d.seals THEN [branch[b] EXCEPT !.status = d.verdict] ELSE branch[b]]
    BY DEF Commit
  <2>2. \A b \in Branch : branch[b] \in [status : Statuses, thread : Threads, at : 0 .. now]
    BY DEF LInv, LTypeOK
  <2> QED BY <2>1, <2>2
<1>4. /\ \A b \in d.seals : d.verdict \in Verdicts
      /\ \A b \in Branch : b \notin d.opens /\ b \notin d.seals => branch'[b] = branch[b]
  <2>1. DraftOK(d)
    BY DEF LInv, Drafts
  <2> QED BY <2>1, CommitWrites DEF DraftOK, TellsSeals
<1>5. \A b \in adopted : b \in Branch /\ b \notin d.opens
  BY <1>1 DEF LInv, LTypeOK
<1>6. \A b \in adopted : branch'[b].status = "open" =>
        branch[b].status = "open" /\ branch'[b].thread = branch[b].thread
  <2>1. SUFFICES ASSUME NEW b \in adopted, branch'[b].status = "open"
                 PROVE  branch[b].status = "open"
    BY <1>3, <1>5
  <2>2. b \in Branch /\ b \notin d.opens
    BY <1>5
  <2>3. CASE b \in d.seals
    <3>1. branch'[b].status = d.verdict
      BY <2>3, CommitWrites
    <3> QED BY <1>4, <2>1, <2>3, <3>1 DEF Verdicts, Closing
  <2>4. CASE b \notin d.seals
    BY <1>4, <2>1, <2>2, <2>4
  <2> QED BY <2>3, <2>4
<1>7. ASSUME NEW r \in Slot PROVE ForkedFor(r)' /\ Employed(r)'
  <2>1. Employed(r)'
    BY <1>2 DEF RaceInv, Employed
  <2>2. CASE pass[r].stage # "adopting"
    BY <1>2, <2>1, <2>2 DEF ForkedFor
  <2>3. CASE pass[r].stage = "adopting" /\ branch[pass[r].line].status # "none"
    <3> DEFINE l == pass[r].line
    <3>1. l \in Branch /\ branch[l].thread = pass[r].thread /\ l \notin d.opens
      BY <1>1, <2>3 DEF LInv, Passes, Adopting, RaceInv, ForkedFor
    <3>2. branch'[l].thread = branch[l].thread /\ branch'[l].status # "none"
      BY <1>3, <2>3, <3>1, CommitKeeps
    <3> QED BY <1>2, <2>1, <2>3, <3>1, <3>2 DEF ForkedFor
  <2>4. CASE pass[r].stage = "adopting" /\ branch[pass[r].line].status = "none"
    <3> DEFINE l == pass[r].line
    <3>1. l \in Branch /\ l \in tx[r].opens /\ tx[r].thread = pass[r].thread
      BY <2>4 DEF LInv, Passes, Adopting, RaceInv, ForkedFor
    <3>2. CASE r = s
      <4>1. branch'[l].status = "open" /\ branch'[l].thread = pass[r].thread
        BY <1>1, <1>3, <3>1, <3>2
      <4> QED BY <1>2, <2>1, <4>1 DEF ForkedFor
    <3>3. CASE r # s
      <4>1. l \notin d.opens
        BY <3>1, <3>3 DEF LInv, Apart
      <4>2. branch'[l].status = "none"
        BY <2>4, <3>1, <4>1, CommitKeeps
      <4> QED BY <1>1, <1>2, <2>1, <3>1, <3>3, <4>2 DEF ForkedFor
    <3> QED BY <3>2, <3>3
  <2> QED BY <2>2, <2>3, <2>4
<1>8. LTypeOK
  BY DEF LInv
<1> HIDE DEF d
<1> QED BY <1>2, <1>6, <1>7, <1>8, RaceKeeps

\* A flush, a conflict and a lost session move no pass onto a line.
LEMMA RaceDrops ==
  ASSUME LInv, RaceInv, NEW s \in Slot, Flush(s) \/ Conflicts(s) \/ Lost(s)
  PROVE  RaceInv'
<1>0. LTypeOK /\ pass \in [Slot -> PassType] /\ tx \in [Slot -> Draft] /\ tx[s] \in Draft
  BY DEF LInv, Passes, Drafts
<1>1. adopted' = adopted /\ branch' = branch
  BY DEF Flush, Conflicts, Lost, tables
<1>2. CASE Flush(s)
  <2>1. pass' = pass /\ tx' = [tx EXCEPT ![s].at = now + 1]
    BY <1>2 DEF Flush
  <2>2. \A r \in Slot : tx'[r].thread = tx[r].thread
    BY <1>0, <2>1 DEF Draft
  <2>3. \A r \in Slot : ForkedFor(r)' /\ Employed(r)'
    BY <1>1, <2>1, <2>2 DEF RaceInv, ForkedFor, Employed
  <2> QED BY <1>0, <1>1, <2>1, <2>3, RaceKeeps
<1>3. CASE Conflicts(s)
  <2>1. /\ pass' = pass /\ tx' = [tx EXCEPT ![s] = Blank] /\ tx[s].names # {}
    BY <1>3 DEF Conflicts
  <2>2. \A r \in Slot \ {s} : tx'[r] = tx[r]
    BY <1>0, <2>1
  <2>3. \A r \in Slot : ForkedFor(r)' /\ Employed(r)'
    BY <1>1, <2>1, <2>2 DEF RaceInv, ForkedFor, Employed, LInv, Passes, Adopting
  <2> QED BY <1>0, <1>1, <2>1, <2>3, RaceKeeps
<1>4. CASE Lost(s)
  <2>1. pass' = [pass EXCEPT ![s].stage = "off"] /\ tx' = [tx EXCEPT ![s] = Blank]
    BY <1>4 DEF Lost
  <2>2. /\ pass'[s].stage = "off" /\ \A r \in Slot \ {s} : pass'[r] = pass[r] /\ tx'[r] = tx[r]
    BY <1>0, <2>1
  <2>3. \A r \in Slot : ForkedFor(r)' /\ Employed(r)'
    BY <1>1, <2>2 DEF RaceInv, ForkedFor, Employed
  <2> QED BY <1>0, <1>1, <2>2, <2>3, RaceKeeps
<1> QED BY <1>2, <1>3, <1>4

\* A thread has no more open agent lines than there are workers, whoever races.
THEOREM LinesTheorem == Spec => []AgentLinesBounded
<1>1. Init => RaceInv
  <2> SUFFICES ASSUME Init PROVE RaceInv
    OBVIOUS
  <2>1. adopted = {} /\ \A s \in Slot : pass[s].stage = "off"
    BY DEF Init
  <2>2. IsFiniteSet(adopted)
    BY <2>1, FS_EmptySet
  <2>3. ASSUME NEW t \in Thread PROVE RaceBound(t)
    <3>1. AgentLines(t) = {} /\ Racing(t) = {}
      BY <2>1, LedgerAssumption DEF AgentLines, Racing
    <3>2. Cardinality(Worker) \in Nat
      BY LedgerAssumption, FS_CardinalityType
    <3> QED BY <3>1, <3>2, FS_EmptySet DEF RaceBound
  <2> QED BY <2>1, <2>2, <2>3 DEF RaceInv, ForkedFor, Employed
<1>2. LInv /\ RaceInv /\ [Next]_vars => RaceInv'
  <2> SUFFICES ASSUME LInv, RaceInv, [Next]_vars PROVE RaceInv'
    OBVIOUS
  <2>1. CASE UNCHANGED vars
    <3>1. UNCHANGED <<branch, adopted, tx, pass>>
      BY <2>1 DEF vars, tables
    <3>2. \A r \in Slot : ForkedFor(r)' /\ Employed(r)'
      BY <3>1 DEF RaceInv, ForkedFor, Employed
    <3> QED BY <3>1, <3>2, RaceKeeps DEF LInv
  <2>2. ASSUME NEW s \in Slot, Write(s) \/ Line(s) PROVE RaceInv'
    <3>1. \E d \in Draft : Begin(s, d) /\ UNCHANGED pass
      BY <2>2, WriteLemma, LineLemma DEF Serves, ByClient
    <3> QED BY <3>1, RaceServes
  <2>3. ASSUME NEW s \in Slot, Agent(s) \/ Flush(s) \/ Conflicts(s) \/ Commit(s) \/ Lost(s)
        PROVE  RaceInv'
    BY <2>3, RaceAgent, RaceDrops, RaceCommits
  <2> QED BY <2>1, <2>2, <2>3 DEF Next
<1>3. RaceInv => AgentLinesBounded
  <2> SUFFICES ASSUME RaceInv, NEW t \in Thread
               PROVE  Cardinality(AgentLines(t)) <= Cardinality(Worker)
    BY DEF AgentLinesBounded, AgentLines
  <2> QED BY RaceFinite DEF RaceInv, RaceBound
<1> QED BY <1>1, <1>2, <1>3, InvariantTheorem, PTL DEF Spec
=============================================================================
