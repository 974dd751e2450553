---------------------------- MODULE CampaignProofs ----------------------------
(***************************************************************************)
(* Theorems about a campaign, for any number of campaigns and              *)
(* orchestrations, any caps, widths and error budgets.  The invariant says *)
(* at each point of the loop how the row, the wave and the orchestrations  *)
(* it commissioned stand to each other.                                    *)
(***************************************************************************)
EXTENDS Campaign, FiniteSetTheorems, SequenceTheorems, WellFoundedInduction, TLAPS

\* A set of places of a sequence has a last one.
LEMMA LastPlace ==
  ASSUME NEW n \in Nat, NEW W \in SUBSET (1 .. n), W # {}
  PROVE  \E i \in W : \A j \in W : j <= i
<1> DEFINE T == {n - i : i \in W}
<1>1. T \subseteq Nat /\ T # {}
  <2>1. \A i \in W : n - i \in Nat
    OBVIOUS
  <2>2. PICK i \in W : TRUE
    OBVIOUS
  <2>3. n - i \in T
    BY <2>2
  <2> QED
    BY <2>1, <2>3
<1>2. PICK x \in T : \A y \in T : ~ (<<y, x>> \in OpToRel(<, Nat))
  BY <1>1, NatLessThanWellFounded, WFMin, Zenon
<1>3. \A y \in T : ~ (y < x)
  BY <1>1, <1>2 DEF OpToRel
<1>4. PICK i \in W : x = n - i
  OBVIOUS
<1>5. \A j \in W : n - j \in T
  OBVIOUS
<1>6. \A j \in W : j <= i
  BY <1>3, <1>4, <1>5
<1> QED
  BY <1>6

\* The count after a wave: all of it failed, or the failures at its end.
LEMMA AfterCount ==
  ASSUME NEW n \in Nat, NEW new \in Seq(Row)
  PROVE  /\ ErrorsAfter(n, new) \in Nat
         /\ \/ /\ ErrorsAfter(n, new) = n + Len(new)
               /\ \A i \in 1 .. Len(new) : new[i].failed
            \/ /\ ErrorsAfter(n, new) < Len(new)
               /\ ~new[Len(new) - ErrorsAfter(n, new)].failed
               /\ \A i \in Len(new) - ErrorsAfter(n, new) + 1 .. Len(new) : new[i].failed
<1> DEFINE well == {i \in DOMAIN new : ~new[i].failed}
<1>1. Len(new) \in Nat /\ DOMAIN new = 1 .. Len(new)
  BY LenProperties
<1>2. CASE well = {}
  BY <1>1, <1>2 DEF ErrorsAfter
<1>3. CASE well # {}
  <2>1. well \in SUBSET (1 .. Len(new))
    BY <1>1
  <2> DEFINE last == CHOOSE i \in well : \A j \in well : j <= i
  <2>2. last \in well /\ \A j \in well : j <= last
    BY <1>1, <1>3, <2>1, LastPlace, Zenon
  <2>3. ErrorsAfter(n, new) = Len(new) - last
    BY <1>3 DEF ErrorsAfter
  <2> HIDE DEF last
  <2>4. last \in 1 .. Len(new) /\ ~new[last].failed
    BY <2>1, <2>2
  <2>5. \A i \in 1 .. Len(new) : i > last => new[i].failed
    BY <1>1, <2>2, <2>4
  <2> DEFINE len == Len(new)
             e == ErrorsAfter(n, new)
  <2>6. len \in Nat /\ e = len - last /\ last \in 1 .. len
    BY <1>1, <2>3, <2>4
  <2>7. \A i \in 1 .. len : i > last => new[i].failed
    BY <2>5
  <2> HIDE DEF len, e
  <2>8. e \in Nat /\ e < len /\ len - e = last
    BY <2>6
  <2>9. \A i \in len - e + 1 .. len : new[i].failed
    BY <2>6, <2>7, <2>8
  <2> QED
    BY <2>4, <2>8, <2>9 DEF len, e
<1> QED
  BY <1>2, <1>3

\* n failures end the sequence, and no more.
Trailing(n, s) ==
  /\ n <= Len(s)
  /\ \A i \in Len(s) - n + 1 .. Len(s) : s[i].failed
  /\ n < Len(s) => ~s[Len(s) - n].failed

\* The error count after a wave is the length of the failed tail of the longer trace.
LEMMA TrailGrows ==
  ASSUME NEW n \in Nat, NEW old \in Seq(Row), NEW new \in Seq(Row), Trailing(n, old)
  PROVE  Trailing(ErrorsAfter(n, new), old \o new)
<1> DEFINE a == Len(old)
           b == Len(new)
           e == ErrorsAfter(n, new)
           all == old \o new
<1>1. a \in Nat /\ b \in Nat /\ e \in Nat
  BY LenProperties, AfterCount
<1>2. /\ Len(all) = a + b
      /\ \A i \in 1 .. a + b : all[i] = IF i <= a THEN old[i] ELSE new[i - a]
  BY ConcatProperties
<1>3. /\ n <= a
      /\ \A i \in a - n + 1 .. a : old[i].failed
      /\ n < a => ~old[a - n].failed
  BY DEF Trailing
<1>4. \/ e = n + b /\ \A i \in 1 .. b : new[i].failed
      \/ e < b /\ ~new[b - e].failed /\ \A i \in b - e + 1 .. b : new[i].failed
  BY AfterCount
<1> HIDE DEF a, b, e, all
<1>10. /\ \A i \in 1 .. a : all[i] = old[i]
       /\ \A i \in 1 .. b : all[a + i] = new[i]
  <2>1. ASSUME NEW i \in 1 .. a PROVE all[i] = old[i]
    BY <1>1, <1>2
  <2>2. ASSUME NEW i \in 1 .. b PROVE all[a + i] = new[i]
    <3> DEFINE k == a + i
    <3>1. k \in 1 .. a + b /\ ~(k <= a) /\ k - a = i
      BY <1>1
    <3> HIDE DEF k
    <3>2. all[k] = new[i]
      BY <1>2, <3>1
    <3> QED
      BY <3>2 DEF k
  <2> QED
    BY <2>1, <2>2
<1>5. ASSUME e = n + b /\ \A i \in 1 .. b : new[i].failed PROVE Trailing(e, all)
  <2>1. e <= a + b /\ a + b - e = a - n
    BY <1>1, <1>3, <1>5
  <2>2. ASSUME NEW i \in a + b - e + 1 .. a + b PROVE all[i].failed
    <3>1. CASE i <= a
      <4>1. i \in a - n + 1 .. a /\ i \in 1 .. a
        BY <1>1, <1>3, <1>5, <3>1
      <4> QED
        BY <1>3, <1>10, <4>1, Zenon
    <3>2. CASE i > a
      <4> DEFINE j == i - a
      <4>1. j \in 1 .. b /\ i = a + j
        BY <1>1, <1>3, <1>5, <3>2
      <4> HIDE DEF j
      <4>2. all[i] = new[j]
        BY <1>10, <4>1
      <4> QED
        BY <1>5, <4>1, <4>2, Zenon
    <3> QED
      BY <1>1, <3>1, <3>2
  <2>3. ASSUME e < a + b PROVE ~all[a + b - e].failed
    <3>1. a - n \in 1 .. a /\ n < a
      BY <1>1, <1>3, <2>1, <2>3
    <3> QED
      BY <1>3, <1>10, <2>1, <3>1
  <2> QED
    BY <1>1, <1>2, <2>1, <2>2, <2>3 DEF Trailing
<1>6. ASSUME e < b /\ ~new[b - e].failed /\ \A i \in b - e + 1 .. b : new[i].failed
      PROVE  Trailing(e, all)
  <2>1. e <= a + b
    BY <1>1, <1>6
  <2>2. ASSUME NEW i \in a + b - e + 1 .. a + b PROVE all[i].failed
    <3> DEFINE j == i - a
    <3>1. j \in b - e + 1 .. b /\ j \in 1 .. b /\ i = a + j
      BY <1>1, <1>6
    <3> HIDE DEF j
    <3>2. all[i] = new[j]
      BY <1>10, <3>1
    <3> QED
      BY <1>6, <3>1, <3>2, Zenon
  <2>3. ~all[a + b - e].failed
    <3> DEFINE j == b - e
    <3>1. j \in 1 .. b /\ a + b - e = a + j
      BY <1>1, <1>6
    <3> HIDE DEF j
    <3>2. all[a + b - e] = new[j]
      BY <1>10, <3>1
    <3> QED
      BY <1>6, <3>2 DEF j
  <2> QED
    BY <1>1, <1>2, <2>1, <2>2, <2>3 DEF Trailing
<1> QED
  BY <1>4, <1>5, <1>6 DEF e, all

-----------------------------------------------------------------------------
(* The invariant. *)

\* How the row stands to the loop.
Told(c) ==
  /\ cpc[c] = "none" <=> cstatus[c] = "none"
  /\ Alive(c) => cstatus[c] = "running"
  /\ cstatus[c] = "running" => cpc[c] # "over"
  /\ cstatus[c] = "completed" => cpc[c] = "over"

\* How the counter stands to the rows written and the wave planned.
Numbers(c) ==
  /\ \A i \in DOMAIN cycles[c] : cycles[c][i].cycle = i
  /\ Len(cycles[c]) <= current[c]
  /\ \A i \in DOMAIN planned[c] : planned[c][i].cycle = Len(cycles[c]) + i
  /\ cpc[c] \notin {"over", "dead", "beginning"} =>
       current[c] = Len(cycles[c]) + Len(planned[c])
  /\ cpc[c] = "beginning" => current[c] = Len(cycles[c]) + Len(planned[c]) + 1
  /\ cpc[c] \notin {"planning", "counting", "beginning", "waving", "recording"} =>
       planned[c] = <<>>
  /\ cpc[c] = "counting" => current[c] < MaxCycles
  /\ cstatus[c] = "completed" => Len(cycles[c]) = current[c]

\* Once a cancel is committed, only the cycle being counted is still counted.
Bites(c) ==
  asked[c] => /\ current[c] <= atCancel[c] + 1
              /\ cpc[c] = "counting" => current[c] <= atCancel[c]

\* The running orchestrations of a live campaign are in its wave.
Keeps(c) ==
  /\ cpc[c] = "none" => Mine(c) = {}
  /\ cpc[c] \in {"planning", "counting", "beginning", "waving"} =>
       Running(Mine(c)) \subseteq Planned(c)
  /\ cpc[c] \in {"looking", "recording"} \cup Verdict \/ cstatus[c] = "completed" =>
       Running(Mine(c)) = {}

\* The reason the loop has found holds, and goes on holding.
Holds(c, reason) ==
  /\ reason = "max_cycles" => current[c] = MaxCycles
  /\ reason = "error_budget" => errors[c] >= ErrorBudget
  /\ reason = "cancelled" => asked[c] \/ Some(cycles[c], "cancelled")

Cause(c) ==
  /\ Holds(c, cpc[c])
  /\ cstatus[c] = "completed" => Holds(c, cstop[c])

Part(c) == /\ Told(c) /\ Numbers(c) /\ Bites(c) /\ Keeps(c) /\ Cause(c)
           /\ Trailing(errors[c], cycles[c])

\* A row not opened has no owner, and the running ones can be counted.
Rows == /\ \A o \in Orch : ostatus[o] = "none" => owner[o] = NoCamp
        /\ IsFiniteSet(Running(Orch))

CInv == CTypeOK /\ OneLoop /\ Rows /\ \A c \in Camp : Part(c)

-----------------------------------------------------------------------------
\* Nothing has run yet.
LEMMA CampaignStart == Init => CInv
<1> SUFFICES ASSUME Init PROVE CInv
  OBVIOUS
<1>1. CTypeOK
  BY CampAssumption DEF Init, RowsInit, CTypeOK, Closed, Idle
<1>2. Running(Orch) = {} /\ \A c \in Camp : Mine(c) = {}
  BY CampAssumption DEF Init, RowsInit, Running, Mine
<1>3. OneLoop /\ Rows
  BY <1>2, FS_EmptySet DEF Init, RowsInit, OneLoop, Rows
<1>4. ASSUME NEW c \in Camp PROVE Part(c)
  <2>1. /\ cstatus[c] = "none" /\ cpc[c] = "none" /\ current[c] = 0 /\ cycles[c] = <<>>
        /\ planned[c] = <<>> /\ asked[c] = FALSE /\ errors[c] = 0 /\ cstop[c] = "none"
    BY DEF Init
  <2>2. Told(c) /\ Bites(c) /\ Cause(c)
    BY <2>1 DEF Told, Bites, Cause, Holds, Alive
  <2>3. Numbers(c) /\ Trailing(errors[c], cycles[c])
    BY <2>1 DEF Numbers, Trailing, Alive
  <2>4. Keeps(c)
    BY <1>2, <2>1 DEF Keeps, Verdict, Running
  <2> QED
    BY <2>2, <2>3, <2>4 DEF Part
<1> QED
  BY <1>1, <1>3, <1>4 DEF CInv

\* A campaign whose row and loop do not move keeps its part while its own running
\* orchestrations become no more.
LEMMA CampaignRests ==
  ASSUME CInv, NEW c \in Camp,
         UNCHANGED <<cstatus[c], current[c], asked[c], errors[c], cycles[c], cstop[c],
                     atCancel[c], cpc[c], planned[c]>>,
         Mine(c)' = Mine(c), Running(Mine(c))' \subseteq Running(Mine(c))
  PROVE  Part(c)'
<1>1. Part(c)
  BY DEF CInv
<1>2. Told(c)' /\ Numbers(c)' /\ Bites(c)' /\ Cause(c)'
  BY <1>1 DEF Part, Told, Numbers, Bites, Cause, Holds, Alive
<1>3. Keeps(c)'
  BY <1>1 DEF Part, Keeps, Planned
<1>4. Trailing(errors[c], cycles[c])'
  BY <1>1 DEF Part
<1> QED
  BY <1>2, <1>3, <1>4 DEF Part

\* No new running row, no new running campaign: one loop still.
LEMMA LoopRests ==
  ASSUME CInv, Running(Orch)' \subseteq Running(Orch), UNCHANGED owner,
         \A c \in Camp : cstatus'[c] = "running" => cstatus[c] = "running",
         \A o \in Orch : ostatus'[o] = "none" => ostatus[o] = "none"
  PROVE  OneLoop' /\ Rows'
<1>1. IsFiniteSet(Running(Orch)') /\ Cardinality(Running(Orch)') <= Cardinality(Running(Orch))
  BY FS_Subset DEF CInv, Rows
<1>2. Cardinality(Running(Orch)') \in Nat /\ Cardinality(Running(Orch)) \in Nat
  BY <1>1, FS_CardinalityType DEF CInv, Rows
<1>3. Rows'
  BY <1>1 DEF CInv, Rows
<1>4. ASSUME NEW c \in Camp, cstatus'[c] = "running"
      PROVE  /\ \A d \in Camp : cstatus'[d] = "running" => d = c
             /\ Running(Orch)' \subseteq Mine(c)'
             /\ Cardinality(Running(Orch)') <= Width
  <2>1. /\ \A d \in Camp : cstatus[d] = "running" => d = c
        /\ Running(Orch) \subseteq Mine(c)
        /\ Cardinality(Running(Orch)) <= Width
    BY <1>4 DEF CInv, OneLoop
  <2>2. Mine(c)' = Mine(c)
    BY DEF Mine
  <2> QED
    BY <1>1, <1>2, <2>1, <2>2, CampAssumption
<1> QED
  BY <1>3, <1>4 DEF OneLoop

-----------------------------------------------------------------------------
(* Steps that leave every campaign as it is. *)

\* What a step that only closes, counts, flags or loses orchestrations keeps.
LEMMA RowsMove ==
  ASSUME CInv, UNCHANGED <<crow, loop, owner>>, Running(Orch)' \subseteq Running(Orch),
         \A o \in Orch : ostatus'[o] = "none" => ostatus[o] = "none"
  PROVE  OneLoop' /\ Rows' /\ \A c \in Camp : Part(c)'
<1>1. OneLoop' /\ Rows'
  BY LoopRests DEF crow
<1>2. ASSUME NEW c \in Camp PROVE Part(c)'
  <2>1. Mine(c)' = Mine(c)
    BY DEF Mine
  <2>2. Running(Mine(c))' \subseteq Running(Mine(c))
    BY <2>1 DEF Running, Mine
  <2>3. UNCHANGED <<cstatus[c], current[c], asked[c], errors[c], cycles[c], cstop[c],
                    atCancel[c], cpc[c], planned[c]>>
    BY DEF crow, loop
  <2> QED
    BY <2>1, <2>2, <2>3, CampaignRests
<1> QED
  BY <1>1, <1>2

\* What Lose does to the rows.
LEMMA LoseRows ==
  ASSUME CTypeOK, NEW os, Lose(os)
  PROVE  /\ ostatus' \in [Orch -> {"none", "running"} \cup Closed]
         /\ stop' \in [Orch -> Reason \cup {"none", "error"}]
         /\ UNCHANGED <<commissioned, cancel>>
         /\ \A o \in Orch : ostatus'[o] = IF o \in os THEN "failed" ELSE ostatus[o]
BY DEF CTypeOK, Lose, Closed

\* A cycle works, dies, is swept or is flagged: the campaigns are left alone.
LEMMA OrchStep ==
  ASSUME CInv, NEW o \in Orch,
         OrchWork(o) \/ Vanishes(o) \/ SweepOrchestration(o) \/ CancelOne(o)
  PROVE  CInv'
<1> USE DEF CInv
<1>1. CASE Commissions(o)
  <2>3. commissioned[o] + 1 \in 0 .. MaxPasses
    BY <1>1, CampAssumption DEF CTypeOK, Commissions, CountPass
  <2>1. CTypeOK'
    BY <1>1, <2>3 DEF CTypeOK, Commissions, CountPass, crow, loop, work
  <2>2. Running(Orch)' \subseteq Running(Orch) /\ UNCHANGED <<crow, loop, owner, ostatus>>
    BY <1>1 DEF Commissions, CountPass, Running, work
  <2> QED
    BY <2>1, <2>2, RowsMove
<1>2. ASSUME NEW reason \in Reason, Ends(o, reason) PROVE CInv'
  <2>1. CTypeOK'
    BY <1>2 DEF CTypeOK, Ends, Close, Closed, crow, loop, work
  <2>2. /\ UNCHANGED <<crow, loop, owner>>
        /\ \A x \in Orch : ostatus'[x] \in {"none", "running"} => ostatus'[x] = ostatus[x]
    BY <1>2 DEF Ends, Close, work, CTypeOK
  <2>3. Running(Orch)' \subseteq Running(Orch)
    BY <2>2 DEF Running
  <2> QED
    BY <2>1, <2>2, <2>3, RowsMove
<1>3. ASSUME NEW os, Lose(os), UNCHANGED <<crow, loop, marked, work>> PROVE CInv'
  <2>1. CTypeOK'
    BY <1>3, LoseRows DEF CTypeOK, crow, loop, work
  <2>2. /\ UNCHANGED <<crow, loop, owner>>
        /\ \A x \in Orch : ostatus'[x] \in {"none", "running"} => ostatus'[x] = ostatus[x]
    BY <1>3, LoseRows DEF work
  <2>3. Running(Orch)' \subseteq Running(Orch)
    BY <2>2 DEF Running
  <2> QED
    BY <2>1, <2>2, <2>3, RowsMove
<1>4. CASE Vanishes(o)
  <2>1. CTypeOK'
    BY <1>4 DEF CTypeOK, Vanishes, rows, crow, loop
  <2>2. Running(Orch)' \subseteq Running(Orch) /\ UNCHANGED <<crow, loop, owner, ostatus>>
    BY <1>4 DEF Vanishes, rows, Running
  <2> QED
    BY <2>1, <2>2, RowsMove
<1>5. CASE CancelOne(o)
  <2>1. CTypeOK'
    BY <1>5 DEF CTypeOK, CancelOne, AskCancel, crow, loop, work
  <2>2. Running(Orch)' \subseteq Running(Orch) /\ UNCHANGED <<crow, loop, owner, ostatus>>
    BY <1>5 DEF CancelOne, AskCancel, Running, work
  <2> QED
    BY <2>1, <2>2, RowsMove
<1> QED
  BY <1>1, <1>2, <1>3, <1>4, <1>5 DEF OrchWork, LoopFails, SweepOrchestration

\* A standalone orchestration starts only where no campaign runs.
LEMMA StartAloneStep ==
  ASSUME CInv, NEW o \in Orch, StartAlone(o)
  PROVE  CInv'
<1>1. CTypeOK'
  BY DEF CInv, CTypeOK, StartAlone, Open, crow, loop, work
<1>2. /\ ostatus' = [ostatus EXCEPT ![o] = "running"] /\ ostatus[o] = "none"
      /\ UNCHANGED <<crow, loop, work>> /\ Running(Orch) = {}
      /\ \A c \in Camp : cstatus'[c] # "running"
      /\ ostatus \in [Orch -> {"none", "running"} \cup Closed]
  BY DEF StartAlone, Open, crow, CInv, CTypeOK
<1>3. Running(Orch)' = {o}
  BY <1>2 DEF Running
<1>4. OneLoop' /\ Rows'
  BY <1>2, <1>3, FS_Singleton DEF OneLoop, Rows, CInv, work
<1>5. owner[o] = NoCamp
  BY <1>2 DEF CInv, Rows
<1>6. ASSUME NEW c \in Camp PROVE Part(c)'
  <2>1. Mine(c)' = Mine(c) /\ o \notin Mine(c)
    BY <1>2, <1>5, CampAssumption DEF Mine, work
  <2>2. Running(Mine(c))' \subseteq Running(Mine(c))
    BY <1>2, <2>1 DEF Running, Mine
  <2>3. UNCHANGED <<cstatus[c], current[c], asked[c], errors[c], cycles[c], cstop[c],
                    atCancel[c], cpc[c], planned[c]>>
    BY <1>2 DEF crow, loop
  <2> QED
    BY <2>1, <2>2, <2>3, CampaignRests
<1> QED
  BY <1>1, <1>4, <1>6 DEF CInv

-----------------------------------------------------------------------------
(* Steps of one campaign. *)

\* The others do not notice.
OthersStill(c) ==
  \A d \in Camp \ {c} :
    UNCHANGED <<cstatus[d], current[d], asked[d], errors[d], cycles[d], cstop[d],
                atCancel[d], cpc[d], planned[d]>>

\* A step of a campaign that opens no orchestration.
LEMMA CampaignMoves ==
  ASSUME CInv, NEW c \in Camp, CTypeOK', OthersStill(c), UNCHANGED owner,
         Running(Orch)' \subseteq Running(Orch),
         cstatus'[c] = "running" => cstatus[c] = "running",
         \A o \in Orch : ostatus'[o] = "none" => ostatus[o] = "none",
         Part(c)'
  PROVE  CInv'
<1>1. \A d \in Camp : cstatus'[d] = "running" => cstatus[d] = "running"
  BY DEF OthersStill
<1>2. OneLoop' /\ Rows'
  BY <1>1, LoopRests
<1>3. ASSUME NEW d \in Camp, d # c PROVE Part(d)'
  <2>1. Mine(d)' = Mine(d)
    BY DEF Mine
  <2>2. Running(Mine(d))' \subseteq Running(Mine(d))
    BY <2>1 DEF Running, Mine
  <2>3. UNCHANGED <<cstatus[d], current[d], asked[d], errors[d], cycles[d], cstop[d],
                    atCancel[d], cpc[d], planned[d]>>
    BY <1>3 DEF OthersStill
  <2> QED
    BY <2>1, <2>2, <2>3, CampaignRests
<1> QED
  BY <1>2, <1>3 DEF CInv

\* What the invariant says of the lengths.
LEMMA Lengths ==
  ASSUME CTypeOK, NEW c \in Camp
  PROVE  /\ Len(cycles[c]) \in Nat /\ Len(planned[c]) \in Nat
         /\ DOMAIN cycles[c] = 1 .. Len(cycles[c]) /\ DOMAIN planned[c] = 1 .. Len(planned[c])
         /\ cycles[c] \in Seq(Row)
         /\ current[c] \in Nat /\ current[c] <= MaxCycles /\ errors[c] \in Nat
         /\ atCancel[c] \in Nat
<1>1. /\ cycles[c] \in Seq(Row) /\ planned[c] \in Seq([cycle : Nat, orch : Orch \cup {NoOrch}])
      /\ current[c] \in 0 .. MaxCycles /\ errors[c] \in Nat /\ atCancel[c] \in Nat
  BY DEF CTypeOK
<1> QED
  BY <1>1, LenProperties, CampAssumption

\* A campaign starts only where none runs and no orchestration is left.
LEMMA StartStep ==
  ASSUME CInv, NEW c \in Camp, Start(c)
  PROVE  CInv'
<1>1. CTypeOK'
  BY DEF CInv, CTypeOK, Start, rows, work
<1>2. /\ cstatus' = [cstatus EXCEPT ![c] = "running"] /\ cpc' = [cpc EXCEPT ![c] = "looking"]
      /\ cstatus'[c] = "running" /\ cpc'[c] = "looking" /\ cstatus[c] = "none"
      /\ \A d \in Camp \ {c} : cstatus'[d] = cstatus[d] /\ cpc'[d] = cpc[d]
      /\ Running(Orch) = {} /\ \A d \in Camp : cstatus[d] # "running"
      /\ UNCHANGED <<rows, current, asked, errors, cycles, cstop, atCancel, planned, owner>>
  BY DEF CInv, CTypeOK, Start, work
<1>3. /\ Running(Orch)' = {} /\ \A d \in Camp : Mine(d)' = Mine(d)
      /\ \A d \in Camp : Running(Mine(d)) = {} /\ Running(Mine(d))' = {}
  BY <1>2 DEF rows, Running, Mine
<1>4. OneLoop'
  BY <1>2, <1>3, FS_EmptySet, CampAssumption DEF OneLoop
<1>5. Rows'
  BY <1>2, <1>3, FS_EmptySet DEF CInv, Rows, rows
<1>6. ASSUME NEW d \in Camp, d # c PROVE Part(d)'
  <2>1. UNCHANGED <<cstatus[d], current[d], asked[d], errors[d], cycles[d], cstop[d],
                    atCancel[d], cpc[d], planned[d]>>
    BY <1>2, <1>6
  <2> QED
    BY <2>1, <1>3, CampaignRests
<1>7. Part(c)'
  <2>1. Part(c) /\ cpc[c] = "none"
    BY <1>2 DEF CInv, Part, Told
  <2>2. Told(c)' /\ Bites(c)' /\ Trailing(errors[c], cycles[c])'
    BY <1>2, <2>1 DEF Told, Alive, Bites, Part
  <2>3. Numbers(c)'
    BY <1>2, <2>1 DEF Numbers, Part
  <2>4. Keeps(c)'
    BY <1>2, <1>3 DEF Keeps
  <2>5. Cause(c)'
    BY <1>2, <2>1 DEF Cause, Holds, Part
  <2> QED
    BY <2>2, <2>3, <2>4, <2>5 DEF Part
<1> QED
  BY <1>1, <1>4, <1>5, <1>6, <1>7 DEF CInv

\* When the rows do not move, the running ones are the same.
LEMMA SameRunning ==
  ASSUME UNCHANGED <<rows, owner>>
  PROVE  /\ Running(Orch)' = Running(Orch)
         /\ \A c \in Camp : Mine(c)' = Mine(c) /\ Running(Mine(c))' = Running(Mine(c))
BY DEF rows, Running, Mine

\* A move of the loop alone, which leaves the row, the wave and the orchestrations.
LEMMA LoopMoves ==
  ASSUME CInv, NEW c \in Camp, CTypeOK', UNCHANGED <<rows, crow, planned, owner>>,
         \A d \in Camp \ {c} : cpc'[d] = cpc[d], Part(c)'
  PROVE  CInv'
<1>1. OthersStill(c)
  BY DEF OthersStill, crow
<1>2. Running(Orch)' \subseteq Running(Orch)
  BY SameRunning
<1> QED
  BY <1>1, <1>2, CampaignMoves DEF rows, crow

\* The head of the loop finds a cause to stop.
LEMMA LookStopsStep ==
  ASSUME CInv, NEW c \in Camp, NEW eligible \in Nat, NEW funded \in BOOLEAN,
         LookStops(c, eligible, funded)
  PROVE  CInv'
<1>1. PICK how \in Verdict :
        /\ cpc' = [cpc EXCEPT ![c] = how]
        /\ how = "cancelled" => asked[c]
        /\ how = "max_cycles" => current[c] >= MaxCycles
        /\ how # "error_budget"
  BY DEF LookStops, Verdict
<1>2. /\ cpc[c] = "looking" /\ UNCHANGED <<rows, crow, slots, planned, marked, work>>
      /\ cpc'[c] = how /\ \A d \in Camp \ {c} : cpc'[d] = cpc[d]
  BY <1>1 DEF LookStops, CInv, CTypeOK
<1>3. CTypeOK'
  BY <1>1, <1>2 DEF CInv, CTypeOK, rows, crow, work
<1>4. Part(c)'
  <2>1. /\ Part(c) /\ Len(cycles[c])' = Len(cycles[c]) /\ planned[c]' = planned[c]
        /\ Running(Mine(c))' = Running(Mine(c)) /\ Mine(c)' = Mine(c)
        /\ how \notin {"none", "over", "dead", "looking", "planning", "counting",
                       "beginning", "waving", "recording"}
    BY <1>2, SameRunning DEF CInv, work, crow, Verdict
  <2>2. Told(c)' /\ Bites(c)' /\ Trailing(errors[c], cycles[c])'
    BY <1>2, <2>1 DEF Told, Alive, Bites, Part, crow
  <2>3. Numbers(c)'
    BY <1>2, <2>1 DEF Numbers, Part, crow
  <2>4. Keeps(c)'
    BY <1>2, <2>1 DEF Keeps, Part, crow
  <2>5. Cause(c)'
    <3>1. current[c] <= MaxCycles /\ current[c] \in Nat
      BY Lengths DEF CInv
    <3> QED
      BY <1>1, <1>2, <2>1, <3>1, CampAssumption DEF Cause, Holds, Part, crow
  <2> QED
    BY <2>2, <2>3, <2>4, <2>5 DEF Part
<1> QED
  BY <1>2, <1>3, <1>4, LoopMoves DEF work

\* A wave plans no more cycles than the campaign is wide.
LEMMA SlotsBounded ==
  ASSUME CTypeOK, NEW c \in Camp, NEW eligible \in Nat
  PROVE  CycleSlots(c, eligible) \in 0 .. Width
<1>1. current[c] \in Nat /\ current[c] <= MaxCycles
  BY Lengths
<1>2. \A a \in Nat, b \in Nat \ {0} : a \div b \in Nat
  OBVIOUS
<1>3. (eligible + MaxPasses - 1) \in Nat /\ MaxPasses \in Nat \ {0}
  BY CampAssumption
<1>4. (eligible + MaxPasses - 1) \div MaxPasses \in Nat
  BY <1>2, <1>3, Zenon
<1> QED
  BY <1>1, <1>4, CampAssumption DEF CycleSlots, LesserOf

\* The head of the loop opens a wave of the slots that are left.
LEMMA LookOpensWaveStep ==
  ASSUME CInv, NEW c \in Camp, NEW eligible \in Nat, LookOpensWave(c, eligible)
  PROVE  CInv'
<1>1. /\ cpc' = [cpc EXCEPT ![c] = "planning"] /\ cpc[c] = "looking"
      /\ UNCHANGED <<rows, crow, planned, marked, work>>
      /\ cpc'[c] = "planning" /\ \A d \in Camp \ {c} : cpc'[d] = cpc[d]
  BY DEF LookOpensWave, CInv, CTypeOK
<1>2. slots' \in [Camp -> 0 .. Width]
  BY SlotsBounded DEF LookOpensWave, CInv, CTypeOK
<1>3. CTypeOK'
  BY <1>1, <1>2 DEF CInv, CTypeOK, rows, crow, work
<1>4. Part(c)'
  <2>1. /\ Part(c) /\ planned[c]' = planned[c]
        /\ Running(Mine(c))' = Running(Mine(c)) /\ Mine(c)' = Mine(c)
    BY <1>1, SameRunning DEF CInv, work
  <2>2. Told(c)' /\ Bites(c)' /\ Trailing(errors[c], cycles[c])'
    BY <1>1, <2>1 DEF Told, Alive, Bites, Part, crow
  <2>3. Numbers(c)'
    BY <1>1, <2>1 DEF Numbers, Part, crow
  <2>4. Keeps(c)'
    BY <1>1, <2>1 DEF Keeps, Part, crow
  <2>5. Cause(c)'
    BY <1>1, <2>1 DEF Cause, Holds, Part, crow
  <2> QED
    BY <2>2, <2>3, <2>4, <2>5 DEF Part
<1> QED
  BY <1>1, <1>3, <1>4, LoopMoves DEF work

\* Planning goes on to the next cycle.
LEMMA PlanNextStep ==
  ASSUME CInv, NEW c \in Camp, PlanNext(c)
  PROVE  CInv'
<1>1. /\ cpc' = [cpc EXCEPT ![c] = "counting"] /\ cpc[c] = "planning"
      /\ UNCHANGED <<rows, crow, slots, planned, marked, work>>
      /\ ~asked[c] /\ current[c] < MaxCycles
      /\ cpc'[c] = "counting" /\ \A d \in Camp \ {c} : cpc'[d] = cpc[d]
  BY DEF PlanNext, MayPlan, CInv, CTypeOK
<1>2. CTypeOK'
  BY <1>1 DEF CInv, CTypeOK, rows, crow, work
<1>3. Part(c)'
  <2>1. /\ Part(c) /\ planned[c]' = planned[c] /\ Planned(c)' = Planned(c)
        /\ Running(Mine(c))' = Running(Mine(c)) /\ Mine(c)' = Mine(c)
    BY <1>1, SameRunning DEF CInv, work, Planned
  <2>2. Told(c)' /\ Bites(c)' /\ Trailing(errors[c], cycles[c])'
    BY <1>1, <2>1 DEF Told, Alive, Bites, Part, crow
  <2>3. Numbers(c)'
    BY <1>1, <2>1 DEF Numbers, Part, crow
  <2>4. Keeps(c)'
    BY <1>1, <2>1 DEF Keeps, Part, Verdict, crow
  <2>5. Cause(c)'
    BY <1>1, <2>1 DEF Cause, Holds, Part, crow
  <2> QED
    BY <2>2, <2>3, <2>4, <2>5 DEF Part
<1> QED
  BY <1>1, <1>2, <1>3, LoopMoves DEF work

\* Planning ends, for want of slots or by a cancel.
LEMMA PlanEndsStep ==
  ASSUME CInv, NEW c \in Camp, PlanEnds(c)
  PROVE  CInv'
<1>10. PICK how :
        /\ cpc' = [cpc EXCEPT ![c] = how]
        /\ how = "waving" \/ (how = "recording" /\ Planned(c) = {})
  BY DEF PlanEnds
<1>1. /\ cpc' = [cpc EXCEPT ![c] = how] /\ cpc[c] = "planning"
      /\ how = "waving" \/ (how = "recording" /\ Planned(c) = {})
      /\ UNCHANGED <<rows, crow, slots, planned, marked, work>>
      /\ cpc'[c] = how /\ \A d \in Camp \ {c} : cpc'[d] = cpc[d]
  BY <1>10 DEF PlanEnds, CInv, CTypeOK
<1>2. CTypeOK'
  BY <1>1 DEF CInv, CTypeOK, rows, crow, work
<1>3. Part(c)'
  <2>1. /\ Part(c) /\ planned[c]' = planned[c] /\ Planned(c)' = Planned(c)
        /\ Running(Mine(c))' = Running(Mine(c)) /\ Mine(c)' = Mine(c)
    BY <1>1, SameRunning DEF CInv, work, Planned
  <2>2. Told(c)' /\ Bites(c)' /\ Trailing(errors[c], cycles[c])'
    BY <1>1, <2>1 DEF Told, Alive, Bites, Part, crow
  <2>3. Numbers(c)'
    BY <1>1, <2>1 DEF Numbers, Part, crow
  <2>4. Keeps(c)'
    BY <1>1, <2>1 DEF Keeps, Part, Verdict, crow
  <2>5. Cause(c)'
    BY <1>1, <2>1 DEF Cause, Holds, Part, crow
  <2> QED
    BY <2>2, <2>3, <2>4, <2>5 DEF Part
<1> QED
  BY <1>1, <1>2, <1>3, LoopMoves DEF work

\* A cycle is counted before its orchestration starts: one number, once.
LEMMA CountCycleStep ==
  ASSUME CInv, NEW c \in Camp, CountCycle(c)
  PROVE  CInv'
<1>1. /\ cpc' = [cpc EXCEPT ![c] = "beginning"] /\ cpc[c] = "counting"
      /\ current' = [current EXCEPT ![c] = @ + 1]
      /\ UNCHANGED <<rows, cstatus, asked, errors, completed, cycles, cstop, atCancel, slots,
                     planned, marked, work>>
      /\ cpc'[c] = "beginning" /\ current'[c] = current[c] + 1
      /\ \A d \in Camp \ {c} : cpc'[d] = cpc[d] /\ current'[d] = current[d]
  BY DEF CountCycle, CInv, CTypeOK
<1>2. Part(c) /\ current[c] < MaxCycles /\ cstatus[c] = "running"
  BY <1>1 DEF CInv, Part, Numbers, Told, Alive
<1>3. current[c] + 1 \in 0 .. MaxCycles
  BY <1>2, Lengths, CampAssumption DEF CInv
<1>4. CTypeOK'
  BY <1>1, <1>3 DEF CInv, CTypeOK, rows, work
<1>5. Part(c)'
  <2>1. /\ Planned(c)' = Planned(c) /\ planned[c]' = planned[c]
        /\ Running(Mine(c))' = Running(Mine(c)) /\ Mine(c)' = Mine(c)
    BY <1>1, SameRunning DEF work, Planned
  <2>2. Told(c)' /\ Trailing(errors[c], cycles[c])'
    BY <1>1, <1>2 DEF Told, Alive, Part
  <2>3. Bites(c)'
    BY <1>1, <1>2, Lengths DEF CInv, Bites, Part
  <2>4. Numbers(c)'
    <3>1. Len(cycles[c]) \in Nat /\ Len(planned[c]) \in Nat /\ current[c] \in Nat
      BY Lengths DEF CInv
    <3>2. current[c] = Len(cycles[c]) + Len(planned[c]) /\ Len(cycles[c]) <= current[c]
      BY <1>1, <1>2, <3>1 DEF Numbers, Part
    <3>3. /\ current'[c] = Len(cycles[c]) + Len(planned[c]) + 1
          /\ Len(cycles[c]) <= current'[c]
      <4> DEFINE m == Len(cycles[c])
                 n == Len(planned[c])
      <4>1. m \in Nat /\ n \in Nat /\ current'[c] = m + n + 1
        BY <1>1, <3>1, <3>2
      <4> HIDE DEF m, n
      <4>2. m <= current'[c]
        BY <4>1
      <4> QED
        BY <4>1, <4>2 DEF m, n
    <3>4. /\ \A i \in DOMAIN cycles[c] : cycles[c][i].cycle = i
          /\ \A i \in DOMAIN planned[c] : planned[c][i].cycle = Len(cycles[c]) + i
      BY <1>2 DEF Numbers, Part
    <3>5. cstatus'[c] = "running" /\ cycles' = cycles /\ planned' = planned
      BY <1>1, <1>2
    <3> QED
      BY <1>1, <3>3, <3>4, <3>5 DEF Numbers
  <2>5. Keeps(c)'
    BY <1>1, <1>2, <2>1 DEF Keeps, Part, Verdict
  <2>6. Cause(c)'
    BY <1>1, <1>2 DEF Cause, Holds, Part
  <2> QED
    BY <2>2, <2>3, <2>4, <2>5, <2>6 DEF Part
<1>6. OthersStill(c) /\ Running(Orch)' \subseteq Running(Orch)
  BY <1>1, SameRunning DEF OthersStill, work
<1> QED
  BY <1>1, <1>4, <1>5, <1>6, CampaignMoves DEF rows, work

\* A cycle joins the wave: how the loop's numbers come out.
LEMMA Joins ==
  ASSUME CInv, NEW c \in Camp, cpc[c] = "beginning", NEW orch \in Orch \cup {NoOrch},
         planned' = [planned EXCEPT ![c] = Append(@, [cycle |-> current[c], orch |-> orch])],
         cpc' = [cpc EXCEPT ![c] = "planning"], UNCHANGED <<crow, slots>>
  PROVE  /\ planned' \in [Camp -> Seq([cycle : Nat, orch : Orch \cup {NoOrch}])]
         /\ Planned(c) \cup ({orch} \ {NoOrch}) \subseteq Planned(c)'
         /\ Told(c)' /\ Numbers(c)' /\ Bites(c)' /\ Cause(c)' /\ Trailing(errors[c], cycles[c])'
         /\ OthersStill(c)
<1> DEFINE new == [cycle |-> current[c], orch |-> orch]
           old == planned[c]
<1>1. /\ cpc'[c] = "planning" /\ planned'[c] = Append(old, new)
      /\ \A d \in Camp \ {c} : cpc'[d] = cpc[d] /\ planned'[d] = planned[d]
  BY DEF CInv, CTypeOK
<1>2. /\ current[c] \in Nat /\ Len(cycles[c]) \in Nat /\ Len(old) \in Nat
      /\ DOMAIN old = 1 .. Len(old) /\ old \in Seq([cycle : Nat, orch : Orch \cup {NoOrch}])
  BY Lengths DEF CInv, CTypeOK
<1>3. Part(c)
  BY DEF CInv
<1>4. /\ planned'[c] \in Seq([cycle : Nat, orch : Orch \cup {NoOrch}])
      /\ Len(planned'[c]) = Len(old) + 1
      /\ \A i \in 1 .. Len(old) : planned'[c][i] = old[i]
      /\ planned'[c][Len(old) + 1] = new
      /\ DOMAIN planned'[c] = 1 .. Len(old) + 1
  <2>1. new \in [cycle : Nat, orch : Orch \cup {NoOrch}]
    BY <1>2
  <2> DEFINE S == [cycle : Nat, orch : Orch \cup {NoOrch}]
  <2>5. new \in S /\ old \in Seq(S) /\ planned'[c] = Append(old, new)
    BY <1>1, <1>2, <2>1
  <2> HIDE DEF new, old, S
  <2>6. /\ Append(old, new) \in Seq(S)
        /\ Len(Append(old, new)) = Len(old) + 1
        /\ \A i \in 1 .. Len(old) : Append(old, new)[i] = old[i]
        /\ Append(old, new)[Len(old) + 1] = new
    BY <2>5, AppendProperties
  <2>2. /\ planned'[c] \in Seq([cycle : Nat, orch : Orch \cup {NoOrch}])
        /\ Len(planned'[c]) = Len(old) + 1
        /\ \A i \in 1 .. Len(old) : planned'[c][i] = old[i]
        /\ planned'[c][Len(old) + 1] = new
    BY <2>5, <2>6, Zenon DEF S
  <2>3. DOMAIN planned'[c] = 1 .. Len(planned'[c])
    BY <2>2, LenProperties, Zenon
  <2>4. DOMAIN planned'[c] = 1 .. Len(old) + 1
    BY <2>2, <2>3
  <2> QED
    BY <2>2, <2>4, Zenon
<1>5. planned' \in [Camp -> Seq([cycle : Nat, orch : Orch \cup {NoOrch}])]
  BY <1>4, <1>1 DEF CInv, CTypeOK
<1>6. Planned(c) \cup ({orch} \ {NoOrch}) \subseteq Planned(c)'
  <2>1. ASSUME NEW i \in 1 .. Len(old) PROVE i \in DOMAIN planned'[c] /\ planned'[c][i] = old[i]
    BY <1>2, <1>4
  <2>2. Len(old) + 1 \in DOMAIN planned'[c] /\ planned'[c][Len(old) + 1].orch = orch
    BY <1>2, <1>4
  <2> HIDE DEF old, new
  <2>3. \A x \in Planned(c) : x \in Planned(c)'
    BY <1>2, <2>1 DEF Planned, old
  <2> QED
    BY <2>2, <2>3 DEF Planned
<1>7. Numbers(c)'
  <2>1. current[c] = Len(cycles[c]) + Len(old) + 1
    BY <1>2, <1>3 DEF Part, Numbers
  <2>2. \A i \in DOMAIN planned'[c] : planned'[c][i].cycle = Len(cycles[c]) + i
    <3> TAKE i \in DOMAIN planned'[c]
    <3>1. CASE i \in 1 .. Len(old)
      BY <1>2, <1>3, <1>4, <3>1 DEF Part, Numbers
    <3>2. CASE i = Len(old) + 1
      <4>1. planned'[c][i].cycle = current[c]
        BY <1>4, <3>2
      <4> QED
        <5> DEFINE m == Len(cycles[c])
                   n == Len(old)
        <5>1. m \in Nat /\ n \in Nat /\ current[c] = m + n + 1 /\ i = n + 1
          BY <1>2, <2>1, <3>2
        <5> HIDE DEF m, n
        <5>2. current[c] = m + i
          BY <5>1
        <5> QED
          BY <4>1, <5>2 DEF m
    <3> QED
      BY <1>2, <1>4, <3>1, <3>2
  <2>3. Alive(c) /\ cstatus[c] = "running"
    BY <1>3 DEF Part, Told, Alive, Verdict
  <2>4. /\ current'[c] = Len(cycles'[c]) + Len(planned'[c]) /\ Len(cycles'[c]) <= current'[c]
        /\ cycles' = cycles /\ cstatus'[c] = "running"
    <3> DEFINE m == Len(cycles[c])
               n == Len(old)
    <3>1. /\ m \in Nat /\ n \in Nat /\ current[c] = m + n + 1 /\ Len(planned'[c]) = n + 1
          /\ current' = current /\ cycles' = cycles /\ cstatus'[c] = "running"
      BY <1>2, <1>4, <2>1, <2>3 DEF crow
    <3>2. Len(cycles'[c]) = m
      BY <3>1
    <3> HIDE DEF m, n
    <3> QED
      BY <3>1, <3>2
  <2>5. \A i \in DOMAIN cycles[c] : cycles[c][i].cycle = i
    BY <1>3 DEF Part, Numbers
  <2> QED
    BY <1>1, <2>2, <2>4, <2>5 DEF Numbers
<1>8. /\ Told(c)' /\ Bites(c)' /\ Cause(c)' /\ Trailing(errors[c], cycles[c])'
  BY <1>1, <1>3 DEF Part, Told, Alive, Bites, Cause, Holds, Verdict, crow
<1>9. OthersStill(c)
  BY <1>1 DEF OthersStill, crow
<1> QED
  BY <1>5, <1>6, <1>7, <1>8, <1>9

\* The orchestration of a counted cycle does not start.
LEMMA BeginFailsStep ==
  ASSUME CInv, NEW c \in Camp, BeginFails(c)
  PROVE  CInv'
<1>1. /\ cpc' = [cpc EXCEPT ![c] = "planning"] /\ cpc[c] = "beginning"
      /\ planned' = [planned EXCEPT ![c] = Append(@, [cycle |-> current[c], orch |-> NoOrch])]
      /\ UNCHANGED <<rows, crow, slots, marked, work>> /\ cpc'[c] = "planning"
  BY DEF BeginFails, CInv, CTypeOK
<1>2. /\ planned' \in [Camp -> Seq([cycle : Nat, orch : Orch \cup {NoOrch}])]
      /\ Planned(c) \subseteq Planned(c)'
      /\ Told(c)' /\ Numbers(c)' /\ Bites(c)' /\ Cause(c)' /\ Trailing(errors[c], cycles[c])'
      /\ OthersStill(c)
  BY <1>1, Joins
<1>3. CTypeOK'
  BY <1>1, <1>2 DEF CInv, CTypeOK, rows, crow, work
<1>4. Keeps(c)'
  <2>1. Keeps(c) /\ Running(Mine(c))' = Running(Mine(c)) /\ cstatus[c] = "running"
    BY <1>1, SameRunning DEF CInv, Part, Told, Alive, Verdict, work
  <2> QED
    BY <1>1, <1>2, <2>1 DEF Keeps, Verdict, crow
<1>5. Running(Orch)' \subseteq Running(Orch)
  BY <1>1, SameRunning DEF work
<1> QED
  BY <1>1, <1>2, <1>3, <1>4, <1>5, CampaignMoves DEF Part, rows, crow, work

\* The orchestration of a counted cycle starts and is of this campaign.
LEMMA BeginStep ==
  ASSUME CInv, NEW c \in Camp, NEW o \in Orch, Begin(c, o)
  PROVE  CInv'
<1>1. /\ cpc' = [cpc EXCEPT ![c] = "planning"] /\ cpc[c] = "beginning"
      /\ planned' = [planned EXCEPT ![c] = Append(@, [cycle |-> current[c], orch |-> o])]
      /\ ostatus' = [ostatus EXCEPT ![o] = "running"] /\ ostatus[o] = "none"
      /\ owner' = [owner EXCEPT ![o] = c]
      /\ UNCHANGED <<crow, slots, marked, lost, commissioned, cancel, stop>>
      /\ cpc'[c] = "planning" /\ Cardinality(Running(Orch)) < Width
  BY DEF Begin, Open, CInv, CTypeOK
<1>2. /\ planned' \in [Camp -> Seq([cycle : Nat, orch : Orch \cup {NoOrch}])]
      /\ Planned(c) \cup {o} \subseteq Planned(c)'
      /\ Told(c)' /\ Numbers(c)' /\ Bites(c)' /\ Cause(c)' /\ Trailing(errors[c], cycles[c])'
      /\ OthersStill(c)
  BY <1>1, Joins, CampAssumption
<1>3. CTypeOK'
  BY <1>1, <1>2 DEF CInv, CTypeOK, crow
<1>4. /\ owner[o] = NoCamp /\ cstatus[c] = "running" /\ Keeps(c)
      /\ \A d \in Camp : cstatus[d] = "running" => d = c
      /\ Running(Orch) \subseteq Mine(c) /\ IsFiniteSet(Running(Orch))
  BY <1>1 DEF CInv, Rows, Part, Told, Alive, Verdict, OneLoop
<1>5. /\ ostatus'[o] = "running" /\ owner'[o] = c
      /\ \A x \in Orch \ {o} : ostatus'[x] = ostatus[x] /\ owner'[x] = owner[x]
  BY <1>1 DEF CInv, CTypeOK
<1>6. /\ Running(Orch)' = Running(Orch) \cup {o} /\ o \notin Running(Orch)
      /\ Mine(c)' = Mine(c) \cup {o}
      /\ \A d \in Camp \ {c} : Mine(d)' = Mine(d) /\ o \notin Mine(d)
  BY <1>1, <1>4, <1>5, CampAssumption DEF Running, Mine
<1>7. Cardinality(Running(Orch)') = Cardinality(Running(Orch)) + 1 /\ IsFiniteSet(Running(Orch)')
  BY <1>4, <1>6, FS_AddElement
<1>8. OneLoop'
  <2>1. Cardinality(Running(Orch)) \in Nat
    BY <1>4, FS_CardinalityType
  <2>2. Cardinality(Running(Orch)') <= Width
    BY <1>1, <1>7, <2>1, CampAssumption
  <2> QED
    BY <1>1, <1>4, <1>6, <2>2 DEF OneLoop, crow
<1>9. Rows'
  BY <1>4, <1>5, <1>7 DEF Rows, CInv
<1>10. ASSUME NEW d \in Camp, d # c PROVE Part(d)'
  <2>1. Mine(d)' = Mine(d) /\ o \notin Mine(d)
    BY <1>6, <1>10
  <2>2. Running(Mine(d))' \subseteq Running(Mine(d))
    BY <1>5, <2>1 DEF Running, Mine
  <2>3. UNCHANGED <<cstatus[d], current[d], asked[d], errors[d], cycles[d], cstop[d],
                    atCancel[d], cpc[d], planned[d]>>
    BY <1>2, <1>10 DEF OthersStill
  <2> QED
    BY <2>1, <2>2, <2>3, CampaignRests
<1>11. Keeps(c)'
  <2>1. Running(Mine(c)) \subseteq Planned(c) /\ cstatus'[c] = "running"
    BY <1>1, <1>4 DEF Keeps, crow
  <2>2. Running(Mine(c))' \subseteq Running(Mine(c)) \cup {o}
    BY <1>5, <1>6 DEF Running, Mine
  <2> QED
    BY <1>1, <1>2, <2>1, <2>2 DEF Keeps, Verdict
<1> QED
  BY <1>2, <1>3, <1>8, <1>9, <1>10, <1>11 DEF CInv, Part

-----------------------------------------------------------------------------
(* A wave comes back and is recorded. *)

\* The gathered wave returns when none of its cycles runs.
LEMMA WaveReturnsStep ==
  ASSUME CInv, NEW c \in Camp, WaveReturns(c)
  PROVE  CInv'
<1> DEFINE os == Running(Planned(c))
<1>1. /\ cpc' = [cpc EXCEPT ![c] = "recording"] /\ cpc[c] = "waving" /\ Lose(os)
      /\ UNCHANGED <<crow, slots, planned, marked, work>>
      /\ cpc'[c] = "recording" /\ \A d \in Camp \ {c} : cpc'[d] = cpc[d]
  BY DEF WaveReturns, CInv, CTypeOK
<1>2. /\ ostatus' \in [Orch -> {"none", "running"} \cup Closed]
      /\ stop' \in [Orch -> Reason \cup {"none", "error"}]
      /\ UNCHANGED <<commissioned, cancel>>
      /\ \A o \in Orch : ostatus'[o] = IF o \in os THEN "failed" ELSE ostatus[o]
  BY <1>1, LoseRows DEF CInv
<1>3. CTypeOK'
  BY <1>1, <1>2 DEF CInv, CTypeOK, crow, work
<1>4. \A o \in Orch : ostatus'[o] \in {"none", "running"} => ostatus'[o] = ostatus[o] /\ o \notin os
  BY <1>2
<1>5. Running(Orch)' \subseteq Running(Orch)
  BY <1>4 DEF Running
<1>6. OthersStill(c)
  BY <1>1 DEF OthersStill, crow
<1>7. Part(c)'
  <2>1. Part(c) /\ cstatus[c] = "running" /\ UNCHANGED <<owner, planned, crow>>
    BY <1>1 DEF CInv, Part, Told, Alive, Verdict, work
  <2>2. Told(c)' /\ Bites(c)' /\ Trailing(errors[c], cycles[c])'
    BY <1>1, <2>1 DEF Told, Alive, Bites, Part, crow
  <2>3. Numbers(c)'
    BY <1>1, <2>1 DEF Numbers, Part, crow
  <2>4. Keeps(c)'
    <3>1. Running(Mine(c)) \subseteq Planned(c)
      BY <1>1, <2>1 DEF Keeps, Part
    <3>2. Running(Mine(c))' = {}
      BY <1>4, <2>1, <3>1 DEF Running, Mine
    <3> QED
      BY <1>1, <3>2 DEF Keeps, Verdict
  <2>5. Cause(c)'
    BY <1>1, <2>1 DEF Cause, Holds, Part, crow
  <2> QED
    BY <2>2, <2>3, <2>4, <2>5 DEF Part
<1> QED
  BY <1>1, <1>3, <1>4, <1>5, <1>6, <1>7, CampaignMoves DEF crow, work

\* A function on 1 .. n is a sequence of length n.
LEMMA OneLong ==
  ASSUME NEW S, NEW n \in Nat, NEW f \in [1 .. n -> S]
  PROVE  f \in Seq(S) /\ Len(f) = n
<1>1. [1 .. n -> S] \in {[1 .. k -> S] : k \in Nat}
  OBVIOUS
<1>2. f \in UNION {[1 .. k -> S] : k \in Nat}
  BY <1>1
<1>3. f \in Seq(S)
  BY <1>2, SeqDef
<1>4. Len(f) \in Nat /\ 1 .. Len(f) = 1 .. n
  BY <1>3, LenProperties
<1>5. \A a, b \in Nat : 1 .. a = 1 .. b => a = b
  <2> SUFFICES ASSUME NEW a \in Nat, NEW b \in Nat, 1 .. a = 1 .. b, a < b PROVE FALSE
    OBVIOUS
  <2>1. b \in 1 .. b
    OBVIOUS
  <2>2. b \notin 1 .. a
    OBVIOUS
  <2> QED
    BY <2>1, <2>2
<1> QED
  BY <1>3, <1>4, <1>5

\* The rows a wave writes: one for every cycle planned, with its number.
LEMMA WaveTyped ==
  ASSUME CTypeOK, NEW c \in Camp
  PROVE  /\ WaveRows(c) \in Seq(Row) /\ Len(WaveRows(c)) = Len(planned[c])
         /\ \A i \in 1 .. Len(planned[c]) : WaveRows(c)[i].cycle = planned[c][i].cycle
<1> DEFINE S == [cycle : Nat, orch : Orch \cup {NoOrch}]
<1>1. planned[c] \in Seq(S) /\ cycles[c] \in Seq(Row)
  BY DEF CTypeOK
<1>2. /\ Len(planned[c]) \in Nat /\ DOMAIN planned[c] = 1 .. Len(planned[c])
      /\ \A i \in 1 .. Len(planned[c]) : planned[c][i] \in S
  BY <1>1, LenProperties, ElementOfSeq
<1>3. WaveNumber(c) \in Nat
  <2>1. CASE cycles[c] = <<>>
    BY <2>1 DEF WaveNumber
  <2>2. CASE cycles[c] # <<>>
    <3>1. Len(cycles[c]) \in 1 .. Len(cycles[c])
      BY <1>1, <2>2, EmptySeq, LenProperties
    <3>2. cycles[c][Len(cycles[c])] \in Row
      BY <1>1, <3>1, ElementOfSeq
    <3> QED
      BY <2>2, <3>2 DEF WaveNumber, Row
  <2> QED
    BY <2>1, <2>2
<1>4. ASSUME NEW p \in S PROVE CycleRow(c, p) \in Row /\ CycleRow(c, p).cycle = p.cycle
  <2> DEFINE none == p.orch \notin Orch \/ p.orch \in lost
  <2>1. (IF none THEN "none" ELSE stop[p.orch]) \in Reason \cup {"none", "error"}
    BY DEF CTypeOK
  <2>2. none \in BOOLEAN /\ (none \/ ostatus[p.orch] = "failed") \in BOOLEAN
        /\ (~none /\ commissioned[p.orch] > 0) \in BOOLEAN
    OBVIOUS
  <2>3. p.cycle \in Nat
    OBVIOUS
  <2> QED
    BY <1>3, <2>1, <2>2, <2>3 DEF CycleRow, Row
<1>5. WaveRows(c) \in [1 .. Len(planned[c]) -> Row]
  BY <1>2, <1>4 DEF WaveRows
<1>6. \A i \in 1 .. Len(planned[c]) : WaveRows(c)[i].cycle = planned[c][i].cycle
  BY <1>2, <1>4 DEF WaveRows
<1> QED
  BY <1>2, <1>5, <1>6, OneLong

\* What the tests after a wave can find.
LEMMA Tested ==
  ASSUME NEW c, NEW new, NEW funded, NEW after, after = AfterWave(c, new, funded)
  PROVE  /\ after \in {"looking", "cancelled", "budget_exhausted", "no_open_work", "error_budget"}
         /\ after = "cancelled" => asked[c] \/ Some(new, "cancelled")
         /\ after = "error_budget" => ErrorsAfter(errors[c], new) >= ErrorBudget
BY DEF AfterWave

\* A reason given by a cycle of the wave is a reason given by a cycle of the campaign.
LEMMA SomeGrows ==
  ASSUME NEW old \in Seq(Row), NEW new \in Seq(Row), NEW reason,
         Some(old, reason) \/ Some(new, reason)
  PROVE  Some(old \o new, reason)
<1> DEFINE a == Len(old)
           b == Len(new)
           all == old \o new
<1>1. /\ a \in Nat /\ b \in Nat /\ DOMAIN old = 1 .. a /\ DOMAIN new = 1 .. b
      /\ DOMAIN all = 1 .. Len(all)
  BY ConcatProperties, LenProperties
<1>2. /\ Len(all) = a + b
      /\ \A i \in 1 .. a + b : all[i] = IF i <= a THEN old[i] ELSE new[i - a]
  BY ConcatProperties
<1> HIDE DEF a, b, all
<1>3. DOMAIN all = 1 .. a + b
  BY <1>1, <1>2
<1>4. CASE Some(old, reason)
  <2>1. PICK i \in 1 .. a : old[i].stop = reason
    BY <1>1, <1>4 DEF Some
  <2>2. i \in 1 .. a + b /\ i <= a
    BY <1>1
  <2> QED
    BY <1>2, <1>3, <2>1, <2>2 DEF Some, all
<1>5. CASE Some(new, reason)
  <2>1. PICK i \in 1 .. b : new[i].stop = reason
    BY <1>1, <1>5 DEF Some
  <2> DEFINE k == a + i
  <2>2. k \in 1 .. a + b /\ ~(k <= a) /\ k - a = i
    BY <1>1
  <2> HIDE DEF k
  <2>3. all[k] = new[i]
    BY <1>2, <2>2
  <2> QED
    BY <1>3, <2>1, <2>2, <2>3 DEF Some, all
<1> QED
  BY <1>4, <1>5

\* The cycles stay numbered when the rows of a wave planned after them are written.
LEMMA NumbersGrow ==
  ASSUME NEW old \in Seq(Row), NEW new \in Seq(Row),
         \A i \in DOMAIN old : old[i].cycle = i,
         \A i \in 1 .. Len(new) : new[i].cycle = Len(old) + i
  PROVE  /\ old \o new \in Seq(Row) /\ Len(old \o new) = Len(old) + Len(new)
         /\ \A i \in DOMAIN (old \o new) : (old \o new)[i].cycle = i
<1> DEFINE a == Len(old)
           b == Len(new)
           all == old \o new
<1>1. /\ a \in Nat /\ b \in Nat /\ DOMAIN old = 1 .. a /\ DOMAIN all = 1 .. Len(all)
      /\ all \in Seq(Row)
  BY ConcatProperties, LenProperties
<1>2. /\ Len(all) = a + b
      /\ \A i \in 1 .. a + b : all[i] = IF i <= a THEN old[i] ELSE new[i - a]
  BY ConcatProperties
<1>3. \A i \in 1 .. b : new[i].cycle = a + i
  OBVIOUS
<1>4. \A i \in 1 .. a : old[i].cycle = i
  BY <1>1
<1> HIDE DEF a, b, all
<1>5. DOMAIN all = 1 .. a + b
  BY <1>1, <1>2
<1>6. ASSUME NEW i \in DOMAIN all PROVE all[i].cycle = i
  <2>1. CASE i <= a
    <3>1. i \in 1 .. a /\ i \in 1 .. a + b
      BY <1>1, <1>5, <2>1
    <3> QED
      BY <1>2, <1>4, <2>1, <3>1
  <2>2. CASE ~(i <= a)
    <3> DEFINE j == i - a
    <3>1. j \in 1 .. b /\ a + j = i /\ i \in 1 .. a + b
      BY <1>1, <1>5, <2>2
    <3>2. all[i] = new[j]
      BY <1>2, <2>2, <3>1
    <3> HIDE DEF j
    <3>3. new[j].cycle = a + j
      BY <1>3, <3>1
    <3> QED
      BY <3>1, <3>2, <3>3
  <2> QED
    BY <2>1, <2>2
<1> QED
  BY <1>1, <1>2, <1>6 DEF a, b, all

\* The wave is recorded: its rows join the trace and the error count follows.
LEMMA RecordStep ==
  ASSUME CInv, NEW c \in Camp, NEW funded \in BOOLEAN, Record(c, funded)
  PROVE  CInv'
<1> DEFINE old == cycles[c]
           new == WaveRows(c)
           how == AfterWave(c, new, funded)
           ok == {i \in DOMAIN new : ~new[i].error}
<1>1. /\ new \in Seq(Row) /\ Len(new) = Len(planned[c]) /\ old \in Seq(Row)
      /\ \A i \in 1 .. Len(planned[c]) : new[i].cycle = planned[c][i].cycle
      /\ DOMAIN new = 1 .. Len(new) /\ Len(new) \in Nat
  BY WaveTyped, Lengths, LenProperties DEF CInv
<1>2. /\ how \in {"looking", "cancelled", "budget_exhausted", "no_open_work", "error_budget"}
      /\ how = "cancelled" => asked[c] \/ Some(new, "cancelled")
      /\ how = "error_budget" => ErrorsAfter(errors[c], new) >= ErrorBudget
  BY Tested
<1>3. Cardinality(ok) \in Nat
  <2>1. ok \subseteq 1 .. Len(new)
    BY <1>1
  <2>2. IsFiniteSet(1 .. Len(new))
    BY <1>1, FS_Interval
  <2> HIDE DEF ok
  <2> QED
    BY <2>1, <2>2, FS_Subset, FS_CardinalityType
<1> HIDE DEF how, new, ok, old
<1>4. /\ cpc[c] = "recording" /\ Part(c) /\ cstatus[c] = "running"
      /\ cycles' = [cycles EXCEPT ![c] = old \o new]
      /\ errors' = [errors EXCEPT ![c] = ErrorsAfter(errors[c], new)]
      /\ completed' = [completed EXCEPT ![c] = @ + Cardinality(ok)]
      /\ cpc' = [cpc EXCEPT ![c] = how] /\ slots' = [slots EXCEPT ![c] = 0]
      /\ planned' = [planned EXCEPT ![c] = <<>>]
      /\ UNCHANGED <<rows, cstatus, current, asked, cstop, atCancel, marked, work>>
  BY DEF Record, LeaveWave, how, new, old, ok, CInv, Part, Told, Alive, Verdict, CTypeOK
<1>5. errors[c] \in Nat /\ ErrorsAfter(errors[c], new) \in Nat
  BY <1>1, AfterCount, Lengths DEF CInv
<1>6. Trailing(ErrorsAfter(errors[c], new), old \o new)
  BY <1>1, <1>4, <1>5, TrailGrows DEF Part, old
<1>7. /\ old \o new \in Seq(Row) /\ Len(old \o new) = Len(old) + Len(new)
      /\ \A i \in DOMAIN (old \o new) : (old \o new)[i].cycle = i
  <2>1. \A i \in DOMAIN old : old[i].cycle = i
    BY <1>4 DEF Part, Numbers, old
  <2>2. \A i \in 1 .. Len(new) : new[i].cycle = Len(old) + i
    BY <1>1, <1>4, Lengths DEF Part, Numbers, CInv, old
  <2> QED
    BY <1>1, <2>1, <2>2, NumbersGrow
<1>8. CTypeOK'
  <2>1. /\ cycles' \in [Camp -> Seq(Row)] /\ errors' \in [Camp -> Nat]
    BY <1>4, <1>5, <1>7 DEF CInv, CTypeOK
  <2>2. /\ planned' \in [Camp -> Seq([cycle : Nat, orch : Orch \cup {NoOrch}])]
    BY <1>4, EmptySeq DEF CInv, CTypeOK
  <2>3. slots' \in [Camp -> 0 .. Width] /\ completed' \in [Camp -> Nat]
    BY <1>3, <1>4, CampAssumption DEF CInv, CTypeOK
  <2>4. cpc' \in [Camp -> {"none", "looking", "planning", "counting", "beginning", "waving",
                          "recording", "over", "dead"} \cup Verdict]
    BY <1>2, <1>4 DEF CInv, CTypeOK, Verdict
  <2> QED
    BY <1>4, <2>1, <2>2, <2>3, <2>4 DEF CInv, CTypeOK, rows, work
<1>9. /\ cycles'[c] = old \o new /\ errors'[c] = ErrorsAfter(errors[c], new)
      /\ cpc'[c] = how /\ planned'[c] = <<>>
      /\ \A d \in Camp \ {c} : /\ cycles'[d] = cycles[d] /\ errors'[d] = errors[d]
                               /\ cpc'[d] = cpc[d] /\ planned'[d] = planned[d]
  BY <1>4 DEF CInv, CTypeOK
<1>10. OthersStill(c) /\ Running(Orch)' \subseteq Running(Orch)
  BY <1>4, <1>9, SameRunning DEF OthersStill, work
<1>11. Part(c)'
  <2>1. Told(c)' /\ Bites(c)'
    BY <1>2, <1>4, <1>9 DEF Told, Bites, Part, Alive
  <2>2. Trailing(errors[c], cycles[c])'
    BY <1>6, <1>9
  <2>3. Numbers(c)'
    <3>1. current[c] = Len(old) + Len(new) /\ Len(old) \in Nat
      BY <1>1, <1>4, Lengths DEF Part, Numbers, CInv, old
    <3>2. Len(cycles'[c]) = current'[c] /\ current'[c] \in Nat
      <4>1. current[c] \in Nat /\ current'[c] = current[c]
        BY <1>4, Lengths DEF CInv
      <4> QED
        BY <1>7, <1>9, <3>1, <4>1
    <3>3. Len(planned'[c]) = 0 /\ DOMAIN planned'[c] = {}
      BY <1>9, EmptySeq
    <3>4. /\ current'[c] = Len(cycles'[c]) + Len(planned'[c]) /\ Len(cycles'[c]) <= current'[c]
          /\ \A i \in DOMAIN cycles'[c] : cycles'[c][i].cycle = i
      BY <1>7, <1>9, <3>2, <3>3
    <3> QED
      BY <1>2, <1>9, <3>2, <3>3, <3>4 DEF Numbers
  <2>4. Keeps(c)'
    <3>1. Running(Mine(c)) = {} /\ Running(Mine(c))' = Running(Mine(c))
      BY <1>4, SameRunning DEF Part, Keeps, work
    <3> QED
      BY <1>2, <1>9, <3>1 DEF Keeps
  <2>5. Cause(c)'
    <3>1. how = "cancelled" => asked[c] \/ Some(old \o new, "cancelled")
      BY <1>1, <1>2, SomeGrows
    <3> QED
      BY <1>2, <1>4, <1>9, <3>1 DEF Cause, Holds
  <2> QED
    BY <2>1, <2>2, <2>3, <2>4, <2>5 DEF Part
<1> QED
  BY <1>4, <1>8, <1>10, <1>11, CampaignMoves DEF rows, work

-----------------------------------------------------------------------------
(* The end of a campaign, and what happens to its row from outside. *)

\* The loop is left, by its own verdict, by an error or with its process.
LEMMA Leaves ==
  ASSUME CInv, NEW c \in Camp, NEW how \in {"over", "dead"}, LeaveWave(c, how)
  PROVE  /\ cpc' \in [Camp -> {"none", "looking", "planning", "counting", "beginning",
                               "waving", "recording", "over", "dead"} \cup Verdict]
         /\ slots' \in [Camp -> 0 .. Width]
         /\ planned' \in [Camp -> Seq([cycle : Nat, orch : Orch \cup {NoOrch}])]
         /\ cpc'[c] = how /\ planned'[c] = <<>>
         /\ \A d \in Camp \ {c} : cpc'[d] = cpc[d] /\ planned'[d] = planned[d]
<1>1. /\ cpc' = [cpc EXCEPT ![c] = how] /\ slots' = [slots EXCEPT ![c] = 0]
      /\ planned' = [planned EXCEPT ![c] = <<>>]
  BY DEF LeaveWave
<1>2. cpc' \in [Camp -> {"none", "looking", "planning", "counting", "beginning",
                        "waving", "recording", "over", "dead"} \cup Verdict]
  BY <1>1 DEF CInv, CTypeOK
<1>3. slots' \in [Camp -> 0 .. Width]
  BY <1>1, CampAssumption DEF CInv, CTypeOK
<1>4. planned' \in [Camp -> Seq([cycle : Nat, orch : Orch \cup {NoOrch}])]
  BY <1>1, EmptySeq DEF CInv, CTypeOK
<1>5. /\ cpc'[c] = how /\ planned'[c] = <<>>
      /\ \A d \in Camp \ {c} : cpc'[d] = cpc[d] /\ planned'[d] = planned[d]
  BY <1>1 DEF CInv, CTypeOK
<1> QED
  BY <1>2, <1>3, <1>4, <1>5

\* The campaign completes with a cause that its row bears out.
LEMMA FinishStep ==
  ASSUME CInv, NEW c \in Camp, Finish(c)
  PROVE  CInv'
<1>1. /\ cpc[c] \in Verdict /\ LeaveWave(c, "over")
      /\ cstatus' = [cstatus EXCEPT ![c] = "completed"] /\ cstop' = [cstop EXCEPT ![c] = cpc[c]]
      /\ UNCHANGED <<rows, current, asked, errors, completed, cycles, atCancel, marked, work>>
  BY DEF Finish
<1>2. Part(c) /\ cstatus[c] = "running"
  BY <1>1 DEF CInv, Part, Told, Alive, Verdict
<1>3. /\ cstatus'[c] = "completed" /\ cstop'[c] = cpc[c]
      /\ \A d \in Camp \ {c} : cstatus'[d] = cstatus[d] /\ cstop'[d] = cstop[d]
  BY <1>1 DEF CInv, CTypeOK
<1>4. CTypeOK'
  BY <1>1, Leaves DEF CInv, CTypeOK, Closed, rows, work
<1>5. /\ cpc'[c] = "over" /\ planned'[c] = <<>>
      /\ \A d \in Camp \ {c} : cpc'[d] = cpc[d] /\ planned'[d] = planned[d]
  BY <1>1, Leaves
<1>6. OthersStill(c) /\ Running(Orch)' \subseteq Running(Orch)
  BY <1>1, <1>3, <1>5, SameRunning DEF OthersStill, work
<1>7. Part(c)'
  <2>1. Told(c)' /\ Bites(c)' /\ Trailing(errors[c], cycles[c])'
    BY <1>1, <1>2, <1>3, <1>5 DEF Told, Alive, Bites, Part
  <2>2. Numbers(c)'
    <3>1. planned[c] = <<>>
      BY <1>1, <1>2 DEF Part, Numbers, Verdict
    <3>2. current[c] = Len(cycles[c]) + Len(planned[c]) /\ Len(cycles[c]) \in Nat
      BY <1>1, <1>2, Lengths DEF Part, Numbers, Verdict, CInv
    <3>3. Len(cycles[c]) = current[c]
      BY <3>1, <3>2, EmptySeq
    <3> QED
      BY <1>1, <1>2, <1>3, <1>5, <3>3 DEF Part, Numbers
  <2>3. Keeps(c)'
    <3>1. Running(Mine(c)) = {} /\ Running(Mine(c))' = Running(Mine(c))
      BY <1>1, <1>2, SameRunning DEF Part, Keeps, work
    <3> QED
      BY <1>5, <3>1 DEF Keeps
  <2>4. Cause(c)'
    BY <1>1, <1>2, <1>3, <1>5 DEF Cause, Holds, Part
  <2> QED
    BY <2>1, <2>2, <2>3, <2>4 DEF Part
<1> QED
  BY <1>1, <1>3, <1>4, <1>6, <1>7, CampaignMoves DEF rows, work

\* The loop fails: the row ends, its cycles may run on.
LEMMA CampaignFailsStep ==
  ASSUME CInv, NEW c \in Camp, CampaignFails(c)
  PROVE  CInv'
<1>1. /\ Alive(c) /\ LeaveWave(c, "over")
      /\ cstatus' = [cstatus EXCEPT ![c] = "failed"] /\ cstop' = [cstop EXCEPT ![c] = "error"]
      /\ UNCHANGED <<rows, current, asked, errors, completed, cycles, atCancel, marked, work>>
  BY DEF CampaignFails
<1>2. Part(c) /\ cstatus[c] = "running"
  BY <1>1 DEF CInv, Part, Told
<1>3. /\ cstatus'[c] = "failed" /\ cstop'[c] = "error"
      /\ \A d \in Camp \ {c} : cstatus'[d] = cstatus[d] /\ cstop'[d] = cstop[d]
  BY <1>1 DEF CInv, CTypeOK
<1>4. CTypeOK'
  BY <1>1, Leaves DEF CInv, CTypeOK, Closed, rows, work
<1>5. /\ cpc'[c] = "over" /\ planned'[c] = <<>>
      /\ \A d \in Camp \ {c} : cpc'[d] = cpc[d] /\ planned'[d] = planned[d]
  BY <1>1, Leaves
<1>6. OthersStill(c) /\ Running(Orch)' \subseteq Running(Orch)
  BY <1>1, <1>3, <1>5, SameRunning DEF OthersStill, work
<1>7. Part(c)'
  BY <1>1, <1>2, <1>3, <1>5
     DEF Part, Told, Alive, Bites, Numbers, Keeps, Cause, Holds, Verdict
<1> QED
  BY <1>1, <1>3, <1>4, <1>6, <1>7, CampaignMoves DEF rows, work

\* The loop dies with its process.
LEMMA CampaignDiesStep ==
  ASSUME CInv, NEW c \in Camp, CampaignDies(c)
  PROVE  CInv'
<1>1. /\ Alive(c) /\ LeaveWave(c, "dead") /\ UNCHANGED <<rows, crow, marked, work>>
  BY DEF CampaignDies
<1>2. Part(c) /\ cstatus[c] = "running"
  BY <1>1 DEF CInv, Part, Told
<1>3. CTypeOK'
  BY <1>1, Leaves DEF CInv, CTypeOK, rows, crow, work
<1>4. /\ cpc'[c] = "dead" /\ planned'[c] = <<>>
      /\ \A d \in Camp \ {c} : cpc'[d] = cpc[d] /\ planned'[d] = planned[d]
  BY <1>1, Leaves
<1>5. OthersStill(c) /\ Running(Orch)' \subseteq Running(Orch)
  BY <1>1, <1>4, SameRunning DEF OthersStill, crow, work
<1>6. Part(c)'
  BY <1>1, <1>2, <1>4
     DEF Part, Told, Alive, Bites, Numbers, Keeps, Cause, Holds, Verdict, crow
<1> QED
  BY <1>1, <1>3, <1>5, <1>6, CampaignMoves DEF rows, crow, work

\* A reader ends the row of a lost campaign.
LEMMA SweepCampaignStep ==
  ASSUME CInv, NEW c \in Camp, SweepCampaign(c)
  PROVE  CInv'
<1>1. /\ cstatus[c] = "running" /\ cpc[c] = "dead" /\ Part(c)
      /\ cstatus' = [cstatus EXCEPT ![c] = "failed"] /\ cstop' = [cstop EXCEPT ![c] = "error"]
      /\ UNCHANGED <<rows, current, asked, errors, completed, cycles, atCancel, loop, marked, work>>
  BY DEF SweepCampaign, CInv
<1>2. /\ cstatus'[c] = "failed" /\ cstop'[c] = "error"
      /\ \A d \in Camp \ {c} : cstatus'[d] = cstatus[d] /\ cstop'[d] = cstop[d]
  BY <1>1 DEF CInv, CTypeOK
<1>3. CTypeOK'
  BY <1>1 DEF CInv, CTypeOK, Closed, rows, loop, work
<1>4. OthersStill(c) /\ Running(Orch)' \subseteq Running(Orch)
  BY <1>1, <1>2, SameRunning DEF OthersStill, loop, work
<1>5. Part(c)'
  BY <1>1, <1>2 DEF Part, Told, Alive, Bites, Numbers, Keeps, Cause, Holds, Verdict, loop
<1> QED
  BY <1>1, <1>2, <1>3, <1>4, <1>5, CampaignMoves DEF rows, work

\* A cancel reads the running cycles, in a transaction not yet committed.
LEMMA CancelReadsStep ==
  ASSUME CInv, NEW c \in Camp, CancelReads(c)
  PROVE  CInv'
<1>1. /\ UNCHANGED <<rows, crow, loop, work>>
      /\ marked' = [marked EXCEPT ![c] = Running(Orch)]
  BY DEF CancelReads
<1>2. CTypeOK'
  BY <1>1 DEF CInv, CTypeOK, Running, rows, crow, loop, work
<1>3. Running(Orch)' \subseteq Running(Orch)
  BY <1>1, SameRunning DEF work
<1> QED
  BY <1>1, <1>2, <1>3, RowsMove DEF CInv, rows, work

\* The cancel commits its flags.
LEMMA CancelCommitsStep ==
  ASSUME CInv, NEW c \in Camp, CancelCommits(c)
  PROVE  CInv'
<1>1. /\ asked' = [asked EXCEPT ![c] = TRUE] /\ atCancel' = [atCancel EXCEPT ![c] = current[c]]
      /\ AskCancel(marked[c]) /\ marked' = [marked EXCEPT ![c] = Idle]
      /\ UNCHANGED <<cstatus, current, errors, completed, cycles, cstop, loop, work>>
  BY DEF CancelCommits
<1>2. /\ UNCHANGED <<ostatus, commissioned, stop>> /\ cancel' \in [Orch -> BOOLEAN]
  BY <1>1 DEF AskCancel, CInv, CTypeOK
<1>3. current[c] \in Nat
  BY Lengths DEF CInv
<1>4. CTypeOK'
  BY <1>1, <1>2, <1>3 DEF CInv, CTypeOK, Idle, loop, work
<1>5. /\ asked'[c] = TRUE /\ atCancel'[c] = current[c]
      /\ \A d \in Camp \ {c} : asked'[d] = asked[d] /\ atCancel'[d] = atCancel[d]
  BY <1>1 DEF CInv, CTypeOK
<1>6. OthersStill(c)
  BY <1>1, <1>5 DEF OthersStill, loop
<1>7. Running(Orch)' = Running(Orch) /\ Running(Mine(c))' = Running(Mine(c)) /\ Mine(c)' = Mine(c)
  BY <1>1, <1>2 DEF Running, Mine, work
<1>8. Part(c)'
  <2>1. Part(c) /\ UNCHANGED <<cpc, planned>>
    BY <1>1 DEF CInv, loop
  <2>2. Told(c)' /\ Numbers(c)' /\ Trailing(errors[c], cycles[c])'
    BY <1>1, <2>1 DEF Part, Told, Alive, Numbers
  <2>3. Bites(c)'
    BY <1>1, <1>3, <1>5 DEF Bites
  <2>4. Keeps(c)'
    BY <1>1, <1>7, <2>1 DEF Part, Keeps, Planned
  <2>5. Cause(c)'
    BY <1>1, <1>5, <2>1 DEF Part, Cause, Holds
  <2> QED
    BY <2>2, <2>3, <2>4, <2>5 DEF Part
<1> QED
  BY <1>1, <1>2, <1>4, <1>6, <1>7, <1>8, CampaignMoves DEF work

-----------------------------------------------------------------------------
\* Every step keeps the invariant.
LEMMA CampaignStep == CInv /\ [Next]_vars => CInv'
<1> SUFFICES ASSUME CInv, [Next]_vars PROVE CInv'
  OBVIOUS
<1>1. ASSUME NEW c \in Camp, CampWork(c) PROVE CInv'
  <2>1. 0 .. MaxEligible \subseteq Nat
    BY CampAssumption
  <2> QED
    BY <1>1, <2>1, LookOpensWaveStep, LookStopsStep, PlanNextStep, CountCycleStep, BeginStep,
       BeginFailsStep, PlanEndsStep, WaveReturnsStep, RecordStep, FinishStep DEF CampWork
<1>2. CASE UNCHANGED vars
  <2>1. UNCHANGED <<rows, crow, loop, marked, work>>
    BY <1>2 DEF vars
  <2>2. CTypeOK'
    BY <2>1 DEF CInv, CTypeOK, rows, crow, loop, work
  <2>3. Running(Orch)' \subseteq Running(Orch)
    BY <2>1, SameRunning DEF work
  <2> QED
    BY <2>1, <2>2, <2>3, RowsMove DEF CInv, rows, work
<1> QED
  BY <1>1, <1>2, StartStep, CampaignFailsStep, CampaignDiesStep, SweepCampaignStep,
     CancelReadsStep, CancelCommitsStep, StartAloneStep, OrchStep DEF Next

\* The invariant of every behaviour.
THEOREM CampaignInvariant == Spec => []CInv
<1> QED
  BY CampaignStart, CampaignStep, PTL DEF Spec

\* Every row and every place of the loop has its type.
THEOREM CampaignTyped == Spec => []CTypeOK
<1>1. CInv => CTypeOK
  BY DEF CInv
<1> QED
  BY <1>1, CampaignInvariant, PTL

\* One loop per project, however campaigns, standalone orchestrations, crashes and sweeps meet.
THEOREM CampaignAlone == Spec => []OneLoop
<1>1. CInv => OneLoop
  BY DEF CInv
<1> QED
  BY <1>1, CampaignInvariant, PTL

\* The cycles of a campaign are numbered without a gap.
THEOREM CampaignNumbered == Spec => []CyclesNumbered
<1>1. CInv => CyclesNumbered
  BY DEF CInv, Part, Numbers, CyclesNumbered
<1> QED
  BY <1>1, CampaignInvariant, PTL

\* The error count is the failures at the end of the trace.
THEOREM CampaignErrors == Spec => []ErrorsAreTrailing
<1>1. CInv => ErrorsAreTrailing
  BY DEF CInv, Part, Trailing, ErrorsAreTrailing
<1> QED
  BY <1>1, CampaignInvariant, PTL

\* A committed cancel lets one cycle through at most.
THEOREM CampaignCancelled == Spec => []CancelBites
<1>1. CInv => CancelBites
  BY DEF CInv, Part, Bites, CancelBites
<1> QED
  BY <1>1, CampaignInvariant, PTL

\* A completed campaign leaves no cycle running.
THEOREM CampaignClean == Spec => []CompletedLeavesNone
<1>1. CInv => CompletedLeavesNone
  BY DEF CInv, Part, Keeps, CompletedLeavesNone
<1> QED
  BY <1>1, CampaignInvariant, PTL

\* A completed campaign gives a reason that holds.
THEOREM CampaignCause == Spec => []StopsForCause
<1>1. ASSUME CInv PROVE StopsForCause
  <2>1. ASSUME NEW c \in Camp, cstatus[c] = "completed"
        PROVE  Holds(c, cstop[c]) /\ Len(cycles[c]) = current[c]
    BY <1>1, <2>1 DEF CInv, Part, Cause, Numbers
  <2> QED
    BY <2>1 DEF Holds, StopsForCause
<1> QED
  BY <1>1, CampaignInvariant, PTL
=============================================================================
