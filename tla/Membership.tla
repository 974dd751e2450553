----------------------------- MODULE Membership -----------------------------
(***************************************************************************)
(* What a project promises about its people: it always has one owner, who  *)
(* is a member; a person joins by an invitation that is open at that       *)
(* moment, and once per invitation; only a person who is no member is      *)
(* invited.  Roster implements this with rows, locks and retries.          *)
(***************************************************************************)
CONSTANTS Account, Founder

VARIABLES owner, members, invited
doorVars == <<owner, members, invited>>

DoorInit == owner = Founder /\ members = {Founder} /\ invited = {}

Invites(a) ==
  /\ a \notin members \cup invited
  /\ invited' = invited \cup {a}
  /\ UNCHANGED <<owner, members>>

\* The invited person declines, or the project takes the invitation back.
Withdraws(a) ==
  /\ a \in invited
  /\ invited' = invited \ {a}
  /\ UNCHANGED <<owner, members>>

Joins(a) ==
  /\ a \in invited \ members
  /\ invited' = invited \ {a}
  /\ members' = members \cup {a}
  /\ UNCHANGED owner

Leaves(a) ==
  /\ a \in members \ {owner}
  /\ members' = members \ {a}
  /\ UNCHANGED <<owner, invited>>

HandsOver(a) ==
  /\ a \in members \ {owner}
  /\ owner' = a
  /\ UNCHANGED <<members, invited>>

DoorNext == \E a \in Account : Invites(a) \/ Withdraws(a) \/ Joins(a) \/ Leaves(a) \/ HandsOver(a)

DoorSpec == DoorInit /\ [][DoorNext]_doorVars
=============================================================================
