----------------------------- MODULE RosterProofs -----------------------------
(***************************************************************************)
(* Theorems about the roster, for any people, agents, tokens and requests  *)
(* in flight.  The invariant says what the two locks give: one management  *)
(* request at a time, whose view of the membership stays true until it     *)
(* commits, and one accept per invitation, which stays pending meanwhile.  *)
(***************************************************************************)
EXTENDS Roster, TLAPS

\* The project row is held by one request at a time, and what it read stays so.
ProjectHeld ==
  \A s \in Slot : ManagesProject(s) =>
    /\ tx[s].by \in Account
    /\ tx[s].seen = role
    /\ \A x \in Slot : ManagesProject(x) => x = s

\* An accept holds the row of its invitation, which stays pending.
RowHeld ==
  \A s \in Slot : tx[s].at = "accept" =>
    /\ tx[s].by \in Account
    /\ invitation[tx[s].by].status = "pending"
    /\ \A x \in Slot : tx[x].at = "accept" /\ tx[x].by = tx[s].by => x = s

CrewRead == \A s \in Slot : tx[s].at = "crew" => tx[s].by \in Account

DoorInv == RTypeOK /\ ProjectHeld /\ RowHeld /\ CrewRead /\ OneOwner /\ MemberAccepted

-----------------------------------------------------------------------------
\* The project begins with its creator as owner.
LEMMA DoorStarts == Init => DoorInv
<1> SUFFICES ASSUME Init PROVE DoorInv
  OBVIOUS
<1> USE RosterAssumption DEF Init, Nowhere, Idle, NoSeat, NoToken, Agent, Roles
<1>1. RTypeOK
  BY DEF RTypeOK
<1>2. ProjectHeld /\ RowHeld /\ CrewRead
  BY DEF ProjectHeld, ManagesProject, RowHeld, CrewRead
<1>3. OneOwner
  BY DEF OneOwner, Owners
<1>4. MemberAccepted
  BY DEF MemberAccepted, Members
<1> QED
  BY <1>1, <1>2, <1>3, <1>4 DEF DoorInv

\* A step that touches neither membership nor invitations and at most ends a request or
\* starts the crew's.
Quiet(s) ==
  /\ UNCHANGED <<role, invitation>>
  /\ \/ UNCHANGED tx
     \/ Ends(s)
     \/ \E a \in Owners : tx' = [tx EXCEPT ![s] = [Idle EXCEPT !.at = "crew", !.by = a]]

\* A request that only reads keeps the invariant.
LEMMA QuietHolds ==
  ASSUME DoorInv, NEW s \in Slot, Quiet(s), RTypeOK'
  PROVE  DoorInv'
<1>1. role' = role /\ invitation' = invitation
  BY DEF Quiet
<1>2. ASSUME NEW x \in Slot
      PROVE  tx'[x] = tx[x] \/ tx'[x].at = "idle" \/ (tx'[x].at = "crew" /\ tx'[x].by \in Account)
  <2>1. CASE UNCHANGED tx
    BY <2>1
  <2>2. CASE Ends(s)
    BY <2>2 DEF Ends, Idle, DoorInv, RTypeOK
  <2>3. ASSUME NEW a \in Owners, tx' = [tx EXCEPT ![s] = [Idle EXCEPT !.at = "crew", !.by = a]]
        PROVE  tx'[x] = tx[x] \/ (tx'[x].at = "crew" /\ tx'[x].by \in Account)
    BY <2>3 DEF Owners, Idle, DoorInv, RTypeOK
  <2> QED
    BY <2>1, <2>2, <2>3 DEF Quiet
<1>3. ProjectHeld'
  BY <1>1, <1>2 DEF DoorInv, ProjectHeld, ManagesProject
<1>4. RowHeld'
  BY <1>1, <1>2 DEF DoorInv, RowHeld
<1>5. CrewRead'
  BY <1>2 DEF DoorInv, CrewRead
<1>6. OneOwner'
  BY <1>1 DEF DoorInv, OneOwner, Owners
<1>7. MemberAccepted'
  BY <1>1 DEF DoorInv, MemberAccepted, Members
<1> QED
  BY <1>3, <1>4, <1>5, <1>6, <1>7 DEF DoorInv

-----------------------------------------------------------------------------
\* Management requests and the door.

\* A manager takes the project row.
LEMMA ManageHolds ==
  ASSUME DoorInv, NEW s \in Slot, NEW a \in Account, Manage(s, a)
  PROVE  DoorInv'
<1> USE DEF Manage, DoorInv
<1>1. tx'[s] = [at |-> "manage", by |-> a, seen |-> role] /\ \A x \in Slot \ {s} : tx'[x] = tx[x]
  BY DEF RTypeOK
<1>2. \A x \in Slot \ {s} : ~ManagesProject(x)
  BY DEF ProjectFree
<1>3. RTypeOK'
  BY DEF RTypeOK
<1>4. ProjectHeld'
  BY <1>1, <1>2 DEF ProjectHeld, ManagesProject
<1>5. RowHeld' /\ CrewRead'
  BY <1>1 DEF RowHeld, CrewRead
<1>6. OneOwner' /\ MemberAccepted'
  BY DEF OneOwner, Owners, MemberAccepted, Members
<1> QED
  BY <1>3, <1>4, <1>5, <1>6

\* A request that rolls back gives its locks up.
LEMMA RollbackHolds ==
  ASSUME DoorInv, NEW s \in Slot, Rollback(s)
  PROVE  DoorInv'
<1>1. RTypeOK'
  BY RosterAssumption DEF DoorInv, RTypeOK, Rollback, Ends, Idle, Nowhere, Roles
<1>2. Quiet(s)
  BY DEF Rollback, Quiet
<1> QED
  BY <1>1, <1>2, QuietHolds

\* A management request that commits leaves every other one as it was, and none of them holds
\* the project row.
LEMMA Commits ==
  ASSUME DoorInv, NEW s \in Slot, Ends(s)
  PROVE  /\ tx'[s].at = "idle"
         /\ \A x \in Slot \ {s} : tx'[x] = tx[x]
         /\ ManagesProject(s) => \A x \in Slot \ {s} : ~ManagesProject(x)
         /\ tx' \in [Slot -> [at : {"idle", "manage", "revoke", "accept", "crew"},
                              by : Account \cup {NoOne}, seen : [Account -> Roles]]]
<1>1. tx'[s].at = "idle" /\ \A x \in Slot \ {s} : tx'[x] = tx[x]
  BY DEF DoorInv, RTypeOK, Ends, Idle
<1>2. ManagesProject(s) => \A x \in Slot \ {s} : ~ManagesProject(x)
  BY DEF DoorInv, ProjectHeld
<1>3. Idle \in [at : {"idle", "manage", "revoke", "accept", "crew"},
                by : Account \cup {NoOne}, seen : [Account -> Roles]]
  BY DEF Idle, Nowhere, Roles
<1> QED
  BY <1>1, <1>2, <1>3 DEF DoorInv, RTypeOK, Ends

\* A removal leaves the invitation as it was: accepted.
LEMMA RemoveHolds ==
  ASSUME DoorInv, NEW s \in Slot, NEW a \in Account, RemoveMember(s, a)
  PROVE  DoorInv'
<1>1. role[a] = "admin" /\ ManagesProject(s)
  BY DEF RemoveMember, MayAsOwner, May, DoorInv, ProjectHeld, ManagesProject
<1>2. \A b \in Account : role'[b] = IF b = a THEN "none" ELSE role[b]
  BY DEF RemoveMember, DoorInv, RTypeOK
<1>3. /\ tx'[s].at = "idle" /\ \A x \in Slot \ {s} : tx'[x] = tx[x] /\ ~ManagesProject(x)
      /\ tx' \in [Slot -> [at : {"idle", "manage", "revoke", "accept", "crew"},
                           by : Account \cup {NoOne}, seen : [Account -> Roles]]]
  BY <1>1, Commits DEF RemoveMember
<1>4. RTypeOK'
  BY <1>3 DEF RemoveMember, DoorInv, RTypeOK, Roles
<1>5. ProjectHeld'
  BY <1>3 DEF ProjectHeld, ManagesProject
<1>6. RowHeld' /\ CrewRead'
  BY <1>3 DEF DoorInv, RowHeld, CrewRead, RemoveMember
<1>7. OneOwner'
  BY <1>1, <1>2 DEF DoorInv, OneOwner, Owners
<1>8. MemberAccepted'
  BY <1>2 DEF DoorInv, MemberAccepted, Members, RemoveMember
<1> QED
  BY <1>4, <1>5, <1>6, <1>7, <1>8 DEF DoorInv

\* A transfer makes one owner of another.
LEMMA TransferHolds ==
  ASSUME DoorInv, NEW s \in Slot, NEW a \in Account, Transfer(s, a)
  PROVE  /\ DoorInv'
         /\ role[tx[s].by] = "owner" /\ role[a] = "admin" /\ tx[s].by \in Account
<1>1. role[a] = "admin" /\ role[tx[s].by] = "owner" /\ tx[s].by \in Account /\ ManagesProject(s)
  BY DEF Transfer, MayAsOwner, May, DoorInv, ProjectHeld, ManagesProject
<1>2. \A b \in Account : role'[b] = IF b = a THEN "owner"
                                    ELSE IF b = tx[s].by THEN "admin" ELSE role[b]
  BY DEF Transfer, DoorInv, RTypeOK
<1>3. /\ tx'[s].at = "idle" /\ \A x \in Slot \ {s} : tx'[x] = tx[x] /\ ~ManagesProject(x)
      /\ tx' \in [Slot -> [at : {"idle", "manage", "revoke", "accept", "crew"},
                           by : Account \cup {NoOne}, seen : [Account -> Roles]]]
  BY <1>1, Commits DEF Transfer
<1>4. RTypeOK'
  <2>1. role' \in [Account -> Roles] /\ invitation' = invitation
    BY DEF Transfer, DoorInv, RTypeOK, Roles
  <2>2. seat' \in [Agent -> [status : {"none", "active", "suspended", "revoked"},
                             deployer : Account \cup {NoOne}, responsible : Account \cup {NoOne}]]
    <3> DEFINE SeatType == [status : {"none", "active", "suspended", "revoked"},
                            deployer : Account \cup {NoOne}, responsible : Account \cup {NoOne}]
    <3>0. seat \in [Agent -> SeatType]
      BY DEF DoorInv, RTypeOK
    <3>1. \A g \in Agent : seat[g] \in SeatType /\ [seat[g] EXCEPT !.status = "suspended"] \in SeatType
      BY <3>0
    <3>2. seat' = [g \in Agent |-> IF g \in Answering(tx[s].by) /\ seat[g].status = "active"
                                   THEN [seat[g] EXCEPT !.status = "suspended"] ELSE seat[g]]
      BY DEF Transfer, SuspendAnswering
    <3> QED
      BY <3>1, <3>2
  <2>3. token' \in [Token -> [agent : Agent, status : {"none", "live", "expired", "revoked"}]]
    BY DEF Transfer, SuspendAnswering, Revoked, DoorInv, RTypeOK
  <2>4. left' \in [Agent -> SUBSET Account]
    BY <1>1 DEF Transfer, DoorInv, RTypeOK
  <2> QED
    BY <1>3, <2>1, <2>2, <2>3, <2>4 DEF DoorInv, RTypeOK
<1>5. ProjectHeld'
  BY <1>3 DEF ProjectHeld, ManagesProject
<1>6. RowHeld' /\ CrewRead'
  <2>1. invitation' = invitation
    BY DEF Transfer
  <2> QED
    BY <1>3, <2>1 DEF DoorInv, RowHeld, CrewRead
<1>7. OneOwner'
  BY <1>1, <1>2 DEF DoorInv, OneOwner, Owners
<1>8. MemberAccepted'
  BY <1>1, <1>2 DEF DoorInv, MemberAccepted, Members, Transfer
<1> QED
  BY <1>1, <1>4, <1>5, <1>6, <1>7, <1>8 DEF DoorInv

\* An invitation is made only to who is outside.
LEMMA InviteHolds ==
  ASSUME DoorInv, NEW s \in Slot, NEW a \in Account, NEW offers \in {"admin", "owner"},
         Invite(s, a, offers)
  PROVE  DoorInv' /\ role[a] = "none"
<1>1. role[a] = "none" /\ ManagesProject(s)
  BY DEF Invite, May, DoorInv, ProjectHeld, ManagesProject
<1>2. /\ tx'[s].at = "idle" /\ \A x \in Slot \ {s} : tx'[x] = tx[x] /\ ~ManagesProject(x)
      /\ tx' \in [Slot -> [at : {"idle", "manage", "revoke", "accept", "crew"},
                           by : Account \cup {NoOne}, seen : [Account -> Roles]]]
  BY <1>1, Commits DEF Invite
<1>3. /\ invitation'[a].status = "pending"
      /\ \A b \in Account \ {a} : invitation'[b] = invitation[b]
  BY DEF Invite, DoorInv, RTypeOK
<1>4. RTypeOK'
  <2>1. UNCHANGED <<role, seat, token, left>>
    BY DEF Invite
  <2>2. invitation' \in [Account -> [status : {"none", "pending", "accepted", "declined", "revoked"},
                                     offers : {"admin", "owner"}]]
    BY DEF Invite, DoorInv, RTypeOK
  <2> QED
    BY <1>2, <2>1, <2>2 DEF DoorInv, RTypeOK
<1>5. ProjectHeld'
  BY <1>2 DEF ProjectHeld, ManagesProject
<1>6. RowHeld' /\ CrewRead'
  <2>1. invitation[a].status # "pending"
    BY DEF Invite
  <2>2. ASSUME NEW x \in Slot, tx'[x].at \in {"accept", "crew"}
        PROVE  x # s /\ tx'[x] = tx[x]
    BY <1>2, <2>2
  <2>3. CrewRead'
    BY <2>2 DEF DoorInv, CrewRead
  <2>4. ASSUME NEW x \in Slot, tx'[x].at = "accept"
        PROVE  tx[x].by \in Account \ {a} /\ invitation[tx[x].by].status = "pending"
    BY <2>1, <2>2, <2>4 DEF DoorInv, RowHeld
  <2>5. RowHeld'
    BY <1>3, <2>2, <2>4 DEF DoorInv, RowHeld
  <2> QED
    BY <2>3, <2>5
<1>7. OneOwner' /\ MemberAccepted'
  BY <1>1, <1>3 DEF DoorInv, OneOwner, Owners, MemberAccepted, Members, Invite
<1> QED
  BY <1>1, <1>4, <1>5, <1>6, <1>7 DEF DoorInv

\* A revoke holds the project row and asks for the invitation.
LEMMA RevokeAsksHolds ==
  ASSUME DoorInv, NEW s \in Slot, NEW a \in Account, RevokeAsks(s, a)
  PROVE  DoorInv'
<1>1. /\ tx[s].at = "manage" /\ tx'[s] = [tx[s] EXCEPT !.at = "revoke", !.by = a]
      /\ \A x \in Slot \ {s} : tx'[x] = tx[x]
  BY DEF RevokeAsks, May, DoorInv, RTypeOK
<1>2. tx'[s].at = "revoke" /\ tx'[s].by = a /\ tx'[s].seen = tx[s].seen
  BY <1>1 DEF DoorInv, RTypeOK
<1>3. RTypeOK'
  BY DEF RevokeAsks, DoorInv, RTypeOK
<1>4. ProjectHeld'
  BY <1>1, <1>2 DEF DoorInv, ProjectHeld, ManagesProject, RevokeAsks
<1>5. RowHeld' /\ CrewRead'
  BY <1>1, <1>2 DEF DoorInv, RowHeld, CrewRead, RevokeAsks
<1>6. OneOwner' /\ MemberAccepted'
  BY DEF DoorInv, OneOwner, Owners, MemberAccepted, Members, RevokeAsks
<1> QED
  BY <1>3, <1>4, <1>5, <1>6 DEF DoorInv

\* An invitation nobody is accepting is closed.
LEMMA CloseHolds ==
  ASSUME DoorInv, NEW a \in Account, RowFree(a), invitation[a].status = "pending",
         NEW status \in {"revoked", "declined"},
         invitation' = [invitation EXCEPT ![a].status = status],
         UNCHANGED <<role, seat, token, left>>,
         UNCHANGED tx \/ \E s \in Slot : Ends(s)
  PROVE  DoorInv'
<1>1. \A b \in Account : invitation'[b].status = IF b = a THEN status ELSE invitation[b].status
  BY DEF DoorInv, RTypeOK
<1>2. \A x \in Slot : tx'[x] = tx[x] \/ tx'[x].at = "idle"
  BY Commits
<1>3. RTypeOK'
  <2>1. tx' \in [Slot -> [at : {"idle", "manage", "revoke", "accept", "crew"},
                          by : Account \cup {NoOne}, seen : [Account -> Roles]]]
    BY Commits DEF DoorInv, RTypeOK
  <2> QED
    BY <2>1 DEF DoorInv, RTypeOK
<1>4. ProjectHeld' /\ CrewRead'
  BY <1>2 DEF DoorInv, ProjectHeld, ManagesProject, CrewRead
<1>5. RowHeld'
  BY <1>1, <1>2 DEF DoorInv, RowHeld, RowFree, Accepting
<1>6. OneOwner'
  BY DEF DoorInv, OneOwner, Owners
<1>7. role[a] = "none"
  BY DEF DoorInv, MemberAccepted, Members
<1>8. MemberAccepted'
  BY <1>1, <1>7 DEF DoorInv, MemberAccepted, Members
<1> QED
  BY <1>3, <1>4, <1>5, <1>6, <1>8 DEF DoorInv

\* A revoke that has both rows closes an open invitation only.
LEMMA RevokeInvitationHolds ==
  ASSUME DoorInv, NEW s \in Slot, RevokeInvitation(s)
  PROVE  DoorInv' /\ tx[s].by \in Account
<1>1. tx[s].by \in Account
  BY DEF RevokeInvitation, DoorInv, ProjectHeld, ManagesProject
<1> QED
  BY <1>1, CloseHolds DEF RevokeInvitation

\* The invited declines an open invitation.
LEMMA DeclineHolds ==
  ASSUME DoorInv, NEW a \in Account, Decline(a)
  PROVE  DoorInv'
BY CloseHolds DEF Decline

\* An accept takes the invitation row while it is open.
LEMMA AcceptReadsHolds ==
  ASSUME DoorInv, NEW s \in Slot, NEW a \in Account, AcceptReads(s, a)
  PROVE  DoorInv'
<1>1. /\ tx'[s].at = "accept" /\ tx'[s].by = a
      /\ \A x \in Slot \ {s} : tx'[x] = tx[x]
  BY DEF AcceptReads, DoorInv, RTypeOK, Idle
<1>2. invitation[a].status = "pending" /\ \A x \in Slot : tx[x].at = "accept" => tx[x].by # a
  BY DEF AcceptReads, RowFree, Accepting
<1>3. RTypeOK'
  BY DEF AcceptReads, DoorInv, RTypeOK, Idle, Nowhere, Roles
<1>4. role' = role /\ invitation' = invitation
  BY DEF AcceptReads
<1>5. ProjectHeld' /\ CrewRead'
  BY <1>1, <1>4 DEF DoorInv, ProjectHeld, ManagesProject, CrewRead
<1>6. RowHeld'
  BY <1>1, <1>2, <1>4 DEF DoorInv, RowHeld
<1>7. OneOwner' /\ MemberAccepted'
  BY <1>4 DEF DoorInv, OneOwner, Owners, MemberAccepted, Members
<1> QED
  BY <1>3, <1>5, <1>6, <1>7 DEF DoorInv

\* Who accepts is no member yet, and nobody holds the project row.
LEMMA AcceptHolds ==
  ASSUME DoorInv, NEW s \in Slot, Accept(s)
  PROVE  /\ DoorInv'
         /\ tx[s].by \in Account /\ role[tx[s].by] = "none"
         /\ role' = [role EXCEPT ![tx[s].by] = "admin"]
<1> DEFINE a == tx[s].by
<1>1. /\ a \in Account /\ invitation[a].status = "pending"
      /\ \A x \in Slot \ {s} : tx[x].at = "accept" => tx[x].by # a
  BY DEF Accept, DoorInv, RowHeld
<1>2. role[a] = "none"
  BY <1>1 DEF DoorInv, MemberAccepted, Members
<1>3. invitation[a].offers = "admin"
  <2>1. invitation[a].offers \in {"admin", "owner"}
    BY <1>1 DEF DoorInv, RTypeOK
  <2>2. Owners # {}
    BY DEF DoorInv, OneOwner
  <2> QED
    BY <1>2, <2>1, <2>2 DEF Accept
<1>4. \A x \in Slot \ {s} : ~ManagesProject(x)
  BY <1>2 DEF Accept, MemberLands, ProjectFree
<1>5. role' = [role EXCEPT ![a] = "admin"]
  BY <1>1, <1>2, <1>3 DEF Accept, DoorInv, RTypeOK
<1>6. \A b \in Account : role'[b] = IF b = a THEN "admin" ELSE role[b]
  BY <1>5 DEF DoorInv, RTypeOK
<1>7. \A b \in Account : invitation'[b].status = IF b = a THEN "accepted" ELSE invitation[b].status
  BY <1>1 DEF Accept, DoorInv, RTypeOK
<1>8. /\ tx'[s].at = "idle" /\ \A x \in Slot \ {s} : tx'[x] = tx[x]
      /\ tx' \in [Slot -> [at : {"idle", "manage", "revoke", "accept", "crew"},
                           by : Account \cup {NoOne}, seen : [Account -> Roles]]]
  BY Commits DEF Accept
<1>9. RTypeOK'
  <2>1. role' \in [Account -> Roles]
    BY <1>5 DEF DoorInv, RTypeOK, Roles
  <2>2. UNCHANGED <<seat, token, left>>
    BY DEF Accept
  <2>3. invitation' \in [Account -> [status : {"none", "pending", "accepted", "declined", "revoked"},
                                     offers : {"admin", "owner"}]]
    <3>1. invitation \in [Account -> [status : {"none", "pending", "accepted", "declined", "revoked"},
                                      offers : {"admin", "owner"}]]
      BY DEF DoorInv, RTypeOK
    <3>2. invitation' = [invitation EXCEPT ![a].status = "accepted"]
      BY DEF Accept
    <3> QED
      BY <1>1, <3>1, <3>2
  <2> QED
    BY <1>8, <2>1, <2>2, <2>3 DEF DoorInv, RTypeOK
<1>10. ProjectHeld'
  BY <1>4, <1>8 DEF ProjectHeld, ManagesProject
<1>11. RowHeld' /\ CrewRead'
  <2>1. CrewRead'
    BY <1>8 DEF DoorInv, CrewRead
  <2>2. RowHeld
    BY DEF DoorInv
  <2>3. ASSUME NEW x \in Slot, tx'[x].at = "accept"
        PROVE  /\ tx'[x].by \in Account /\ invitation'[tx'[x].by].status = "pending"
               /\ \A y \in Slot : tx'[y].at = "accept" /\ tx'[y].by = tx'[x].by => y = x
    <3>1. x # s /\ tx'[x] = tx[x]
      BY <1>8, <2>3
    <3>2. tx[x].by \in Account \ {a} /\ invitation[tx[x].by].status = "pending"
      BY <1>1, <2>2, <2>3, <3>1 DEF RowHeld
    <3> QED
      BY <1>7, <1>8, <2>2, <2>3, <3>1, <3>2 DEF RowHeld
  <2> QED
    BY <2>1, <2>3 DEF RowHeld
<1>12. OneOwner'
  BY <1>2, <1>6 DEF DoorInv, OneOwner, Owners
<1>13. MemberAccepted'
  BY <1>6, <1>7 DEF DoorInv, MemberAccepted, Members
<1> QED
  BY <1>1, <1>2, <1>5, <1>9, <1>10, <1>11, <1>12, <1>13 DEF DoorInv

-----------------------------------------------------------------------------
\* What agents' seats and tokens do leaves the door alone.

\* Giving a seat leaves members and invitations alone.
LEMMA SeatGiven ==
  ASSUME DoorInv, NEW g \in Agent, NEW a \in Account, NEW b \in Account \cup {NoOne},
         NEW gone \in SUBSET Account, NEW s \in Slot, Ends(s),
         UNCHANGED <<role, invitation, token>>,
         seat' = [seat EXCEPT ![g] = [status |-> "active", deployer |-> b, responsible |-> a]],
         left' = [left EXCEPT ![g] = gone]
  PROVE  RTypeOK' /\ Quiet(s)
<1>1. Quiet(s)
  BY DEF Quiet
<1>2. tx' \in [Slot -> [at : {"idle", "manage", "revoke", "accept", "crew"},
                        by : Account \cup {NoOne}, seen : [Account -> Roles]]]
  BY Commits
<1>3. seat' \in [Agent -> [status : {"none", "active", "suspended", "revoked"},
                           deployer : Account \cup {NoOne}, responsible : Account \cup {NoOne}]]
  BY DEF DoorInv, RTypeOK
<1> QED
  BY <1>1, <1>2, <1>3 DEF DoorInv, RTypeOK

\* Deploy and resume give a seat.
LEMMA SeatHolds ==
  ASSUME DoorInv, NEW s \in Slot, NEW g \in Agent, Deploy(s, g) \/ Resume(s, g)
  PROVE  DoorInv' /\ tx[s].by \in Account
<1>1. tx[s].by \in Account
  BY DEF Deploy, Resume, MayAsOwner, May, DoorInv, ProjectHeld, ManagesProject
<1>2. seat[g].deployer \in Account \cup {NoOne}
  BY DEF DoorInv, RTypeOK
<1>3. RTypeOK' /\ Quiet(s)
  <2>1. CASE Deploy(s, g)
    BY <1>1, <2>1, SeatGiven DEF Deploy, Given
  <2>2. CASE Resume(s, g)
    BY <1>1, <1>2, <2>2, SeatGiven DEF Resume, Given
  <2> QED
    BY <2>1, <2>2
<1> QED
  BY <1>1, <1>3, QuietHolds

\* The first pass seats the crew.
LEMMA CrewSeatedHolds ==
  ASSUME DoorInv, NEW s \in Slot, CrewSeated(s)
  PROVE  DoorInv' /\ tx[s].by \in Account
<1>1. tx[s].by \in Account
  BY DEF CrewSeated, DoorInv, CrewRead
<1>2. RTypeOK' /\ Quiet(s)
  <2> DEFINE gone == IF role[tx[s].by] = "owner" THEN {} ELSE {tx[s].by}
  <2>1. gone \in SUBSET Account /\ Crew \in Agent
    BY <1>1 DEF Agent
  <2>2. left' = [left EXCEPT ![Crew] = gone]
    BY DEF CrewSeated
  <2> HIDE DEF gone
  <2> QED
    BY <1>1, <2>1, <2>2, SeatGiven DEF CrewSeated
<1> QED
  BY <1>1, <1>2, QuietHolds

\* The first pass reads the owner.
LEMMA CrewReadsHolds ==
  ASSUME DoorInv, NEW s \in Slot, CrewReads(s)
  PROVE  DoorInv'
<1>1. PICK a \in Owners : tx' = [tx EXCEPT ![s] = [Idle EXCEPT !.at = "crew", !.by = a]]
  BY DEF CrewReads
<1>2. RTypeOK'
  BY <1>1 DEF CrewReads, Owners, DoorInv, RTypeOK, Idle, Nowhere, Roles
<1>3. Quiet(s)
  BY <1>1 DEF CrewReads, Quiet
<1> QED
  BY <1>2, <1>3, QuietHolds

\* A suspension or revocation of a seat leaves the door alone.
LEMMA PatchHolds ==
  ASSUME DoorInv, NEW s \in Slot, NEW g \in Agent, NEW status \in {"suspended", "revoked"},
         Patch(s, g, status)
  PROVE  DoorInv'
<1>1. RTypeOK'
  <2>1. tx' \in [Slot -> [at : {"idle", "manage", "revoke", "accept", "crew"},
                          by : Account \cup {NoOne}, seen : [Account -> Roles]]]
    BY Commits DEF Patch
  <2>2. token' \in [Token -> [agent : Agent, status : {"none", "live", "expired", "revoked"}]]
    BY DEF Patch, Revoked, DoorInv, RTypeOK
  <2>3. seat' \in [Agent -> [status : {"none", "active", "suspended", "revoked"},
                             deployer : Account \cup {NoOne}, responsible : Account \cup {NoOne}]]
    <3>1. seat \in [Agent -> [status : {"none", "active", "suspended", "revoked"},
                              deployer : Account \cup {NoOne}, responsible : Account \cup {NoOne}]]
      BY DEF DoorInv, RTypeOK
    <3>2. seat' = [seat EXCEPT ![g].status = status]
      BY DEF Patch
    <3> QED
      BY <3>1, <3>2
  <2>4. UNCHANGED <<role, invitation, left>>
    BY DEF Patch
  <2> QED
    BY <2>1, <2>2, <2>3, <2>4 DEF DoorInv, RTypeOK
<1>2. Quiet(s)
  BY DEF Patch, Quiet
<1> QED
  BY <1>1, <1>2, QuietHolds

\* What changes tokens only keeps the door invariant.
LEMMA TokenHolds ==
  ASSUME DoorInv, NEW s \in Slot,
         UNCHANGED <<role, invitation, seat, left>>, UNCHANGED tx \/ Ends(s),
         token' \in [Token -> [agent : Agent, status : {"none", "live", "expired", "revoked"}]]
  PROVE  DoorInv'
<1>1. tx' \in [Slot -> [at : {"idle", "manage", "revoke", "accept", "crew"},
                        by : Account \cup {NoOne}, seen : [Account -> Roles]]]
  BY Commits DEF DoorInv, RTypeOK
<1>2. RTypeOK'
  BY <1>1 DEF DoorInv, RTypeOK
<1>3. Quiet(s)
  BY DEF Quiet
<1> QED
  BY <1>2, <1>3, QuietHolds

\* With nobody in flight time alone moves.
LEMMA ExpireHolds ==
  ASSUME DoorInv, NEW t \in Token, Expire(t)
  PROVE  DoorInv'
<1>1. RTypeOK'
  <2>1. token' \in [Token -> [agent : Agent, status : {"none", "live", "expired", "revoked"}]]
    <3>1. token \in [Token -> [agent : Agent, status : {"none", "live", "expired", "revoked"}]]
      BY DEF DoorInv, RTypeOK
    <3> QED
      BY <3>1 DEF Expire
  <2>2. UNCHANGED <<role, invitation, seat, tx, left>>
    BY DEF Expire
  <2> QED
    BY <2>1, <2>2 DEF DoorInv, RTypeOK
<1> QED
  BY <1>1 DEF Expire, DoorInv, ProjectHeld, ManagesProject, RowHeld, CrewRead, OneOwner, Owners,
              MemberAccepted, Members

\* Mint, rotate and revoke keep the tokens typed.
LEMMA TokenTypes ==
  ASSUME DoorInv, NEW s \in Slot, NEW g \in Agent, NEW t \in Token, NEW u \in Token,
         Mint(s, g, t) \/ Rotate(s, t, u) \/ RevokeToken(s, t)
  PROVE  token' \in [Token -> [agent : Agent, status : {"none", "live", "expired", "revoked"}]]
<1>1. token \in [Token -> [agent : Agent, status : {"none", "live", "expired", "revoked"}]]
  BY DEF DoorInv, RTypeOK
<1>2. CASE Mint(s, g, t)
  BY <1>1, <1>2 DEF Mint
<1>3. CASE Rotate(s, t, u)
  BY <1>1, <1>3 DEF Rotate
<1>4. CASE RevokeToken(s, t)
  BY <1>1, <1>4 DEF RevokeToken
<1> QED
  BY <1>2, <1>3, <1>4

\* The steps of members and invitations keep the door invariant.
LEMMA MembershipHolds ==
  ASSUME DoorInv, MembershipStep
  PROVE  DoorInv'
<1>1. ASSUME NEW s \in Slot, NEW a \in Account,
             \/ Manage(s, a) \/ RemoveMember(s, a) \/ Transfer(s, a)
             \/ RevokeAsks(s, a) \/ AcceptReads(s, a)
             \/ \E offers \in {"admin", "owner"} : Invite(s, a, offers)
      PROVE  DoorInv'
  BY <1>1, ManageHolds, RemoveHolds, TransferHolds, RevokeAsksHolds, AcceptReadsHolds, InviteHolds
<1>2. ASSUME NEW s \in Slot, Rollback(s) \/ RevokeInvitation(s) \/ Accept(s)
      PROVE  DoorInv'
  BY <1>2, RollbackHolds, RevokeInvitationHolds, AcceptHolds
<1> QED
  BY <1>1, <1>2, DeclineHolds DEF MembershipStep

\* The steps of seats and tokens keep the door invariant.
LEMMA AgentHolds ==
  ASSUME DoorInv, AgentStep
  PROVE  DoorInv'
<1>1. ASSUME NEW s \in Slot, NEW g \in Agent,
             \/ Deploy(s, g) \/ Resume(s, g)
             \/ \E status \in {"suspended", "revoked"} : Patch(s, g, status)
      PROVE  DoorInv'
  BY <1>1, SeatHolds, PatchHolds
<1>2. ASSUME NEW s \in Slot, NEW g \in Agent, NEW t \in Token, Mint(s, g, t)
      PROVE  DoorInv'
  <2>1. token' \in [Token -> [agent : Agent, status : {"none", "live", "expired", "revoked"}]]
    BY <1>2, TokenTypes
  <2> QED
    BY <1>2, <2>1, TokenHolds DEF Mint
<1>3. ASSUME NEW s \in Slot, CrewReads(s) \/ CrewSeated(s)
      PROVE  DoorInv'
  BY <1>3, CrewReadsHolds, CrewSeatedHolds
<1>4. ASSUME NEW s \in Slot, NEW t \in Token, NEW u \in Token, RevokeToken(s, t) \/ Rotate(s, t, u)
      PROVE  DoorInv'
  <2>1. Crew \in Agent
    BY DEF Agent
  <2>2. token' \in [Token -> [agent : Agent, status : {"none", "live", "expired", "revoked"}]]
    BY <1>4, <2>1, TokenTypes
  <2> QED
    BY <1>4, <2>2, TokenHolds DEF RevokeToken, Rotate
<1> QED
  BY <1>1, <1>2, <1>3, <1>4, ExpireHolds DEF AgentStep

\* Every step keeps the door invariant.
LEMMA DoorHolds ==
  ASSUME DoorInv, [Next]_vars
  PROVE  DoorInv'
<1>1. CASE UNCHANGED vars
  BY <1>1 DEF vars, DoorInv, RTypeOK, ProjectHeld, ManagesProject, RowHeld, CrewRead, OneOwner,
              Owners, MemberAccepted, Members
<1> QED
  BY <1>1, MembershipHolds, AgentHolds DEF Next

\* The two row locks hold what the transactions assume, throughout.
THEOREM DoorInvariant == Spec => []DoorInv
BY DoorStarts, DoorHolds, PTL DEF Spec

\* Rows and requests keep their types.
THEOREM RosterTyped == Spec => []RTypeOK
BY DoorInvariant, PTL DEF DoorInv

\* Reads, decisions and writes of any number of requests leave the project with one owner.
THEOREM OneOwnerTheorem == Spec => []OneOwner
BY DoorInvariant, PTL DEF DoorInv

\* No member is left with an invitation that stands, was revoked or was declined.
THEOREM MemberTheorem == Spec => []MemberAccepted
BY DoorInvariant, PTL DEF DoorInv

-----------------------------------------------------------------------------
\* Seats and tokens.

SeatInv == LiveTokensAct /\ (~CrewRace => SeatsChosen)

\* No seat is given, no token minted.
LEMMA SeatsStart == Init => SeatInv
BY DEF Init, SeatInv, LiveTokensAct, NoToken, SeatsChosen, NoSeat

\* What touches neither seat nor token keeps the seats.
LEMMA SeatsRest ==
  ASSUME SeatInv, UNCHANGED <<seat, token, left>>
  PROVE  SeatInv'
BY DEF SeatInv, LiveTokensAct, Authorizes, SeatsChosen

\* A transfer suspends the seats that answered to who left and ends their tokens.
LEMMA TransferSeats ==
  ASSUME DoorInv, SeatInv, NEW s \in Slot, NEW a \in Account, Transfer(s, a)
  PROVE  SeatInv'
<1> DEFINE from == tx[s].by
<1>0. /\ token \in [Token -> [agent : Agent, status : {"none", "live", "expired", "revoked"}]]
      /\ seat \in [Agent -> [status : {"none", "active", "suspended", "revoked"},
                             deployer : Account \cup {NoOne}, responsible : Account \cup {NoOne}]]
      /\ left \in [Agent -> SUBSET Account]
  BY DEF DoorInv, RTypeOK
<1>1. \A g \in Agent : seat'[g] = IF g \in Answering(from) /\ seat[g].status = "active"
                                  THEN [seat[g] EXCEPT !.status = "suspended"] ELSE seat[g]
  BY DEF Transfer, SuspendAnswering
<1>2. \A t \in Token : token'[t] =
        IF token[t].agent \in Answering(from) /\ token[t].status \in {"live", "expired"}
        THEN [token[t] EXCEPT !.status = "revoked"] ELSE token[t]
  BY DEF Transfer, SuspendAnswering, Revoked
<1>3. \A g \in Agent : left'[g] = left[g] \cup {from}
  BY DEF Transfer
<1>4. LiveTokensAct'
  <2>1. ASSUME NEW t \in Token, token'[t].status = "live"
        PROVE  token'[t] = token[t] /\ token[t].agent \in Agent \ Answering(from)
    BY <1>0, <1>2, <2>1
  <2>2. ASSUME NEW g \in Agent \ Answering(from)
        PROVE  seat'[g] = seat[g]
    BY <1>1
  <2> QED
    BY <2>1, <2>2 DEF SeatInv, LiveTokensAct, Authorizes
<1>5. ASSUME SeatsChosen
      PROVE  SeatsChosen'
  <2>1. ASSUME NEW g \in Agent, seat'[g].status = "active"
        PROVE  seat'[g] = seat[g] /\ g # Crew /\ seat[g].responsible # from
    BY <1>0, <1>1, <2>1 DEF Answering
  <2> QED
    BY <1>3, <1>5, <2>1 DEF SeatsChosen
<1> QED
  BY <1>4, <1>5 DEF SeatInv

\* A seat is given, and no owner has left since, when it was not active before.
LEMMA GivenSeats ==
  ASSUME DoorInv, SeatInv, NEW g \in Agent, NEW by \in Account \cup {NoOne}, NEW a \in Account,
         NEW gone \in SUBSET Account, ~CrewRace => gone = {},
         seat' = [seat EXCEPT ![g] = [status |-> "active", deployer |-> by, responsible |-> a]],
         left' = [left EXCEPT ![g] = gone],
         token' = token
  PROVE  SeatInv'
<1>0. seat \in [Agent -> [status : {"none", "active", "suspended", "revoked"},
                          deployer : Account \cup {NoOne}, responsible : Account \cup {NoOne}]]
      /\ left \in [Agent -> SUBSET Account]
      /\ token \in [Token -> [agent : Agent, status : {"none", "live", "expired", "revoked"}]]
  BY DEF DoorInv, RTypeOK
<1>1. /\ seat'[g].status = "active" /\ seat'[g].responsible = a /\ left'[g] = gone
      /\ \A h \in Agent \ {g} : seat'[h] = seat[h] /\ left'[h] = left[h]
  BY <1>0
<1>2. LiveTokensAct'
  BY <1>0, <1>1 DEF SeatInv, LiveTokensAct, Authorizes
<1>3. ~CrewRace => SeatsChosen'
  BY <1>1 DEF SeatInv, SeatsChosen
<1> QED
  BY <1>2, <1>3 DEF SeatInv

\* A suspended or revoked seat loses its live tokens.
LEMMA PatchSeats ==
  ASSUME DoorInv, SeatInv, NEW s \in Slot, NEW g \in Agent, NEW status \in {"suspended", "revoked"},
         Patch(s, g, status)
  PROVE  SeatInv'
<1>0. /\ token \in [Token -> [agent : Agent, status : {"none", "live", "expired", "revoked"}]]
      /\ seat \in [Agent -> [status : {"none", "active", "suspended", "revoked"},
                             deployer : Account \cup {NoOne}, responsible : Account \cup {NoOne}]]
  BY DEF DoorInv, RTypeOK
<1>1. left' = left /\ seat' = [seat EXCEPT ![g].status = status]
  BY DEF Patch
<1>2. \A h \in Agent : seat'[h].status = "active" => h # g /\ seat'[h] = seat[h]
  BY <1>0, <1>1
<1>3. \A t \in Token : token'[t].status = "live" => token'[t] = token[t] /\ token[t].agent \in Agent \ {g}
  BY <1>0 DEF Patch, Revoked
<1>4. \A h \in Agent \ {g} : seat'[h] = seat[h]
  BY <1>0, <1>1
<1>5. LiveTokensAct'
  BY <1>3, <1>4 DEF SeatInv, LiveTokensAct, Authorizes
<1>6. ~CrewRace => SeatsChosen'
  BY <1>1, <1>2 DEF SeatInv, SeatsChosen
<1> QED
  BY <1>5, <1>6 DEF SeatInv

\* A token comes to life for an active seat only.
LEMMA TokenSeats ==
  ASSUME DoorInv, SeatInv, UNCHANGED <<seat, left>>, NEW g \in Agent,
         \A t \in Token : token'[t].status = "live" =>
           token'[t] = token[t] \/ (token'[t].agent = g /\ seat[g].status = "active")
  PROVE  SeatInv'
BY DEF SeatInv, LiveTokensAct, Authorizes, SeatsChosen

\* Every step keeps the seats.
LEMMA SeatsHold ==
  ASSUME DoorInv, SeatInv, [Next]_vars
  PROVE  SeatInv'
<1>0. /\ token \in [Token -> [agent : Agent, status : {"none", "live", "expired", "revoked"}]]
      /\ Crew \in Agent
  BY DEF DoorInv, RTypeOK, Agent
<1>1. CASE UNCHANGED vars
  BY <1>1, SeatsRest DEF vars
<1>2. CASE MembershipStep
  <2>1. ASSUME NEW s \in Slot, NEW a \in Account, Transfer(s, a)
        PROVE  SeatInv'
    BY <2>1, TransferSeats
  <2>2. ASSUME NEW s \in Slot, NEW a \in Account,
               \/ Manage(s, a) \/ RemoveMember(s, a) \/ RevokeAsks(s, a) \/ AcceptReads(s, a)
               \/ Rollback(s) \/ RevokeInvitation(s) \/ Accept(s) \/ Decline(a)
               \/ \E offers \in {"admin", "owner"} : Invite(s, a, offers)
        PROVE  SeatInv'
    <3>1. UNCHANGED <<seat, token, left>>
      BY <2>2 DEF Manage, RemoveMember, RevokeAsks, AcceptReads, Rollback, RevokeInvitation, Accept,
                  Decline, Invite
    <3> QED
      BY <3>1, SeatsRest
  <2>3. ASSUME NEW s \in Slot, Rollback(s) \/ RevokeInvitation(s) \/ Accept(s)
        PROVE  SeatInv'
    <3>1. UNCHANGED <<seat, token, left>>
      BY <2>3 DEF Rollback, RevokeInvitation, Accept
    <3> QED
      BY <3>1, SeatsRest
  <2>4. ASSUME NEW a \in Account, Decline(a)
        PROVE  SeatInv'
    BY <2>4, SeatsRest DEF Decline
  <2> QED
    BY <1>2, <2>1, <2>2, <2>3, <2>4 DEF MembershipStep
<1>3. ASSUME NEW s \in Slot, NEW g \in Agent, Deploy(s, g) \/ Resume(s, g)
      PROVE  SeatInv'
  <2>1. tx[s].by \in Account /\ seat[g].deployer \in Account \cup {NoOne}
    BY <1>3, SeatHolds DEF DoorInv, RTypeOK
  <2>2. CASE Deploy(s, g)
    BY <2>1, <2>2, GivenSeats DEF Deploy, Given
  <2>3. CASE Resume(s, g)
    BY <2>1, <2>3, GivenSeats DEF Resume, Given
  <2> QED
    BY <1>3, <2>2, <2>3
<1>4. ASSUME NEW s \in Slot, CrewSeated(s)
      PROVE  SeatInv'
  <2> DEFINE gone == IF role[tx[s].by] = "owner" THEN {} ELSE {tx[s].by}
  <2>1. tx[s].by \in Account
    BY <1>4, CrewSeatedHolds
  <2>2. gone \in SUBSET Account /\ (~CrewRace => gone = {}) /\ left' = [left EXCEPT ![Crew] = gone]
    BY <1>4, <2>1 DEF CrewSeated
  <2> HIDE DEF gone
  <2> QED
    BY <1>0, <1>4, <2>1, <2>2, GivenSeats DEF CrewSeated
<1>5. ASSUME NEW s \in Slot, CrewReads(s)
      PROVE  SeatInv'
  BY <1>5, SeatsRest DEF CrewReads
<1>6. ASSUME NEW s \in Slot, NEW g \in Agent, NEW t \in Token, Mint(s, g, t)
      PROVE  SeatInv'
  BY <1>0, <1>6, TokenSeats DEF Mint, Minted
<1>7. ASSUME NEW s \in Slot, NEW t \in Token, RevokeToken(s, t)
      PROVE  SeatInv'
  BY <1>0, <1>7, TokenSeats DEF RevokeToken
<1>8. ASSUME NEW s \in Slot, NEW t \in Token, NEW u \in Token, Rotate(s, t, u)
      PROVE  SeatInv'
  BY <1>0, <1>8, TokenSeats DEF Rotate, Minted
<1>9. ASSUME NEW t \in Token, Expire(t)
      PROVE  SeatInv'
  BY <1>0, <1>9, TokenSeats DEF Expire
<1>10. CASE AgentStep
  BY <1>3, <1>4, <1>5, <1>6, <1>7, <1>8, <1>9, <1>10, PatchSeats DEF AgentStep
<1> QED
  BY <1>1, <1>2, <1>10 DEF Next

\* A token whose agent may not act is dead: a resume brings no old token back to life.
THEOREM TokenTheorem == Spec => []LiveTokensAct
<1>1. Spec => [](DoorInv /\ SeatInv)
  BY DoorStarts, DoorHolds, SeatsStart, SeatsHold, PTL DEF Spec
<1> QED
  BY <1>1, PTL DEF SeatInv

\* After a hand-over no agent runs that the new owner has not resumed or found answering to
\* somebody else, when the crew's first pass does not race with it.
THEOREM SeatsTheorem ==
  ASSUME ~CrewRace
  PROVE  Spec => []SeatsChosen
<1>1. Spec => [](DoorInv /\ SeatInv)
  BY DoorStarts, DoorHolds, SeatsStart, SeatsHold, PTL DEF Spec
<1>2. SeatInv => SeatsChosen
  BY DEF SeatInv
<1> QED
  BY <1>1, <1>2, PTL

-----------------------------------------------------------------------------
\* The roster implements the door.

owned == CHOOSE a \in Account : role[a] = "owner"
pending == {a \in Account : invitation[a].status = "pending"}

\* With one owner, owned is that owner.
LEMMA OwnerIs ==
  ASSUME OneOwner
  PROVE  owned \in Account /\ role[owned] = "owner" /\ \A a \in Account : role[a] = "owner" <=> a = owned
<1>1. PICK o : Owners = {o}
  BY DEF OneOwner
<1>2. \E a \in Account : role[a] = "owner"
  BY <1>1 DEF Owners
<1>3. owned \in Account /\ role[owned] = "owner"
  BY <1>2 DEF owned
<1> QED
  BY <1>1, <1>3 DEF Owners

\* Who owns and who belongs depend on the roles alone.
LEMMA SameDoor ==
  ASSUME UNCHANGED role
  PROVE  owned' = owned /\ Members' = Members
BY DEF owned, Members

\* A step of members or invitations is a step of Membership.
LEMMA DoorStep ==
  ASSUME DoorInv, DoorInv', MembershipStep
  PROVE  [Door!DoorNext]_Door!doorVars
<1>0. /\ OneOwner /\ OneOwner'
      /\ role \in [Account -> Roles]
      /\ \A a \in Account : a \in Members => invitation[a].status # "pending"
  BY DEF DoorInv, RTypeOK, MemberAccepted, Members
<1>1. /\ owned \in Account /\ \A a \in Account : role[a] = "owner" <=> a = owned
      /\ owned' \in Account /\ \A a \in Account : role'[a] = "owner" <=> a = owned'
  <2>1. owned \in Account /\ \A a \in Account : role[a] = "owner" <=> a = owned
    BY <1>0, OwnerIs
  <2>2. owned' \in Account /\ \A a \in Account : role'[a] = "owner" <=> a = owned'
    <3>1. PICK o : Owners' = {o}
      BY <1>0 DEF OneOwner
    <3>2. \E a \in Account : role'[a] = "owner"
      BY <3>1 DEF Owners
    <3>3. owned' \in Account /\ role'[owned'] = "owner"
      BY <3>2 DEF owned
    <3> QED
      BY <3>1, <3>3 DEF Owners
  <2> QED
    BY <2>1, <2>2
<1>2. ASSUME NEW s \in Slot, NEW a \in Account, RemoveMember(s, a)
      PROVE  Door!Leaves(a)
  <2>1. role[a] = "admin" /\ role' = [role EXCEPT ![a] = "none"] /\ pending' = pending
    BY <1>2 DEF RemoveMember, MayAsOwner, May, DoorInv, ProjectHeld, ManagesProject, pending
  <2>2. a # owned /\ owned' = owned /\ a \in Members /\ Members' = Members \ {a}
    BY <1>0, <1>1, <2>1 DEF Members
  <2> QED
    BY <2>1, <2>2 DEF Door!Leaves, owned, pending
<1>3. ASSUME NEW s \in Slot, NEW a \in Account, Transfer(s, a)
      PROVE  Door!HandsOver(a)
  <2>1. /\ role[a] = "admin" /\ tx[s].by = owned
        /\ role' = [role EXCEPT ![owned] = "admin", ![a] = "owner"] /\ pending' = pending
    BY <1>1, <1>3, TransferHolds DEF Transfer, pending
  <2>2. a # owned /\ owned' = a /\ a \in Members /\ Members' = Members
    BY <1>0, <1>1, <2>1 DEF Members
  <2> QED
    BY <2>1, <2>2 DEF Door!HandsOver, owned, pending
<1>4. ASSUME NEW s \in Slot, NEW a \in Account, NEW offers \in {"admin", "owner"}, Invite(s, a, offers)
      PROVE  Door!Invites(a)
  <2>1. /\ role[a] = "none" /\ role' = role /\ invitation[a].status # "pending"
        /\ invitation' = [invitation EXCEPT ![a] = [status |-> "pending", offers |-> offers]]
    BY <1>4, InviteHolds DEF Invite
  <2>2. pending' = pending \cup {a} /\ a \notin pending /\ a \notin Members
    BY <2>1 DEF pending, Members, DoorInv, RTypeOK
  <2> QED
    BY <2>1, <2>2, SameDoor DEF Door!Invites, owned, pending
<1>5. ASSUME NEW a \in Account, NEW status \in {"revoked", "declined"}, role' = role,
             invitation[a].status = "pending", invitation' = [invitation EXCEPT ![a].status = status]
      PROVE  Door!Withdraws(a)
  <2>1. pending' = pending \ {a} /\ a \in pending
    BY <1>5 DEF pending, DoorInv, RTypeOK
  <2> QED
    BY <1>5, <2>1, SameDoor DEF Door!Withdraws, owned, pending
<1>6. ASSUME NEW s \in Slot, Accept(s)
      PROVE  \E a \in Account : Door!Joins(a)
  <2>0. PICK a \in Account : a = tx[s].by
    BY <1>6, AcceptHolds
  <2>1. a \in Account /\ role[a] = "none" /\ role' = [role EXCEPT ![a] = "admin"]
        /\ invitation' = [invitation EXCEPT ![a].status = "accepted"]
    BY <1>6, <2>0, AcceptHolds DEF Accept
  <2>2. invitation[a].status = "pending"
    BY <1>6, <2>0 DEF Accept, DoorInv, RowHeld
  <2>3. pending' = pending \ {a} /\ a \in pending
    BY <2>1, <2>2 DEF pending, DoorInv, RTypeOK
  <2>4. a \notin Members /\ Members' = Members \cup {a}
    BY <1>0, <2>1 DEF Members
  <2>5. owned' = owned
    BY <1>0, <1>1, <2>1
  <2> QED
    BY <2>1, <2>3, <2>4, <2>5 DEF Door!Joins, owned, pending
<1>7. ASSUME UNCHANGED <<role, invitation>>
      PROVE  UNCHANGED Door!doorVars
  BY <1>7, SameDoor DEF Door!doorVars, owned, pending
<1>8. ASSUME NEW s \in Slot, NEW a \in Account,
             Manage(s, a) \/ RevokeAsks(s, a) \/ AcceptReads(s, a) \/ Rollback(s)
      PROVE  UNCHANGED Door!doorVars
  BY <1>7, <1>8 DEF Manage, RevokeAsks, AcceptReads, Rollback
<1>9. ASSUME NEW s \in Slot, Rollback(s) \/ RevokeInvitation(s) \/ Accept(s)
      PROVE  [Door!DoorNext]_Door!doorVars
  <2>1. CASE Rollback(s)
    BY <1>7, <2>1 DEF Rollback
  <2>2. CASE RevokeInvitation(s)
    BY <1>5, <2>2, RevokeInvitationHolds DEF RevokeInvitation, Door!DoorNext
  <2>3. CASE Accept(s)
    BY <1>6, <2>3 DEF Door!DoorNext
  <2> QED
    BY <1>9, <2>1, <2>2, <2>3
<1>10. ASSUME NEW a \in Account, Decline(a)
       PROVE  Door!DoorNext
  BY <1>5, <1>10 DEF Decline, Door!DoorNext
<1>11. ASSUME NEW s \in Slot, NEW a \in Account,
              \/ Manage(s, a) \/ RemoveMember(s, a) \/ Transfer(s, a)
              \/ RevokeAsks(s, a) \/ AcceptReads(s, a)
              \/ \E offers \in {"admin", "owner"} : Invite(s, a, offers)
       PROVE  [Door!DoorNext]_Door!doorVars
  BY <1>2, <1>3, <1>4, <1>8, <1>11 DEF Door!DoorNext
<1> QED
  BY <1>9, <1>10, <1>11 DEF MembershipStep

\* A step of seats or tokens is a stutter of Membership.
LEMMA AgentStutters ==
  ASSUME AgentStep
  PROVE  UNCHANGED Door!doorVars
<1>1. UNCHANGED <<role, invitation>>
  BY DEF AgentStep, Deploy, Resume, Patch, Mint, CrewReads, CrewSeated, RevokeToken, Rotate, Expire
<1> QED
  BY <1>1 DEF Door!doorVars, Members

\* The promise about people: one owner, and everybody else came in by an open invitation.
THEOREM DoorTheorem == Spec => ImplementsDoor
<1>1. Init => Door!DoorInit
  <2> SUFFICES ASSUME Init PROVE Door!DoorInit
    OBVIOUS
  <2>1. OneOwner /\ Members = {Founder} /\ pending = {}
    BY RosterAssumption, DoorStarts DEF Init, DoorInv, Members, Nowhere, pending
  <2>2. role[Founder] = "owner"
    BY RosterAssumption DEF Init, Nowhere
  <2>3. owned = Founder
    BY RosterAssumption, <2>1, <2>2, OwnerIs
  <2> QED
    BY <2>1, <2>3 DEF Door!DoorInit, owned, pending
<1>2. DoorInv /\ DoorInv' /\ [Next]_vars => [Door!DoorNext]_Door!doorVars
  <2> SUFFICES ASSUME DoorInv, DoorInv', [Next]_vars PROVE [Door!DoorNext]_Door!doorVars
    OBVIOUS
  <2>1. CASE UNCHANGED vars
    BY <2>1 DEF vars, Door!doorVars, Members
  <2>2. CASE MembershipStep
    BY <2>2, DoorStep
  <2>3. CASE AgentStep
    BY <2>3, AgentStutters
  <2> QED
    BY <2>1, <2>2, <2>3 DEF Next
<1>3. Spec => [](DoorInv)
  BY DoorInvariant
<1> QED
  BY <1>1, <1>2, <1>3, PTL DEF Spec, ImplementsDoor, Door!DoorSpec
=============================================================================
