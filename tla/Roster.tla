------------------------------- MODULE Roster -------------------------------
(***************************************************************************)
(* Who may act on a project: its members and invitations, its agents'      *)
(* seats and the session tokens minted for them.                           *)
(*                                                                         *)
(* A management request locks the project row FOR UPDATE, reads who asks,  *)
(* and commits at its end.  Accepting an invitation locks the invitation's *)
(* row only; but a row that refers to the project cannot be inserted while *)
(* somebody holds the project row, so the new member waits for it.  A pass *)
(* that gives the Research crew its first seat reads the owner with no     *)
(* lock at all, and its insert waits in the same way.                      *)
(***************************************************************************)
EXTENDS FiniteSets, Naturals

CONSTANTS
  Account,   \* people
  Founder,   \* who created the project
  Named,     \* agents that can be deployed
  Crew,      \* the Research crew
  Token,     \* identities of session tokens
  Slot,      \* requests in flight
  CrewRace,  \* does a first pass of the crew race with a transfer of the project?
  NoOne

ASSUME RosterAssumption ==
  Founder \in Account /\ Crew \notin Named /\ NoOne \notin Account /\ CrewRace \in BOOLEAN

Agent == Named \cup {Crew}
Roles == {"none", "admin", "owner"}

VARIABLES
  role,        \* ProjectMember, by account
  invitation,  \* ProjectInvitation, by invitee: its status and the role it offers
  seat,        \* ProjectAgentMember, by agent
  token,       \* AgentSessionToken
  tx,          \* the request in each slot
  left         \* history: owners who handed over since the read that gave the seat

vars == <<role, invitation, seat, token, tx, left>>

NoSeat == [status |-> "none", deployer |-> NoOne, responsible |-> NoOne]
NoToken == [agent |-> Crew, status |-> "none"]
Nowhere == [a \in Account |-> "none"]
Idle == [at |-> "idle", by |-> NoOne, seen |-> Nowhere]

\* create_project: the creator is the owner.
Init ==
  /\ role = [Nowhere EXCEPT ![Founder] = "owner"]
  /\ invitation = [a \in Account |-> [status |-> "none", offers |-> "admin"]]
  /\ seat = [g \in Agent |-> NoSeat]
  /\ token = [t \in Token |-> NoToken]
  /\ tx = [s \in Slot |-> Idle]
  /\ left = [g \in Agent |-> {}]

Members == {a \in Account : role[a] # "none"}
Owners == {a \in Account : role[a] = "owner"}

-----------------------------------------------------------------------------
\* Locks.  The project row is held FOR UPDATE by a management request, an invitation's row
\* by an accept that has read it pending.
ManagesProject(s) == tx[s].at \in {"manage", "revoke"}
Accepting(a) == {s \in Slot : tx[s].at = "accept" /\ tx[s].by = a}

\* Mutant of ProjectFree: membership is checked, the row is not locked.
ProjectNeverWaits(s) == s \in Slot

ProjectFree(s) == \A x \in Slot \ {s} : ~ManagesProject(x)

Ends(s) == tx' = [tx EXCEPT ![s] = Idle]

\* ensure_can_manage: lock, then read the membership of who asks.
Manage(s, a) ==
  /\ tx[s].at = "idle" /\ ProjectFree(s)
  /\ role[a] # "none"
  /\ tx' = [tx EXCEPT ![s] = [at |-> "manage", by |-> a, seen |-> role]]
  /\ UNCHANGED <<role, invitation, seat, token, left>>

\* The transaction is rolled back: the request is refused or fails, or the database aborts
\* it (an accept and a revoke of one invitation can each hold the row the other asks for).
Rollback(s) ==
  /\ tx[s].at # "idle"
  /\ Ends(s)
  /\ UNCHANGED <<role, invitation, seat, token, left>>

May(s) == tx[s].at = "manage"
MayAsOwner(s) == May(s) /\ tx[s].seen[tx[s].by] = "owner"

-----------------------------------------------------------------------------
\* remove_member: not the owner.
RemoveMember(s, a) ==
  /\ MayAsOwner(s) /\ tx[s].seen[a] = "admin"
  /\ role' = [role EXCEPT ![a] = "none"]
  /\ Ends(s)
  /\ UNCHANGED <<invitation, seat, token, left>>

Revoked(agents) ==
  [t \in Token |-> IF token[t].agent \in agents /\ token[t].status \in {"live", "expired"}
                   THEN [token[t] EXCEPT !.status = "revoked"] ELSE token[t]]

\* Mutant of Answering: looked up by who deployed the seat.
DeployedBy(a) == {g \in Agent : g = Crew \/ seat[g].deployer = a}

\* suspend_agents_on_owner_transfer: the crew, and who answers to the outgoing owner.
Answering(a) == {g \in Agent : g = Crew \/ seat[g].responsible = a}

SuspendAnswering(a) ==
  /\ seat' = [g \in Agent |-> IF g \in Answering(a) /\ seat[g].status = "active"
                              THEN [seat[g] EXCEPT !.status = "suspended"] ELSE seat[g]]
  /\ token' = Revoked(Answering(a))

\* set_member_role to OWNER: demote, suspend, promote, in one transaction.  A second owner
\* is against the unique index, and a row that is gone fails the update.  Every other change
\* of role is refused or changes nothing.
Transfer(s, a) ==
  /\ MayAsOwner(s) /\ tx[s].seen[a] = "admin"
  /\ role[a] # "none" /\ Owners \subseteq {tx[s].by}
  /\ role' = [role EXCEPT ![tx[s].by] = "admin", ![a] = "owner"]
  /\ SuspendAnswering(tx[s].by)
  /\ left' = [g \in Agent |-> left[g] \cup {tx[s].by}]
  /\ Ends(s)
  /\ UNCHANGED invitation

-----------------------------------------------------------------------------
\* invite: no member, and no pending invitation; the one row of the pair is reset.
Invite(s, a, offers) ==
  /\ May(s) /\ tx[s].seen[a] = "none"
  /\ invitation[a].status # "pending"
  /\ invitation' = [invitation EXCEPT ![a] = [status |-> "pending", offers |-> offers]]
  /\ Ends(s)
  /\ UNCHANGED <<role, seat, token, left>>

\* revoke: with the project locked, it asks for the invitation's row ...
RevokeAsks(s, a) ==
  /\ May(s)
  /\ tx' = [tx EXCEPT ![s] = [@ EXCEPT !.at = "revoke", !.by = a]]
  /\ UNCHANGED <<role, invitation, seat, token, left>>

\* Mutant of RowFree: the status is read without the row's lock.
RowNeverWaits(a) == a \in Account

RowFree(a) == Accepting(a) = {}

\* ... and revokes what it finds pending there.
RevokeInvitation(s) ==
  LET a == tx[s].by IN
  /\ tx[s].at = "revoke" /\ RowFree(a)
  /\ invitation[a].status = "pending"
  /\ invitation' = [invitation EXCEPT ![a].status = "revoked"]
  /\ Ends(s)
  /\ UNCHANGED <<role, seat, token, left>>

\* decline.
Decline(a) ==
  /\ RowFree(a) /\ invitation[a].status = "pending"
  /\ invitation' = [invitation EXCEPT ![a].status = "declined"]
  /\ UNCHANGED <<role, seat, token, tx, left>>

\* accept: lock the row and read it.  An accepted one is a success that changes nothing, any
\* other that is not pending is refused.
AcceptReads(s, a) ==
  /\ tx[s].at = "idle" /\ RowFree(a)
  /\ invitation[a].status = "pending"
  /\ tx' = [tx EXCEPT ![s] = [Idle EXCEPT !.at = "accept", !.by = a]]
  /\ UNCHANGED <<role, invitation, seat, token, left>>

\* Mutant of MemberLands: a membership refers to no project row.
MemberLandsAnyhow(s) == s \in Slot

\* The insert of the member waits for the project row.
MemberLands(s) == ProjectFree(s)

\* A second owner is against the unique index: the request fails, and does so every time.
Accept(s) ==
  LET a == tx[s].by IN
  /\ tx[s].at = "accept"
  /\ role[a] = "none" =>
       MemberLands(s) /\ (invitation[a].offers = "owner" => Owners = {})
  /\ role' = [role EXCEPT ![a] = IF @ = "none" THEN invitation[a].offers ELSE @]
  /\ invitation' = [invitation EXCEPT ![a].status = "accepted"]
  /\ Ends(s)
  /\ UNCHANGED <<seat, token, left>>

-----------------------------------------------------------------------------
Given(g, by, responsible) ==
  /\ seat' = [seat EXCEPT ![g] = [status |-> "active", deployer |-> by,
                                  responsible |-> responsible]]
  /\ left' = [left EXCEPT ![g] = {}]

\* deploy_project_agent: a named agent, or the crew that has no seat yet.
Deploy(s, g) ==
  /\ May(s) /\ seat[g].status = "none"
  /\ Given(g, tx[s].by, tx[s].by)
  /\ Ends(s)
  /\ UNCHANGED <<role, invitation, token>>

\* Mutant of Patch: only a revoked seat loses its tokens.
SuspendKeepsTokens(s, g, status) ==
  /\ May(s) /\ seat[g].status \in {"active", "suspended"} \ {status}
  /\ seat' = [seat EXCEPT ![g].status = status]
  /\ token' = IF status = "revoked" THEN Revoked({g}) ELSE token
  /\ Ends(s)
  /\ UNCHANGED <<role, invitation, left>>

\* patch_project_agent: suspend or revoke, and revoke the tokens.
Patch(s, g, status) ==
  /\ May(s) /\ seat[g].status \in {"active", "suspended"} \ {status}
  /\ seat' = [seat EXCEPT ![g].status = status]
  /\ token' = Revoked({g})
  /\ Ends(s)
  /\ UNCHANGED <<role, invitation, left>>

\* resume_project_agent: from suspended only, and the owner answers from here on.
Resume(s, g) ==
  /\ MayAsOwner(s) /\ seat[g].status = "suspended"
  /\ Given(g, seat[g].deployer, tx[s].by)
  /\ Ends(s)
  /\ UNCHANGED <<role, invitation, token>>

\* get_or_create_project_agent_actor: the crew has no seat; read the owner ...
CrewReads(s) ==
  /\ tx[s].at = "idle" /\ seat[Crew].status = "none"
  /\ \E a \in Owners : tx' = [tx EXCEPT ![s] = [Idle EXCEPT !.at = "crew", !.by = a]]
  /\ UNCHANGED <<role, invitation, seat, token, left>>

\* ... and insert the seat, unless another pass has; then that one stays as it is.  Who was
\* read may have handed over in between (CrewRace).
CrewSeated(s) ==
  LET a == tx[s].by IN
  /\ tx[s].at = "crew" /\ ProjectFree(s) /\ seat[Crew].status = "none"
  /\ CrewRace \/ role[a] = "owner"
  /\ seat' = [seat EXCEPT ![Crew] = [status |-> "active", deployer |-> a, responsible |-> a]]
  /\ left' = [left EXCEPT ![Crew] = IF role[a] = "owner" THEN {} ELSE {a}]
  /\ Ends(s)
  /\ UNCHANGED <<role, invitation, token>>

-----------------------------------------------------------------------------
Minted(g, t) ==
  /\ seat[g].status = "active"
  /\ token[t].status = "none"

\* mint_agent_session_token.
Mint(s, g, t) ==
  /\ MayAsOwner(s) /\ Minted(g, t)
  /\ token' = [token EXCEPT ![t] = [agent |-> g, status |-> "live"]]
  /\ Ends(s)
  /\ UNCHANGED <<role, invitation, seat, left>>

\* rotate_agent_session_token: revoke one and mint another, or neither.
Rotate(s, t, u) ==
  /\ MayAsOwner(s) /\ token[t].status \in {"live", "expired"} /\ Minted(token[t].agent, u)
  /\ token' = [token EXCEPT ![t].status = "revoked",
                            ![u] = [agent |-> token[t].agent, status |-> "live"]]
  /\ Ends(s)
  /\ UNCHANGED <<role, invitation, seat, left>>

\* revoke_agent_session_token.
RevokeToken(s, t) ==
  /\ MayAsOwner(s) /\ token[t].status \in {"live", "expired"}
  /\ token' = [token EXCEPT ![t].status = "revoked"]
  /\ Ends(s)
  /\ UNCHANGED <<role, invitation, seat, left>>

\* Time passes.
Expire(t) ==
  /\ token[t].status = "live"
  /\ token' = [token EXCEPT ![t].status = "expired"]
  /\ UNCHANGED <<role, invitation, seat, tx, left>>

\* resolve_agent_session_token.
Authorizes(t) == token[t].status = "live" /\ seat[token[t].agent].status = "active"

-----------------------------------------------------------------------------
MembershipStep ==
  \/ \E s \in Slot, a \in Account :
       \/ Manage(s, a) \/ RemoveMember(s, a) \/ Transfer(s, a)
       \/ RevokeAsks(s, a) \/ AcceptReads(s, a)
       \/ \E offers \in {"admin", "owner"} : Invite(s, a, offers)
  \/ \E s \in Slot : Rollback(s) \/ RevokeInvitation(s) \/ Accept(s)
  \/ \E a \in Account : Decline(a)

AgentStep ==
  \/ \E s \in Slot, g \in Agent :
       \/ Deploy(s, g) \/ Resume(s, g)
       \/ \E status \in {"suspended", "revoked"} : Patch(s, g, status)
       \/ \E t \in Token : Mint(s, g, t)
  \/ \E s \in Slot : CrewReads(s) \/ CrewSeated(s)
  \/ \E s \in Slot, t \in Token : RevokeToken(s, t) \/ \E u \in Token : Rotate(s, t, u)
  \/ \E t \in Token : Expire(t)

Next == MembershipStep \/ AgentStep
Spec == Init /\ [][Next]_vars

-----------------------------------------------------------------------------
\* Rows and requests have the types of their columns.
RTypeOK ==
  /\ role \in [Account -> Roles]
  /\ invitation \in [Account -> [status : {"none", "pending", "accepted", "declined", "revoked"},
                                 offers : {"admin", "owner"}]]
  /\ seat \in [Agent -> [status : {"none", "active", "suspended", "revoked"},
                         deployer : Account \cup {NoOne}, responsible : Account \cup {NoOne}]]
  /\ token \in [Token -> [agent : Agent, status : {"none", "live", "expired", "revoked"}]]
  /\ tx \in [Slot -> [at : {"idle", "manage", "revoke", "accept", "crew"},
                      by : Account \cup {NoOne}, seen : [Account -> Roles]]]
  /\ left \in [Agent -> SUBSET Account]

\* ensure_can_manage: requests that read, decide and write cannot drive the project to no
\* owner or to two, whatever else is in flight.
OneOwner == \E a \in Account : Owners = {a}

\* accept and revoke: no member is left with an invitation that was revoked, declined or
\* still stands; the founder has none.
MemberAccepted == \A a \in Members : invitation[a].status \in {"none", "accepted"}

\* The promise of Membership: one owner, and everybody else came in by an open invitation.
Door == INSTANCE Membership WITH
  owner <- CHOOSE a \in Account : role[a] = "owner",
  members <- Members,
  invited <- {a \in Account : invitation[a].status = "pending"}
ImplementsDoor == Door!DoorSpec

\* A token whose agent may not act is dead, so that a resume cannot bring it back.
LiveTokensAct == \A t \in Token : token[t].status = "live" => Authorizes(t)

\* Ownership transfer: "the new owner explicitly resumes each agent they want running".  No
\* agent runs whose responsible account handed the project over after the seat was given, and
\* the crew runs under no owner who did not give it its seat.
SeatsChosen ==
  \A g \in Agent : seat[g].status = "active" =>
    /\ seat[g].responsible \notin left[g]
    /\ g = Crew => left[g] = {}
=============================================================================
