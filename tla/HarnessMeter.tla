---------------------------- MODULE HarnessMeter ----------------------------
(***************************************************************************)
(* The harness meter of one project: gateway processes (each with one      *)
(* in-memory HarnessSession) serve completion requests and share the       *)
(* append-only ComputeDebit ledger.  A request passes the gates of         *)
(* authorize(), takes a hold of all the tokens the UTC day has left, calls *)
(* the provider, and converts the hold into a spend (record_spend) or      *)
(* gives it back (release_hold).                                           *)
(*                                                                         *)
(* Every await of the code is a point where other requests run: the steps  *)
(* of a request are the stretches between awaits.  A database transaction  *)
(* under the project row's FOR UPDATE lock is one step, because every      *)
(* other writer of the ledger waits for that row.  A refused authorize     *)
(* rolls its transaction back.                                             *)
(***************************************************************************)
EXTENDS Integers, Sequences, FiniteSets, Functions

CONSTANTS
  Session,        \* gateway processes bound to the project
  Request,        \* completion requests, each one POST to the gateway
  Actor,          \* actors a credential may name
  CredentialsOf,  \* [Session -> SUBSET Actor]: who the credential file may name over time
  MaxTurns,       \* OPENTHEORY_HARNESS_MAX_TURNS
  DayCap,         \* OPENTHEORY_HARNESS_DAILY_TOKEN_CAP
  Floor,          \* OPENTHEORY_HARNESS_TURN_TOKEN_FLOOR
  TTL,            \* OPENTHEORY_HARNESS_HOLD_TTL_SECONDS, in ticks
  MaxTurn,        \* ticks a running turn may take from hold to settlement
  DayLen,         \* ticks of a UTC day
  AgentCap,       \* [Actor -> tokens of the roster seat, or Unlimited]
  Pot,            \* what the project's pot can buy at first, in tokens
  Funded,         \* has the project any settled funding
  Overshoot,      \* bound on the tokens a provider reports past the clamp
  QuietMidnight,  \* does no running turn straddle UTC midnight
  MaxNow,         \* bound on the clock
  Nobody          \* no request

Unlimited == -1   \* Python's None for a room

ASSUME MeterAssumption ==
  /\ MaxTurns \in Nat \ {0} /\ DayCap \in Nat \ {0} /\ Floor \in Nat \ {0}
  /\ TTL \in Nat \ {0} /\ MaxTurn \in Nat \ {0} /\ DayLen \in Nat \ {0}
  /\ Pot \in Nat /\ Overshoot \in Nat /\ MaxNow \in Nat
  /\ Funded \in BOOLEAN /\ QuietMidnight \in BOOLEAN
  /\ CredentialsOf \in [Session -> SUBSET Actor]
  /\ Nobody \notin Request /\ IsFiniteSet(Request)
  /\ AgentCap \in [Actor -> Nat \cup {Unlimited}]

VARIABLES
  now,       \* the clock, in ticks
  \* ComputeDebit rows whose notes start with harness_session_turn
  used,      \* sum of tokens_used over today's rows
  hold,      \* hold[r]: the hold row of request r, or NoHold
  released,  \* released[r]: the times of the release rows of r's hold
  spentToday, overToday,  \* today's spend rows: tokens, and their overshoot marks
  billed,    \* billed[a]: tokens of all the spend rows stamped with actor a
  pot,       \* the pot's available amount, in tokens
  \* HarnessSession objects
  turn,      \* turn[s]: turn_index
  bound,     \* bound[s]: bound_actor_id / bound_jti
  \* what the outside decides
  cred,      \* cred[s]: the actor the credential file names now
  member,    \* current members (human members and ACTIVE roster seats)
  \* the locals of a request
  pc, sess, who, moved

ledger == <<used, hold, released, spentToday, overToday, billed, pot>>
process == <<turn, bound>>
outside == <<cred, member>>
locals == <<pc, sess, who, moved>>
vars == <<now, ledger, process, outside, locals>>

Day(t) == t \div DayLen
Today(t) == Day(t) = Day(now)

NoHold == [tokens |-> 0, clamp |-> 0, at |-> 0]

\* A turn that holds the day's room and will still settle by itself.
Running(r) == pc[r] \in {"calling", "settling", "failed"}

\* hold_has_release: only today's adjustment rows are read.
HoldHasRelease(r) == \E i \in DOMAIN released[r] : Today(released[r][i])

\* Mutant of Unmatched: the release rows are not matched with the holds.
UnmatchedEver(r) == hold[r] # NoHold /\ Today(hold[r].at)

\* unmatched_holds over load_today_adjustments.
Unmatched(r) == hold[r] # NoHold /\ Today(hold[r].at) /\ ~HoldHasRelease(r)

\* Mutant of Stale: no TTL protects a live turn's hold.
StaleAtOnce(r) == hold[r] # NoHold

\* is_hold_stale
Stale(r) == now - hold[r].at >= TTL

HeldTokens(S) == SumFunctionOnSet([r \in Request |-> hold[r].tokens], S)

-----------------------------------------------------------------------------
\* The gates of authorize(), in the order the code asks them.

Orphans == {h \in Request : Unmatched(h) /\ Stale(h)}

\* Mutant of UsedToday: recovering an orphan does not give its room back.
UncreditedUse == used

UsedToday == used - HeldTokens(Orphans)

\* Mutant of DailyRoom: what the day has used is not subtracted.
WholeDay == DayCap

DailyRoom == DayCap - UsedToday

\* Mutant of AgentRoom: the cap is read as a room for each turn.
CapPerTurn(a) == AgentCap[a]

\* AgentCapRoom.token_remaining: lifetime cap minus spend minus own open holds.
AgentRoom(a) ==
  IF AgentCap[a] = Unlimited THEN Unlimited
  ELSE LET own == {h \in Request : Unmatched(h) /\ h \notin Orphans /\ who[h] = a}
           left == AgentCap[a] - billed[a] - HeldTokens(own)
       IN IF left > 0 THEN left ELSE 0

\* The pot bounds the clamp only when funded and the price is known.
PotRoom(known) == IF known /\ Funded THEN IF pot > 0 THEN pot ELSE 0 ELSE Unlimited

Bounded(room, limit) == IF limit # Unlimited /\ limit < room THEN limit ELSE room

TurnClamp(r, known) == Bounded(Bounded(DailyRoom, PotRoom(known)), AgentRoom(who[r]))

DailyCapReached == UsedToday < 0 \/ UsedToday >= DayCap
PotExhausted == Funded /\ pot <= 0
AgentCapReached(a) == AgentRoom(a) = 0

Admitted(r, known) == /\ ~DailyCapReached
                      /\ ~PotExhausted
                      /\ ~AgentCapReached(who[r])
                      /\ TurnClamp(r, known) >= Floor

\* release_stale_holds: a release row for every orphan, in the caller's transaction.
ReleaseStaleHolds ==
  released' = [h \in Request |-> IF h \in Orphans THEN Append(released[h], now)
                                 ELSE released[h]]

-----------------------------------------------------------------------------
Init ==
  /\ now = 0
  /\ used = 0 /\ spentToday = 0 /\ overToday = 0
  /\ hold = [r \in Request |-> NoHold]
  /\ released = [r \in Request |-> <<>>]
  /\ billed = [a \in Actor |-> 0]
  /\ pot = Pot
  /\ turn = [s \in Session |-> 0]
  /\ bound = [s \in Session |-> CHOOSE a \in Actor : TRUE]
  /\ cred \in {c \in [Session -> Actor] : \A s \in Session : c[s] \in CredentialsOf[s]}
  /\ member = Actor
  /\ pc = [r \in Request |-> "idle"]
  /\ sess \in [Request -> Session]
  /\ who = [r \in Request |-> CHOOSE a \in Actor : TRUE]
  /\ moved = [r \in Request |-> 0]

\* A request reaches authorize(): the turn index is compared before any await.
Arrive(r) ==
  LET s == sess[r] IN
  /\ pc[r] = "idle"
  /\ pc' = [pc EXCEPT ![r] = IF turn[s] >= MaxTurns THEN "refused" ELSE "quoting"]
  /\ UNCHANGED <<now, ledger, process, outside, sess, who, moved>>

\* The price quote has come back; the transaction opens by resolving the credential
\* file's actor.  A member is bound to the shared session before the lock is asked for.  Who
\* is not a member is refused, and so is anyone while the credential of the MCP child names
\* another actor or the session's own cannot be read.
Identify(r) ==
  LET s == sess[r] IN
  /\ pc[r] = "quoting"
  /\ \/ /\ cred[s] \in member
        /\ pc' = [pc EXCEPT ![r] = "locking"]
        /\ who' = [who EXCEPT ![r] = cred[s]]
        /\ bound' = [bound EXCEPT ![s] = cred[s]]
     \/ /\ pc' = [pc EXCEPT ![r] = "refused"]
        /\ UNCHANGED <<who, bound>>
  /\ UNCHANGED <<now, ledger, turn, outside, sess, moved>>

\* The locked part of authorize(): recover orphans, ask the gates, take the whole room.
\* known: the quote is a live or catalog price.
Authorize(r, known) ==
  /\ pc[r] = "locking"
  /\ Admitted(r, known)
  /\ ReleaseStaleHolds
  /\ \E clamp \in 0 .. DailyRoom :
       /\ clamp = TurnClamp(r, known)
       /\ hold' = [hold EXCEPT ![r] = [tokens |-> DailyRoom, clamp |-> clamp, at |-> now]]
  /\ used' = UsedToday + DailyRoom
  /\ pc' = [pc EXCEPT ![r] = "calling"]
  /\ UNCHANGED <<now, spentToday, overToday, billed, pot, turn, bound, outside,
                 sess, who, moved>>

\* A gate refuses: nothing is written, the orphans' release rows roll back too.
RefuseAuthorize(r, known) ==
  /\ pc[r] = "locking"
  /\ ~Admitted(r, known)
  /\ pc' = [pc EXCEPT ![r] = "refused"]
  /\ UNCHANGED <<now, ledger, process, outside, sess, who, moved>>

\* What a call may report: anything up to the clamp, and past it only by Overshoot.
Reported(r) == 0 .. hold[r].clamp + Overshoot

\* The provider answers, or fails with a usage the gateway could read (GatewayError).
\* A deadline, a refusal and an unread usage are all 0 tokens.
Complete(r) ==
  /\ pc[r] = "calling"
  /\ \E n \in Reported(r) : moved' = [moved EXCEPT ![r] = n]
  /\ pc' = [pc EXCEPT ![r] = "settling"]
  /\ UNCHANGED <<now, ledger, process, outside, sess, who>>

\* Anything but a GatewayError: the hold is released and the exception goes on.
ProviderRaises(r) ==
  /\ pc[r] = "calling"
  /\ pc' = [pc EXCEPT ![r] = "failed"]
  /\ UNCHANGED <<now, ledger, process, outside, sess, who, moved>>

\* Mutants of ReleaseOwnHold: an orphan's hold is released again; no release row at all.
ReleaseAgain(r) == released' = [released EXCEPT ![r] = Append(@, now)]
KeepHold(r) == UNCHANGED released

\* The release row of r's own hold, unless today's rows already hold one.
ReleaseOwnHold(r) ==
  released' = IF HoldHasRelease(r) THEN released
              ELSE [released EXCEPT ![r] = Append(@, now)]

\* Mutants of OwnCredit: a hold already released is credited again; the clamp is credited
\* instead of the room that was held.
CreditAgain(r) == hold[r].tokens
CreditClamp(r) == hold[r].clamp

OwnCredit(r) == IF HoldHasRelease(r) THEN 0 ELSE hold[r].tokens

\* Mutant of OvershootOf: not floored at 0.
Difference(r) == moved[r] - hold[r].clamp

\* overshoot_tokens
OvershootOf(r) == IF moved[r] > hold[r].clamp THEN moved[r] - hold[r].clamp ELSE 0

\* _spend_actor_id: the actor its session is bound to, whoever the turn was admitted for.
Stamped(r) == bound[sess[r]]

\* record_spend: release and spend row in one locked transaction, no second gate.
RecordSpend(r) ==
  /\ pc[r] = "settling"
  /\ ReleaseOwnHold(r)
  /\ used' = used - OwnCredit(r) + moved[r]
  /\ spentToday' = spentToday + moved[r]
  /\ overToday' = overToday + OvershootOf(r)
  /\ billed' = [billed EXCEPT ![Stamped(r)] = @ + moved[r]]
  /\ pot' = pot - moved[r]
  /\ pc' = [pc EXCEPT ![r] = "recorded"]
  /\ UNCHANGED <<now, hold, process, outside, sess, who, moved>>

\* advance(), after the transaction's session has been closed.
Advance(r) ==
  /\ pc[r] = "recorded"
  /\ turn' = [turn EXCEPT ![sess[r]] = @ + 1]
  /\ pc' = [pc EXCEPT ![r] = "done"]
  /\ UNCHANGED <<now, ledger, bound, outside, sess, who, moved>>

\* release_hold: the release row alone; the turn is not counted.
ReleaseHold(r) ==
  /\ pc[r] = "failed"
  /\ ReleaseOwnHold(r)
  /\ used' = used - OwnCredit(r)
  /\ pc' = [pc EXCEPT ![r] = "done"]
  /\ UNCHANGED <<now, hold, spentToday, overToday, billed, pot, process, outside,
                 sess, who, moved>>

\* The settling transaction raises: the request ends, its hold row stays open.
SettlementFails(r) ==
  /\ pc[r] \in {"settling", "failed"}
  /\ pc' = [pc EXCEPT ![r] = "lost"]
  /\ UNCHANGED <<now, ledger, process, outside, sess, who, moved>>

-----------------------------------------------------------------------------
\* The gateway process dies and is started again: a new session at turn 0.
Crash(s) ==
  /\ \E r \in Request : sess[r] = s /\ pc[r] \notin {"idle", "done", "refused", "lost"}
  /\ pc' = [r \in Request |->
              IF sess[r] = s /\ pc[r] \notin {"idle", "done", "refused"} THEN "lost"
              ELSE pc[r]]
  /\ turn' = [turn EXCEPT ![s] = 0]
  /\ UNCHANGED <<now, ledger, bound, outside, sess, who, moved>>

\* The clock moves.  No running turn may outlive MaxTurn (the gateway's total deadline,
\* and the margin the settlement is given); at midnight the day's rows start from none.
Tick ==
  /\ now < MaxNow
  /\ now' = now + 1
  /\ \A r \in Request : Running(r) => now' - hold[r].at <= MaxTurn
  /\ IF Day(now') = Day(now)
     THEN UNCHANGED <<used, spentToday, overToday>>
     ELSE /\ QuietMidnight => \A r \in Request : ~Running(r)
          /\ used' = 0 /\ spentToday' = 0 /\ overToday' = 0
  /\ UNCHANGED <<hold, released, billed, pot, process, outside, locals>>

\* The operator replaces the credential file of a running process.
Rotate(s) ==
  /\ \E a \in CredentialsOf[s] \ {cred[s]} : cred' = [cred EXCEPT ![s] = a]
  /\ UNCHANGED <<now, ledger, process, member, locals>>

\* A seat is paused, a member removed.
Remove(a) ==
  /\ a \in member
  /\ member' = member \ {a}
  /\ UNCHANGED <<now, ledger, process, cred, locals>>

\* The steps of a turn after its first gate.  supervise_turn takes the same ones in the same
\* order, with a session of its own for each call.
Step(r) == \/ Identify(r)
           \/ \E known \in BOOLEAN : Authorize(r, known) \/ RefuseAuthorize(r, known)
           \/ Complete(r) \/ ProviderRaises(r)
           \/ RecordSpend(r) \/ Advance(r) \/ ReleaseHold(r)

Next == \/ \E r \in Request : Arrive(r) \/ Step(r) \/ SettlementFails(r)
        \/ \E s \in Session : Crash(s) \/ Rotate(s)
        \/ \E a \in Actor : Remove(a)
        \/ Tick

Spec == Init /\ [][Next]_vars

\* A request's coroutine is always resumed: the event loop is fair, the provider call
\* has a total deadline and the project row is only locked for a transaction.
FairSpec == Spec /\ \A r \in Request : WF_vars(Step(r))

-----------------------------------------------------------------------------
HoldType == [tokens : Nat, clamp : Nat, at : Nat]
States == {"idle", "quoting", "locking", "calling", "settling", "failed",
           "recorded", "done", "refused", "lost"}

\* The rows, the sessions and the requests have the types the code gives them.
TypeOK ==
  /\ now \in Nat
  /\ used \in Int /\ spentToday \in Nat /\ overToday \in Nat
  /\ hold \in [Request -> HoldType]
  /\ released \in [Request -> Seq(Nat)]
  /\ billed \in [Actor -> Nat]
  /\ pot \in Int
  /\ turn \in [Session -> Nat]
  /\ bound \in [Session -> Actor]
  /\ cred \in [Session -> Actor]
  /\ member \subseteq Actor
  /\ pc \in [Request -> States]
  /\ sess \in [Request -> Session]
  /\ who \in [Request -> Actor]
  /\ moved \in [Request -> Nat]

\* Two overlapping authorizes cannot both pass: at most one turn of the project holds
\* room and is on its way to a debit, whichever processes the turns run in.
OneRunningTurn ==
  \A r1, r2 \in Request : Running(r1) /\ Running(r2) => r1 = r2

\* A live turn is never released as an orphan: while a turn runs, its hold is unmatched
\* on today's ledger and takes all the room there was.
RunningTurnHolds ==
  \A r \in Request : Running(r) => Unmatched(r) /\ used >= DayCap

\* The daily cap binds across processes, crashes and restarts: what today's turns were
\* billed exceeds it by no more than what the provider reported past their clamps.
DailyCap == spentToday <= DayCap + overToday

\* The rows add up: today's sum is the spend plus the one hold that may be open, so no
\* release is lost, doubled or credited to another hold.
LedgerBalances ==
  LET open == {r \in Request : Unmatched(r)} IN
  \/ open = {} /\ used = spentToday
  \/ \E r \in open : open = {r} /\ used = spentToday + hold[r].tokens

\* A hold gets at most one release row, whoever writes it: its own turn or a later
\* authorize that took it for an orphan.
ReleasedOnce == \A r \in Request : Len(released[r]) <= 1

\* A roster seat's lifetime cap is passed only by what providers reported past a clamp.
AgentCapHolds ==
  \A a \in Actor :
    AgentCap[a] # Unlimited =>
      LET settled == {r \in Request : pc[r] \in {"recorded", "done", "lost"} /\ who[r] = a}
      IN billed[a] <= AgentCap[a] + SumFunctionOnSet([r \in Request |-> OvershootOf(r)], settled)

\* A daily-cap refusal is honest: the day's spend has reached the cap, or a hold too
\* young to be an orphan is open.  A crash never pins the rest of the day.
HonestRefusal ==
  [][\A r \in Request :
       pc[r] = "locking" /\ pc'[r] = "refused" /\ DailyCapReached =>
         \/ spentToday >= DayCap
         \/ \E h \in Request : Unmatched(h) /\ ~Stale(h)]_vars

\* Every turn gives its hold back unless its process or its settlement dies.
HoldsComeBack ==
  \A r \in Request : Running(r) ~> (released[r] # <<>> \/ pc[r] = "lost")

-----------------------------------------------------------------------------
\* The meter implements the single slot.
Owner == IF \E r \in Request : Running(r) THEN CHOOSE r \in Request : Running(r) ELSE Nobody
Slot == INSTANCE MeteredSlot WITH owner <- Owner, spent <- spentToday, over <- overToday
ImplementsSlot == Slot!SlotSpec
=============================================================================
