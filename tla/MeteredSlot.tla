----------------------------- MODULE MeteredSlot -----------------------------
(***************************************************************************)
(* What the harness meter promises one project, with the ledger, the       *)
(* clock and the processes taken away: a single slot.  Whoever holds it    *)
(* may spend what the day has left; nobody else starts until it is given   *)
(* back.  A holder may report more than it was allowed (the provider's     *)
(* usage is recorded in full), so the promise is about spend net of that   *)
(* overshoot.                                                              *)
(***************************************************************************)
EXTENDS Integers

CONSTANTS Request,  \* completion requests
          DayCap,   \* tokens of one UTC day
          Nobody    \* the slot is free

VARIABLES owner,  \* the request that may spend now, or Nobody
          spent,  \* tokens billed today
          over    \* the part of them the provider reported past the clamp

slotVars == <<owner, spent, over>>

SlotInit == owner = Nobody /\ spent = 0 /\ over = 0

\* A start is admitted only into a free slot on a day with room left.
Take(r) == /\ owner = Nobody
           /\ spent < DayCap
           /\ owner' = r
           /\ UNCHANGED <<spent, over>>

\* The owner gives the slot back with what it was billed; the part of it that is not
\* overshoot fits the room the day had.
Settle(r) == /\ owner = r
             /\ owner' = Nobody
             /\ spent' \in Nat /\ over' \in Nat
             /\ over' >= over
             /\ spent' - spent >= over' - over
             /\ spent' - over' <= DayCap

\* The owner is gone (crash, failed settlement): its tokens are never billed.
Drop == /\ owner # Nobody
        /\ owner' = Nobody
        /\ UNCHANGED <<spent, over>>

\* UTC midnight: the day's spend starts again, with no turn in flight.
NewDay == /\ owner = Nobody
          /\ spent' = 0
          /\ over' = 0
          /\ UNCHANGED owner

SlotNext == (\E r \in Request : Take(r) \/ Settle(r)) \/ Drop \/ NewDay

SlotSpec == SlotInit /\ [][SlotNext]_slotVars
=============================================================================
