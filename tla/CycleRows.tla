------------------------------ MODULE CycleRows ------------------------------
(***************************************************************************)
(* What an orchestration promises whoever commissions it: its row opens    *)
(* running, counts the passes it commissions up to the cap, keeps a cancel *)
(* once asked, and closes once, with a stop reason the row bears out.      *)
(* Orchestration implements this; Campaign is built on it.                 *)
(***************************************************************************)
EXTENDS Naturals, FiniteSets

CONSTANTS
  Orch,       \* OrchestrationRun rows
  MaxPasses   \* orchestration_max_passes

VARIABLES ostatus, commissioned, cancel, stop

rows == <<ostatus, commissioned, cancel, stop>>

Reason == {"no_open_work", "max_passes", "budget_exhausted", "cancelled"}
Closed == {"completed", "failed"}

RowsInit ==
  /\ ostatus = [o \in Orch |-> "none"]
  /\ commissioned = [o \in Orch |-> 0]
  /\ cancel = [o \in Orch |-> FALSE]
  /\ stop = [o \in Orch |-> "none"]

\* start_orchestration mints a running row.
Open(o) ==
  /\ ostatus[o] = "none"
  /\ ostatus' = [ostatus EXCEPT ![o] = "running"]
  /\ UNCHANGED <<commissioned, cancel, stop>>

\* Mutant of CountPass: the cap is not looked at.
CountAnyPass(o) ==
  /\ ostatus[o] = "running"
  /\ commissioned[o] <= MaxPasses
  /\ commissioned' = [commissioned EXCEPT ![o] = @ + 1]
  /\ UNCHANGED <<ostatus, cancel, stop>>

\* A pass of the orchestration is minted.
CountPass(o) ==
  /\ ostatus[o] = "running"
  /\ commissioned[o] < MaxPasses
  /\ commissioned' = [commissioned EXCEPT ![o] = @ + 1]
  /\ UNCHANGED <<ostatus, cancel, stop>>

\* request_cancel on these rows; the row of an ended orchestration may be among them.
AskCancel(os) ==
  /\ cancel' = [o \in Orch |-> cancel[o] \/ o \in os]
  /\ UNCHANGED <<ostatus, commissioned, stop>>

\* A reason the row bears out.
Borne(o, reason) ==
  /\ reason = "cancelled" => cancel[o]
  /\ reason = "max_passes" => commissioned[o] = MaxPasses

\* _finalize at the end of the loop.
Close(o, reason) ==
  /\ ostatus[o] = "running"
  /\ Borne(o, reason)
  /\ ostatus' = [ostatus EXCEPT ![o] = "completed"]
  /\ stop' = [stop EXCEPT ![o] = reason]
  /\ UNCHANGED <<commissioned, cancel>>

\* The loop raised, a wave found the row still running, or a read swept it.
Lose(os) ==
  /\ os \subseteq {o \in Orch : ostatus[o] = "running"}
  /\ ostatus' = [o \in Orch |-> IF o \in os THEN "failed" ELSE ostatus[o]]
  /\ stop' = [o \in Orch |-> IF o \in os THEN "error" ELSE stop[o]]
  /\ UNCHANGED <<commissioned, cancel>>

RowsNext ==
  \/ \E o \in Orch : Open(o) \/ CountPass(o) \/ \E reason \in Reason : Close(o, reason)
  \/ \E os \in SUBSET Orch : AskCancel(os) \/ Lose(os)

RowsSpec == RowsInit /\ [][RowsNext]_rows
=============================================================================
