----------------------------- MODULE Workbench -----------------------------
(***************************************************************************)
(* What the toolbench promises: at most Slots instruments are worked for   *)
(* at a time, a call hears at most one verdict and only while it is at the *)
(* bench, and what is written for it is that verdict, once.  Bench         *)
(* implements this with a semaphore, child processes and a queue.          *)
(***************************************************************************)
EXTENDS FiniteSets, Naturals

CONSTANTS Call, Slots, Status, NoWord

VARIABLES place, heard, written
benchVars == <<place, heard, written>>

BenchInit ==
  /\ place = [c \in Call |-> "away"]
  /\ heard = [c \in Call |-> NoWord]
  /\ written = [c \in Call |-> NoWord]

AtBench == {c \in Call : place[c] = "bench"}

Turned(c) ==
  /\ place[c] = "away"
  /\ place' = [place EXCEPT ![c] = "over"]
  /\ UNCHANGED <<heard, written>>

Starts(c) ==
  /\ place[c] = "away" /\ Cardinality(AtBench) < Slots
  /\ place' = [place EXCEPT ![c] = "bench"]
  /\ UNCHANGED <<heard, written>>

Hears(c) ==
  /\ place[c] = "bench" /\ heard[c] = NoWord
  /\ \E s \in Status : heard' = [heard EXCEPT ![c] = s]
  /\ UNCHANGED <<place, written>>

Stops(c) ==
  /\ place[c] = "bench"
  /\ place' = [place EXCEPT ![c] = "over"]
  /\ UNCHANGED <<heard, written>>

Writes(c) ==
  /\ place[c] = "over" /\ written[c] = NoWord /\ heard[c] # NoWord
  /\ written' = [written EXCEPT ![c] = heard[c]]
  /\ UNCHANGED <<place, heard>>

BenchNext == \E c \in Call : Turned(c) \/ Starts(c) \/ Hears(c) \/ Stops(c) \/ Writes(c)

BenchSpec == BenchInit /\ [][BenchNext]_benchVars
=============================================================================
