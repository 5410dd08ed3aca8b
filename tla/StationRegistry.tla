---------------------------- MODULE StationRegistry ----------------------------
(***************************************************************************)
(* What the tasks that add stations promise.  The registry is a set of        *)
(* stations that only grows; the ingestion has a state row for each of them,   *)
(* at any time; and what a task reports as added is there.                    *)
(***************************************************************************)
EXTENDS FiniteSets

CONSTANT Ids      \* station ids

VARIABLES
  registered,     \* rows of the table stations
  scheduled,      \* stations with a row in ingestion_pipeline_states
  acknowledged    \* stations that a task which succeeded was to add

Init ==
  /\ registered = {}
  /\ scheduled = {}
  /\ acknowledged = {}

\* Stations are registered and scheduled at once.
Register(S) ==
  /\ S \cap registered = {}
  /\ registered' = registered \cup S
  /\ scheduled' = scheduled \cup S
  /\ UNCHANGED acknowledged

\* A task ends without an error.
Acknowledge(S) ==
  /\ S \subseteq registered
  /\ acknowledged' = acknowledged \cup S
  /\ UNCHANGED <<registered, scheduled>>

Next == \E S \in SUBSET Ids : Register(S) \/ Acknowledge(S)

RegistrySpec == Init /\ [][Next]_<<registered, scheduled, acknowledged>>
=============================================================================
