------------------------------ MODULE LeaseTable ------------------------------
(***************************************************************************)
(* What the state store promises to its clients, whatever they do: any      *)
(* owner may at any time claim, refresh, give feedback on any set of rows,   *)
(* or add rows, each with a reading of the time from the past.               *)
(*                                                                         *)
(* A client is trusted with one thing only: the schedule it writes is the    *)
(* one the row has, or the outcome of a run that ended between the row's     *)
(* last_processed_at and the present.  That a worker of the ingestion loop   *)
(* keeps to it is shown in IngestionIteration, which implements TableSpec.   *)
(***************************************************************************)
EXTENDS StateRepository

CONSTANT MaxTime   \* bound on the clock

ASSUME MaxTimeAssumption == MaxTime \in Nat

VARIABLES
  clock,   \* the most advanced of the hosts' clocks
  row      \* ingestion_pipeline_states

vars == <<clock, row>>

Init ==
  /\ clock = 0
  /\ \E S \in SUBSET Stations : row = [s \in S |-> FromStation(0)]

Claim(o) ==
  \E now \in Readings(clock), locked \in SUBSET Stations :
    \E S \in Picks(row, locked, now) :
      /\ row' = Claimed(row, S, o, now)
      /\ UNCHANGED clock

\* The transaction of a refresh may stay open after the statement, with its
\* rows locked: when it takes effect the reading may be of any age.
Refresh(o) ==
  \E now \in 0..clock, ids \in SUBSET Stations :
    /\ row' = Refreshed(row, ids, o, now)
    /\ UNCHANGED clock

\* The schedules a client may write to the row of station s.
Outcomes(s) ==
  LET since == {t \in 0..clock : row[s].schedule.last_processed_at <= t}
  IN  {row[s].schedule} \cup {Processed(t) : t \in since} \cup {Failed(t) : t \in since}

Feedback(o) ==
  \E now \in Readings(clock), ids \in SUBSET DOMAIN row :
    \E obj \in [ids -> UNION {Outcomes(s) : s \in ids}] :
      /\ \A s \in ids \cap Owned(row, o, now) : obj[s] \in Outcomes(s)
      /\ row' = Released(row, obj, o, now)
      /\ UNCHANGED clock

AddStations ==
  \E now \in Readings(clock), S \in SUBSET Stations :
    /\ row' = InsertedSafe(row, S, now)
    /\ UNCHANGED clock

Tick ==
  /\ clock < MaxTime
  /\ clock' = clock + 1
  /\ UNCHANGED row

Next ==
  \/ \E o \in Owners : Claim(o) \/ Refresh(o) \/ Feedback(o)
  \/ AddStations
  \/ Tick

TableSpec == Init /\ [][Next]_vars

-----------------------------------------------------------------------------
(* Properties *)

\* The types; and a row has an owner exactly when it has a lease: every
\* statement writes the two columns claimed_by and lease_until together.
TypeOK ==
  /\ clock \in 0..MaxTime
  /\ DOMAIN row \subseteq Stations
  /\ row \in [DOMAIN row -> Row]
  /\ \A s \in DOMAIN row : row[s].claimed_by = NoOwner <=> row[s].lease_until = NoLease

\* No sequence of claims and refreshes puts a lease more than ClaimFor ahead:
\* the rows of a process that dies are claimable ClaimFor later at the latest
\* (refresh_lease sets the lease from now, it does not add to it).
LeaseBounded ==
  \A s \in DOMAIN row : row[s].lease_until <= clock + ClaimFor

\* A lease that is live by the most advanced clock never passes to another
\* owner, however late the readings of the claiming worker: the only change of
\* owner it sees is its release (claim_states against update_claimed_states).
NoLiveSteal ==
  [][\A s \in DOMAIN row :
       (row'[s].claimed_by # row[s].claimed_by /\ row[s].lease_until > clock)
         => row'[s].claimed_by = NoOwner]_vars

\* The guard of update_claimed_states: a schedule is only ever written by the
\* release of a lease that had not been expired for MaxLag, and then
\* last_processed_at does not go back; adding stations touches no old row.
ScheduleGuarded ==
  [][\A s \in DOMAIN row :
       /\ s \in DOMAIN row'
       /\ row'[s].schedule # row[s].schedule =>
            /\ row[s].claimed_by # NoOwner
            /\ row[s].lease_until > clock - MaxLag
            /\ row'[s].claimed_by = NoOwner
            /\ row[s].schedule.last_processed_at <= row'[s].schedule.last_processed_at]_vars
=============================================================================
