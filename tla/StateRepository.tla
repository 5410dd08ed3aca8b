--------------------------- MODULE StateRepository ---------------------------
(***************************************************************************)
(* The SQL statements on the table ingestion_pipeline_states, as operators  *)
(* on a table value: a function from the stations that have a row (for the  *)
(* one pipeline type, fetch_raw) to the row.  Each operator returns what    *)
(* its statement selects, or the table it leaves behind; which process      *)
(* runs it, and when, is the business of the modules that extend this one.  *)
(*                                                                         *)
(* Time is an integer.  The columns interval_sec, priority and meta never   *)
(* change after the insert (no code writes another value), so they are not  *)
(* part of a row, and the claim order is that of last_processed_at alone.   *)
(***************************************************************************)
EXTENDS Integers, FiniteSets

CONSTANTS
  Stations,       \* station ids
  Owners,         \* loop ids: one per process incarnation (host:pid:uuid)
  NoOwner,        \* SQL NULL in claimed_by
  BatchSize,      \* FETCH_RAW_BATCH_SIZE
  ClaimFor,       \* CLAIM_FOR_SECONDS
  FetchInterval,  \* DEFAULT_FETCH_INTERVAL_SEC
  ErrorInterval,  \* FETCH_INTERVAL_AFTER_ERROR_SEC
  MaxLag          \* how far a worker's reading of the time may lie behind

ASSUME ConstantsAssumption ==
  /\ NoOwner \notin Owners
  /\ BatchSize \in Nat \ {0}
  /\ ClaimFor \in Nat \ {0}
  /\ FetchInterval \in Nat \ {0}
  /\ ErrorInterval \in Nat \ {0}
  /\ MaxLag \in Nat

-----------------------------------------------------------------------------
(* Values *)

NoLease == -1   \* SQL NULL in lease_until: `lease_until > now` is then false
MinTime == -1   \* datetime.min, before every reading of a clock

\* The columns the feedback writes back from the in-memory object.
Schedule == [last_processed_at : Int, next_run_at : Int, error : BOOLEAN]

Row == [claimed_by : Owners \cup {NoOwner}, lease_until : Int, schedule : Schedule]

\* What now_utc() may return in a statement that takes effect at time clock:
\* the host's clock may be behind the most advanced one, and the statement is
\* executed after its parameters are computed.
Readings(clock) == {t \in 0..clock : clock - t <= MaxLag}

\* IngestionPipelineState.from_station
FromStation(now) ==
  [claimed_by |-> NoOwner, lease_until |-> NoLease,
   schedule |-> [last_processed_at |-> MinTime, next_run_at |-> now, error |-> FALSE]]

\* Mutant of Processed: the next run is not scheduled.
ProcessedUnscheduled(now) ==
  [last_processed_at |-> now, next_run_at |-> now, error |-> FALSE]

\* IngestionPipelineState.update_process_info
Processed(now) ==
  [last_processed_at |-> now, next_run_at |-> now + FetchInterval, error |-> FALSE]

\* IngestionPipelineState.mark_process_error
Failed(now) ==
  [last_processed_at |-> now, next_run_at |-> now + ErrorInterval, error |-> TRUE]

-----------------------------------------------------------------------------
(* Statements.  The operators named after a statement and what is wrong with  *)
(* it are its mutants: each is a slip the properties are there to catch.      *)

\* Mutants of Unleased: the comparison turned round; expired leases forgotten.
UnleasedReversed(r, now) == r.lease_until = NoLease \/ r.lease_until >= now
UnleasedWhenFree(r, now) == r.lease_until = NoLease

Unleased(r, now) == r.lease_until = NoLease \/ r.lease_until <= now

Claimable(table, now) ==
  {s \in DOMAIN table : table[s].schedule.next_run_at <= now /\ Unleased(table[s], now)}

\* claim_states, the CTE `picked`: the first BatchSize claimable rows that no
\* open transaction has locked, oldest last_processed_at first.
Picks(table, locked, now) ==
  LET free == Claimable(table, now) \ locked
  IN  {S \in SUBSET free :
         /\ Cardinality(S) <= BatchSize
         /\ S # free => Cardinality(S) = BatchSize
         /\ \A s \in S, r \in free \ S :
              table[s].schedule.last_processed_at <= table[r].schedule.last_processed_at}

\* Mutant of Claimed: a lease that ends at once.
ClaimedUntilNow(table, S, owner, now) ==
  [s \in DOMAIN table |->
     IF s \in S
       THEN [claimed_by |-> owner, lease_until |-> now, schedule |-> table[s].schedule]
       ELSE table[s]]

\* claim_states, the UPDATE of the picked rows
Claimed(table, S, owner, now) ==
  [s \in DOMAIN table |->
     IF s \in S
       THEN [claimed_by |-> owner, lease_until |-> now + ClaimFor, schedule |-> table[s].schedule]
       ELSE table[s]]

\* Mutants of Owned: without the lease; without the owner.
OwnedWithoutLease(table, owner, now) == {s \in DOMAIN table : table[s].claimed_by = owner}
OwnedByAnyone(table, owner, now) == {s \in DOMAIN table : table[s].lease_until > now}

\* get_claimed, and the guard of the two statements below
Owned(table, owner, now) ==
  {s \in DOMAIN table : table[s].claimed_by = owner /\ table[s].lease_until > now}

\* Mutant of Refreshed: the lease is prolonged instead of set.
RefreshedByAdding(table, ids, owner, now) ==
  [s \in DOMAIN table |->
     IF s \in ids \cap Owned(table, owner, now)
       THEN [table[s] EXCEPT !.lease_until = @ + ClaimFor]
       ELSE table[s]]

\* refresh_lease
Refreshed(table, ids, owner, now) ==
  [s \in DOMAIN table |->
     IF s \in ids \cap Owned(table, owner, now)
       THEN [table[s] EXCEPT !.lease_until = now + ClaimFor]
       ELSE table[s]]

\* Mutants of Released: the owner is not cleared; no guard.
ReleasedKeepingOwner(table, obj, owner, now) ==
  [s \in DOMAIN table |->
     IF s \in DOMAIN obj \cap Owned(table, owner, now)
       THEN [claimed_by |-> owner, lease_until |-> NoLease, schedule |-> obj[s]]
       ELSE table[s]]
ReleasedUnguarded(table, obj, owner, now) ==
  [s \in DOMAIN table |->
     IF s \in DOMAIN obj
       THEN [claimed_by |-> NoOwner, lease_until |-> NoLease, schedule |-> obj[s]]
       ELSE table[s]]

\* update_claimed_states: obj holds the schedules of the in-memory states
Released(table, obj, owner, now) ==
  [s \in DOMAIN table |->
     IF s \in DOMAIN obj \cap Owned(table, owner, now)
       THEN [claimed_by |-> NoOwner, lease_until |-> NoLease, schedule |-> obj[s]]
       ELSE table[s]]

\* insert_many_safe: ON CONFLICT DO NOTHING
InsertedSafe(table, S, now) ==
  [s \in DOMAIN table \cup S |-> IF s \in DOMAIN table THEN table[s] ELSE FromStation(now)]
=============================================================================
