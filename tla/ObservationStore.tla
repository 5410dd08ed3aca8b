--------------------------- MODULE ObservationStore ---------------------------
(***************************************************************************)
(* The insert of fetched observations into ClickHouse.  A call of            *)
(* insert_raw_observations first asks which ids exist and then inserts the     *)
(* others: two steps, between which other workers go on.  A batch is inserted  *)
(* as a whole, and if that fails for whatever reason, one by one.             *)
(*                                                                         *)
(* An insert that fails for the client may have been carried out in part (a    *)
(* block is split by partition), and what is left of it may be carried out     *)
(* later.  The table is a ReplacingMergeTree: it takes a row with an id it     *)
(* has, and a merge at some later time removes the copies.                    *)
(*                                                                         *)
(* An observation stands for its id; in the list of a batch it occurs once.   *)
(***************************************************************************)
EXTENDS Integers, FiniteSets, FiniteSetsExt

CONSTANTS
  Workers,     \* processes that insert
  Obs,         \* observations, by id
  StationOf,   \* observation -> its station
  MaxFaults    \* bound on the number of failures and crashes

ASSUME StoreAssumption ==
  /\ MaxFaults \in Nat
  /\ DOMAIN StationOf = Obs

VARIABLES
  table,      \* observation -> number of its rows in station_observations_raw
  late,       \* observation -> rows of failed inserts that are still under way
  delayed,    \* observations of which a row was ever under way so (history)
  pc,         \* worker -> where _insert_observations is
  batch,      \* worker -> the observations to insert
  todo,       \* worker -> those still to be tried one by one
  rows,       \* worker -> the rows of the insert it is about to send
  bad,        \* worker -> stations_error_dict
  exclusive,  \* whether no two batches ever shared a station (history)
  faults      \* failures and crashes so far

vars == <<table, late, delayed, pc, batch, todo, rows, bad, exclusive, faults>>

Existing == {o \in Obs : table[o] > 0}

Init ==
  /\ table = [o \in Obs |-> 0]
  /\ late = [o \in Obs |-> 0]
  /\ delayed = {}
  /\ pc = [w \in Workers |-> "idle"]
  /\ batch = [w \in Workers |-> {}]
  /\ todo = [w \in Workers |-> {}]
  /\ rows = [w \in Workers |-> {}]
  /\ bad = [w \in Workers |-> {}]
  /\ exclusive = TRUE
  /\ faults = 0

-----------------------------------------------------------------------------
(* The table *)

\* A row is added for each observation in S.
Added(copies, S) == [o \in Obs |-> IF o \in S THEN copies[o] + 1 ELSE copies[o]]

\* A failed insert of S: some rows are stored, some may be later.
PartlyAdded(S) ==
  \E part \in SUBSET S : \E rest \in SUBSET (S \ part) :
    /\ table' = Added(table, part)
    /\ late' = Added(late, rest)
    /\ delayed' = delayed \cup rest

LateInsert(o) ==
  /\ late[o] > 0
  /\ table' = Added(table, {o})
  /\ late' = [late EXCEPT ![o] = @ - 1]
  /\ UNCHANGED <<delayed, pc, batch, todo, rows, bad, exclusive, faults>>

\* A merge of the ReplacingMergeTree.
Merge(o) ==
  /\ table[o] > 1
  /\ table' = [table EXCEPT ![o] = 1]
  /\ UNCHANGED <<late, delayed, pc, batch, todo, rows, bad, exclusive, faults>>

-----------------------------------------------------------------------------
(* insert_raw_observations for the whole batch *)

StationsOf(S) == {StationOf[o] : o \in S}

\* No other worker inserts for a station of S now: what the leases are for.
Alone(w, S) == \A v \in Workers \ {w} : StationsOf(batch[v]) \cap StationsOf(S) = {}

Start(w) ==
  /\ pc[w] = "idle"
  /\ \E S \in SUBSET Obs \ {{}} :
       /\ batch' = [batch EXCEPT ![w] = S]
       /\ exclusive' = (exclusive /\ Alone(w, S))
  /\ pc' = [pc EXCEPT ![w] = "bulk"]
  /\ UNCHANGED <<table, late, delayed, todo, rows, bad, faults>>

\* The ids that exist are left out; with nothing left there is no insert.
BulkCheck(w) ==
  /\ pc[w] = "bulk"
  /\ rows' = [rows EXCEPT ![w] = batch[w] \ Existing]
  /\ pc' = [pc EXCEPT ![w] = IF batch[w] \subseteq Existing THEN "marking" ELSE "bulk_insert"]
  /\ UNCHANGED <<table, late, delayed, batch, todo, bad, exclusive, faults>>

BulkInsert(w) ==
  /\ pc[w] = "bulk_insert"
  /\ table' = Added(table, rows[w])
  /\ rows' = [rows EXCEPT ![w] = {}]
  /\ pc' = [pc EXCEPT ![w] = "marking"]
  /\ UNCHANGED <<late, delayed, batch, todo, bad, exclusive, faults>>

\* Mutant of BulkFails: only the rows of the failed insert are tried again, and
\* a failed check is taken for an empty answer.
BulkFailsSilently(w) ==
  /\ pc[w] \in {"bulk", "bulk_insert"}
  /\ faults < MaxFaults
  /\ IF pc[w] = "bulk_insert" THEN PartlyAdded(rows[w]) ELSE UNCHANGED <<table, late, delayed>>
  /\ todo' = [todo EXCEPT ![w] = rows[w]]
  /\ rows' = [rows EXCEPT ![w] = {}]
  /\ pc' = [pc EXCEPT ![w] = "single"]
  /\ faults' = faults + 1
  /\ UNCHANGED <<batch, bad, exclusive>>

\* The check or the insert raises: each observation of the batch is tried alone.
BulkFails(w) ==
  /\ pc[w] \in {"bulk", "bulk_insert"}
  /\ faults < MaxFaults
  /\ IF pc[w] = "bulk_insert" THEN PartlyAdded(rows[w]) ELSE UNCHANGED <<table, late, delayed>>
  /\ todo' = [todo EXCEPT ![w] = batch[w]]
  /\ rows' = [rows EXCEPT ![w] = {}]
  /\ pc' = [pc EXCEPT ![w] = "single"]
  /\ faults' = faults + 1
  /\ UNCHANGED <<batch, bad, exclusive>>

-----------------------------------------------------------------------------
(* insert_raw_observations for one observation after the other *)

\* Mutant of SingleCheck: every observation is inserted, without the check.
SingleUnchecked(w) ==
  /\ pc[w] = "single"
  /\ \E o \in todo[w] : rows' = [rows EXCEPT ![w] = {o}]
  /\ pc' = [pc EXCEPT ![w] = "single_insert"]
  /\ UNCHANGED <<table, late, delayed, batch, todo, bad, exclusive, faults>>

SingleCheck(w) ==
  /\ pc[w] = "single"
  /\ \E o \in todo[w] :
       IF o \in Existing
         THEN /\ todo' = [todo EXCEPT ![w] = @ \ {o}]
              /\ UNCHANGED <<pc, rows>>
         ELSE /\ rows' = [rows EXCEPT ![w] = {o}]
              /\ pc' = [pc EXCEPT ![w] = "single_insert"]
              /\ UNCHANGED todo
  /\ UNCHANGED <<table, late, delayed, batch, bad, exclusive, faults>>

SingleInsert(w) ==
  /\ pc[w] = "single_insert"
  /\ table' = Added(table, rows[w])
  /\ todo' = [todo EXCEPT ![w] = @ \ rows[w]]
  /\ rows' = [rows EXCEPT ![w] = {}]
  /\ pc' = [pc EXCEPT ![w] = "single"]
  /\ UNCHANGED <<late, delayed, batch, bad, exclusive, faults>>

\* The check or the insert raises: the observation's station has an error.
SingleFails(w) ==
  /\ faults < MaxFaults
  /\ \E o \in todo[w] :
       /\ \/ pc[w] = "single" /\ UNCHANGED <<table, late, delayed>>
          \/ pc[w] = "single_insert" /\ rows[w] = {o} /\ PartlyAdded({o})
       /\ todo' = [todo EXCEPT ![w] = @ \ {o}]
       /\ bad' = [bad EXCEPT ![w] = @ \cup {StationOf[o]}]
  /\ rows' = [rows EXCEPT ![w] = {}]
  /\ pc' = [pc EXCEPT ![w] = "single"]
  /\ faults' = faults + 1
  /\ UNCHANGED <<batch, exclusive>>

SinglesDone(w) ==
  /\ pc[w] = "single" /\ todo[w] = {}
  /\ pc' = [pc EXCEPT ![w] = "marking"]
  /\ UNCHANGED <<table, late, delayed, batch, todo, rows, bad, exclusive, faults>>

-----------------------------------------------------------------------------
Forget(w) ==
  /\ pc' = [pc EXCEPT ![w] = "idle"]
  /\ batch' = [batch EXCEPT ![w] = {}]
  /\ todo' = [todo EXCEPT ![w] = {}]
  /\ rows' = [rows EXCEPT ![w] = {}]
  /\ bad' = [bad EXCEPT ![w] = {}]

\* The stations are marked, those in bad with an error, and the call is over.
MarkStates(w) ==
  /\ pc[w] = "marking"
  /\ Forget(w)
  /\ UNCHANGED <<table, late, delayed, exclusive, faults>>

\* The process dies; its insert may be under way.
Crash(w) ==
  /\ pc[w] # "idle"
  /\ faults < MaxFaults
  /\ PartlyAdded(rows[w])
  /\ Forget(w)
  /\ faults' = faults + 1
  /\ UNCHANGED exclusive

Work(w) == BulkCheck(w) \/ BulkInsert(w) \/ BulkFails(w) \/ SingleCheck(w) \/ SingleInsert(w)
             \/ SingleFails(w) \/ SinglesDone(w) \/ MarkStates(w) \/ Crash(w)
Server == \E o \in Obs : LateInsert(o) \/ Merge(o)

Next == (\E w \in Workers : Start(w) \/ Work(w)) \/ Server

Spec == Init /\ [][Next]_vars

-----------------------------------------------------------------------------
(* What the statistics read *)

\* count() in station_hourly_stats_v, over station_observations_raw as it is.
ObservationsCount(station) ==
  MapThenSumSet(LAMBDA o : table[o], {o \in Obs : StationOf[o] = station})

-----------------------------------------------------------------------------
(* Properties *)

\* The types; a worker's rows and open tries are of its batch, and an idle worker
\* has none.
TypeOK ==
  /\ table \in [Obs -> Nat] /\ late \in [Obs -> Nat]
  /\ delayed \subseteq Obs
  /\ pc \in [Workers -> {"idle", "bulk", "bulk_insert", "single", "single_insert", "marking"}]
  /\ batch \in [Workers -> SUBSET Obs]
  /\ todo \in [Workers -> SUBSET Obs]
  /\ rows \in [Workers -> SUBSET Obs]
  /\ bad \in [Workers -> SUBSET StationsOf(Obs)]
  /\ exclusive \in BOOLEAN
  /\ faults \in 0..MaxFaults
  /\ \A w \in Workers : /\ todo[w] \subseteq batch[w] /\ rows[w] \subseteq batch[w]
                        /\ pc[w] = "idle" => batch[w] = {}

\* When the stations are marked, every observation of a station that is marked
\* as processed is in the table, through whatever mixture of failed, partial,
\* repeated and concurrent inserts (raw.py, _insert_observations).
AcknowledgedStored ==
  \A w \in Workers : pc[w] = "marking" =>
    \A o \in batch[w] : StationOf[o] \in bad[w] \/ o \in Existing

\* As long as the leases keep the batches of two workers apart, the check before
\* the insert suffices: an observation is there twice only if one of its rows came
\* from an insert that had failed for the client and was carried out later.
NoDuplicates == exclusive => \A o \in Obs : table[o] > 1 => o \in delayed

\* docs/ingestion_loop.md, Concurrency model: duplicate inserts are acceptable,
\* reads must deduplicate.
ReadsDeduplicated ==
  \A station \in StationsOf(Obs) :
    ObservationsCount(station) = Cardinality({o \in Existing : StationOf[o] = station})
=============================================================================
