-------------------------- MODULE IngestionPipeline --------------------------
(***************************************************************************)
(* The ingestion loops together with the observation store: what one of the   *)
(* two modules leaves open is decided by the other.  In IngestionIteration an  *)
(* insert has any outcome, in ObservationStore a worker begins an insert of    *)
(* any observations at any time.  Here the list a loop calls                  *)
(* _insert_observations with chooses the observations, out of those the loop   *)
(* has fetched; the errors of the insert choose the marks; and a process that  *)
(* dies is lost to both.  Everything else is a step of one of the two alone.   *)
(***************************************************************************)
EXTENDS TimelyIteration

CONSTANTS
  Obs,             \* observations, by id
  StationOf,       \* observation -> its station
  MaxStoreFaults   \* bound on the number of failed inserts, and of crashes in one

ASSUME PipelineAssumption ==
  /\ MaxStoreFaults \in Nat
  /\ StationOf \in [Obs -> Stations]

VARIABLES
  fetched,     \* owner -> the observations in the dictionary of _fetch_observations
  observed,    \* observation -> number of its rows in station_observations_raw
  underway,    \* observation -> rows of failed inserts that are still under way
  delayed,     \* observations of which a row was ever under way so (history)
  call,        \* owner -> where _insert_observations is
  batch,       \* owner -> the observations to insert
  todo,        \* owner -> those still to be tried one by one
  rows,        \* owner -> the rows of the insert it is about to send
  errors,      \* owner -> stations_error_dict
  exclusive,   \* whether no two batches ever shared a station (history)
  storeFaults  \* failures and crashes of inserts so far

clickVars ==
  <<observed, underway, delayed, call, batch, todo, rows, errors, exclusive, storeFaults>>
pipelineVars == <<vars, fetched, clickVars>>

Click == INSTANCE ObservationStore WITH
  Workers <- Owners, MaxFaults <- MaxStoreFaults,
  table <- observed, late <- underway, pc <- call, bad <- errors, faults <- storeFaults

PipelineInit ==
  /\ Init
  /\ Click!Init
  /\ fetched = [w \in Owners |-> {}]

-----------------------------------------------------------------------------
(* Steps of the loops and the store together *)

\* The fetches have returned: any observations of the stations whose fetch has not
\* failed.  _insert_observations is called with those of the list; with none the
\* insert is over at once.
FetchReturns(w) ==
  /\ FetchDone(w)
  /\ \E found \in SUBSET {o \in Obs : StationOf[o] \in Batch(w) \ failed[w]} :
       /\ fetched' = [fetched EXCEPT ![w] = found]
       /\ LET sent == {o \in found : pc'[w] = "inserting" /\ StationOf[o] \in inserting'[w].ids}
          IN  IF sent = {} THEN UNCHANGED clickVars
              ELSE Click!Start(w) /\ batch'[w] = sent

\* Mutant of InsertReturns: stations_error_dict is not looked at.
InsertReturnsUnread(w) ==
  /\ InsertObservations(w)
  /\ stored'[w] = inserting[w].ids
  /\ IF call[w] = "idle" THEN UNCHANGED clickVars ELSE Click!MarkStates(w)
  /\ UNCHANGED fetched

\* The end of _insert_observations, once the inserts are over: the stations that
\* are not stored are those of stations_error_dict.
InsertReturns(w) ==
  /\ InsertObservations(w)
  /\ stored'[w] = inserting[w].ids \ errors[w]
  /\ IF call[w] = "idle" THEN UNCHANGED clickVars ELSE Click!MarkStates(w)
  /\ UNCHANGED fetched

\* The feedback; what was fetched is forgotten with the other variables of the run.
FeedbackReturns(w) ==
  /\ Feedback(w)
  /\ fetched' = [fetched EXCEPT ![w] = {}]
  /\ UNCHANGED clickVars

\* The process dies, in an insert or not.
ProcessDies(w) ==
  /\ Crash(w)
  /\ fetched' = [fetched EXCEPT ![w] = {}]
  /\ IF call[w] = "idle" THEN UNCHANGED clickVars ELSE Click!Crash(w)

-----------------------------------------------------------------------------
(* Steps of one of them *)

\* The statements of an insert.
InsertRuns(w) ==
  /\ \/ Click!BulkCheck(w) \/ Click!BulkInsert(w) \/ Click!BulkFails(w)
     \/ Click!SingleCheck(w) \/ Click!SingleInsert(w) \/ Click!SingleFails(w)
     \/ Click!SinglesDone(w)
  /\ UNCHANGED <<vars, fetched>>

ServerRuns == Click!Server /\ UNCHANGED <<vars, fetched>>

LoopRuns(w) ==
  /\ \/ ClaimStates(w) \/ ClaimNothing(w) \/ FetchFails(w) \/ Stop(w)
     \/ HbSend(w) \/ HbRefresh(w) \/ HbReread(w) \/ LateCommit(w)
  /\ UNCHANGED <<fetched, clickVars>>

HeartbeatFails(w) == HbFails(w) /\ UNCHANGED <<fetched, clickVars>>
TimePasses == Tick /\ UNCHANGED <<fetched, clickVars>>

Run(w) == FetchReturns(w) \/ InsertReturns(w) \/ FeedbackReturns(w) \/ ProcessDies(w)
            \/ InsertRuns(w) \/ LoopRuns(w)

\* With heartbeats that take any time, and may fail.
PipelineNext ==
  \/ \E w \in Owners : Run(w) \/ HeartbeatFails(w)
  \/ ServerRuns
  \/ TimePasses

PipelineSpec == PipelineInit /\ [][PipelineNext]_pipelineVars

\* With heartbeats on time.
TimelyPipelineNext ==
  \/ \E w \in Owners : Run(w)
  \/ ServerRuns
  \/ TimePasses /\ OnTime(clock')

TimelyPipelineSpec == PipelineInit /\ [][TimelyPipelineNext]_pipelineVars

-----------------------------------------------------------------------------
(* Properties *)

\* A run that is recorded as a success has every observation it fetched for the
\* station in the table - through lost leases, lists that are read again or filtered,
\* and inserts that fail, wholly or in part.
RecordedStored ==
  [][\A s \in Stations :
       row'[s].schedule # row[s].schedule /\ ~row'[s].schedule.error
         => \E w \in Owners :
              /\ row[s].claimed_by = w
              /\ \A o \in fetched[w] : StationOf[o] = s => observed[o] > 0]_pipelineVars

\* An insert is under way only for stations that its worker holds a live lease on.
InsertsLeased ==
  \A w \in Owners : \A o \in batch[w] :
    row[StationOf[o]].claimed_by = w /\ row[StationOf[o]].lease_until > clock

\* As long as heartbeats are on time an observation is counted twice only if one of
\* its rows came from an insert that had failed for the client and was carried out
\* later: the check of the existing ids needs no help but the leases'.
StoredOnce == \A o \in Obs : observed[o] > 1 => o \in delayed
=============================================================================
