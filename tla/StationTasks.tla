----------------------------- MODULE StationTasks -----------------------------
(***************************************************************************)
(* The tasks that add stations: a request of the admin interface becomes a    *)
(* Celery message; a process of the worker takes it, fetches stations from the *)
(* external service and inserts those that pass the filter, with a state row   *)
(* each, in one transaction.                                                 *)
(*                                                                         *)
(* A message is acknowledged when its task starts, so a crash loses the task;  *)
(* a message may also be delivered again.  The processes work concurrently.    *)
(*                                                                         *)
(* The insert goes row by row, in the order of the answer, which is any.  A row *)
(* whose id another open transaction has inserted makes it wait for the end of  *)
(* that transaction, and Postgres aborts one of the transactions that wait for  *)
(* each other in a circle.                                                  *)
(***************************************************************************)
EXTENDS Integers, FiniteSets

CONSTANTS
  Ids,         \* station ids
  Tasks,       \* task ids, the correlation ids of the admin's requests
  Workers,     \* processes of the Celery worker
  Requests,    \* the requests in use, of the set Request
  Answers,     \* the answers in use, sets of rows
  NoId,        \* no id to filter by, or to wait for
  NoTask,      \* no task
  MaxFaults    \* bound on failures, crashes and repeated deliveries

\* What the service says of a station: its texts may be empty or missing, and
\* its name may contain the name of the filter.
Row == [id : Ids, text : {"named", "other", "blank", "missing"}]

\* The two forms; `link` is TRUE for a request by shared link.
Request == [link : BOOLEAN, by_id : Ids \cup {NoId}, by_name : BOOLEAN]

\* The values of a row to insert, of which only a NULL matters.
Value == [id : Ids, null : BOOLEAN]

ASSUME TasksAssumption ==
  /\ Requests \subseteq Request
  /\ Answers \subseteq SUBSET Row
  /\ NoId \notin Ids
  /\ NoTask \notin Tasks
  /\ MaxFaults \in Nat

VARIABLES
  stations,      \* ids of the committed rows of stations
  states,        \* stations with a committed row of ingestion_pipeline_states
  request,       \* the requests sent so far: task -> request
  queue,         \* task -> number of its messages in the queue
  runtime,       \* process -> whether its global runtime is set
  pc,            \* process -> where its task is
  task,          \* process -> the task it carries out
  accepted,      \* process -> the stations its task is to add
  todo,          \* process -> the values still to be inserted
  waiting,       \* process -> the id whose row it waits for
  inserted,      \* process -> rows of stations its open transaction has inserted
  added,         \* process -> state rows its open transaction has inserted
  acknowledged,  \* stations of tasks that succeeded (history)
  faults         \* failures, crashes and repeated deliveries so far

work == <<accepted, todo, waiting, inserted, added>>
vars == <<stations, states, request, queue, runtime, pc, task, work, acknowledged, faults>>

Init ==
  /\ stations = {} /\ states = {}
  /\ request = [t \in {} |-> NoId]
  /\ queue = [t \in Tasks |-> 0]
  /\ runtime \in [Workers -> BOOLEAN]
  /\ pc = [p \in Workers |-> "idle"]
  /\ task = [p \in Workers |-> NoTask]
  /\ accepted = [p \in Workers |-> {}]
  /\ todo = [p \in Workers |-> {}]
  /\ waiting = [p \in Workers |-> NoId]
  /\ inserted = [p \in Workers |-> {}]
  /\ added = [p \in Workers |-> {}]
  /\ acknowledged = {}
  /\ faults = 0

Fault == faults < MaxFaults /\ faults' = faults + 1

-----------------------------------------------------------------------------
(* Messages *)

\* start of a use case: a message is published whose task id is the correlation id
\* of the HTTP request, a new one each time.
Publish(t, req) ==
  /\ t \notin DOMAIN request
  /\ request' = [u \in DOMAIN request \cup {t} |-> IF u = t THEN req ELSE request[u]]
  /\ queue' = [queue EXCEPT ![t] = @ + 1]
  /\ UNCHANGED <<stations, states, runtime, pc, task, work, acknowledged, faults>>

\* The form for an area is posted and valid; a blank filter is none.
SubmitArea(t) == \E req \in Requests : ~req.link /\ Publish(t, req)

\* The form for a shared link is posted and the link is not blank.
SubmitLink(t) == \E req \in Requests : req.link /\ Publish(t, req)

\* The broker delivers a message again.
Redeliver(t) ==
  /\ t \in DOMAIN request
  /\ Fault
  /\ queue' = [queue EXCEPT ![t] = @ + 1]
  /\ UNCHANGED <<stations, states, request, runtime, pc, task, work, acknowledged>>

\* A process takes a message, which is acknowledged.  Without a runtime, because
\* its initialisation failed, the task fails at once.
Start(p, t) ==
  /\ pc[p] = "idle"
  /\ queue[t] > 0
  /\ queue' = [queue EXCEPT ![t] = @ - 1]
  /\ IF runtime[p]
       THEN /\ pc' = [pc EXCEPT ![p] = "fetching"]
            /\ task' = [task EXCEPT ![p] = t]
       ELSE UNCHANGED <<pc, task>>
  /\ UNCHANGED <<stations, states, request, runtime, work, acknowledged, faults>>

-----------------------------------------------------------------------------
(* Transactions *)

\* Mutant of Finish: the lists of the last task are kept.
FinishKeepingRows(p) ==
  /\ pc' = [pc EXCEPT ![p] = "idle"]
  /\ task' = [task EXCEPT ![p] = NoTask]
  /\ UNCHANGED work

\* The task is over and its transaction, if one is open, is no more.
Finish(p) ==
  /\ pc' = [pc EXCEPT ![p] = "idle"]
  /\ task' = [task EXCEPT ![p] = NoTask]
  /\ accepted' = [accepted EXCEPT ![p] = {}]
  /\ todo' = [todo EXCEPT ![p] = {}]
  /\ waiting' = [waiting EXCEPT ![p] = NoId]
  /\ inserted' = [inserted EXCEPT ![p] = {}]
  /\ added' = [added EXCEPT ![p] = {}]

\* An exception in the unit of work: it is rolled back and the task fails.
Abort(p) ==
  /\ Finish(p)
  /\ UNCHANGED <<stations, states, request, queue, runtime, acknowledged>>

\* p's statement waits for the end of q's transaction.
WaitsFor(p, q) == p # q /\ waiting[p] \in inserted[q]

\* p is on a circle of waiting transactions.
Deadlocked(p) ==
  \E C \in SUBSET Workers :
    /\ p \in C
    /\ \A q \in C : (\E r \in C : WaitsFor(q, r)) /\ (\E r \in C : WaitsFor(r, q))

-----------------------------------------------------------------------------
(* A task *)

\* filter_station of AddStationsByAreaUC.process.
FilterStation(req, row) ==
  /\ row.text \notin {"blank", "missing"}
  /\ req.by_name => row.text = "named"
  /\ req.by_id # NoId => row.id = req.by_id

ValueOf(row) == [id |-> row.id, null |-> row.text = "missing"]

\* The stations to be added are known and the transaction begins.
BeginInsert(p, rows) ==
  /\ todo' = [todo EXCEPT ![p] = {ValueOf(row) : row \in rows}]
  /\ accepted' = [accepted EXCEPT ![p] = {row.id : row \in rows}]
  /\ pc' = [pc EXCEPT ![p] = "inserting"]
  /\ UNCHANGED <<stations, states, request, queue, runtime, task, waiting, inserted, added,
                 acknowledged, faults>>

\* get_stations answers: the stations of the area that pass the filter.
FetchArea(p) ==
  /\ pc[p] = "fetching"
  /\ LET req == request[task[p]] IN
       /\ ~req.link
       /\ \E answer \in Answers : BeginInsert(p, {row \in answer : FilterStation(req, row)})

\* get_station_by_shared_link answers: the station of the link, which nothing filters.
FetchLink(p) ==
  /\ pc[p] = "fetching"
  /\ request[task[p]].link
  /\ \E answer \in Answers : \E row \in answer : BeginInsert(p, {row})

\* The station of the shared link is not found: ValueError.  (process would return
\* False for None, which HTTPGdeBenzClient never answers.)
FetchNothing(p) ==
  /\ pc[p] = "fetching"
  /\ request[task[p]].link
  /\ Abort(p)
  /\ UNCHANGED faults

\* The next row of the statement, which stays the one it waits for.
NextValues(p) == {v \in todo[p] : waiting[p] \in {NoId, v.id}}

HeldByOther(p, id) == \E q \in Workers \ {p} : id \in inserted[q]

\* Mutants of InsertRow: only committed rows count as present; a row of an open
\* transaction counts as present.
InsertRowUnseen(p) ==
  /\ pc[p] = "inserting"
  /\ \E v \in todo[p] :
       /\ ~v.null
       /\ todo' = [todo EXCEPT ![p] = @ \ {v}]
       /\ inserted' = IF v.id \in stations THEN inserted
                      ELSE [inserted EXCEPT ![p] = @ \cup {v.id}]
  /\ UNCHANGED <<stations, states, request, queue, runtime, pc, task, accepted, waiting, added,
                 acknowledged, faults>>
InsertRowWithoutWaiting(p) ==
  /\ pc[p] = "inserting"
  /\ \E v \in todo[p] :
       /\ ~v.null
       /\ todo' = [todo EXCEPT ![p] = @ \ {v}]
       /\ inserted' = IF v.id \in stations \/ HeldByOther(p, v.id) THEN inserted
                      ELSE [inserted EXCEPT ![p] = @ \cup {v.id}]
  /\ UNCHANGED <<stations, states, request, queue, runtime, pc, task, accepted, waiting, added,
                 acknowledged, faults>>

\* insert_many_safe of the stations: one row is inserted, or skipped because of
\* a conflict (ON CONFLICT DO NOTHING).
InsertRow(p) ==
  /\ pc[p] = "inserting"
  /\ \E v \in NextValues(p) :
       /\ ~v.null
       /\ ~HeldByOther(p, v.id)
       /\ todo' = [todo EXCEPT ![p] = @ \ {v}]
       /\ inserted' = IF v.id \in stations THEN inserted
                      ELSE [inserted EXCEPT ![p] = @ \cup {v.id}]
  /\ waiting' = [waiting EXCEPT ![p] = NoId]
  /\ UNCHANGED <<stations, states, request, queue, runtime, pc, task, accepted, added,
                 acknowledged, faults>>

\* The row in hand is that of another open transaction.
WaitForRow(p) ==
  /\ pc[p] = "inserting"
  /\ waiting[p] = NoId
  /\ \E v \in todo[p] : /\ ~v.null
                        /\ HeldByOther(p, v.id)
                        /\ waiting' = [waiting EXCEPT ![p] = v.id]
  /\ UNCHANGED <<stations, states, request, queue, runtime, pc, task, accepted, todo, inserted,
                 added, acknowledged, faults>>

\* A NULL in a column that must have a value: the statement fails.
RejectRow(p) ==
  /\ pc[p] = "inserting"
  /\ \E v \in NextValues(p) : v.null
  /\ Abort(p)
  /\ UNCHANGED faults

\* Mutant of AbortDeadlock: the statements wait for ever.
AbortNothing(p) == FALSE /\ UNCHANGED vars

AbortDeadlock(p) ==
  /\ pc[p] = "inserting"
  /\ Deadlocked(p)
  /\ Abort(p)
  /\ UNCHANGED faults

\* Mutant of SyncPipelineStates: the stations are committed before their states.
SyncAfterCommit(p) ==
  /\ pc[p] = "inserting" /\ todo[p] = {}
  /\ added' = [added EXCEPT ![p] = inserted[p] \ states]
  /\ stations' = stations \cup inserted[p]
  /\ pc' = [pc EXCEPT ![p] = "committing"]
  /\ UNCHANGED <<states, request, queue, runtime, task, accepted, todo, waiting, inserted,
                 acknowledged, faults>>

\* sync_pipeline_states: a state row for each station that was inserted.
SyncPipelineStates(p) ==
  /\ pc[p] = "inserting" /\ todo[p] = {}
  /\ added' = [added EXCEPT ![p] = inserted[p] \ states]
  /\ pc' = [pc EXCEPT ![p] = "committing"]
  /\ UNCHANGED <<stations, states, request, queue, runtime, task, accepted, todo, waiting,
                 inserted, acknowledged, faults>>

Commit(p) ==
  /\ pc[p] = "committing"
  /\ stations' = stations \cup inserted[p]
  /\ states' = states \cup added[p]
  /\ inserted' = [inserted EXCEPT ![p] = {}]
  /\ added' = [added EXCEPT ![p] = {}]
  /\ pc' = [pc EXCEPT ![p] = "committed"]
  /\ UNCHANGED <<request, queue, runtime, task, accepted, todo, waiting, acknowledged, faults>>

\* The task succeeds.
Succeed(p) ==
  /\ pc[p] = "committed"
  /\ acknowledged' = acknowledged \cup accepted[p]
  /\ Finish(p)
  /\ UNCHANGED <<stations, states, request, queue, runtime, faults>>

\* The request to the service or a statement fails, or the answer to the commit
\* is lost, so that the task fails after it was committed.
Fail(p) ==
  /\ pc[p] \notin {"idle", "crashed"}
  /\ Abort(p)
  /\ Fault

-----------------------------------------------------------------------------
(* Processes *)

\* The process dies; the server has yet to notice that its transaction is over.
Crash(p) ==
  /\ pc[p] # "crashed"
  /\ Fault
  /\ pc' = [pc EXCEPT ![p] = "crashed"]
  /\ UNCHANGED <<stations, states, request, queue, runtime, task, work, acknowledged>>

\* A new process takes the place of p.  create_runtime sets the global runtime
\* before it starts it, so a runtime whose resources failed serves tasks too;
\* what fails before that leaves none.
Spawn(p) ==
  /\ pc[p] = "crashed"
  /\ Finish(p)
  /\ \E up \in BOOLEAN : runtime' = [runtime EXCEPT ![p] = up]
  /\ UNCHANGED <<stations, states, request, queue, acknowledged, faults>>

Work(p) == \/ \E t \in Tasks : Start(p, t)
           \/ FetchArea(p) \/ FetchLink(p) \/ FetchNothing(p)
           \/ InsertRow(p) \/ WaitForRow(p) \/ RejectRow(p) \/ AbortDeadlock(p)
           \/ SyncPipelineStates(p) \/ Commit(p) \/ Succeed(p) \/ Spawn(p)

Next == \/ \E t \in Tasks : SubmitArea(t) \/ SubmitLink(t) \/ Redeliver(t)
        \/ \E p \in Workers : Work(p) \/ Fail(p) \/ Crash(p)

Spec == Init /\ [][Next]_vars

\* Processes go on with what they can do, and requests are answered or fail.
FairSpec == Spec /\ \A p \in Workers : WF_vars(Work(p))
-----------------------------------------------------------------------------
(* Properties *)

\* The types; a process without a task has no open transaction.
TypeOK ==
  /\ stations \subseteq Ids /\ states \subseteq Ids
  /\ DOMAIN request \subseteq Tasks
  /\ \A t \in DOMAIN request : request[t] \in Request
  /\ queue \in [Tasks -> Nat]
  /\ runtime \in [Workers -> BOOLEAN]
  /\ pc \in [Workers -> {"idle", "fetching", "inserting", "committing", "committed", "crashed"}]
  /\ task \in [Workers -> Tasks \cup {NoTask}]
  /\ accepted \in [Workers -> SUBSET Ids]
  /\ todo \in [Workers -> SUBSET Value]
  /\ waiting \in [Workers -> Ids \cup {NoId}]
  /\ inserted \in [Workers -> SUBSET Ids]
  /\ added \in [Workers -> SUBSET Ids]
  /\ acknowledged \subseteq Ids
  /\ faults \in 0..MaxFaults
  /\ \A p \in Workers : pc[p] \in {"idle", "fetching"} => inserted[p] = {} /\ todo[p] = {}

\* No two transactions insert the same row, and none inserts one that is there,
\* however the answers of concurrent tasks overlap: what RETURNING gives to a
\* task, and so the state rows it makes, are its own (station.py, insert_many_safe).
InsertedOnce ==
  \A p \in Workers :
    /\ inserted[p] \cap stations = {}
    /\ \A q \in Workers \ {p} : inserted[p] \cap inserted[q] = {}

\* The tasks implement the registry: stations appear with their state rows, in
\* one step, stay, and are there once the task that was to add them succeeds,
\* also those that another task was adding at the same time.
Registry == INSTANCE StationRegistry
              WITH registered <- stations, scheduled <- states
ImplementsRegistry == Registry!RegistrySpec

\* A requested task is over at last - done, failed or lost with its process - and
\* no two tasks wait for each other's rows for ever.
Over(t) == queue[t] = 0 /\ \A p \in Workers : task[p] # t
TasksEnd == \A t \in Tasks : (queue[t] > 0) ~> Over(t)
=============================================================================
