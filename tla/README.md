# Verification of LastLiter

LastLiter watches petrol stations. A set of ingestion processes fetches the
latest observations of every station from an external HTTP API, stores them in
ClickHouse and plans the next fetch in Postgres; Celery tasks add stations, and a
map shows how good each of them is likely to be at this hour. This directory holds
TLA+ modules that model it, TLC configurations that check them on small instances,
and theorems that TLAPS checks for every instance. `PROJECT.json`
lists the components, the runs, the theorems, the source lines behind each
definition (`map`), the hazards the properties are for, a plausible bug for each
property (`mutants`) and the findings.

    tlc -workers 2 -config MCLeaseTable.cfg MCLeaseTable
    tlapm LeaseTable_proofs.tla

Every run ends within a few minutes on two cores. Paths below are relative to `src/`; `iter.py`, `raw.py` and `base.py` are those
of `app/services/ingestion/`, `state.py` is
`app/infra/postgres/repositories/state.py`, `uows/base.py` is
`app/infra/postgres/uows/base.py`.

## 1. The system

### Components

**Ingestion state store** (`state.py`, `app/domains/state.py`). One Postgres row
per station and pipeline: `claimed_by`, `lease_until`, `last_processed_at`,
`next_run_at`, `last_error`. Operations: `claim_states` (due rows without a live
lease, oldest first, `FOR UPDATE SKIP LOCKED`), `refresh_lease`,
`update_claimed_states` (write the schedule and release, guarded by owner and
lease), `get_claimed`, `insert_many_safe`. Correct if a live lease never changes
hands, leases are bounded, and a schedule is written only under the guard.

**Ingestion iteration** (`iter.py`, `raw.py`, `base.py`). Claims a batch, starts a
heartbeat task, fetches the stations concurrently, inserts what was fetched,
writes the feedback, cancels the heartbeat. State: the claimed objects,
`_HeartbeatContext` (the list `leased_states` and a status), which the two tasks
share without a lock. Correct if a feedback never undoes another's, success is
recorded only for stored observations, a station that was done is scheduled
ahead, an iteration ends, and a dead process's rows are picked up.

**Ingestion loop process** (`app/controllers/loop/ingestion.py`). Polls, sleeps,
ends the process on any error; each start has a new loop id, hence a new owner.

**Postgres unit of work** (`uows/base.py`). One session, and of a block that writes
one transaction, per `begin`; what ends it (`_finish`: commit or rollback, then
close) is shielded from the cancellation of the task. State: the connections of two
pools, one for blocks that write and one for those that read, and the transactions
at the server. Correct if a block takes effect as a whole or not at all, success is
only reported of what is committed, and no connection or transaction is left over.

**Rate limiter** (`app/infra/redis/limit.py`). A Redis key per public address holds
the next free request slot; a script takes it and says how long to sleep.
Correct if slots are an interval apart across all replicas whatever expires, and
no more requests are sent than the rate allows.

**GdeBenz client** (`app/infra/http/gdebenz.py`). HTTP requests and their parsing;
requests for observations wait for the limiter first.

**Observation store** (`app/infra/clickhouse/repositories/station.py`, the
ClickHouse table and views). Inserts ask which ids exist and then insert the
others. Correct if what is marked as processed is stored, and nothing is counted
twice.

**Station registry and tasks** (`app/services/station/add.py`,
`app/controllers/tasks`, `app/infra/postgres/repositories/station.py`). Two Celery
tasks, for an area and for a shared link, that fetch stations and insert them
with a state row each in one transaction. State: the messages, the two tables, the
open transactions. Correct if a station never is there without its state row,
none is inserted twice, what a task reports as added is there, and every task ends.

**Celery runtime** (`app/infra/celery/runtime.py`): an event loop on a thread per
worker process, made when the process starts and used by its tasks.

**ClickHouse migrations** (`app/infra/clickhouse/migrations/env.py` and the SQL
files): a file is split into statements, they are applied one by one, and the
revision is recorded afterwards. State: the schema and the recorded revisions.
Correct if a recorded revision is applied, the statistics stay readable, and
repeating a command that was cut off repairs what it left.

**Statistics** (`app/domains/stats.py`, `app/services/station/get.py`,
`app/services/station/stats.py`, the views): a score and a confidence computed from
the counts of each hour of the week, for one station and for the list of the map at
the present hour. Correct if the score has its ends where they belong, moves the right
way with new observations, and each station gets its own, of that hour.

**Admin interface**: the two forms that start tasks and the map.
**Configuration, wiring, logging, Postgres schema**: no protocol of their own.

### How they interact

The iteration calls the state store in short transactions and never holds one
over a fetch or an insert; the lease stands for the lock in between, and the
heartbeat keeps it alive. Fetches go through the client and the limiter, whose
delay grows with the backlog of all replicas. The insert relies on the lease for
the check of existing ids to mean anything. Several loop processes run at once,
each with a clock of its own; they meet only in Postgres, Redis and ClickHouse. The
tasks give the iteration its stations by inserting their state rows; the map reads
the stations from Postgres and what the iteration stored from ClickHouse, at
different times. The migrations change the views below it while it runs.

### What is hard

- the lease may run out at any point of an iteration, by a slow fetch, a failed
  heartbeat or a lagging clock, and the iteration goes on;
- the heartbeat and the iteration interleave at every await and both write
  `leased_states`; a refresh under way meets a list that has been filtered;
- `claimed_by` names the process, not the iteration;
- a cancelled heartbeat's commit is carried out after the iteration is over, or is cut
  off by the end of the process; a connection breaks before, in or after a commit,
  and the rollback over it fails as well;
- an insert that failed may have been carried out, wholly, in part or later;
- the key of the limiter expires on another granularity than it schedules, and
  Redis may lose it;
- tasks insert the same stations at once, wait for each other's rows, possibly in a
  circle, and lose their processes; a message may come twice;
- a migration has no transaction, no lock against a second migrator, and a recorded
  revision whose timestamp may tie with the one before it;
- every observation moves several ratios of the score at once, in both directions.

`PROJECT.json` lists these and the others as `hazards`, each at its line.

## 2. The modules

| module | models | state and actions |
|---|---|---|
| `StateRepository` | the SQL statements | no state: operators on a table value, one per statement (`Claimed`, `Refreshed`, `Released`, `Owned`, `InsertedSafe`) |
| `LeaseTable` | what the state store promises | clock and table; any owner may call any statement at any time |
| `IngestionIteration` | `iter.py`, `raw.py`, `base.py`, the loop, commits | `pc` per owner, the claimed objects `obj`, `leased`, the heartbeat task `hb`, commits under way `late`; one action from one await that matters to the next |
| `TimelyIteration` | the same with heartbeats on time | the clock waits for an overdue heartbeat |
| `IngestionPipeline` | the loops on top of `ObservationStore` | the variables of both, and what each worker has fetched; the calls between them are joint steps |
| `RateLimiter` | `limit.py` and its callers | the key with its expiry, callers that reserve, wait, sleep, send or are lost |
| `ObservationStore` | the insert into ClickHouse | rows per observation, rows under way, workers that check and insert, bulk and one by one |
| `UnitsOfWork` | what a use of `begin` promises | per block an outcome, whether it raised an exception, and an answer |
| `PgUnitOfWork` | `uows/base.py`, the pools, the server's end, shutdown and restart | per block its caller, its `_finish`, exception, connection and transaction |
| `StationRegistry` | what the add tasks promise | stations, state rows and what was acknowledged; two actions |
| `StationTasks` | the forms, the messages, both tasks, their transactions, the worker's processes | tables, queue, and per process its task, the rows to insert and those of its open transaction |
| `SqlScript` | `split_sql` and `has_sql_code` | no state: the lexer as an operator, and what a file means by its tokens |
| `ClickHouseMigrations` | upgrade and downgrade of several processes | schema, recorded revisions, and per process its command, file and statement |
| `StationStats` | the views' counts, the score, the page and the map | observations per station and hour of the week, the list a request has read and the hour it asks for |
| `*_proofs` | theorems about the module of that name | |
| `MC*` | instances for TLC | |

`IngestionIteration` and `LeaseTable` extend `StateRepository`, so both run the
same statements. `IngestionIteration` instantiates `LeaseTable` (`Table`) as its
abstract specification. `LeaseTable` trusts a client in one point only, the
schedules it writes; `ImplementsTable` says that the loops deserve the trust.
`StationTasks` instantiates `StationRegistry` in the same way
(`ImplementsRegistry`), `PgUnitOfWork` instantiates `UnitsOfWork`
(`ImplementsUnits`), and `ClickHouseMigrations` extends `SqlScript` to read the
repository's own files. `IngestionPipeline` extends `TimelyIteration` and instantiates
`ObservationStore` (`Click`) with the owners as its workers: it adds no behaviour to
either and takes some away.

How the iteration maps to the code:

- `ClaimStates` is `_claim_states` with the start of the heartbeat; it skips the
  rows of any open transaction, and perhaps others that a one-step transaction
  of another process has locked at that moment. `ClaimNothing` is an empty claim.
- `FetchFails` and `FetchDone` are `_fetch_observations` and `retain_active`. A
  failed fetch marks the original object at once.
- `InsertObservations` is the end of `_insert_observations`, with an outcome for
  each station; `inserting` is the list it was called with. What happens inside
  it is `ObservationStore`, and `IngestionPipeline` puts the two together.
- `Feedback` is `update_claimed_states` with the objects that were claimed. It
  waits for a row of its own process's heartbeat only if the row matches the
  guard, as an UPDATE does.
- `Stop` cancels the heartbeat. A transaction that was committing moves to
  `late`, and `LateCommit` carries it out at some later time.
- `HbSend`, `HbRefresh`, `HbReread`, `HbFails` are the heartbeat's steps. Between
  `HbSend` and `HbRefresh` the list may be filtered, so the comparison of the
  count with the length of the list is made with the list as it is then. Between
  the refresh and `get_claimed` (`rereading`) the transaction is open and its
  rows are locked. The field `fresh` of a list says that its objects are new ones.

How the pipeline maps to the code (`raw.py`, `run` and `_insert_observations`):

- `FetchReturns` is `FetchDone` with the dictionary of `_fetch_observations`
  (`fetched`), and the beginning of the insert (`Click!Start`) with the observations
  of the stations that `retain_active` has left in the list; with none there is
  nothing to insert.
- `InsertReturns` is `InsertObservations` with the marks that `stations_error_dict`
  decides (`Click!MarkStates`); `ProcessDies` is the death of the process for both.
- `InsertRuns` and `ServerRuns` are the store's other steps, `LoopRuns`,
  `FeedbackReturns`, `HeartbeatFails` and `TimePasses` those of the loops.
- `PipelineSpec` lets heartbeats take any time and fail, `TimelyPipelineSpec` does not.

How the unit of work maps to the code:

- `Begin` is `_start`, which needs no connection; `Execute` is the first statement of
  the block, which takes one from the pool of its engine. `ExecuteStale` gets one
  that has long been broken, since `pool_pre_ping` is off.
- `EndBlock`, `RaiseInBlock` and `CancelInBlock` leave the block and start `_finish` as
  a task of its own (`asyncio.shield`); `CancelLeaving` cancels the caller while it
  waits, and the task goes on without it.
- `Commit`, `CommitFails`, `Rollback` and `Close` are the steps of `_finish`. A failed
  rollback is ignored, the exception is raised again, the session is closed always.
- `Break` loses a connection, before or after a COMMIT has reached the server
  (`sent`), and `Notice` is the server's end of it: it aborts the transaction or has
  carried the COMMIT out.
- `Dispose` is the shutdown of the loop process, which has cancelled and awaited its
  task but knows nothing of a `_finish` without a caller; `End` is the end of its event
  loop, or its death, and takes those with it.
- A block that reads has no transaction (AUTOCOMMIT) and no outcome; it competes for
  connections only.

How the tasks map to the code:

- `SubmitArea` and `SubmitLink` are the two forms, whose tasks get the correlation
  id of the request; `Redeliver` is the broker's. `Start` takes a message, which is
  acknowledged at once (Celery's default, which `worker.py` leaves), and fails it
  if the process has no runtime.
- `FetchArea` with `FilterStation`, `FetchLink` and `FetchNothing` are the answers of
  the service; `BeginInsert` is the beginning of the unit of work.
- `InsertRow`, `WaitForRow`, `RejectRow` and `AbortDeadlock` are one row each of the
  multi-row `INSERT .. ON CONFLICT DO NOTHING`, as Postgres carries it out: a row
  that another open transaction has inserted is waited for, and a circle of waits
  is broken by aborting one. Rows are taken in any order.
- `SyncPipelineStates`, `Commit` and `Succeed` end the task. `Fail` is any exception,
  with the transaction rolled back, and a lost answer to the commit. `Crash` is the
  death of the process; its transaction holds its rows until `Spawn`.

How the migrations map to the code:

- `Begin` and `Refuse` are the checks at the head of `upgrade` and `downgrade`, with
  the recorded revision, one of those that share the newest `updated_at`, and the
  revisions the process's image knows (`Heads`).
- `Apply` is one `client.command`, possible or not by what ClickHouse has then;
  `Record` is `set_current_revision`; `Reject` and `Crash` end the command.
- `Up` and `Down` say what the files' statements do, `UpFile` and `DownFile` are the
  files' texts, and `ScriptsRead` connects the two through the splitter.
- `disciplined`, `pending`, `reached` and `torn` are history: whether commands
  never overlapped and one that was cut off was repeated before another.

How the statistics map to the code: `HourlyStats` is a row of
`station_hourly_stats_v`, the operators from `SafeRatio` to `CalcScore` are the
functions of `stats.py` of those names. `View` has a row for each station and hour that
was observed, and two queries read it: `StationHourlyStats`, the rows of one station,
from which `GetStationStats` makes its page, and `SpotRows`, the rows of many stations
at one hour. The second has no `ORDER BY`, so its rows come as any sequence
(`InAnyOrder`); `StatDict` is the dictionary made of it, `StatsForSpot` the list in the
order of the ids, with gaps, and `Shown` the map's `zip` with the stations that
`ListStations` has read before. Stations and observations may be added in between.

### Abstractions

- One pipeline type. `interval_sec`, `priority` and `meta` never change, so rows
  are ordered by `last_processed_at` alone and carry one interval.
- Time is an integer. `now_utc()` returns a value at most `MaxLag` behind the most
  advanced clock: the skew between hosts, and the time from the reading to the
  execution of the statement. One process may read an earlier time after a later
  one, which a clock does not do, but two statements of one process may, when the one
  that was sent first is executed last. `NoLeftover` and `LeasedFromBatch` do not survive
  it: a lease that has run out for the feedback may still live for a refresh that was
  sent before. They are checked for `MaxLag = 0`, in `timely`; what holds with any lag
  is the theorem `OnlyLapsesLeaveRows`.
- A statement is one step and its parameters are those of its reading of the
  time. Observations are model values: the hash of an observation is taken as its
  identity, and equal observations of one list as one.
- Crashes, heartbeat errors and failed inserts are bounded by `MaxFaults` (in the
  pipeline, what fails or dies in an insert by `MaxStoreFaults`), lost
  slots by `MaxLost`, the clock by `MaxTime`. TLC needs the bounds; every safety
  theorem holds for all their values.
- Redis keeps a key until it expires or is lost (`LoseKey`, at most `MaxResets`
  times). A sleep is never too short. Limiter keys of different public addresses
  are independent and one is modelled.
- In `PgUnitOfWork` the statements of a block after the first are not told apart, and
  a block's place is used again only when its transaction is settled. A process is
  replaced when the server has done with its transactions.
- The state rows are changed by the code modelled here and by no one else (the admin
  view of them is read-only).
- The branch of the link task for a client that answers `None` (`add.py:151`) is left
  out: `HTTPGdeBenzClient` raises `ValueError` instead, which is `FetchNothing`.
- What the external service says of a station is its id and a class of its texts:
  they contain the name of the filter, do not, are blank, or are missing where the
  table wants a value. Two rows of an answer have different ids or classes.
- A migration's word stands for a statement; of the schema only the three objects and
  the revision that made each of them are kept, and which of them another reads. A
  statement whose answer is lost has been carried out or not, but not later.
- The arithmetic of the statistics is exact: a ratio is a whole number of twelfths,
  which is what up to four observations divide by. An observation is reduced to what the
  first view makes of it (fuel status, severity of the queue, service).

## 3. The runs

| run | configuration | asks |
|---|---|---|
| `lease_table` | 2 stations, 2 owners, lag 1, time 4 | the state store's promises under any clients |
| `iteration` | 2 stations, 2 loops, batches of 2, lag 1, time 2 | the iteration under expiring leases and lagging clocks |
| `liveness` | batches of 1, time 1, one fault | the loops implement `LeaseTable`; iterations end, rows of the dead are claimed |
| `timely` | loops and store: lease 2, beat 1, no lag, time 2, one crash, one observation for each of 2 stations, 2 faults of inserts | what timely heartbeats guarantee, that nothing is left of an iteration that is over, that observations are stored once, and that what is recorded is stored |
| `rescheduled` | as `iteration` | a finding, below |
| `limiter` | 2 callers, interval 2, jitter 1, 2 units per ms, time 10, one lost slot, one lost key | spacing, budget, backlog |
| `observations` | 2 workers, 3 observations of 2 stations, 2 faults | what is acknowledged is stored; no duplicates but by late inserts |
| `reads` | the same, without faults | a finding, below |
| `unit_of_work` | 2 blocks, pools of 1 connection, 2 faults | the blocks implement `UnitsOfWork`, and give up what they hold |
| `station_tasks` | 2 processes, 2 tasks, 2 station ids, three kinds of requests, answers of up to 2 rows, 2 faults | the tasks implement `StationRegistry` and end |
| `migrations` | 2 migrators, revisions 0 to 3, two images, all scripts of up to 3 of 14 tokens | what a recorded revision means, what a repetition repairs, how files are split |
| `stats` | 2 stations, 2 hours of the week, 9 kinds of observations, up to 3 of them, a full sample of 2 | a calibrated score, and the map's answer |

Why the bounds are enough. Two loops and two stations give every pair of
conflicting steps, a batch of which one lease is lost and one kept, and a list
that is filtered while a refresh of the longer one is under way. In `iteration`
a lease of 2 with a time of 2 expires under a worker whatever it does, another
claims the row and gives feedback, and the first comes back; a lag of 1 lets
readings disagree about the very instant a lease ends. Nothing fails in this run
(with one fault it takes about five minutes): a heartbeat that ends with an error while
the iteration goes on, or dies with its process, is covered by the theorems, which prove
its properties with any number of faults. In `timely` a lease
has to be renewed once to last, one that is not is claimed by another at time 2, a
station that is done is due again at time 2, and two faults of inserts are a failed
bulk insert and a failed single one, which make an error, or a crash that leaves a
row under way; all its properties but `NoLeftover` and `LeasedFromBatch` are theorems,
for any lag. The limiter's time of 10 spans the life of the key (at
most 6 units after the slot is taken), a schedule that runs dry and a loss of the
key while a caller sleeps; 2 units per millisecond make the ceiling matter. Two
faults in `ObservationStore` are a failed bulk insert and a failed single insert
of one worker, or a crash of each. Two ids and two tasks give the deadlock of
inserts in opposite order, and two faults a crash of the one that is waited for
with a message that comes twice. In `unit_of_work` two blocks want one
connection, and two faults are a connection that breaks in a commit and the end of
the process before the server notices, or a broken connection for each. The migrations are bounded by nothing but the
files: commands may be cut off and repeated for ever. Three tokens put any of
comment, literal, separator and code inside or beside any other. Three observations
of one group let every penalty grow and shrink against the others and exceed a full
sample (2 there, 20 in the code); spread over two stations and two weekdays they give
the map rows of another station, of another day at the same hour, and none. The runs of `limiter` and `station_tasks` ignore
deadlock, because the clock stops at its bound while callers sleep, and because
tasks end.

What the properties say:

- `LeaseTable`: `LeaseBounded` (a lease is never more than `ClaimFor` ahead, so a
  dead process's rows come back), `NoLiveSteal`, `ScheduleGuarded`.
- `IngestionIteration`: `ObjectsCurrent` (a worker's copy of a row its process
  still owns is never stale, although the guard names a process and not an
  iteration), `FeedbackTruthful` (a schedule is written by the holder only, a
  success only for stored observations), `SchedulesAhead`,
  `RescheduledUnlessReread` (a stored station moves on, unless the list was read
  again), `ImplementsTable`, and the liveness properties `IterationEnds` (no
  feedback waits for ever for its own heartbeat's locks) and `Reclaimed`.
- `TimelyIteration`: `KeepsLease` (every station that is being fetched or inserted
  is in the list and its lease is live), `ExclusiveInsert` (no two workers insert
  for one station), and, as long as no reading lags, `NoLeftover` and `LeasedFromBatch`.
  `KeepsLease` does not extend to everything in `leased_states`: with a lag,
  `get_claimed` may return a row of an earlier iteration whose lease has just ended.
  `NoLeftover` needs timely heartbeats: a late commit may otherwise renew the lease
  of a later state of the row.
- `IngestionPipeline`: `StoredOnce` (with heartbeats on time the check of the existing
  ids is enough: only a failed insert that is carried out late duplicates an
  observation), `RecordedStored` (end to end, from the fetch to the feedback: a run
  recorded as a success has all it fetched for the station in ClickHouse).
- `RateLimiter`: `ReservationsSpaced` (the key's time to live is long enough),
  `BudgetKept` (with the price of a lost key: one request per caller that was
  waiting), `DelayBounded` (a caller waits at most one interval per caller and
  per lost slot ahead).
- `ObservationStore`: `AcknowledgedStored`, and `NoDuplicates` as long as no two
  workers insert for one station. That they do not is `ExclusiveInsert`, and
  `StoredOnce` is the two together.
- `PgUnitOfWork`: `ImplementsUnits` (all or nothing; never after an exception of the
  block, of which the abstract specification keeps a record; success only for what is committed; an effect that comes late, only for a
  caller that was cancelled, was told of an error or is gone), `ConnectionsOwned` (no
  connection is lost to its pool, wherever a task is cancelled), `Settled` (what is
  left gives up connection and transaction, also if the rollback fails or the process
  ends in between).
- `StationTasks`: `InsertedOnce` (what `RETURNING` gives to a task is its own,
  however answers overlap), `ImplementsRegistry` (stations and state rows appear in
  one step; what a task reports as added is there, also what another task was
  adding at that moment), `TasksEnd` (no task waits for ever, in particular not two
  for each other).
- `ClickHouseMigrations`: `RecordedApplied` and `StatsReadable` (with upgrades alone,
  whatever overlaps or dies: the second holds because `003/up.sql` replaces the
  lower view first and `002/up.sql` refuses views that exist), `SuccessExact` and
  `RejectedOnlyTorn` (with discipline: a command that succeeds leads exactly to its
  target, and only an `up.sql` of revision 1 or 2 that was cut off cannot be
  repeated, for it creates without `IF NOT EXISTS`), `ScriptsRead`.
- `StationStats`: `ScoreCalibrated` (1, 0, no score and full confidence exactly where
  they belong), `EvidenceCounts` (fuel without a queue never lowers the score, no
  fuel never raises it), `QueuesCost` (a longer queue never raises it),
  `MapTruthful` (in whatever order the rows of the second query come, the map shows
  each station the score that its own page has for that hour, and none if it has none).

### Fairness

`liveness`, `unit_of_work` and `station_tasks` assume some. In `liveness` time goes on. An idle loop polls
(`IDLE_SLEEP_SECONDS`), and a claim that meets no lock but those of transactions
that stay open is carried out at last. A fetch ends because the HTTP client times
out; a statement is answered or fails; the event loop resumes a task whose await
is over. Nothing is assumed of the heartbeat's sleep, of failures or of crashes.
In `station_tasks` a process goes on with its task, takes a message if there is one,
and is replaced when it has died, as Celery's pool does; its statements and requests
are answered or fail, and Postgres ends a circle of waits (`deadlock_timeout`).
In `unit_of_work` a `_finish` goes on, its COMMIT or ROLLBACK being answered or
failing, and the server notices a connection that is gone (TCP keep-alive, or the
host's reset); nothing is assumed of callers or shutdowns.
Weak fairness is enough, for each of these steps stays possible until it is taken.

### Findings

- `rescheduled`: when a heartbeat finds that some leases are lost, it replaces
  `leased_states` by the new objects of `get_claimed` (`iter.py:144`). If that is
  before the insert, the marks go to the new objects (`raw.py:145-149`), while the
  feedback writes the ones that were claimed (`iter.py:203`). Stations that are
  stored and still owned are released with the old schedule and fetched again at
  once, where `docs/ingestion_loop.md` section [4] says they are rescheduled.
  `RescheduledUnlessReread` shows that this is the only way it happens, and
  `ObjectsCurrent` that no harm comes of it beyond a repeated fetch. The existing
  test lets `get_claimed` return the claimed object itself.
- `reads`: the documentation accepts duplicate inserts because "reads must
  deduplicate immutable events", but the views count the rows of the table as they
  are, without `FINAL`. In the run nothing fails: two workers ask for the existing ids,
  then both insert, and the observation counts twice. `NoDuplicates` says when duplicates arise: not while the
  leases hold and no failed insert is carried out late.

## 4. The proofs

All theorems hold for any numbers of stations, owners, workers, callers, tasks,
blocks, migrators and observations and any values of the bounds, under the ASSUMEs of the
modules: the intervals, `ClaimFor` and `BatchSize` are positive, `MaxLag` is smaller
than either interval (readings lag by less than the 5 minutes of
`DEFAULT_FETCH_INTERVAL_SEC`), a beat and the lag are shorter than a lease, `NoOwner`
is no owner, `StationOf` is defined on the observations (in the pipeline, with stations
for values), the limiter's callers are
finitely many, every number of observations up to the bound divides `Unit` (so that
ratios are exact), and commands, requests and answers are of their types.

- `LeaseTable_proofs`: `TypeCorrect`, `LeaseIsBounded`, `LiveLeaseIsKept`,
  `ScheduleIsGuarded`. The argument goes row by row: a lemma (`RowStep`) says what
  any step does to one row - claimed, refreshed, released or untouched - and each
  property follows from it. The type invariant with `LeaseBounded` is inductive.
- `IngestionIteration_proofs`: `TypeCorrect`, `Invariant`, `ObjectsAreCurrent`,
  `FeedbackIsTruthful`, `SchedulesStayAhead`, `StoredIsRescheduled`,
  `LoopsImplementTable`, `LoopsKeepLiveLeases`, `LoopsGuardSchedules`,
  `LoopsBoundLeases`. `ObjectsCurrent` is not inductive by itself. The invariant
  adds `ReadingsPast` (every reading that is still in use, of an open transaction or
  a commit under way, is from the past) and `SchedulesAhead`: a row is claimed only
  after its `next_run_at`, which lies more than `MaxLag` after its last run, so that
  the outcome of the new run is later than anything in the row. `StoredIsRescheduled`
  adds that the object of a stored station carries the mark as long as the list was
  not read again. The refinement maps each action to an operation of the table with
  the same statement; the feedback needs `ObjectsCurrent` to show that what it
  writes is one of the `Outcomes`. The last three are the theorems of
  `LeaseTable_proofs`, which the refinement carries over to the loops: what was shown
  for any clients of the store holds for these.
- `IngestionIteration_proofs`, second part, about `TimelyIteration`: `LeasesAreKept`,
  `InsertsAreExclusive`. The invariant (`Held`) says of each station that is
  worked on that its row is the worker's, its lease runs for at least `ClaimFor -
  MaxLag - BeatPeriod` more, and the heartbeat is alive, with the station in the list
  and among the ids of a refresh under way, whose reading of the time is recent; with
  `LeasesBounded`, no step can take such a row away. This is also what there is to say
  of a refresh that is executed late and sets a lease shorter than the one it finds.
- `IngestionIteration_proofs`, third part, about any loops: `OnlyLapsesLeaveRows`. It is
  about the behaviours in which one process, as long as it lives, lets no lease run out
  on a row it holds (`NeverLapses`); as a behaviour may stutter for ever, that is any
  behaviour up to the first lapse. All it holds is then of its batch, nothing is left
  when the feedback is written, no commit is late, and `get_claimed` returns rows of
  the batch. So only a lapse can leave a row behind, whatever readings lag and whatever
  heartbeats are late or fail. A lease that runs beyond the clock is live for any
  reading, so the feedback releases all that is held; the invariant (`Tidy`) adds
  that the rows of an open transaction of the heartbeat are held, so the feedback has
  waited for it, and a cancelled one has nothing left to renew.
- `IngestionIteration_proofs`, last part, about `IngestionPipeline`: `PipelineRunsLoops`,
  `PipelineUsesStore`, `RecordedIsStored`, `InsertsAreLeased`,
  `ObservationsAreStoredOnce`. The first two say that every step of the pipeline is a
  step of the loops or leaves them alone, and likewise of the store, so the theorems of
  both modules hold for it. The others need an invariant that ties the two together
  (`Called`): an insert is under way only while the iteration waits for it, it is of
  what was fetched for the stations of the list, and after it the observations of the
  stations known as stored are in the table. The last step to it is
  `AcknowledgedStored`, and that no step takes the last row of an observation away
  keeps it until the feedback; with `FeedbackTruthful` that is `RecordedStored`, which
  needs no timely heartbeat and no bound on the lag but the loops' own. With timely
  heartbeats, what is inserted is of the list, whose leases live (`KeepsLease`):
  that is `InsertsLeased`. And no insert begins beside another for the same station
  (`ExclusiveInsert`), so the hypothesis of `NoDuplicates` always holds, which leaves
  `StoredOnce`.
- `RateLimiter_proofs`: `TypeCorrect`, `SlotsAreSpaced`, `BudgetIsKept`,
  `DelayIsBounded`. The invariant of the second (`KeyOutlives`) says that the key, as
  long as it is there, holds a time one interval after the last slot, and that when it
  is gone that time is past. `BudgetKept` counts requests against time and says nothing
  of the callers that are still to send, so the invariant keeps a ledger (`Ledger`): at
  every time, the requests sent and the callers whose slot has come, less one per
  caller for each loss of the key, fit an interval apart before that time. A loss of
  the key begins a new schedule, whose slots may lie beside those of the callers that
  wait, and pays for them. `DelayBounded` rests on a chain (`Chained`): the slots to
  come, waited for or given up, follow the present and each other within the greatest
  interval, and the stored time follows the last of them.
- `ObservationStore_proofs`: `TypeCorrect`, `AcknowledgedIsStored`,
  `NoDuplicatesUnderLeases`. For the second the invariant (`Progress`) says that an
  observation of the batch is stored, or about to be, or still to be tried, or
  its station has an error. For the third (`EInv`): batches of two workers have
  no station in common, an observation without late rows is there at most once,
  and what a worker is about to insert is not there at all.
- `StationTasks_proofs`: `TypeCorrect`, `RowsInsertedOnce`,
  `TasksImplementRegistry`. The invariant says that what open transactions have
  inserted is disjoint and not committed, that the state rows to be committed are
  those of the inserted stations, that stations and state rows agree, and that what
  a task is to add is, in each phase, committed, inserted by itself or still to do.
- `PgUnitOfWork_proofs`: `ConnectionsAreOwned`, `UnitsAreImplemented`. A step of one
  block leaves the others alone (`Elsewhere`), so both are shown for the block that
  moves. The invariant (`Good`) says that a transaction follows its connection as
  long as it may still commit, that only an open one has a COMMIT under way, that a
  `_finish` without an exception that only has to close has committed, and that
  nothing is at work in a process that is down.
- `ClickHouseMigrations_proofs`: `TypeCorrect`, `RecordedIsApplied`,
  `StatsStayReadable`, `SuccessIsExact`, `OnlyTornIsRejected`. With upgrades alone an
  object's version never goes back, and a migrator has applied the effects of its
  file up to its place: at least the schema of the file before, and the first of its
  statements once one is done. For the last two, with discipline, the schema is
  always that after a number of statements of one file, the one under way or the one
  that was cut off last; no other command is at work, and the newest rows that share
  a timestamp agree with it. A command that comes back to a cut-off file succeeds if
  each of its statements can be repeated there, which is decided file by file.
- `StationStats_proofs`: `TypeCorrect`, `ScoresAreCalibrated`, `EvidenceIsCounted`,
  `LongerQueuesCost`, `MapIsTruthful`. The last holds for any hours and any order of
  the rows: those of the query have different stations, for the view groups by station
  and hour and the hour is fixed, so the dictionary keeps all of them. The score is one of eight counts (`Raw`), and
  what one more observation does to the counts (`CountMore`) is shown apart from what
  the counts do to the score (`RawEnds`, `RawQueues`, `RawFuel`, `RawNoFuel`). The
  ratios move against each other: an observation of fuel without a queue lowers the
  probability of a queue and raises the coverage that multiplies it. But the coverage
  times the average severity is the severity per observation with fuel (`QueueTerm`),
  and the cost of unknown queues is the share of observations with fuel and an
  unknown queue (`Uncertainty`), so each term moves one way. One does not: an
  observation without fuel, but with service, lowers the share of those without
  service. Where that outweighs the rest the sum is negative already and the clamp
  keeps the score at 0.

Only model-checked: the liveness properties (`IterationEnds`, `Reclaimed`,
`TasksEnd`, `Settled`; fairness and ENABLED are out of the prover's reach),
`ScriptsRead`, which is about a recursion over the text of the files, and `NoLeftover`
and `LeasedFromBatch`, which are for readings that do not lag. All other properties
of the runs that pass are theorems.

## 5. What is not modelled

- The rounding of floats in the score and the parsing of the texts of an observation
  into fuel, severity and service.
- A migration's statement that ClickHouse carries out after its client has given up.
- The thread of the worker's event loop and its stop (`runtime.py`): one call from a
  process's only task at a time, and at its end a loop whose tasks are dropped,
  which for a transaction is the death of the process. The start of the ASGI
  application.
- The row locks that blocks of `PgUnitOfWork` wait for; they are in `IngestionIteration`
  and `StationTasks`.
- Row-lock deadlocks between a refresh and a feedback (`state.py:109`): an aborted
  refresh is `HbFails`, an aborted feedback `Crash`, so their consequences are
  covered, their possibility is not examined.
- Admin pages, authentication, configuration, wiring and logging keep no state of
  their own. The Postgres schema is declarative; its migrations run under
  Alembic, in one transaction.

## 6. Plan

In the order of their weight:

1. `LeaseLocks`: the row locks of `refresh_lease` and `update_claimed_states` in
   their orders.
2. `WorkerRuntime`: the event loop thread of a Celery worker, start, use, stop.
3. Postgres migration 006, which fills the state rows of the stations that are there
   while tasks may add others.
4. A smaller model of the claims alone, with several due rows and a long time, for the
   question whether the order of the claim starves a row.
