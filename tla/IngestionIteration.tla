-------------------------- MODULE IngestionIteration --------------------------
(***************************************************************************)
(* The ingestion loops: each owner is one process that repeats             *)
(* RunIngestionIterationUC.run - claim a batch, fetch it, insert what was    *)
(* fetched, write the feedback - while a second task of the same event loop, *)
(* the heartbeat, refreshes the leases.  The two tasks share                *)
(* _HeartbeatContext, and every await is a point where the other task, the   *)
(* other processes and the time go on; so an action here is the code from    *)
(* one await that matters to the next.                                      *)
(*                                                                         *)
(* What feedback writes is taken from the objects claim_states returned.     *)
(* get_claimed builds new objects for the same rows, so which of the two      *)
(* the list leased_states holds is part of the state (the field fresh).       *)
(*                                                                         *)
(* A transaction of one statement is one action.  The heartbeat's second      *)
(* transaction form, refresh_lease followed by get_claimed, is two: between   *)
(* them its rows are locked and their new lease is not yet visible.  And      *)
(* since PgUnitOfWork shields its commit, a commit under way when the task    *)
(* is cancelled is carried out later, when the iteration may be over.        *)
(***************************************************************************)
EXTENDS StateRepository

CONSTANTS
  MaxTime,         \* bound on the clock
  MaxFaults        \* bound on the number of crashes and heartbeat errors

ASSUME IterationAssumption ==
  /\ MaxLag < FetchInterval /\ MaxLag < ErrorInterval
  /\ MaxTime \in Nat
  /\ MaxFaults \in Nat

VARIABLES
  clock,      \* the most advanced of the hosts' clocks
  row,        \* ingestion_pipeline_states
  pc,         \* owner -> where the iteration is
  obj,        \* owner -> the objects `stations`: station -> schedule fields
  failed,     \* owner -> while it fetches, the stations whose fetch has failed
  leased,     \* owner -> hb_ctx.leased_states: ids, and whether the objects are new
  status,     \* owner -> hb_ctx.status
  inserting,  \* owner -> the list _insert_observations was called with
  stored,     \* owner -> stations whose observations are known to be stored
  hb,         \* owner -> the heartbeat task
  late,       \* owner -> commits of cancelled heartbeat tasks, still under way
  faults      \* crashes and heartbeat errors so far

vars == <<clock, row, pc, obj, failed, leased, status, inserting, stored, hb, late, faults>>
taskVars == <<obj, failed, inserting, stored>>

-----------------------------------------------------------------------------
\* A list of states: the stations in it, and whether its objects are new ones.
StateList(ids, fresh) == [ids |-> ids, fresh |-> fresh]
NoStates == StateList({}, FALSE)

\* The heartbeat task: the ids given to refresh_lease, or refreshed by the open
\* transaction, and the reading that transaction was given.
Task(at, ids, now) == [pc |-> at, ids |-> ids, now |-> now]
NoTask == Task("off", {}, 0)

NoObjects == [s \in {} |-> Processed(0)]

Batch(w) == DOMAIN obj[w]

\* A commit of refreshed rows that no task waits for.
Commit(ids, now) == [ids |-> ids, now |-> now]

\* Rows refreshed by a transaction that is still open.
LateRows(w) == UNION {c.ids : c \in late[w]}
LockedBy(w) == LateRows(w) \cup (IF hb[w].pc = "rereading" THEN hb[w].ids ELSE {})
LockedRows == UNION {LockedBy(w) : w \in Owners}

Init ==
  /\ clock = 0
  /\ row = [s \in Stations |-> FromStation(0)]
  /\ pc = [w \in Owners |-> "idle"]
  /\ obj = [w \in Owners |-> NoObjects]
  /\ failed = [w \in Owners |-> {}]
  /\ leased = [w \in Owners |-> NoStates]
  /\ status = [w \in Owners |-> "completed"]
  /\ inserting = [w \in Owners |-> NoStates]
  /\ stored = [w \in Owners |-> {}]
  /\ hb = [w \in Owners |-> NoTask]
  /\ late = [w \in Owners |-> {}]
  /\ faults = 0

-----------------------------------------------------------------------------
(* The iteration *)

\* _claim_states and the start of _run_heartbeat_loop.  SKIP LOCKED skips the
\* rows of any open transaction, those of statements that are one action here
\* included: hence any set that contains LockedRows.
ClaimWith(w, skipped) ==
  /\ pc[w] = "idle"
  /\ \E now \in Readings(clock) :
       \E S \in Picks(row, skipped, now) \ {{}} :
         /\ row' = Claimed(row, S, w, now)
         /\ obj' = [obj EXCEPT ![w] = [s \in S |-> row[s].schedule]]
         /\ leased' = [leased EXCEPT ![w] = StateList(S, FALSE)]
  /\ pc' = [pc EXCEPT ![w] = "fetching"]
  /\ status' = [status EXCEPT ![w] = "running"]
  /\ hb' = [hb EXCEPT ![w] = Task("waiting", {}, 0)]
  /\ UNCHANGED <<clock, failed, inserting, stored, late, faults>>

ClaimStates(w) ==
  \E skipped \in SUBSET Stations : LockedRows \subseteq skipped /\ ClaimWith(w, skipped)

\* A claim that picks no row: run returns False, the loop sleeps and tries again.
ClaimNothing(w) ==
  /\ pc[w] = "idle"
  /\ \E now \in Readings(clock) : {} \in Picks(row, LockedRows, now)
  /\ UNCHANGED vars

\* _fetch_one, the except branch: the original object is marked.
FetchFails(w) ==
  /\ pc[w] = "fetching"
  /\ \E s \in Batch(w) \ failed[w], now \in Readings(clock) :
       /\ obj' = [obj EXCEPT ![w] = [@ EXCEPT ![s] = Failed(now)]]
       /\ failed' = [failed EXCEPT ![w] = @ \cup {s}]
  /\ UNCHANGED <<clock, row, pc, leased, status, inserting, stored, hb, late, faults>>

\* The fetches of the other stations have returned: gather ends, retain_active
\* filters leased_states, and unless the context is exhausted
\* _insert_observations is called with that list.
FetchDone(w) ==
  /\ pc[w] = "fetching"
  /\ LET kept == StateList(leased[w].ids \cap (Batch(w) \ failed[w]), leased[w].fresh)
         exhausted == status[w] = "error" \/ kept.ids = {}
     IN  /\ leased' = [leased EXCEPT ![w] = kept]
         /\ IF exhausted
              THEN /\ pc' = [pc EXCEPT ![w] = "updating"]
                   /\ UNCHANGED inserting
              ELSE /\ pc' = [pc EXCEPT ![w] = "inserting"]
                   /\ inserting' = [inserting EXCEPT ![w] = kept]
  /\ failed' = [failed EXCEPT ![w] = {}]
  /\ UNCHANGED <<clock, row, obj, status, stored, hb, late, faults>>

\* Mutants of Marked: a failed insert is not told apart; only errors are marked.
MarkedAll(w, good, bad, now) ==
  [s \in Batch(w) |-> IF s \in good \cup bad THEN Processed(now) ELSE obj[w][s]]
MarkedErrors(w, good, bad, now) ==
  [s \in Batch(w) |-> IF s \in bad THEN Failed(now) ELSE obj[w][s]]

\* The marks of the end of _insert_observations, with `good` and `bad` stations.
Marked(w, good, bad, now) ==
  [s \in Batch(w) |-> IF s \in bad THEN Failed(now)
                      ELSE IF s \in good THEN Processed(now)
                      ELSE obj[w][s]]

\* The end of _insert_observations: for the stations in bad some observation
\* failed both in the bulk insert and alone.  The marks go to the objects of
\* the list; new objects are not those the feedback writes.
InsertObservations(w) ==
  /\ pc[w] = "inserting"
  /\ \E bad \in SUBSET inserting[w].ids, now \in Readings(clock) :
       LET good == inserting[w].ids \ bad IN
         /\ stored' = [stored EXCEPT ![w] = good]
         /\ obj' = IF inserting[w].fresh THEN obj
                   ELSE [obj EXCEPT ![w] = Marked(w, good, bad, now)]
  /\ pc' = [pc EXCEPT ![w] = "updating"]
  /\ UNCHANGED <<clock, row, failed, leased, status, inserting, hb, late, faults>>

\* The iteration's own variables, which nothing reads after the feedback.
ForgetBatch(w) ==
  /\ obj' = [obj EXCEPT ![w] = NoObjects]
  /\ failed' = [failed EXCEPT ![w] = {}]
  /\ inserting' = [inserting EXCEPT ![w] = NoStates]
  /\ stored' = [stored EXCEPT ![w] = {}]

\* The heartbeat's task and context.
ForgetHeartbeat(w) ==
  /\ leased' = [leased EXCEPT ![w] = NoStates]
  /\ status' = [status EXCEPT ![w] = "completed"]
  /\ hb' = [hb EXCEPT ![w] = NoTask]

\* Mutants of Feedback: for the stations in leased_states only; without the
\* guard on owner and lease.
FeedbackOfLeased(w) ==
  /\ pc[w] = "updating"
  /\ \E now \in Readings(clock) :
       /\ LockedBy(w) \cap Batch(w) \cap Owned(row, w, now) = {}
       /\ row' = Released(row, [s \in Batch(w) \cap leased[w].ids |-> obj[w][s]], w, now)
  /\ pc' = [pc EXCEPT ![w] = "stopping"]
  /\ ForgetBatch(w)
  /\ UNCHANGED <<clock, leased, status, hb, late, faults>>
FeedbackUnguarded(w) ==
  /\ pc[w] = "updating"
  /\ row' = ReleasedUnguarded(row, obj[w], w, clock)
  /\ pc' = [pc EXCEPT ![w] = "stopping"]
  /\ ForgetBatch(w)
  /\ UNCHANGED <<clock, leased, status, hb, late, faults>>

\* The feedback transaction.  It waits for the lock on a row only if the row
\* matches its guard: the locks are those of the heartbeat's transactions.
Feedback(w) ==
  /\ pc[w] = "updating"
  /\ \E now \in Readings(clock) :
       /\ LockedBy(w) \cap Batch(w) \cap Owned(row, w, now) = {}
       /\ row' = Released(row, obj[w], w, now)
  /\ pc' = [pc EXCEPT ![w] = "stopping"]
  /\ ForgetBatch(w)
  /\ UNCHANGED <<clock, leased, status, hb, late, faults>>

\* Mutant of Stop: the heartbeat task is not cancelled.
StopUncancelled(w) ==
  /\ pc[w] = "stopping"
  /\ pc' = [pc EXCEPT ![w] = "idle"]
  /\ UNCHANGED <<clock, row, faults, taskVars, leased, status, hb, late>>

\* The transaction the heartbeat task of w may be about to commit.
Committing(w) ==
  CASE hb[w].pc = "rereading"  -> {Commit(hb[w].ids, hb[w].now)}
    [] hb[w].pc = "refreshing" ->
         {Commit(hb[w].ids \cap Owned(row, w, now), now) : now \in Readings(clock)}
    [] OTHER -> {}

\* The exit of _run_heartbeat_loop: the task is cancelled, which rolls back its
\* transaction unless the commit is under way, and run returns.
Stop(w) ==
  /\ pc[w] = "stopping"
  /\ pc' = [pc EXCEPT ![w] = "idle"]
  /\ ForgetHeartbeat(w)
  /\ \/ UNCHANGED late
     \/ \E c \in Committing(w) :
          /\ c.ids # {}
          /\ late' = [late EXCEPT ![w] = @ \cup {c}]
  /\ UNCHANGED <<clock, row, faults, taskVars>>

\* The shielded commit of a cancelled heartbeat task.
LateCommit(w) ==
  \E c \in late[w] :
    /\ row' = Refreshed(row, c.ids, w, c.now)
    /\ late' = [late EXCEPT ![w] = @ \ {c}]
    /\ UNCHANGED <<clock, pc, leased, status, hb, faults, taskVars>>

-----------------------------------------------------------------------------
(* The heartbeat task *)

\* The call of refresh_lease, at once after the claim and then after each
\* sleep, however long it takes: the ids are those of leased_states now.
HbSend(w) ==
  /\ hb[w].pc = "waiting"
  /\ hb' = [hb EXCEPT ![w] = Task("refreshing", leased[w].ids, 0)]
  /\ UNCHANGED <<clock, row, pc, leased, status, late, faults, taskVars>>

\* refresh_lease is executed and its count compared with the length of
\* leased_states, which the iteration may have filtered in the meantime.  It
\* waits for the commit of an earlier task on one of its rows.
HbRefresh(w) ==
  /\ hb[w].pc = "refreshing"
  /\ \E now \in Readings(clock) :
       LET refreshed == hb[w].ids \cap Owned(row, w, now) IN
       /\ refreshed \cap LateRows(w) = {}
       /\ \/ /\ refreshed = {}
             /\ leased' = [leased EXCEPT ![w] = NoStates]
             /\ hb' = [hb EXCEPT ![w] = Task("ended", {}, 0)]
             /\ UNCHANGED row
          \/ /\ refreshed # {}
             /\ Cardinality(refreshed) = Cardinality(leased[w].ids)
             /\ row' = Refreshed(row, hb[w].ids, w, now)
             /\ hb' = [hb EXCEPT ![w] = Task("waiting", {}, 0)]
             /\ UNCHANGED leased
          \/ /\ refreshed # {}
             /\ Cardinality(refreshed) # Cardinality(leased[w].ids)
             /\ hb' = [hb EXCEPT ![w] = Task("rereading", refreshed, now)]
             /\ UNCHANGED <<row, leased>>
  /\ UNCHANGED <<clock, pc, status, late, faults, taskVars>>

\* Mutant of HbReread: the transaction is open for as long as the task runs.
HbRereadUncommitted(w) ==
  /\ hb[w].pc = "rereading"
  /\ leased' = [leased EXCEPT ![w] = StateList(hb[w].ids, TRUE)]
  /\ UNCHANGED <<clock, row, pc, status, hb, late, faults, taskVars>>

\* Mutant of Reread: get_claimed does not ask for a live lease.
RereadWithoutLease(w) ==
  {StateList(OwnedWithoutLease(Refreshed(row, hb[w].ids, w, hb[w].now), w, now), TRUE) :
     now \in Readings(clock)}

\* What get_claimed may return in the open transaction of w: new objects.
Reread(w) ==
  {StateList(Owned(Refreshed(row, hb[w].ids, w, hb[w].now), w, now), TRUE) :
     now \in Readings(clock)}

\* get_claimed in the open transaction, then its commit.
HbReread(w) ==
  /\ hb[w].pc = "rereading"
  /\ row' = Refreshed(row, hb[w].ids, w, hb[w].now)
  /\ \E list \in Reread(w) : leased' = [leased EXCEPT ![w] = list]
  /\ hb' = [hb EXCEPT ![w] = Task("waiting", {}, 0)]
  /\ UNCHANGED <<clock, pc, status, late, faults, taskVars>>

\* An exception in the heartbeat's transaction: it is rolled back, unless it
\* is the answer to the commit that is lost; leased_states may have been
\* replaced before.
HbFails(w) ==
  /\ faults < MaxFaults
  /\ \/ /\ hb[w].pc = "refreshing"
        /\ UNCHANGED leased
        /\ \/ UNCHANGED row
           \/ \E now \in Readings(clock) : row' = Refreshed(row, hb[w].ids, w, now)
     \/ /\ hb[w].pc = "rereading"
        /\ \/ UNCHANGED leased
           \/ \E list \in Reread(w) : leased' = [leased EXCEPT ![w] = list]
        /\ \/ UNCHANGED row
           \/ row' = Refreshed(row, hb[w].ids, w, hb[w].now)
  /\ status' = [status EXCEPT ![w] = "error"]
  /\ hb' = [hb EXCEPT ![w] = Task("ended", {}, 0)]
  /\ faults' = faults + 1
  /\ UNCHANGED <<clock, pc, late, taskVars>>

-----------------------------------------------------------------------------
(* The process and the time *)

\* The process dies (sys.exit after an error, or it is killed).  A process
\* that starts again is another owner, for its loop id is new.
Crash(w) ==
  /\ faults < MaxFaults
  /\ pc[w] # "dead"
  /\ pc' = [pc EXCEPT ![w] = "dead"]
  /\ ForgetBatch(w)
  /\ ForgetHeartbeat(w)
  /\ late' = [late EXCEPT ![w] = {}]
  /\ faults' = faults + 1
  /\ UNCHANGED <<clock, row>>

Tick ==
  /\ clock < MaxTime
  /\ clock' = clock + 1
  /\ UNCHANGED <<row, pc, leased, status, hb, late, faults, taskVars>>

Main(w) == ClaimStates(w) \/ ClaimNothing(w) \/ FetchFails(w) \/ FetchDone(w)
             \/ InsertObservations(w) \/ Feedback(w) \/ Stop(w)
Heartbeat(w) == HbSend(w) \/ HbRefresh(w) \/ HbReread(w) \/ HbFails(w) \/ LateCommit(w)

Next ==
  \/ \E w \in Owners : Main(w) \/ Heartbeat(w) \/ Crash(w)
  \/ Tick

Spec == Init /\ [][Next]_vars

\* What the runtime guarantees: time goes on; an idle loop polls, and a claim
\* that meets no lock takes the row it finds; an HTTP request ends (httpx times
\* out), a statement is answered or fails, and the event loop resumes a task
\* whose await is over.  Nothing is assumed of the sleep of the heartbeat.
Fairness ==
  /\ WF_vars(Tick)
  /\ \A w \in Owners :
       /\ WF_vars(ClaimWith(w, LockedRows))
       /\ WF_vars(FetchDone(w) \/ InsertObservations(w) \/ Feedback(w) \/ Stop(w))
       /\ WF_vars(HbRefresh(w) \/ HbReread(w))
       /\ WF_vars(LateCommit(w))

FairSpec == Spec /\ Fairness

-----------------------------------------------------------------------------
(* Properties *)

VariableTypes ==
  /\ clock \in 0..MaxTime
  /\ row \in [Stations -> Row]
  /\ pc \in [Owners -> {"idle", "fetching", "inserting", "updating", "stopping", "dead"}]
  /\ failed \in [Owners -> SUBSET Stations]
  /\ leased \in [Owners -> [ids : SUBSET Stations, fresh : BOOLEAN]]
  /\ status \in [Owners -> {"running", "completed", "error"}]
  /\ inserting \in [Owners -> [ids : SUBSET Stations, fresh : BOOLEAN]]
  /\ stored \in [Owners -> SUBSET Stations]
  /\ hb \in [Owners -> [pc : {"off", "waiting", "refreshing", "rereading", "ended"},
                        ids : SUBSET Stations, now : Nat]]
  /\ late \in [Owners -> SUBSET [ids : SUBSET Stations, now : Nat]]
  /\ faults \in 0..MaxFaults

ObjectTypes ==
  /\ DOMAIN obj = Owners
  /\ \A w \in Owners : Batch(w) \subseteq Stations /\ obj[w] \in [Batch(w) -> Schedule]

TasksEnded ==
  \A w \in Owners :
    /\ pc[w] \in {"idle", "dead"} => hb[w].pc = "off" /\ leased[w].ids = {}
    /\ pc[w] \in {"idle", "dead", "stopping"} => Batch(w) = {} /\ inserting[w].ids = {}

\* The types of the table and of the tasks' variables; a process that is idle
\* or dead has no heartbeat task, and after the feedback no objects.
TypeOK == VariableTypes /\ ObjectTypes /\ TasksEnded

\* Schedules only move forward: the next run of a row lies more than MaxLag
\* after its last one, and a row that is claimed was due.
SchedulesAhead ==
  \A s \in Stations : LET sched == row[s].schedule IN
    /\ sched.last_processed_at = MinTime \/ sched.last_processed_at + MaxLag < sched.next_run_at
    /\ row[s].claimed_by # NoOwner => sched.next_run_at <= clock

\* The worker's copy of a row is never stale while the process owns the row: it
\* holds the row's own schedule, or the outcome of a run that ended later - an
\* error, or a success whose observations are stored.  So a feedback whose guard
\* passes never undoes that of another worker, though claimed_by names a process
\* and not one of its iterations.
ObjectsCurrent ==
  \A w \in Owners : \A s \in Batch(w) :
    row[s].claimed_by = w =>
      \/ obj[w][s] = row[s].schedule
      \/ \E t \in 0..clock :
           /\ row[s].schedule.last_processed_at < t
           /\ \/ obj[w][s] = Failed(t)
              \/ /\ obj[w][s] = Processed(t)
                 /\ pc[w] = "updating" /\ s \in stored[w]

\* A row's schedule is written only by the process that holds the row, in its
\* feedback, and a row recorded as processed without error has all of its
\* fetched observations in ClickHouse - whatever leases were lost, heartbeats
\* failed or inserts failed on the way.
TruthfulStep ==
  \A s \in Stations :
    row'[s].schedule # row[s].schedule =>
      \E w \in Owners :
        /\ row[s].claimed_by = w
        /\ pc[w] = "updating"
        /\ ~row'[s].schedule.error => s \in stored[w]

FeedbackTruthful == [][TruthfulStep]_vars

\* The release by its feedback of a row whose observations w has stored.
ReleasesStored(w, s) ==
  /\ row[s].claimed_by = w /\ row'[s].claimed_by = NoOwner
  /\ s \in stored[w]

\* After successful ingestion of a still-owned station its schedule moves on -
\* as long as leased_states had not been read again before the insert.
RescheduledUnlessReread ==
  [][\A w \in Owners, s \in Stations :
       ReleasesStored(w, s) /\ ~inserting[w].fresh
         => /\ row[s].schedule.last_processed_at < row'[s].schedule.last_processed_at
            /\ row[s].schedule.next_run_at < row'[s].schedule.next_run_at
            /\ ~row'[s].schedule.error]_vars

\* docs/ingestion_loop.md, section [4]: after successful ingestion of
\* still-owned stations last_fetched_at and next_fetch_at are updated.
Rescheduled ==
  [][\A w \in Owners, s \in Stations :
       ReleasesStored(w, s) => row'[s].schedule # row[s].schedule]_vars

\* An iteration that has claimed rows comes to its end, unless its process
\* dies: the feedback never waits for ever for its own heartbeat's row locks.
IterationEnds ==
  \A w \in Owners : pc[w] = "fetching" ~> pc[w] \in {"idle", "dead"}

\* A row held by a process that died is claimed by a living one once its lease
\* has run out, if that is within the bound on the clock.
Reclaimed ==
  \A s \in Stations :
    (\E w \in Owners : row[s].claimed_by = w /\ pc[w] = "dead" /\ row[s].lease_until <= MaxTime)
      ~> (\A w \in Owners : row[s].claimed_by = w => pc[w] # "dead")

\* A living process lets no lease run out on a row that it holds.
NeverLapses(w) ==
  pc[w] # "dead" => \A s \in Stations : row[s].claimed_by = w => row[s].lease_until > clock

\* What a living process holds is of the batch it works on - nothing, once its
\* feedback is written - and so is what get_claimed has given it; and no commit is
\* under way that could renew a lease after the feedback.
HoldsBatchOnly(w) ==
  pc[w] # "dead" =>
    /\ \A s \in Stations : row[s].claimed_by = w => s \in Batch(w)
    /\ leased[w].ids \subseteq Batch(w) \/ pc[w] = "stopping"
    /\ late[w] = {}

\* The state store's own specification: every step of the loops is one of its
\* operations, with the trust it puts in their feedback justified.
Table == INSTANCE LeaseTable
ImplementsTable == Table!TableSpec
=============================================================================
