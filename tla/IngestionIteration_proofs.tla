----------------------- MODULE IngestionIteration_proofs -----------------------
(***************************************************************************)
(* Proofs about the ingestion loops, for any number of processes, stations   *)
(* and faults.  The inductive invariant says of each worker's objects how     *)
(* they relate to the rows the worker still owns; with it every step of the   *)
(* loops is a step of the state store's specification LeaseTable, so that what  *)
(* is proved of the store holds for them.                                    *)
(*                                                                         *)
(* The second part is about the loops with timely heartbeats                  *)
(* (TimelyIteration): the leases last as long as the work on their stations.   *)
(* Only there is BeatAssumption used, and for what follows from it in the last *)
(* part.  The third says what an iteration leaves behind: with the lemmas of   *)
(* the second, but without its assumption.                                   *)
(*                                                                         *)
(* The last part puts the loops on top of the observation store               *)
(* (IngestionPipeline): a step of the whole is a step of either, or leaves it   *)
(* alone, so what is proved of each holds, and together it says what neither    *)
(* can say alone.                                                            *)
(***************************************************************************)
EXTENDS IngestionPipeline, TLAPS

\* A refresh that is committed late was given a reading from the past.
ReadingsPast ==
  \A w \in Owners : hb[w].now <= clock /\ \A c \in late[w] : c.now <= clock

IInv == TypeOK /\ ReadingsPast /\ SchedulesAhead /\ ObjectsCurrent

-----------------------------------------------------------------------------
(* The operators of the state store *)

\* A reading of the time lies at most MaxLag behind the clock (now_utc).
LEMMA ReadingsRange ==
  ASSUME NEW c \in Nat, NEW now \in Readings(c)
  PROVE  now \in Nat /\ now <= c /\ c - now <= MaxLag
  BY DEF Readings

\* What update_process_info and mark_process_error write has the column types.
LEMMA OutcomeType ==
  ASSUME NEW t \in Int
  PROVE  Processed(t) \in Schedule /\ Failed(t) \in Schedule
  BY ConstantsAssumption DEF Processed, Failed, Schedule

\* claim_states picks only rows that exist, are due and are not leased.
LEMMA PicksClaimable ==
  ASSUME NEW table, NEW locked, NEW now, NEW S \in Picks(table, locked, now)
  PROVE  /\ S \subseteq DOMAIN table
         /\ \A s \in S : table[s].schedule.next_run_at <= now /\ Unleased(table[s], now)
  BY DEF Picks, Claimable

\* The UPDATE of claim_states keeps the types of the rows.
LEMMA ClaimedType ==
  ASSUME NEW table \in [Stations -> Row], NEW S, NEW w \in Owners, NEW now \in Nat
  PROVE  Claimed(table, S, w, now) \in [Stations -> Row]
  BY ConstantsAssumption DEF Claimed, Row

\* refresh_lease keeps the types, and touches neither owner nor schedule.
LEMMA RefreshedType ==
  ASSUME NEW table \in [Stations -> Row], NEW ids, NEW w, NEW now \in Nat
  PROVE  /\ Refreshed(table, ids, w, now) \in [Stations -> Row]
         /\ \A s \in Stations :
              /\ Refreshed(table, ids, w, now)[s].claimed_by = table[s].claimed_by
              /\ Refreshed(table, ids, w, now)[s].schedule = table[s].schedule
<1> DEFINE new == Refreshed(table, ids, w, now)
<1>1. ASSUME NEW s \in Stations
      PROVE  /\ new[s] \in Row
             /\ new[s].claimed_by = table[s].claimed_by
             /\ new[s].schedule = table[s].schedule
  BY ConstantsAssumption DEF Refreshed, Row
<1>2. new = [s \in Stations |-> new[s]]
  BY DEF Refreshed
<1> QED
  BY <1>1, <1>2

\* update_claimed_states keeps the types of the rows.
LEMMA ReleasedType ==
  ASSUME NEW table \in [Stations -> Row], NEW w, NEW now,
         NEW objects, \A s \in DOMAIN objects : objects[s] \in Schedule
  PROVE  Released(table, objects, w, now) \in [Stations -> Row]
  BY DEF Released, Row, NoLease

-----------------------------------------------------------------------------
(* Types *)

\* After the feedback an iteration has no objects.
LEMMA NoObjectsType == DOMAIN NoObjects = {} /\ NoObjects \in [{} -> Schedule]
  BY DEF NoObjects

\* The initial state has the types.
LEMMA TypeInit == Init => TypeOK
<1> SUFFICES ASSUME Init PROVE TypeOK
  OBVIOUS
<1> USE ConstantsAssumption, IterationAssumption DEF Init
<1>1. \A s \in Stations : row[s] = FromStation(0)
  OBVIOUS
<1>2. FromStation(0) \in Row
  BY DEF FromStation, Row, Schedule, NoLease, MinTime
<1>3. VariableTypes
  BY <1>1, <1>2 DEF VariableTypes, NoStates, StateList, NoTask, Task
<1>4. ObjectTypes
  BY NoObjectsType DEF ObjectTypes, Batch
<1>5. TasksEnded
  BY NoObjectsType DEF TasksEnded, NoStates, StateList, NoTask, Task, Batch
<1> QED
  BY <1>3, <1>4, <1>5 DEF TypeOK

\* An assignment keeps the type of a variable that has one value per process.
LEMMA AssignType ==
  ASSUME NEW T, NEW f \in [Owners -> T], NEW w \in Owners, NEW v \in T
  PROVE  [f EXCEPT ![w] = v] \in [Owners -> T]
  OBVIOUS

StateLists == [ids : SUBSET Stations, fresh : BOOLEAN]
Tasks == [pc : {"off", "waiting", "refreshing", "rereading", "ended"},
          ids : SUBSET Stations, now : Nat]
Commits == [ids : SUBSET Stations, now : Nat]

\* A commit that outlives its heartbeat task has its type.
LEMMA CommittingType ==
  ASSUME VariableTypes, NEW w \in Owners, NEW c \in Committing(w)
  PROVE  c \in Commits
<1>1. clock \in Nat /\ hb[w] \in Tasks
  BY IterationAssumption DEF VariableTypes, Tasks
<1>2. CASE hb[w].pc = "rereading"
  BY <1>1, <1>2 DEF Committing, Commit, Commits, Tasks
<1>3. CASE hb[w].pc = "refreshing"
  <2>1. PICK now \in Readings(clock) : c = Commit(hb[w].ids \cap Owned(row, w, now), now)
    BY <1>3 DEF Committing
  <2> QED
    BY <1>1, <2>1, ReadingsRange DEF Commit, Commits, Tasks
<1> QED
  BY <1>1, <1>2, <1>3 DEF Committing

\* What get_claimed returns is a list of states.
LEMMA RereadType ==
  ASSUME VariableTypes, NEW w \in Owners, NEW list \in Reread(w)
  PROVE  list \in StateLists
<1>1. PICK now \in Readings(clock) :
        list = StateList(Owned(Refreshed(row, hb[w].ids, w, hb[w].now), w, now), TRUE)
  BY DEF Reread
<1>2. DOMAIN Refreshed(row, hb[w].ids, w, hb[w].now) = Stations
  BY DEF Refreshed, VariableTypes
<1> QED
  BY <1>1, <1>2 DEF Owned, StateList, StateLists

\* Every step of the loops keeps the types: one step per action.
LEMMA TypeStep == TypeOK /\ [Next]_vars => TypeOK'
<1> SUFFICES ASSUME VariableTypes, ObjectTypes, TasksEnded, [Next]_vars
             PROVE  TypeOK'
  BY DEF TypeOK
<1> USE ConstantsAssumption, IterationAssumption
<1>0. clock \in Nat
  BY DEF VariableTypes
<1>1. ASSUME NEW w \in Owners, NEW skipped \in SUBSET Stations, ClaimWith(w, skipped)
      PROVE  TypeOK'
  <2>0. PICK now \in Readings(clock) :
          \E S \in Picks(row, skipped, now) \ {{}} :
             /\ row' = Claimed(row, S, w, now)
             /\ obj' = [obj EXCEPT ![w] = [s \in S |-> row[s].schedule]]
             /\ leased' = [leased EXCEPT ![w] = StateList(S, FALSE)]
    BY <1>1 DEF ClaimWith
  <2>1. PICK S \in Picks(row, skipped, now) \ {{}} :
             /\ row' = Claimed(row, S, w, now)
             /\ obj' = [obj EXCEPT ![w] = [s \in S |-> row[s].schedule]]
             /\ leased' = [leased EXCEPT ![w] = StateList(S, FALSE)]
    BY <2>0
  <2>2. S \subseteq Stations
    BY PicksClaimable DEF VariableTypes
  <2>3. row' \in [Stations -> Row]
    BY <2>1, <1>0, ReadingsRange, ClaimedType DEF VariableTypes
  <2>4. \A s \in S : row[s].schedule \in Schedule
    BY <2>2 DEF Row, VariableTypes
  <2>5. ObjectTypes'
    BY <2>1, <2>2, <2>4 DEF ObjectTypes, Batch
  <2>6. VariableTypes'
    BY <1>1, <2>1, <2>2, <2>3 DEF ClaimWith, VariableTypes, StateList, Task
  <2>7. TasksEnded'
    BY <1>1, <2>1 DEF ClaimWith, TasksEnded, VariableTypes, ObjectTypes, Batch, Task
  <2> QED
    BY <2>5, <2>6, <2>7 DEF TypeOK
<1>2. ASSUME NEW w \in Owners, FetchFails(w)
      PROVE  TypeOK'
  <2>1. PICK s \in Batch(w) \ failed[w], now \in Readings(clock) :
             /\ obj' = [obj EXCEPT ![w] = [@ EXCEPT ![s] = Failed(now)]]
             /\ failed' = [failed EXCEPT ![w] = @ \cup {s}]
    BY <1>2 DEF FetchFails
  <2>2. Failed(now) \in Schedule
    BY <1>0, ReadingsRange, OutcomeType
  <2>3. ObjectTypes' /\ \A v \in Owners : Batch(v)' = Batch(v)
    BY <2>1, <2>2 DEF ObjectTypes, Batch
  <2>4. VariableTypes'
    BY <1>2, <2>1 DEF FetchFails, VariableTypes, ObjectTypes
  <2>5. TasksEnded'
    BY <1>2, <2>3 DEF FetchFails, TasksEnded
  <2> QED
    BY <2>3, <2>4, <2>5 DEF TypeOK
<1>3. ASSUME NEW w \in Owners, FetchDone(w)
      PROVE  TypeOK'
  <2>1. ObjectTypes' /\ \A v \in Owners : Batch(v)' = Batch(v)
    BY <1>3 DEF FetchDone, ObjectTypes, Batch
  <2> DEFINE kept == StateList(leased[w].ids \cap (Batch(w) \ failed[w]), leased[w].fresh)
  <2>2. kept \in StateLists
    BY DEF VariableTypes, StateList, StateLists
  <2>3. leased' = [leased EXCEPT ![w] = kept]
    BY <1>3 DEF FetchDone
  <2>4. /\ pc' \in [Owners -> {"idle", "fetching", "inserting", "updating", "stopping", "dead"}]
        /\ inserting' = inserting \/ inserting' = [inserting EXCEPT ![w] = kept]
    BY <1>3 DEF FetchDone, VariableTypes
  <2>5. /\ leased' \in [Owners -> StateLists]
        /\ inserting' \in [Owners -> StateLists]
        /\ failed' \in [Owners -> SUBSET Stations]
    <3>1. leased \in [Owners -> StateLists] /\ inserting \in [Owners -> StateLists]
      BY DEF VariableTypes, StateLists
    <3>2. failed' \in [Owners -> SUBSET Stations]
      BY <1>3 DEF FetchDone, VariableTypes
    <3> QED
      BY <2>2, <2>3, <2>4, <3>1, <3>2, AssignType
  <2>7. VariableTypes'
    BY <1>3, <2>4, <2>5 DEF FetchDone, VariableTypes, StateLists
  <2>6. TasksEnded'
    BY <1>3, <2>1 DEF FetchDone, TasksEnded, VariableTypes
  <2> QED
    BY <2>1, <2>6, <2>7 DEF TypeOK
<1>4. ASSUME NEW w \in Owners, InsertObservations(w)
      PROVE  TypeOK'
  <2>1. PICK bad \in SUBSET inserting[w].ids, now \in Readings(clock) :
          /\ stored' = [stored EXCEPT ![w] = inserting[w].ids \ bad]
          /\ obj' = IF inserting[w].fresh THEN obj
                    ELSE [obj EXCEPT ![w] = Marked(w, inserting[w].ids \ bad, bad, now)]
    BY <1>4 DEF InsertObservations
  <2>2. Failed(now) \in Schedule /\ Processed(now) \in Schedule
    BY <1>0, ReadingsRange, OutcomeType
  <2>3. ObjectTypes' /\ \A v \in Owners : Batch(v)' = Batch(v)
    BY <2>1, <2>2 DEF Marked, ObjectTypes, Batch
  <2>4. VariableTypes'
    BY <1>4, <2>1 DEF InsertObservations, VariableTypes
  <2>5. TasksEnded'
    BY <1>4, <2>3 DEF InsertObservations, TasksEnded, VariableTypes
  <2> QED
    BY <2>3, <2>4, <2>5 DEF TypeOK
<1>5. ASSUME NEW w \in Owners, Feedback(w)
      PROVE  TypeOK'
  <2>1. PICK now \in Readings(clock) : row' = Released(row, obj[w], w, now)
    BY <1>5 DEF Feedback
  <2>2. row' \in [Stations -> Row]
    BY <2>1, ReleasedType DEF VariableTypes, ObjectTypes, Batch
  <2>3. ObjectTypes'
    BY <1>5, NoObjectsType DEF Feedback, ForgetBatch, ObjectTypes, Batch
  <2>4. VariableTypes'
    BY <1>5, <2>2 DEF Feedback, ForgetBatch, VariableTypes, NoStates, StateList
  <2>5. TasksEnded'
    BY <1>5, NoObjectsType
       DEF Feedback, ForgetBatch, TasksEnded, VariableTypes, ObjectTypes, Batch, NoStates, StateList
  <2> QED
    BY <2>3, <2>4, <2>5 DEF TypeOK
<1>6. ASSUME NEW w \in Owners, Stop(w)
      PROVE  TypeOK'
  <2>1. ObjectTypes' /\ \A v \in Owners : Batch(v)' = Batch(v)
    BY <1>6 DEF Stop, taskVars, ObjectTypes, Batch
  <2>2. late' \in [Owners -> SUBSET Commits]
    <3>1. late \in [Owners -> SUBSET Commits]
      BY DEF VariableTypes, Commits
    <3>2. CASE UNCHANGED late
      BY <3>1, <3>2
    <3>3. CASE \E c \in Committing(w) : late' = [late EXCEPT ![w] = @ \cup {c}]
      BY <3>1, <3>3, CommittingType
    <3> QED
      BY <1>6, <3>2, <3>3 DEF Stop
  <2>4. VariableTypes'
    BY <1>6, <2>2
       DEF Stop, ForgetHeartbeat, taskVars, VariableTypes, NoStates, StateList, NoTask, Task, Commits
  <2>3. TasksEnded'
    BY <1>6, <2>1
       DEF Stop, ForgetHeartbeat, taskVars, TasksEnded, VariableTypes, NoStates, StateList, NoTask, Task
  <2> QED
    BY <2>1, <2>3, <2>4 DEF TypeOK
<1>7. ASSUME NEW w \in Owners, HbSend(w)
      PROVE  TypeOK'
  <2>1. ObjectTypes' /\ \A v \in Owners : Batch(v)' = Batch(v)
    BY <1>7 DEF HbSend, taskVars, ObjectTypes, Batch
  <2>2. VariableTypes'
    BY <1>7 DEF HbSend, taskVars, VariableTypes, Task
  <2>3. TasksEnded'
    BY <1>7, <2>1 DEF HbSend, taskVars, TasksEnded, VariableTypes, Task
  <2> QED
    BY <2>1, <2>2, <2>3 DEF TypeOK
<1>8. ASSUME NEW w \in Owners, HbRefresh(w)
      PROVE  TypeOK'
  <2>1. ObjectTypes' /\ \A v \in Owners : Batch(v)' = Batch(v)
    BY <1>8 DEF HbRefresh, taskVars, ObjectTypes, Batch
  <2>2. row' \in [Stations -> Row]
    <3>1. row' = row \/ \E now \in Nat : row' = Refreshed(row, hb[w].ids, w, now)
      BY <1>0, <1>8, ReadingsRange DEF HbRefresh
    <3> QED
      BY <3>1, RefreshedType DEF VariableTypes
  <2>3. /\ NoStates \in StateLists
        /\ leased' = leased \/ leased' = [leased EXCEPT ![w] = NoStates]
    BY <1>8 DEF HbRefresh, NoStates, StateList, StateLists
  <2>4. PICK ids \in SUBSET Stations, now \in Nat, at \in {"waiting", "rereading", "ended"} :
          hb' = [hb EXCEPT ![w] = Task(at, ids, now)]
    BY <1>0, <1>8, ReadingsRange DEF HbRefresh, VariableTypes
  <2>5. /\ leased' \in [Owners -> StateLists]
        /\ hb' \in [Owners -> Tasks]
    <3>1. leased \in [Owners -> StateLists] /\ hb \in [Owners -> Tasks]
      BY DEF VariableTypes, StateLists, Tasks
    <3>2. hb'[w] \in Tasks /\ hb' = [hb EXCEPT ![w] = hb'[w]]
      BY <2>4, <3>1 DEF Task, Tasks
    <3> QED
      BY <2>3, <3>1, <3>2, AssignType
  <2>7. VariableTypes'
    BY <1>8, <2>2, <2>5 DEF HbRefresh, taskVars, VariableTypes, StateLists, Tasks
  <2>6. TasksEnded'
    BY <1>8, <2>1 DEF HbRefresh, taskVars, TasksEnded, VariableTypes
  <2> QED
    BY <2>1, <2>6, <2>7 DEF TypeOK
<1>9. ASSUME NEW w \in Owners, HbReread(w)
      PROVE  TypeOK'
  <2>1. ObjectTypes' /\ \A v \in Owners : Batch(v)' = Batch(v)
    BY <1>9 DEF HbReread, taskVars, ObjectTypes, Batch
  <2>2. row' \in [Stations -> Row]
    BY <1>9, RefreshedType DEF HbReread, VariableTypes
  <2>5. PICK list \in Reread(w) : leased' = [leased EXCEPT ![w] = list]
    BY <1>9 DEF HbReread
  <2>6. list \in StateLists
    BY RereadType
  <2>3. VariableTypes'
    BY <1>9, <2>2, <2>5, <2>6 DEF HbReread, taskVars, VariableTypes, Task, StateLists
  <2>4. TasksEnded'
    BY <1>9, <2>1 DEF HbReread, taskVars, TasksEnded, VariableTypes
  <2> QED
    BY <2>1, <2>3, <2>4 DEF TypeOK
<1>10. ASSUME NEW w \in Owners, HbFails(w)
      PROVE  TypeOK'
  <2>1. ObjectTypes' /\ \A v \in Owners : Batch(v)' = Batch(v)
    BY <1>10 DEF HbFails, taskVars, ObjectTypes, Batch
  <2>2. row' \in [Stations -> Row]
    <3>1. row' = row \/ \E now \in Nat : row' = Refreshed(row, hb[w].ids, w, now)
      BY <1>0, <1>10, ReadingsRange DEF HbFails, VariableTypes
    <3> QED
      BY <3>1, RefreshedType DEF VariableTypes
  <2>3. leased' = leased \/ \E list \in StateLists : leased' = [leased EXCEPT ![w] = list]
    BY <1>10, RereadType DEF HbFails
  <2>4. /\ hb' = [hb EXCEPT ![w] = Task("ended", {}, 0)]
        /\ status' = [status EXCEPT ![w] = "error"]
        /\ faults' \in 0..MaxFaults
        /\ UNCHANGED <<clock, pc, failed, inserting, stored, late>>
    BY <1>10 DEF HbFails, taskVars, VariableTypes
  <2>7. /\ leased' \in [Owners -> StateLists]
        /\ hb' \in [Owners -> Tasks]
    <3>1. leased \in [Owners -> StateLists] /\ hb \in [Owners -> Tasks]
      BY DEF VariableTypes, StateLists, Tasks
    <3>2. hb'[w] \in Tasks /\ hb' = [hb EXCEPT ![w] = hb'[w]]
      BY <2>4, <3>1 DEF Task, Tasks
    <3>3. leased' \in [Owners -> StateLists]
      BY <2>3, <3>1, AssignType
    <3>4. hb' \in [Owners -> Tasks]
      BY <3>1, <3>2, AssignType
    <3> QED
      BY <3>3, <3>4
  <2>6. VariableTypes'
    BY <2>2, <2>4, <2>7 DEF VariableTypes, StateLists, Tasks
  <2>5. TasksEnded'
    BY <1>10, <2>1 DEF HbFails, taskVars, TasksEnded, VariableTypes
  <2> QED
    BY <2>1, <2>6, <2>5 DEF TypeOK
<1>11. ASSUME NEW w \in Owners, Crash(w)
      PROVE  TypeOK'
  <2>1. ObjectTypes'
    BY <1>11, NoObjectsType DEF Crash, ForgetBatch, ObjectTypes, Batch
  <2>2. VariableTypes'
    BY <1>11 DEF Crash, ForgetBatch, ForgetHeartbeat, VariableTypes, NoStates, StateList, NoTask, Task
  <2>3. TasksEnded'
    BY <1>11, NoObjectsType
       DEF Crash, ForgetBatch, ForgetHeartbeat, TasksEnded, VariableTypes, ObjectTypes, Batch,
           NoStates, StateList, NoTask, Task
  <2> QED
    BY <2>1, <2>2, <2>3 DEF TypeOK
<1>12. CASE Tick
  <2>1. ObjectTypes' /\ TasksEnded'
    BY <1>12 DEF Tick, taskVars, ObjectTypes, TasksEnded, Batch
  <2>2. VariableTypes'
    BY <1>12 DEF Tick, taskVars, VariableTypes
  <2> QED
    BY <2>1, <2>2 DEF TypeOK
<1>13. CASE UNCHANGED vars
  BY <1>13 DEF vars, TypeOK, VariableTypes, ObjectTypes, TasksEnded, Batch
<1>14. ASSUME NEW w \in Owners, ClaimNothing(w)
      PROVE  TypeOK'
  BY <1>13, <1>14 DEF ClaimNothing
<1>15. ASSUME NEW w \in Owners, LateCommit(w)
       PROVE  TypeOK'
  <2>1. PICK c \in late[w] : /\ row' = Refreshed(row, c.ids, w, c.now)
                             /\ late' = [late EXCEPT ![w] = @ \ {c}]
                             /\ UNCHANGED <<clock, pc, leased, status, hb, faults, taskVars>>
    BY <1>15 DEF LateCommit
  <2>2. c \in Commits
    BY DEF VariableTypes, Commits
  <2>3. row' \in [Stations -> Row]
    BY <2>1, <2>2, RefreshedType DEF VariableTypes, Commits
  <2>4. VariableTypes'
    BY <2>1, <2>3 DEF taskVars, VariableTypes
  <2>5. ObjectTypes' /\ TasksEnded'
    BY <2>1 DEF taskVars, ObjectTypes, TasksEnded, Batch
  <2> QED
    BY <2>4, <2>5 DEF TypeOK
<1> QED
  BY <1>1, <1>2, <1>3, <1>4, <1>5, <1>6, <1>7, <1>8, <1>9, <1>10, <1>11, <1>12, <1>13, <1>14, <1>15
     DEF Next, Main, Heartbeat, ClaimStates

\* The variables of the loops and the table have their types.
THEOREM TypeCorrect == Spec => []TypeOK
  BY TypeInit, TypeStep, PTL DEF Spec

-----------------------------------------------------------------------------
(* The inductive invariant *)

\* A reading is after the last run of a row that is due.
LEMMA ReadingsLater ==
  ASSUME TypeOK, SchedulesAhead, NEW s \in Stations, row[s].claimed_by # NoOwner,
         NEW now \in Readings(clock)
  PROVE  row[s].schedule.last_processed_at < now
<1>1. clock \in Nat /\ row[s] \in Row
  BY IterationAssumption DEF TypeOK, VariableTypes
<1>2. row[s].schedule.last_processed_at \in Int /\ row[s].schedule.next_run_at \in Int
  BY <1>1 DEF Row, Schedule
<1>3. now \in Nat /\ clock - now <= MaxLag
  BY <1>1, ReadingsRange
<1> QED
  BY <1>1, <1>2, <1>3, ConstantsAssumption DEF SchedulesAhead, MinTime

\* What the objects are written back to is ahead of the time they were marked.
LEMMA OutcomeAhead ==
  ASSUME NEW t \in Nat, NEW sched \in {Processed(t), Failed(t)}
  PROVE  sched.last_processed_at = t /\ t + MaxLag < sched.next_run_at
  BY ConstantsAssumption, IterationAssumption DEF Processed, Failed

\* Steps that leave the rows' owners and schedules alone, and the objects of
\* every process that goes on with its batch.
LEMMA KeepCurrent ==
  ASSUME TypeOK, SchedulesAhead, ObjectsCurrent, clock' \in Nat, clock <= clock',
         \A s \in Stations : /\ row'[s].claimed_by = row[s].claimed_by
                             /\ row'[s].schedule = row[s].schedule,
         \A w \in Owners : \/ Batch(w)' = {}
                           \/ /\ obj'[w] = obj[w] /\ stored'[w] = stored[w]
                              /\ pc[w] = "updating" => pc'[w] = "updating"
  PROVE  SchedulesAhead' /\ ObjectsCurrent'
<1>1. clock \in Nat /\ \A s \in Stations : row[s].schedule.next_run_at \in Int
  BY IterationAssumption DEF TypeOK, VariableTypes, Row, Schedule
<1>2. SchedulesAhead'
  BY <1>1 DEF SchedulesAhead
<1>3. ASSUME NEW w \in Owners, NEW s \in Batch(w)', row'[s].claimed_by = w
      PROVE  \/ obj'[w][s] = row'[s].schedule
             \/ \E t \in 0..clock' :
                  /\ row'[s].schedule.last_processed_at < t
                  /\ \/ obj'[w][s] = Failed(t)
                     \/ /\ obj'[w][s] = Processed(t)
                        /\ pc'[w] = "updating" /\ s \in stored'[w]
  <2>1. /\ obj'[w] = obj[w] /\ stored'[w] = stored[w]
        /\ pc[w] = "updating" => pc'[w] = "updating"
    BY <1>3
  <2>2. s \in Batch(w) /\ s \in Stations
    BY <2>1 DEF Batch, TypeOK, ObjectTypes
  <2>3. 0..clock \subseteq 0..clock'
    BY <1>1
  <2> QED
    BY <1>3, <2>1, <2>2, <2>3 DEF ObjectsCurrent
<1> QED
  BY <1>2, <1>3 DEF ObjectsCurrent

\* What the heartbeat writes to the table, and what it leaves alone.
LEMMA HeartbeatWrites ==
  ASSUME TypeOK, ReadingsPast, NEW w \in Owners, Heartbeat(w)
  PROVE  /\ UNCHANGED <<clock, pc, obj, failed, inserting, stored>>
         /\ \/ row' = row
            \/ \E ids \in SUBSET Stations, now \in 0..clock : row' = Refreshed(row, ids, w, now)
<1> DEFINE Writes == \/ row' = row
                     \/ \E ids \in SUBSET Stations, now \in 0..clock :
                          row' = Refreshed(row, ids, w, now)
<1>0. /\ clock \in Nat /\ hb[w].ids \in SUBSET Stations /\ hb[w].now \in 0..clock
      /\ \A c \in late[w] : c.ids \in SUBSET Stations /\ c.now \in 0..clock
  BY IterationAssumption DEF TypeOK, VariableTypes, ReadingsPast
<1>1. Readings(clock) \subseteq 0..clock
  BY <1>0, ReadingsRange
<1>2. HbSend(w) => Writes
  BY DEF HbSend
<1>3. HbRefresh(w) => Writes
  BY <1>0, <1>1 DEF HbRefresh
<1>4. HbReread(w) => Writes
  BY <1>0 DEF HbReread
<1>5. HbFails(w) => Writes
  <2>1. HbFails(w) => \/ row' = row
                      \/ row' = Refreshed(row, hb[w].ids, w, hb[w].now)
                      \/ \E now \in Readings(clock) : row' = Refreshed(row, hb[w].ids, w, now)
    BY DEF HbFails
  <2> QED
    BY <1>0, <1>1, <2>1
<1>6. LateCommit(w) => Writes
  BY <1>0 DEF LateCommit
<1>7. UNCHANGED <<clock, pc, obj, failed, inserting, stored>>
  BY DEF Heartbeat, HbSend, HbRefresh, HbReread, HbFails, LateCommit, taskVars
<1> QED
  BY <1>2, <1>3, <1>4, <1>5, <1>6, <1>7 DEF Heartbeat

\* The initial state satisfies the inductive invariant.
LEMMA InvInit == Init => IInv
<1> SUFFICES ASSUME Init PROVE IInv
  OBVIOUS
<1> USE ConstantsAssumption, IterationAssumption DEF Init
<1>1. \A s \in Stations : row[s] = FromStation(0)
  OBVIOUS
<1>2. \A w \in Owners : Batch(w) = {}
  BY NoObjectsType DEF Batch
<1>3. ReadingsPast
  BY DEF ReadingsPast, NoTask, Task
<1>4. SchedulesAhead
  BY <1>1 DEF SchedulesAhead, FromStation
<1>5. ObjectsCurrent
  BY <1>2 DEF ObjectsCurrent
<1> QED
  BY <1>3, <1>4, <1>5, TypeInit DEF IInv

\* No refresh under way is ever given a reading from the future.
LEMMA ReadingsStep == IInv /\ [Next]_vars => ReadingsPast'
<1> SUFFICES ASSUME IInv, [Next]_vars
             PROVE  ReadingsPast'
  OBVIOUS
<1>0. /\ clock \in Nat /\ hb \in [Owners -> Tasks] /\ late \in [Owners -> SUBSET Commits]
      /\ ReadingsPast /\ VariableTypes /\ 0 \in 0..clock
  BY IterationAssumption DEF IInv, TypeOK, VariableTypes, Tasks, Commits
\* A step that leaves the clock alone, with a reading for the heartbeat task
\* and for each late commit.
<1>1. ASSUME NEW w \in Owners, UNCHANGED clock,
             \/ hb' = hb
             \/ \E at, ids : \E now \in 0..clock : hb' = [hb EXCEPT ![w] = Task(at, ids, now)],
             \/ late' = late
             \/ /\ \A v \in Owners \ {w} : late'[v] = late[v]
                /\ \A c \in late'[w] : c.now <= clock
      PROVE  ReadingsPast'
  <2>1. \A v \in Owners : hb'[v].now <= clock
    BY <1>0, <1>1 DEF ReadingsPast, Tasks, Task
  <2>2. \A v \in Owners : \A c \in late'[v] : c.now <= clock
    BY <1>0, <1>1 DEF ReadingsPast
  <2> QED
    BY <1>1, <2>1, <2>2 DEF ReadingsPast
<1>2. ASSUME NEW w \in Owners, HbRefresh(w)
      PROVE  ReadingsPast'
  <2>1. \E at, ids : \E now \in 0..clock : hb' = [hb EXCEPT ![w] = Task(at, ids, now)]
    BY <1>0, <1>2, ReadingsRange DEF HbRefresh
  <2> QED
    BY <1>1, <1>2, <2>1 DEF HbRefresh
<1>3. ASSUME NEW w \in Owners, HbSend(w) \/ HbReread(w) \/ HbFails(w)
      PROVE  ReadingsPast'
  <2>1. \E at, ids : \E now \in 0..clock : hb' = [hb EXCEPT ![w] = Task(at, ids, now)]
    BY <1>0, <1>3 DEF HbSend, HbReread, HbFails
  <2>2. UNCHANGED <<clock, late>>
    BY <1>3 DEF HbSend, HbReread, HbFails
  <2> QED
    BY <1>1, <2>1, <2>2
<1>4. ASSUME NEW w \in Owners, LateCommit(w)
      PROVE  ReadingsPast'
  <2>1. PICK c \in late[w] : late' = [late EXCEPT ![w] = late[w] \ {c}]
    BY <1>0, <1>4 DEF LateCommit
  <2>2. /\ \A v \in Owners \ {w} : late'[v] = late[v]
        /\ \A d \in late'[w] : d.now <= clock
    BY <1>0, <2>1 DEF ReadingsPast
  <2> QED
    BY <1>1, <1>4, <2>1, <2>2 DEF LateCommit
<1>5. ASSUME NEW w \in Owners, Stop(w)
      PROVE  ReadingsPast'
  <2>1. \E at, ids : \E now \in 0..clock : hb' = [hb EXCEPT ![w] = Task(at, ids, now)]
    <3>1. hb' = [hb EXCEPT ![w] = Task("off", {}, 0)]
      BY <1>5 DEF Stop, ForgetHeartbeat, NoTask
    <3> QED
      BY <1>0, <3>1
  <2>2. \A c \in Committing(w) : c.now <= clock
    BY <1>0, ReadingsRange DEF Committing, Commit, ReadingsPast
  <2>3. \/ late' = late
        \/ \E c \in Committing(w) : late' = [late EXCEPT ![w] = late[w] \cup {c}]
    BY <1>0, <1>5 DEF Stop
  <2>4. \/ late' = late
        \/ /\ \A v \in Owners \ {w} : late'[v] = late[v]
           /\ \A c \in late'[w] : c.now <= clock
    BY <1>0, <2>2, <2>3 DEF ReadingsPast
  <2> QED
    BY <1>1, <1>5, <2>1, <2>4 DEF Stop
<1>6. ASSUME NEW w \in Owners, Crash(w)
      PROVE  ReadingsPast'
  <2>1. \E at, ids : \E now \in 0..clock : hb' = [hb EXCEPT ![w] = Task(at, ids, now)]
    <3>1. hb' = [hb EXCEPT ![w] = Task("off", {}, 0)]
      BY <1>6 DEF Crash, ForgetHeartbeat, NoTask
    <3> QED
      BY <1>0, <3>1
  <2>2. /\ \A v \in Owners \ {w} : late'[v] = late[v]
        /\ \A c \in late'[w] : c.now <= clock
        /\ UNCHANGED clock
    BY <1>0, <1>6 DEF Crash
  <2> QED
    BY <1>1, <2>1, <2>2
<1>7. ASSUME NEW w \in Owners, ClaimStates(w)
      PROVE  ReadingsPast'
  <2>1. \E at, ids : \E now \in 0..clock : hb' = [hb EXCEPT ![w] = Task(at, ids, now)]
    <3>1. hb' = [hb EXCEPT ![w] = Task("waiting", {}, 0)]
      BY <1>7 DEF ClaimStates, ClaimWith
    <3> QED
      BY <1>0, <3>1
  <2> QED
    BY <1>1, <1>7, <2>1 DEF ClaimStates, ClaimWith
<1>8. ASSUME NEW w \in Owners, \/ ClaimNothing(w) \/ FetchFails(w) \/ FetchDone(w)
                               \/ InsertObservations(w) \/ Feedback(w)
      PROVE  ReadingsPast'
  BY <1>1, <1>8 DEF ClaimNothing, FetchFails, FetchDone, InsertObservations, Feedback, vars
<1>9. CASE Tick
  BY <1>0, <1>9 DEF Tick, ReadingsPast, Tasks, Commits
<1>10. CASE UNCHANGED vars
  BY <1>0, <1>10 DEF vars, ReadingsPast
<1> QED
  BY <1>2, <1>3, <1>4, <1>5, <1>6, <1>7, <1>8, <1>9, <1>10 DEF Next, Main, Heartbeat

\* Every step keeps the schedules ahead and the objects of the workers current:
\* the claims and the marks set them, the feedback drops them, nothing else
\* touches the schedule of a row that is owned.
LEMMA CurrentStep == IInv /\ [Next]_vars => SchedulesAhead' /\ ObjectsCurrent'
<1> SUFFICES ASSUME TypeOK, ReadingsPast, SchedulesAhead, ObjectsCurrent, [Next]_vars, TypeOK'
             PROVE  SchedulesAhead' /\ ObjectsCurrent'
  BY TypeStep DEF IInv
<1> USE ConstantsAssumption, IterationAssumption
<1> DEFINE Quiet == \A s \in Stations : /\ row'[s].claimed_by = row[s].claimed_by
                                        /\ row'[s].schedule = row[s].schedule
<1>0. clock \in Nat /\ row \in [Stations -> Row] /\ hb \in [Owners -> Tasks]
  BY DEF TypeOK, VariableTypes, Tasks
<1>1. ASSUME NEW w \in Owners, NEW skipped \in SUBSET Stations, ClaimWith(w, skipped)
      PROVE  SchedulesAhead' /\ ObjectsCurrent'
  <2>0. PICK now \in Readings(clock) :
          \E S \in Picks(row, skipped, now) \ {{}} :
             /\ row' = Claimed(row, S, w, now)
             /\ obj' = [obj EXCEPT ![w] = [s \in S |-> row[s].schedule]]
    BY <1>1 DEF ClaimWith
  <2>1. PICK S \in Picks(row, skipped, now) \ {{}} :
             /\ row' = Claimed(row, S, w, now)
             /\ obj' = [obj EXCEPT ![w] = [s \in S |-> row[s].schedule]]
    BY <2>0
  <2>2. /\ S \subseteq Stations
        /\ \A s \in S : row[s].schedule.next_run_at <= now
    BY <1>0, PicksClaimable
  <2>3. \A s \in Stations :
          /\ row'[s].schedule = row[s].schedule
          /\ s \in S => row'[s].claimed_by = w
          /\ s \notin S => row'[s] = row[s]
    BY <1>0, <2>1 DEF Claimed
  <2>4. SchedulesAhead'
    BY <1>0, <1>1, <2>2, <2>3, ReadingsRange DEF ClaimWith, SchedulesAhead, Row, Schedule
  <2>5. ASSUME NEW v \in Owners, NEW s \in Batch(v)', row'[s].claimed_by = v
        PROVE  \/ obj'[v][s] = row'[s].schedule
               \/ \E t \in 0..clock' :
                    /\ row'[s].schedule.last_processed_at < t
                    /\ \/ obj'[v][s] = Failed(t)
                       \/ /\ obj'[v][s] = Processed(t)
                          /\ pc'[v] = "updating" /\ s \in stored'[v]
    <3>1. CASE v = w
      BY <2>1, <2>2, <2>3, <3>1 DEF Batch, TypeOK, ObjectTypes
    <3>2. CASE v # w
      <4>1. obj'[v] = obj[v] /\ stored' = stored /\ pc'[v] = pc[v] /\ clock' = clock
        BY <1>1, <2>1, <3>2 DEF ClaimWith, TypeOK, ObjectTypes, VariableTypes
      <4>2. s \in Batch(v) /\ s \in Stations
        BY <4>1 DEF Batch, TypeOK, ObjectTypes
      <4>3. row'[s] = row[s]
        BY <2>3, <2>5, <3>2, <4>2
      <4> QED
        BY <2>5, <4>1, <4>2, <4>3 DEF ObjectsCurrent
    <3> QED
      BY <3>1, <3>2
  <2> QED
    BY <2>4, <2>5 DEF ObjectsCurrent
<1>2. ASSUME NEW w \in Owners, FetchFails(w)
      PROVE  SchedulesAhead' /\ ObjectsCurrent'
  <2>1. PICK f \in Batch(w) \ failed[w], now \in Readings(clock) :
             obj' = [obj EXCEPT ![w] = [@ EXCEPT ![f] = Failed(now)]]
    BY <1>2 DEF FetchFails
  <2>2. SchedulesAhead'
    BY <1>2 DEF FetchFails, SchedulesAhead
  <2>3. ASSUME NEW v \in Owners, NEW s \in Batch(v)', row'[s].claimed_by = v
        PROVE  \/ obj'[v][s] = row'[s].schedule
               \/ \E t \in 0..clock' :
                    /\ row'[s].schedule.last_processed_at < t
                    /\ \/ obj'[v][s] = Failed(t)
                       \/ /\ obj'[v][s] = Processed(t)
                          /\ pc'[v] = "updating" /\ s \in stored'[v]
    <3>1. s \in Batch(v) /\ s \in Stations /\ v # NoOwner
      BY <2>1 DEF Batch, TypeOK, ObjectTypes
    <3>2. UNCHANGED <<clock, row, pc, stored>>
      BY <1>2 DEF FetchFails
    <3>3. CASE v = w /\ s = f
      <4>1. obj'[v][s] = Failed(now)
        BY <2>1, <3>1, <3>3 DEF Batch, TypeOK, ObjectTypes
      <4>2. now \in 0..clock /\ row[s].schedule.last_processed_at < now
        BY <1>0, <2>3, <3>1, <3>2, ReadingsRange, ReadingsLater
      <4> QED
        BY <3>2, <4>1, <4>2
    <3>4. CASE ~(v = w /\ s = f)
      <4>1. obj'[v][s] = obj[v][s]
        BY <2>1, <3>1, <3>4 DEF Batch, TypeOK, ObjectTypes
      <4> QED
        BY <2>3, <3>1, <3>2, <4>1 DEF ObjectsCurrent
    <3> QED
      BY <3>3, <3>4
  <2> QED
    BY <2>2, <2>3 DEF ObjectsCurrent
<1>3. ASSUME NEW w \in Owners, InsertObservations(w)
      PROVE  SchedulesAhead' /\ ObjectsCurrent'
  <2>1. PICK bad \in SUBSET inserting[w].ids, now \in Readings(clock) :
          /\ stored' = [stored EXCEPT ![w] = inserting[w].ids \ bad]
          /\ obj' = IF inserting[w].fresh THEN obj
                    ELSE [obj EXCEPT ![w] = Marked(w, inserting[w].ids \ bad, bad, now)]
    BY <1>3 DEF InsertObservations
  <2>2. /\ UNCHANGED <<clock, row>>
        /\ pc[w] = "inserting" /\ pc'[w] = "updating"
        /\ \A v \in Owners \ {w} : pc'[v] = pc[v] /\ stored'[v] = stored[v] /\ obj'[v] = obj[v]
        /\ stored'[w] = inserting[w].ids \ bad
    BY <1>3, <2>1 DEF InsertObservations, TypeOK, VariableTypes, ObjectTypes
  <2>3. SchedulesAhead'
    BY <2>2 DEF SchedulesAhead
  <2>4. ASSUME NEW v \in Owners, NEW s \in Batch(v)', row'[s].claimed_by = v
        PROVE  \/ obj'[v][s] = row'[s].schedule
               \/ \E t \in 0..clock' :
                    /\ row'[s].schedule.last_processed_at < t
                    /\ \/ obj'[v][s] = Failed(t)
                       \/ /\ obj'[v][s] = Processed(t)
                          /\ pc'[v] = "updating" /\ s \in stored'[v]
    <3>1. s \in Batch(v) /\ s \in Stations /\ v # NoOwner
      BY <2>1 DEF Marked, Batch, TypeOK, ObjectTypes
    <3>2. now \in 0..clock /\ row[s].schedule.last_processed_at < now
      BY <1>0, <2>2, <2>4, <3>1, ReadingsRange, ReadingsLater
    <3>3. CASE v # w \/ obj'[v][s] = obj[v][s]
      BY <2>2, <2>4, <3>1, <3>3 DEF ObjectsCurrent
    <3>4. CASE v = w /\ obj'[v][s] # obj[v][s]
      <4>1. \/ obj'[v][s] = Failed(now)
            \/ obj'[v][s] = Processed(now) /\ s \in stored'[v]
        BY <2>1, <2>2, <3>1, <3>4 DEF Marked, Batch, TypeOK, ObjectTypes
      <4> QED
        BY <2>2, <3>2, <3>4, <4>1
    <3> QED
      BY <3>3, <3>4
  <2> QED
    BY <2>3, <2>4 DEF ObjectsCurrent
<1>4. ASSUME NEW w \in Owners, Feedback(w)
      PROVE  SchedulesAhead' /\ ObjectsCurrent'
  <2>1. PICK now \in Readings(clock) : row' = Released(row, obj[w], w, now)
    BY <1>4 DEF Feedback
  <2> DEFINE Freed == Batch(w) \cap Owned(row, w, now)
  <2>2. \A s \in Stations :
          /\ s \in Freed => row[s].claimed_by = w /\ row'[s].claimed_by = NoOwner
                              /\ row'[s].schedule = obj[w][s]
          /\ s \notin Freed => row'[s] = row[s]
    BY <1>0, <2>1 DEF Released, Owned, Batch
  <2>4. ASSUME NEW s \in Freed
        PROVE  \/ row'[s].schedule = row[s].schedule
               \/ row'[s].schedule.last_processed_at + MaxLag < row'[s].schedule.next_run_at
    <3>1. s \in Stations
      BY DEF Batch, TypeOK, ObjectTypes
    <3>2. CASE obj[w][s] = row[s].schedule
      BY <2>2, <3>1, <3>2
    <3>3. CASE obj[w][s] # row[s].schedule
      <4>1. \E t \in 0..clock : obj[w][s] \in {Processed(t), Failed(t)}
        BY <2>2, <3>1, <3>3 DEF ObjectsCurrent
      <4>2. \E t \in Nat : obj[w][s] \in {Processed(t), Failed(t)}
        BY <4>1, <1>0
      <4> QED
        BY <2>2, <3>1, <4>2, OutcomeAhead
    <3> QED
      BY <3>2, <3>3
  <2>5. SchedulesAhead'
    BY <1>4, <2>2, <2>4 DEF SchedulesAhead, Feedback
  <2>6. /\ \A v \in Owners \ {w} : Batch(v)' = Batch(v) /\ obj'[v] = obj[v]
                                    /\ stored'[v] = stored[v] /\ pc'[v] = pc[v]
        /\ Batch(w)' = {}
        /\ UNCHANGED clock
    BY <1>4, NoObjectsType DEF Feedback, ForgetBatch, Batch, TypeOK, VariableTypes, ObjectTypes
  <2>7. ASSUME NEW v \in Owners, NEW s \in Batch(v)', row'[s].claimed_by = v
        PROVE  \/ obj'[v][s] = row'[s].schedule
               \/ \E t \in 0..clock' :
                    /\ row'[s].schedule.last_processed_at < t
                    /\ \/ obj'[v][s] = Failed(t)
                       \/ /\ obj'[v][s] = Processed(t)
                          /\ pc'[v] = "updating" /\ s \in stored'[v]
    <3>1. v # w /\ s \in Batch(v) /\ s \in Stations
      BY <2>6 DEF TypeOK, ObjectTypes
    <3>2. row'[s] = row[s]
      BY <2>2, <2>7, <3>1
    <3> QED
      BY <2>6, <2>7, <3>1, <3>2 DEF ObjectsCurrent
  <2> QED
    BY <2>5, <2>7 DEF ObjectsCurrent
<1>5. ASSUME NEW w \in Owners, FetchDone(w) \/ Stop(w) \/ Crash(w)
      PROVE  SchedulesAhead' /\ ObjectsCurrent'
  <2>1. UNCHANGED <<clock, row>>
    BY <1>5 DEF FetchDone, Stop, Crash
  <2>2. \A v \in Owners : \/ Batch(v)' = {}
                          \/ /\ obj'[v] = obj[v] /\ stored'[v] = stored[v]
                             /\ pc[v] = "updating" => pc'[v] = "updating"
    BY <1>5, NoObjectsType
       DEF FetchDone, Stop, Crash, ForgetBatch, taskVars, Batch, TypeOK, VariableTypes, ObjectTypes
  <2> QED
    BY <1>0, <2>1, <2>2, KeepCurrent
<1>6. ASSUME NEW w \in Owners, Heartbeat(w)
      PROVE  SchedulesAhead' /\ ObjectsCurrent'
  <2>1. UNCHANGED <<clock, pc, obj, stored>>
    BY <1>6, HeartbeatWrites
  <2>2. row' = row \/ \E ids \in SUBSET Stations, now \in Nat : row' = Refreshed(row, ids, w, now)
    BY <1>0, <1>6, HeartbeatWrites
  <2>3. Quiet
    BY <1>0, <2>2, RefreshedType
  <2> QED
    BY <1>0, <2>1, <2>3, KeepCurrent
<1>7. CASE Tick
  BY <1>0, <1>7, KeepCurrent DEF Tick, taskVars
<1>8. CASE UNCHANGED vars
  BY <1>0, <1>8, KeepCurrent DEF vars
<1>9. ASSUME NEW w \in Owners, ClaimNothing(w)
      PROVE  SchedulesAhead' /\ ObjectsCurrent'
  BY <1>8, <1>9 DEF ClaimNothing
<1> QED
  BY <1>1, <1>2, <1>3, <1>4, <1>5, <1>6, <1>7, <1>8, <1>9 DEF Next, Main, ClaimStates

\* The invariant is inductive.
LEMMA InvStep == IInv /\ [Next]_vars => IInv'
  BY TypeStep, ReadingsStep, CurrentStep DEF IInv

\* The inductive invariant of the loops: the types, schedules that move ahead,
\* and objects that are never stale for a row their worker still owns.
THEOREM Invariant == Spec => []IInv
  BY InvInit, InvStep, PTL DEF Spec

\* A worker's objects are never stale for a row it still owns.
THEOREM ObjectsAreCurrent == Spec => []ObjectsCurrent
<1>1. IInv => ObjectsCurrent
  BY DEF IInv
<1> QED
  BY <1>1, Invariant, PTL

\* Schedules only move forward, and what is claimed was due.
THEOREM SchedulesStayAhead == Spec => []SchedulesAhead
<1>1. IInv => SchedulesAhead
  BY DEF IInv
<1> QED
  BY <1>1, Invariant, PTL

-----------------------------------------------------------------------------
(* What the loops do to the schedules *)

\* A step that changes a schedule is the feedback of the row's owner, and what it
\* writes without an error mark it has stored.
LEMMA FeedbackStep == IInv /\ [Next]_vars => TruthfulStep
<1> SUFFICES ASSUME IInv, [Next]_vars, NEW s \in Stations,
                    row'[s].schedule # row[s].schedule
             PROVE  \E w \in Owners : /\ row[s].claimed_by = w
                                      /\ pc[w] = "updating"
                                      /\ ~row'[s].schedule.error => s \in stored[w]
  BY DEF TruthfulStep
<1>0. clock \in Nat /\ row \in [Stations -> Row] /\ hb \in [Owners -> Tasks] /\ ObjectsCurrent
  BY IterationAssumption DEF IInv, TypeOK, VariableTypes, Tasks
<1>1. ASSUME NEW w \in Owners, Feedback(w)
      PROVE  row[s].claimed_by = w /\ pc[w] = "updating" /\ (~row'[s].schedule.error => s \in stored[w])
  <2>1. PICK now \in Readings(clock) : row' = Released(row, obj[w], w, now)
    BY <1>1 DEF Feedback
  <2>2. s \in Batch(w) /\ row[s].claimed_by = w /\ row'[s].schedule = obj[w][s]
    BY <1>0, <2>1 DEF Released, Owned, Batch
  <2>3. PICK t \in 0..clock : \/ obj[w][s] = Failed(t)
                              \/ obj[w][s] = Processed(t) /\ s \in stored[w]
    BY <1>0, <2>2 DEF ObjectsCurrent
  <2> QED
    BY <1>1, <2>2, <2>3 DEF Feedback, Failed
<1>2. ASSUME NEW w \in Owners, NEW skipped \in SUBSET Stations, ClaimWith(w, skipped)
      PROVE  FALSE
  BY <1>0, <1>2 DEF ClaimWith, Claimed
<1>3. ASSUME NEW w \in Owners, Heartbeat(w)
      PROVE  FALSE
  <2>1. row' = row \/ \E ids \in SUBSET Stations, now \in Nat : row' = Refreshed(row, ids, w, now)
    BY <1>0, <1>3, HeartbeatWrites DEF IInv
  <2> QED
    BY <1>0, <2>1, RefreshedType
<1>4. ASSUME NEW w \in Owners, \/ FetchFails(w) \/ FetchDone(w) \/ InsertObservations(w)
                               \/ Stop(w) \/ Crash(w) \/ ClaimNothing(w)
      PROVE  FALSE
  BY <1>4 DEF FetchFails, FetchDone, InsertObservations, Stop, Crash, ClaimNothing, vars
<1>5. ~Tick /\ ~UNCHANGED vars
  BY DEF Tick, vars
<1> QED
  BY <1>1, <1>2, <1>3, <1>4, <1>5 DEF Next, Main, ClaimStates

\* A feedback records a success only for what is stored.
THEOREM FeedbackIsTruthful == Spec => FeedbackTruthful
  BY Invariant, FeedbackStep, PTL DEF Spec, FeedbackTruthful

-----------------------------------------------------------------------------
(* What is stored is rescheduled *)

\* Only between insert and feedback a worker knows of stations as stored.  If the
\* list of the insert held the claimed objects, those of the stored stations it
\* still owns are marked with a time that moves their rows forward.
StoredMarked ==
  \A w \in Owners :
    IF pc[w] = "updating"
      THEN ~inserting[w].fresh =>
             \A s \in Batch(w) : s \in stored[w] /\ row[s].claimed_by = w =>
               \E t \in 0..clock : /\ obj[w][s] = Processed(t)
                                  /\ row[s].schedule.last_processed_at < t
                                  /\ row[s].schedule.next_run_at < t + FetchInterval
      ELSE stored[w] = {}

\* Steps that leave the rows and the marks of every worker before its feedback alone.
LEMMA KeepMarked ==
  ASSUME TypeOK, StoredMarked, clock' \in Nat, clock <= clock',
         \A w \in Owners :
           \/ stored'[w] = {}
           \/ /\ pc[w] = "updating" /\ pc'[w] = "updating"
              /\ obj'[w] = obj[w] /\ stored'[w] = stored[w] /\ inserting'[w] = inserting[w],
         \A w \in Owners, s \in Stations :
           pc'[w] = "updating" /\ row'[s].claimed_by = w =>
             row[s].claimed_by = w /\ row'[s].schedule = row[s].schedule
  PROVE  StoredMarked'
<1> SUFFICES ASSUME NEW w \in Owners
             PROVE  IF pc'[w] = "updating"
                      THEN ~inserting'[w].fresh =>
                             \A s \in Batch(w)' : s \in stored'[w] /\ row'[s].claimed_by = w =>
                               \E t \in 0..clock' :
                                 /\ obj'[w][s] = Processed(t)
                                 /\ row'[s].schedule.last_processed_at < t
                                 /\ row'[s].schedule.next_run_at < t + FetchInterval
                      ELSE stored'[w] = {}
  BY DEF StoredMarked
<1>1. CASE stored'[w] = {}
  BY <1>1
<1>2. CASE /\ pc[w] = "updating" /\ pc'[w] = "updating"
           /\ obj'[w] = obj[w] /\ stored'[w] = stored[w] /\ inserting'[w] = inserting[w]
  <2>1. SUFFICES ASSUME ~inserting'[w].fresh, NEW s \in Batch(w)', s \in stored'[w],
                        row'[s].claimed_by = w
                 PROVE  \E t \in 0..clock' :
                                 /\ obj'[w][s] = Processed(t)
                                 /\ row'[s].schedule.last_processed_at < t
                                 /\ row'[s].schedule.next_run_at < t + FetchInterval
    BY <1>2
  <2>2. s \in Batch(w) /\ s \in Stations
    BY <1>2 DEF Batch, TypeOK, ObjectTypes
  <2>3. row[s].claimed_by = w /\ row'[s].schedule = row[s].schedule
    BY <1>2, <2>1, <2>2
  <2>4. PICK t \in 0..clock : /\ obj[w][s] = Processed(t)
                              /\ row[s].schedule.last_processed_at < t
                              /\ row[s].schedule.next_run_at < t + FetchInterval
    BY <1>2, <2>1, <2>2, <2>3 DEF StoredMarked
  <2>5. t \in 0..clock'
    BY IterationAssumption DEF TypeOK, VariableTypes
  <2> QED
    BY <1>2, <2>3, <2>4, <2>5
<1> QED
  BY <1>1, <1>2

\* Only claims and feedbacks write owners and schedules: a worker before its
\* feedback keeps or loses a row, and cannot gain one.
LEMMA OwnedBefore ==
  ASSUME IInv, [Next]_vars, NEW w \in Owners, NEW s \in Stations,
         pc'[w] = "updating", row'[s].claimed_by = w
  PROVE  row[s].claimed_by = w /\ row'[s].schedule = row[s].schedule
<1> USE ConstantsAssumption
<1>0. clock \in Nat /\ row \in [Stations -> Row] /\ DOMAIN pc = Owners
  BY IterationAssumption DEF IInv, TypeOK, VariableTypes
<1>1. ASSUME NEW v \in Owners, NEW skipped \in SUBSET Stations, ClaimWith(v, skipped)
      PROVE  row'[s] = row[s]
  <2>1. PICK S \in SUBSET Stations, now \in Nat : row' = Claimed(row, S, v, now)
    BY <1>0, <1>1, PicksClaimable, ReadingsRange DEF ClaimWith
  <2>2. v # w
    BY <1>0, <1>1 DEF ClaimWith
  <2> QED
    BY <1>0, <2>1, <2>2 DEF Claimed
<1>2. ASSUME NEW v \in Owners, Feedback(v)
      PROVE  row'[s] = row[s]
  BY <1>0, <1>2 DEF Feedback, Released
<1>3. ASSUME NEW v \in Owners, Heartbeat(v)
      PROVE  row'[s].claimed_by = row[s].claimed_by /\ row'[s].schedule = row[s].schedule
  <2>1. row' = row \/ \E ids \in SUBSET Stations, now \in Nat : row' = Refreshed(row, ids, v, now)
    BY <1>0, <1>3, HeartbeatWrites DEF IInv
  <2> QED
    BY <1>0, <2>1, RefreshedType
<1>4. ASSUME NEW v \in Owners, \/ FetchFails(v) \/ FetchDone(v) \/ InsertObservations(v)
                               \/ Stop(v) \/ Crash(v) \/ ClaimNothing(v)
      PROVE  row' = row
  BY <1>4 DEF FetchFails, FetchDone, InsertObservations, Stop, Crash, ClaimNothing, vars
<1>5. Tick \/ UNCHANGED vars => row' = row
  BY DEF Tick, vars
<1> QED
  BY <1>1, <1>2, <1>3, <1>4, <1>5 DEF Next, Main, ClaimStates

\* The marks of the insert are on the objects of what is stored, and stay there.
LEMMA MarkedStep == IInv /\ StoredMarked /\ [Next]_vars => StoredMarked'
<1> SUFFICES ASSUME IInv, StoredMarked, [Next]_vars
             PROVE  StoredMarked'
  OBVIOUS
<1> DEFINE Keeps(w) == \/ stored'[w] = {}
                       \/ /\ pc[w] = "updating" /\ pc'[w] = "updating"
                          /\ obj'[w] = obj[w] /\ stored'[w] = stored[w]
                          /\ inserting'[w] = inserting[w]
<1>0. /\ clock \in Nat /\ TypeOK /\ SchedulesAhead /\ VariableTypes /\ ObjectTypes
      /\ clock' \in Nat /\ clock <= clock'
  <2>1. clock \in Nat /\ (clock' = clock \/ clock' = clock + 1)
    <3>1. ASSUME NEW w \in Owners, Main(w) \/ Heartbeat(w) \/ Crash(w)
          PROVE  clock' = clock
      BY <3>1 DEF Main, ClaimStates, ClaimWith, ClaimNothing, FetchFails, FetchDone,
                  InsertObservations, Feedback, Stop, Crash, Heartbeat, HbSend, HbRefresh,
                  HbReread, HbFails, LateCommit, vars
    <3> QED
      BY <3>1, IterationAssumption DEF Next, Tick, vars, IInv, TypeOK, VariableTypes
  <2> QED
    BY <2>1 DEF IInv, TypeOK
<1>1. ASSUME NEW v \in Owners, InsertObservations(v)
      PROVE  StoredMarked'
  <2>1. PICK bad \in SUBSET inserting[v].ids, now \in Readings(clock) :
          /\ stored' = [stored EXCEPT ![v] = inserting[v].ids \ bad]
          /\ obj' = IF inserting[v].fresh THEN obj
                    ELSE [obj EXCEPT ![v] = Marked(v, inserting[v].ids \ bad, bad, now)]
    BY <1>1 DEF InsertObservations
  <2>2. UNCHANGED <<clock, row, inserting>> /\ pc' = [pc EXCEPT ![v] = "updating"]
    BY <1>1 DEF InsertObservations
  <2>3. ASSUME NEW w \in Owners, w # v
        PROVE  /\ stored'[w] = stored[w] /\ obj'[w] = obj[w] /\ pc'[w] = pc[w]
               /\ Batch(w)' = Batch(w)
    BY <1>0, <2>1, <2>2, <2>3 DEF VariableTypes, ObjectTypes, Batch
  <2>4. ASSUME ~inserting[v].fresh, NEW s \in Batch(v)', s \in stored'[v], row[s].claimed_by = v
        PROVE  \E t \in 0..clock : /\ obj'[v][s] = Processed(t)
                                  /\ row[s].schedule.last_processed_at < t
                                  /\ row[s].schedule.next_run_at < t + FetchInterval
    <3>1. obj'[v] = Marked(v, inserting[v].ids \ bad, bad, now) /\ stored'[v] = inserting[v].ids \ bad
      BY <1>0, <2>1, <2>4 DEF VariableTypes, ObjectTypes
    <3>2. s \in Batch(v) /\ s \in Stations /\ obj'[v][s] = Processed(now)
      BY <1>0, <2>4, <3>1 DEF Marked, Batch, ObjectTypes
    <3>3. v # NoOwner
      BY ConstantsAssumption
    <3>4. now \in 0..clock /\ row[s].schedule.last_processed_at < now
      BY <1>0, <2>4, <3>2, <3>3, ReadingsRange, ReadingsLater
    <3>5. row[s].schedule.next_run_at <= clock /\ row[s].schedule.next_run_at \in Int
      BY <1>0, <2>4, <3>2, <3>3 DEF SchedulesAhead, VariableTypes, Row, Schedule
    <3>6. clock - now <= MaxLag
      BY <1>0, ReadingsRange
    <3>7. row[s].schedule.next_run_at < now + FetchInterval
      BY <1>0, <3>4, <3>5, <3>6, ConstantsAssumption, IterationAssumption
    <3> QED
      BY <3>2, <3>4, <3>7
  <2>5. ASSUME NEW w \in Owners
        PROVE  IF pc'[w] = "updating"
                 THEN ~inserting[w].fresh =>
                        \A s \in Batch(w)' : s \in stored'[w] /\ row[s].claimed_by = w =>
                          \E t \in 0..clock : /\ obj'[w][s] = Processed(t)
                                             /\ row[s].schedule.last_processed_at < t
                                             /\ row[s].schedule.next_run_at < t + FetchInterval
                 ELSE stored'[w] = {}
    <3>1. CASE w = v
      BY <1>0, <2>2, <2>4, <3>1 DEF VariableTypes
    <3>2. CASE w # v
      BY <2>3, <3>2 DEF StoredMarked
    <3> QED
      BY <3>1, <3>2
  <2> QED
    BY <2>2, <2>5 DEF StoredMarked
<1>2. ASSUME \A w \in Owners : Keeps(w)
      PROVE  StoredMarked'
  BY <1>0, <1>2, OwnedBefore, KeepMarked
<1>3. ASSUME NEW v \in Owners, NEW skipped \in SUBSET Stations, ClaimWith(v, skipped)
      PROVE  \A w \in Owners : Keeps(w)
  BY <1>0, <1>3 DEF ClaimWith, StoredMarked, VariableTypes, ObjectTypes
<1>4. ASSUME NEW v \in Owners, FetchFails(v) \/ FetchDone(v) \/ Feedback(v) \/ Stop(v) \/ Crash(v)
      PROVE  \A w \in Owners : Keeps(w)
  BY <1>0, <1>4 DEF FetchFails, FetchDone, Feedback, Stop, Crash, ForgetBatch, taskVars,
                    StoredMarked, VariableTypes, ObjectTypes
<1>5. ASSUME NEW v \in Owners, Heartbeat(v)
      PROVE  \A w \in Owners : Keeps(w)
  BY <1>5, HeartbeatWrites DEF IInv, StoredMarked
<1>6. ASSUME Tick \/ UNCHANGED vars \/ \E v \in Owners : ClaimNothing(v)
      PROVE  \A w \in Owners : Keeps(w)
  BY <1>6 DEF Tick, ClaimNothing, vars, taskVars, StoredMarked
<1> QED
  BY <1>1, <1>2, <1>3, <1>4, <1>5, <1>6 DEF Next, Main, ClaimStates

\* A step that releases a stored station moves its schedule on.
LEMMA RescheduledStep ==
  ASSUME IInv, StoredMarked, [Next]_vars, NEW w \in Owners, NEW s \in Stations,
         ReleasesStored(w, s), ~inserting[w].fresh
  PROVE  /\ row[s].schedule.last_processed_at < row'[s].schedule.last_processed_at
         /\ row[s].schedule.next_run_at < row'[s].schedule.next_run_at
         /\ ~row'[s].schedule.error
<1> USE ConstantsAssumption
<1>0. clock \in Nat /\ row \in [Stations -> Row]
  BY IterationAssumption DEF IInv, TypeOK, VariableTypes
<1>1. ASSUME NEW v \in Owners, Feedback(v)
      PROVE  s \in Batch(w) /\ pc[w] = "updating" /\ row'[s].schedule = obj[w][s]
  BY <1>0, <1>1 DEF Feedback, Released, Owned, ReleasesStored, Batch
<1>2. ASSUME s \in Batch(w), pc[w] = "updating", row'[s].schedule = obj[w][s]
      PROVE  /\ row[s].schedule.last_processed_at < row'[s].schedule.last_processed_at
             /\ row[s].schedule.next_run_at < row'[s].schedule.next_run_at
             /\ ~row'[s].schedule.error
  <2>1. PICK t \in 0..clock : /\ obj[w][s] = Processed(t)
                              /\ row[s].schedule.last_processed_at < t
                              /\ row[s].schedule.next_run_at < t + FetchInterval
    BY <1>2 DEF StoredMarked, ReleasesStored
  <2> QED
    BY <1>2, <2>1 DEF Processed
<1>3. ASSUME NEW v \in Owners, NEW skipped \in SUBSET Stations, ClaimWith(v, skipped)
      PROVE  FALSE
  BY <1>0, <1>3 DEF ClaimWith, Claimed, ReleasesStored
<1>4. ASSUME NEW v \in Owners, Heartbeat(v)
      PROVE  FALSE
  <2>1. row' = row \/ \E ids \in SUBSET Stations, now \in Nat : row' = Refreshed(row, ids, v, now)
    BY <1>0, <1>4, HeartbeatWrites DEF IInv
  <2> QED
    BY <1>0, <2>1, RefreshedType DEF ReleasesStored
<1>5. ASSUME \/ \E v \in Owners : \/ FetchFails(v) \/ FetchDone(v) \/ InsertObservations(v)
                                 \/ Stop(v) \/ Crash(v) \/ ClaimNothing(v)
             \/ Tick \/ UNCHANGED vars
      PROVE  FALSE
  BY <1>5 DEF FetchFails, FetchDone, InsertObservations, Stop, Crash, ClaimNothing, Tick, vars,
              ReleasesStored
<1> QED
  BY <1>1, <1>2, <1>3, <1>4, <1>5 DEF Next, Main, ClaimStates

\* What was stored is rescheduled, unless the list of states was read again before
\* the insert: re-reading is the only way to the repeated fetch.
THEOREM StoredIsRescheduled == Spec => RescheduledUnlessReread
<1>1. Init => StoredMarked
  BY DEF Init, StoredMarked
<1>2. IInv /\ StoredMarked /\ [Next]_vars =>
        [\A w \in Owners, s \in Stations :
           ReleasesStored(w, s) /\ ~inserting[w].fresh
             => /\ row[s].schedule.last_processed_at < row'[s].schedule.last_processed_at
                /\ row[s].schedule.next_run_at < row'[s].schedule.next_run_at
                /\ ~row'[s].schedule.error]_vars
  BY RescheduledStep
<1> QED
  BY <1>1, <1>2, MarkedStep, Invariant, PTL DEF Spec, RescheduledUnlessReread

-----------------------------------------------------------------------------
(* The loops implement the specification of the state store *)

\* The statements of the instance are those of this specification.
LEMMA TableStatements ==
  /\ \A table, owner, now : Table!Owned(table, owner, now) = Owned(table, owner, now)
  /\ \A table, locked, now : Table!Picks(table, locked, now) = Picks(table, locked, now)
  /\ \A table, S, owner, now : Table!Claimed(table, S, owner, now) = Claimed(table, S, owner, now)
  /\ \A table, ids, owner, now : Table!Refreshed(table, ids, owner, now) = Refreshed(table, ids, owner, now)
  /\ \A table, objects, owner, now : Table!Released(table, objects, owner, now) = Released(table, objects, owner, now)
  /\ \A t : Table!Processed(t) = Processed(t) /\ Table!Failed(t) = Failed(t)
  /\ \A t : Table!FromStation(t) = FromStation(t)
  /\ \A c : Table!Readings(c) = Readings(c)
<1>1. \A table, owner, now : Table!Owned(table, owner, now) = Owned(table, owner, now)
  BY DEF Table!Owned, Owned
<1>2. \A table, locked, now : Table!Picks(table, locked, now) = Picks(table, locked, now)
  <2>1. \A table, now : Table!Claimable(table, now) = Claimable(table, now)
    BY DEF Table!Claimable, Claimable, Table!Unleased, Unleased, Table!NoLease, NoLease
  <2> SUFFICES ASSUME NEW table, NEW locked, NEW now
               PROVE  Table!Picks(table, locked, now) = Picks(table, locked, now)
    OBVIOUS
  <2>2. Table!Claimable(table, now) = Claimable(table, now)
    BY <2>1
  <2>3. ASSUME NEW S
        PROVE  S \in Table!Picks(table, locked, now) <=> S \in Picks(table, locked, now)
    <3>1. \A T : Table!Cardinality(T) = Cardinality(T)
      BY DEF Table!Cardinality, Cardinality
    <3> QED
      BY <2>2, <3>1 DEF Table!Picks, Picks
  <2> QED
    BY <2>3 DEF Table!Picks, Picks
<1>3. \A table, S, owner, now : Table!Claimed(table, S, owner, now) = Claimed(table, S, owner, now)
  BY DEF Table!Claimed, Claimed
<1>4. \A table, ids, owner, now : Table!Refreshed(table, ids, owner, now) = Refreshed(table, ids, owner, now)
  BY <1>1 DEF Table!Refreshed, Refreshed
<1>5. \A table, objects, owner, now : Table!Released(table, objects, owner, now) = Released(table, objects, owner, now)
  BY <1>1 DEF Table!Released, Released, Table!NoLease, NoLease
<1>6. \A t : Table!Processed(t) = Processed(t) /\ Table!Failed(t) = Failed(t)
  BY DEF Table!Processed, Processed, Table!Failed, Failed
<1>7. \A t : Table!FromStation(t) = FromStation(t)
  BY DEF Table!FromStation, FromStation, Table!NoLease, NoLease, Table!MinTime, MinTime
<1>8. \A c : Table!Readings(c) = Readings(c)
  BY DEF Table!Readings, Readings
<1> QED
  BY <1>1, <1>2, <1>3, <1>4, <1>5, <1>6, <1>7, <1>8

\* The initial table is one of the state store's.
LEMMA TableInit == Init => Table!Init
  BY TableStatements DEF Init, Table!Init

\* Every step of the loops is an operation of the state store or a stutter.
LEMMA TableStep == IInv /\ [Next]_vars => [Table!Next]_Table!vars
<1> SUFFICES ASSUME IInv, [Next]_vars
             PROVE  Table!Next \/ UNCHANGED <<clock, row>>
  BY DEF Table!vars
<1> USE TableStatements
<1>0. clock \in Nat /\ row \in [Stations -> Row] /\ hb \in [Owners -> Tasks]
  BY IterationAssumption DEF IInv, TypeOK, VariableTypes, Tasks
<1>1. ASSUME NEW w \in Owners, NEW skipped \in SUBSET Stations, ClaimWith(w, skipped)
      PROVE  Table!Claim(w)
  BY <1>1 DEF ClaimWith, Table!Claim
<1>2. ASSUME NEW w \in Owners, NEW ids \in SUBSET Stations, NEW now \in 0..clock,
             row' = Refreshed(row, ids, w, now), UNCHANGED clock
      PROVE  Table!Refresh(w)
  BY <1>2 DEF Table!Refresh
<1>3. ASSUME NEW w \in Owners, Heartbeat(w)
      PROVE  Table!Refresh(w) \/ UNCHANGED <<clock, row>>
  BY <1>2, <1>3, HeartbeatWrites DEF IInv
<1>4. ASSUME NEW w \in Owners, Feedback(w)
      PROVE  Table!Feedback(w)
  <2>1. PICK now \in Readings(clock) : row' = Released(row, obj[w], w, now)
    BY <1>4 DEF Feedback
  <2> DEFINE ids == Batch(w) \cap Owned(row, w, now)
             objects == [s \in ids |-> obj[w][s]]
  <2>2. ids \subseteq DOMAIN row /\ DOMAIN row = Stations
    BY <1>0 DEF Owned
  <2>3. ASSUME NEW s \in ids
        PROVE  obj[w][s] \in Table!Outcomes(s)
    <3>1. row[s].claimed_by = w
      BY DEF Owned
    <3>2. row[s].schedule.last_processed_at \in Int
      BY <1>0, <2>2 DEF Row, Schedule
    <3>3. \/ obj[w][s] = row[s].schedule
          \/ \E t \in 0..clock : /\ row[s].schedule.last_processed_at <= t
                                 /\ obj[w][s] = Failed(t) \/ obj[w][s] = Processed(t)
      BY <1>0, <3>1, <3>2 DEF IInv, ObjectsCurrent
    <3> QED
      BY <3>3 DEF Table!Outcomes
  <2>4. objects \in [ids -> UNION {Table!Outcomes(s) : s \in ids}]
    BY <2>3
  <2>5. row' = Released(row, objects, w, now)
    BY <2>1 DEF Released, Batch
  <2>6. UNCHANGED clock
    BY <1>4 DEF Feedback
  <2> QED
    BY <2>2, <2>3, <2>4, <2>5, <2>6 DEF Table!Feedback
<1>5. ASSUME NEW w \in Owners, \/ FetchFails(w) \/ FetchDone(w) \/ InsertObservations(w)
                               \/ Stop(w) \/ Crash(w) \/ ClaimNothing(w)
      PROVE  UNCHANGED <<clock, row>>
  BY <1>5 DEF FetchFails, FetchDone, InsertObservations, Stop, Crash, ClaimNothing, vars
<1>6. CASE Tick
  BY <1>6 DEF Tick, Table!Tick, Table!Next
<1>7. CASE UNCHANGED vars
  BY <1>7 DEF vars
<1> QED
  BY <1>1, <1>3, <1>4, <1>5, <1>6, <1>7 DEF Next, Main, ClaimStates, Table!Next

\* Every step of the loops is an operation of the state store, used as the
\* store trusts its clients to use it.
THEOREM LoopsImplementTable == Spec => ImplementsTable
  BY InvInit, InvStep, TableInit, TableStep, PTL DEF Spec, ImplementsTable, Table!TableSpec

-----------------------------------------------------------------------------
(* What is proved of the state store holds for the loops.                     *)

Store == INSTANCE LeaseTable_proofs

\* The statements of this instance are the same once more.
LEMMA StoreStatements ==
  /\ \A table, owner, now : Store!Owned(table, owner, now) = Owned(table, owner, now)
  /\ \A table, locked, now : Store!Picks(table, locked, now) = Picks(table, locked, now)
  /\ \A table, S, owner, now : Store!Claimed(table, S, owner, now) = Claimed(table, S, owner, now)
  /\ \A table, ids, owner, now : Store!Refreshed(table, ids, owner, now) = Refreshed(table, ids, owner, now)
  /\ \A table, objects, owner, now : Store!Released(table, objects, owner, now) = Released(table, objects, owner, now)
  /\ \A t : Store!Processed(t) = Processed(t) /\ Store!Failed(t) = Failed(t)
  /\ \A t : Store!FromStation(t) = FromStation(t)
  /\ \A c : Store!Readings(c) = Readings(c)
<1>1. \A table, owner, now : Store!Owned(table, owner, now) = Owned(table, owner, now)
  BY DEF Store!Owned, Owned
<1>2. \A table, locked, now : Store!Picks(table, locked, now) = Picks(table, locked, now)
  <2>1. \A table, now : Store!Claimable(table, now) = Claimable(table, now)
    BY DEF Store!Claimable, Claimable, Store!Unleased, Unleased, Store!NoLease, NoLease
  <2> SUFFICES ASSUME NEW table, NEW locked, NEW now
               PROVE  Store!Picks(table, locked, now) = Picks(table, locked, now)
    OBVIOUS
  <2>2. Store!Claimable(table, now) = Claimable(table, now)
    BY <2>1
  <2>3. ASSUME NEW S
        PROVE  S \in Store!Picks(table, locked, now) <=> S \in Picks(table, locked, now)
    <3>1. \A T : Store!Cardinality(T) = Cardinality(T)
      BY DEF Store!Cardinality, Cardinality
    <3> QED
      BY <2>2, <3>1 DEF Store!Picks, Picks
  <2> QED
    BY <2>3 DEF Store!Picks, Picks
<1>3. \A table, S, owner, now : Store!Claimed(table, S, owner, now) = Claimed(table, S, owner, now)
  BY DEF Store!Claimed, Claimed
<1>4. \A table, ids, owner, now : Store!Refreshed(table, ids, owner, now) = Refreshed(table, ids, owner, now)
  BY <1>1 DEF Store!Refreshed, Refreshed
<1>5. \A table, objects, owner, now : Store!Released(table, objects, owner, now) = Released(table, objects, owner, now)
  BY <1>1 DEF Store!Released, Released, Store!NoLease, NoLease
<1>6. \A t : Store!Processed(t) = Processed(t) /\ Store!Failed(t) = Failed(t)
  BY DEF Store!Processed, Processed, Store!Failed, Failed
<1>7. \A t : Store!FromStation(t) = FromStation(t)
  BY DEF Store!FromStation, FromStation, Store!NoLease, NoLease, Store!MinTime, MinTime
<1>8. \A c : Store!Readings(c) = Readings(c)
  BY DEF Store!Readings, Readings
<1> QED
  BY <1>1, <1>2, <1>3, <1>4, <1>5, <1>6, <1>7, <1>8

\* An operation of the state store is one of either instance.
LEMMA StoreStep ==
  /\ Table!Init => Store!Init
  /\ [Table!Next]_Table!vars => [Store!Next]_Store!vars
<1> USE TableStatements, StoreStatements
<1>1. Table!Init => Store!Init
  BY DEF Table!Init, Store!Init
<1>2. ASSUME NEW o, Table!Claim(o)
      PROVE  Store!Claim(o)
  BY <1>2 DEF Table!Claim, Store!Claim
<1>3. ASSUME NEW o, Table!Refresh(o)
      PROVE  Store!Refresh(o)
  BY <1>3 DEF Table!Refresh, Store!Refresh
<1>4. ASSUME NEW o, Table!Feedback(o)
      PROVE  Store!Feedback(o)
  <2>1. \A s : Table!Outcomes(s) = Store!Outcomes(s)
    BY DEF Table!Outcomes, Store!Outcomes
  <2> QED
    BY <1>4, <2>1 DEF Table!Feedback, Store!Feedback
<1>5. Table!AddStations => Store!AddStations
  BY DEF Table!AddStations, Store!AddStations, Table!InsertedSafe, Store!InsertedSafe
<1>6. Table!Tick => Store!Tick
  BY DEF Table!Tick, Store!Tick
<1>7. Table!Next => Store!Next
  BY <1>2, <1>3, <1>4, <1>5, <1>6 DEF Table!Next, Store!Next
<1> QED
  BY <1>1, <1>7 DEF Table!vars, Store!vars

\* The loops implement the state store as its theorems know it.
LEMMA LoopsImplementStore == Spec => Store!TableSpec
  BY LoopsImplementTable, StoreStep, PTL DEF ImplementsTable, Table!TableSpec, Store!TableSpec

\* However the loops interleave, a live lease never passes to another process: its
\* owner only ever gives it up.
THEOREM LoopsKeepLiveLeases == Spec => Table!NoLiveSteal
<1>1. Spec => Store!NoLiveSteal
  BY LoopsImplementStore, Store!LiveLeaseIsKept, ConstantsAssumption, IterationAssumption
<1> QED
  BY <1>1, PTL DEF Store!NoLiveSteal, Table!NoLiveSteal, Store!vars, Table!vars

\* A schedule changes only by the guarded release of its row, and never goes back.
THEOREM LoopsGuardSchedules == Spec => Table!ScheduleGuarded
<1>1. Spec => Store!ScheduleGuarded
  BY LoopsImplementStore, Store!ScheduleIsGuarded, ConstantsAssumption, IterationAssumption
<1> QED
  BY <1>1, PTL DEF Store!ScheduleGuarded, Table!ScheduleGuarded, Store!vars, Table!vars

\* The rows of a process that dies are claimable ClaimFor later at the latest.
THEOREM LoopsBoundLeases == Spec => []Table!LeaseBounded
<1>1. Spec => []Store!LeaseBounded
  BY LoopsImplementStore, Store!LeaseIsBounded, ConstantsAssumption, IterationAssumption
<1> QED
  BY <1>1, PTL DEF Store!LeaseBounded, Table!LeaseBounded

-----------------------------------------------------------------------------
(* Timely heartbeats *)

\* No lease reaches further than one made now.
LeasesBounded == \A s \in Stations : row[s].lease_until <= clock + ClaimFor

\* The heartbeat of w is there for its station s: the row is in the list, and in the
\* ids of a refresh under way; its lease is no older than a renewal may be late; and
\* a renewal that is not yet committed is as young.
Held(w, s) ==
  /\ hb[w].pc \in {"waiting", "refreshing", "rereading"}
  /\ s \in leased[w].ids
  /\ s \notin LateRows(w)
  /\ row[s].claimed_by = w
  /\ clock + ClaimFor <= row[s].lease_until + MaxLag + BeatPeriod
  /\ hb[w].pc # "waiting" => s \in hb[w].ids
  /\ hb[w].pc = "rereading" =>
       /\ row[s].lease_until <= hb[w].now + MaxLag + ClaimFor
       /\ clock <= hb[w].now + MaxLag + BeatPeriod

WorkHeld == \A w \in Owners : \A s \in WorkingOn(w) : Held(w, s)

TimelyInv == LeasesBounded /\ WorkHeld

-----------------------------------------------------------------------------
(* Steps of one process *)

\* What a process does, apart from heartbeats that fail.
Step(v) == Main(v) \/ HbSend(v) \/ HbRefresh(v) \/ HbReread(v) \/ LateCommit(v) \/ Crash(v)

\* The steps of the timely loops are steps of the loops.
LEMMA TimelyStep == TimelyNext => Next
  BY DEF TimelyNext, Next, Heartbeat

\* The types the arguments below use.
LEMMA TypeFacts ==
  ASSUME TypeOK
  PROVE  /\ clock \in Nat
         /\ row \in [Stations -> Row]
         /\ \A s \in Stations : row[s].lease_until \in Int
         /\ pc \in [Owners -> {"idle", "fetching", "inserting", "updating", "stopping", "dead"}]
         /\ hb \in [Owners -> Tasks]
         /\ \A w \in Owners : hb[w].now \in Nat /\ hb[w].ids \subseteq Stations
         /\ late \in [Owners -> SUBSET Commits]
         /\ leased \in [Owners -> StateLists]
         /\ inserting \in [Owners -> StateLists]
         /\ DOMAIN obj = Owners
         /\ \A w \in Owners : Batch(w) \subseteq Stations
         /\ failed \in [Owners -> SUBSET Stations]
<1>1. row \in [Stations -> Row] /\ \A s \in Stations : row[s].lease_until \in Int
  BY DEF TypeOK, VariableTypes, Row
<1>2. clock \in Nat
  BY IterationAssumption DEF TypeOK, VariableTypes
<1>3. /\ hb \in [Owners -> Tasks]
      /\ \A w \in Owners : hb[w].now \in Nat /\ hb[w].ids \subseteq Stations
  BY DEF TypeOK, VariableTypes, Tasks
<1>4. /\ late \in [Owners -> SUBSET Commits]
      /\ leased \in [Owners -> StateLists]
      /\ inserting \in [Owners -> StateLists]
  BY DEF TypeOK, VariableTypes, Commits, StateLists
<1>5. /\ pc \in [Owners -> {"idle", "fetching", "inserting", "updating", "stopping", "dead"}]
      /\ failed \in [Owners -> SUBSET Stations]
      /\ DOMAIN obj = Owners
      /\ \A w \in Owners : Batch(w) \subseteq Stations
  BY DEF TypeOK, VariableTypes, ObjectTypes
<1> QED
  BY <1>1, <1>2, <1>3, <1>4, <1>5

\* A process changes no other process's variables.
LEMMA OthersAlone ==
  ASSUME TypeOK, NEW v \in Owners, Step(v), NEW w \in Owners, w # v
  PROVE  /\ pc'[w] = pc[w] /\ obj'[w] = obj[w] /\ inserting'[w] = inserting[w]
         /\ hb'[w] = hb[w] /\ leased'[w] = leased[w] /\ late'[w] = late[w]
<1> USE TypeFacts
<1>1. ASSUME NEW skipped \in SUBSET Stations, ClaimWith(v, skipped)
      PROVE  /\ pc'[w] = pc[w] /\ obj'[w] = obj[w] /\ inserting'[w] = inserting[w]
             /\ hb'[w] = hb[w] /\ leased'[w] = leased[w] /\ late'[w] = late[w]
  BY <1>1 DEF ClaimWith
<1>2. ClaimNothing(v) \/ FetchFails(v) \/ FetchDone(v) \/ InsertObservations(v)
        => /\ pc'[w] = pc[w] /\ obj'[w] = obj[w] /\ inserting'[w] = inserting[w]
           /\ hb'[w] = hb[w] /\ leased'[w] = leased[w] /\ late'[w] = late[w]
  BY DEF ClaimNothing, FetchFails, FetchDone, InsertObservations, vars
<1>3. Feedback(v) \/ Stop(v) \/ Crash(v)
        => /\ pc'[w] = pc[w] /\ obj'[w] = obj[w] /\ inserting'[w] = inserting[w]
           /\ hb'[w] = hb[w] /\ leased'[w] = leased[w] /\ late'[w] = late[w]
  BY DEF Feedback, Stop, Crash, ForgetBatch, ForgetHeartbeat, taskVars
<1>4. HbSend(v) \/ HbRefresh(v) \/ HbReread(v) \/ LateCommit(v)
        => /\ pc'[w] = pc[w] /\ obj'[w] = obj[w] /\ inserting'[w] = inserting[w]
           /\ hb'[w] = hb[w] /\ leased'[w] = leased[w] /\ late'[w] = late[w]
  BY DEF HbSend, HbRefresh, HbReread, LateCommit, taskVars
<1> QED
  BY <1>1, <1>2, <1>3, <1>4 DEF Step, Main, ClaimStates

\* SKIP LOCKED: a claim takes no row that is locked.
LEMMA PicksUnlocked ==
  ASSUME NEW table, NEW locked, NEW now, NEW S \in Picks(table, locked, now)
  PROVE  S \cap locked = {}
  BY DEF Picks

\* What a step of a process does to a row: it claims one that is not leased and not
\* locked, or renews or releases one of its own, or leaves it alone.
LEMMA RowWrites ==
  ASSUME TypeOK, ReadingsPast, NEW v \in Owners, Step(v), NEW s \in Stations
  PROVE  /\ clock' = clock
         /\ \/ row'[s] = row[s]
            \/ \E now \in Readings(clock) :
                 /\ pc[v] = "idle" /\ s \notin LockedRows /\ Unleased(row[s], now)
                 /\ row'[s].claimed_by = v /\ row'[s].lease_until = now + ClaimFor
            \/ \E now \in 0..clock :
                 /\ row[s].claimed_by = v /\ row[s].lease_until > now
                 /\ row'[s].claimed_by = v /\ row'[s].lease_until = now + ClaimFor
            \/ /\ pc[v] = "updating" /\ row[s].claimed_by = v
               /\ row'[s].claimed_by = NoOwner /\ row'[s].lease_until = NoLease
<1> USE TypeFacts
<1>1. ASSUME NEW skipped \in SUBSET Stations, LockedRows \subseteq skipped, ClaimWith(v, skipped)
      PROVE  \/ row'[s] = row[s]
             \/ \E now \in Readings(clock) :
                  /\ pc[v] = "idle" /\ s \notin LockedRows /\ Unleased(row[s], now)
                  /\ row'[s].claimed_by = v /\ row'[s].lease_until = now + ClaimFor
  <2>1. PICK now \in Readings(clock) :
          \E S \in Picks(row, skipped, now) \ {{}} : row' = Claimed(row, S, v, now)
    BY <1>1 DEF ClaimWith
  <2>2. PICK S \in Picks(row, skipped, now) : row' = Claimed(row, S, v, now)
    BY <2>1
  <2>3. \A r \in S : Unleased(row[r], now) /\ r \notin skipped
    BY <2>2, PicksClaimable, PicksUnlocked
  <2>4. pc[v] = "idle"
    BY <1>1 DEF ClaimWith
  <2> QED
    BY <1>1, <2>2, <2>3, <2>4 DEF Claimed
<1>2. ASSUME NEW ids, NEW now \in 0..clock, row' = Refreshed(row, ids, v, now)
      PROVE  \/ row'[s] = row[s]
             \/ /\ row[s].claimed_by = v /\ row[s].lease_until > now
                /\ row'[s].claimed_by = v /\ row'[s].lease_until = now + ClaimFor
  BY <1>2 DEF Refreshed, Owned, Row
<1>3. ASSUME Feedback(v)
      PROVE  \/ row'[s] = row[s]
             \/ /\ pc[v] = "updating" /\ row[s].claimed_by = v
                /\ row'[s].claimed_by = NoOwner /\ row'[s].lease_until = NoLease
  BY <1>3 DEF Feedback, Released, Owned
<1>4. ASSUME HbSend(v) \/ HbRefresh(v) \/ HbReread(v) \/ LateCommit(v)
      PROVE  /\ clock' = clock
             /\ row' = row \/ \E ids \in SUBSET Stations, now \in 0..clock : row' = Refreshed(row, ids, v, now)
  BY <1>4, HeartbeatWrites DEF Heartbeat
<1>5. ClaimNothing(v) \/ FetchFails(v) \/ FetchDone(v) \/ InsertObservations(v) \/ Stop(v) \/ Crash(v)
        => clock' = clock /\ row' = row
  BY DEF ClaimNothing, FetchFails, FetchDone, InsertObservations, Stop, Crash, vars
<1>6. ClaimStates(v) \/ Feedback(v) => clock' = clock
  BY DEF ClaimStates, ClaimWith, Feedback
<1> QED
  BY <1>1, <1>2, <1>3, <1>4, <1>5, <1>6 DEF Step, Main, ClaimStates

\* A row whose lease lives is written by its owner only.
LEMMA LiveRowAlone ==
  ASSUME TypeOK, ReadingsPast, NEW v \in Owners, Step(v), NEW s \in Stations,
         row[s].claimed_by # v, row[s].lease_until > clock
  PROVE  row'[s] = row[s]
<1> USE TypeFacts
<1>1. \A now \in Readings(clock) : ~Unleased(row[s], now)
  BY ReadingsRange DEF Unleased, NoLease
<1> QED
  BY <1>1, RowWrites

\* No step makes a lease that reaches too far.
LEMMA LeasesBoundedStep ==
  TypeOK /\ ReadingsPast /\ LeasesBounded /\ [TimelyNext]_vars => LeasesBounded'
<1> SUFFICES ASSUME TypeOK, ReadingsPast, LeasesBounded, [TimelyNext]_vars, NEW s \in Stations
             PROVE  row'[s].lease_until <= clock' + ClaimFor
  BY DEF LeasesBounded
<1> USE TypeFacts, ConstantsAssumption
<1>1. ASSUME NEW v \in Owners, Step(v)
      PROVE  row'[s].lease_until <= clock' + ClaimFor
  <2>1. \A now \in Readings(clock) : now <= clock /\ now \in Nat
    BY ReadingsRange
  <2> QED
    BY <1>1, <2>1, RowWrites DEF LeasesBounded, NoLease
<1>2. Tick => row'[s].lease_until <= clock' + ClaimFor
  BY DEF Tick, LeasesBounded
<1>3. UNCHANGED vars => row'[s].lease_until <= clock' + ClaimFor
  BY DEF vars, LeasesBounded
<1> QED
  BY <1>1, <1>2, <1>3 DEF TimelyNext, Step

-----------------------------------------------------------------------------
(* The leases last as long as the work *)

\* What a process works on, by the place of its iteration.
LEMMA WorkingOnCases ==
  ASSUME NEW w \in Owners
  PROVE  /\ pc[w] = "fetching" => WorkingOn(w) = Batch(w)
         /\ pc[w] = "inserting" => WorkingOn(w) = inserting[w].ids
         /\ pc[w] \notin {"fetching", "inserting"} => WorkingOn(w) = {}
  BY DEF WorkingOn

\* The stations a process works on exist.
LEMMA WorkingOnStations ==
  ASSUME TypeOK, NEW w \in Owners
  PROVE  WorkingOn(w) \subseteq Stations
<1>1. inserting[w].ids \subseteq Stations
  BY TypeFacts DEF StateLists
<1> QED
  BY <1>1, TypeFacts, WorkingOnCases

\* A lease that is held is alive: it outlives the longest time to the next renewal.
LEMMA HeldAlive ==
  ASSUME TypeOK, NEW w \in Owners, NEW s \in Stations, Held(w, s)
  PROVE  row[s].claimed_by = w /\ row[s].lease_until > clock
<1>1. /\ clock \in Nat /\ row[s].lease_until \in Int
      /\ MaxLag \in Nat /\ ClaimFor \in Nat /\ BeatPeriod \in Nat /\ BeatPeriod + MaxLag < ClaimFor
  BY TypeFacts, ConstantsAssumption, BeatAssumption
<1>2. clock + ClaimFor <= row[s].lease_until + MaxLag + BeatPeriod /\ row[s].claimed_by = w
  BY DEF Held
<1> QED
  BY <1>1, <1>2

\* A station stays held by a step that leaves its row, the heartbeat and the time
\* alone and keeps it in the list.
LEMMA HeldStays ==
  ASSUME NEW w \in Owners, NEW s, Held(w, s), UNCHANGED clock,
         row'[s] = row[s], hb'[w] = hb[w], s \in leased'[w].ids, late'[w] = late[w]
  PROVE  Held(w, s)'
  BY DEF Held, LateRows

\* A step of another process disturbs no station that is held.
LEMMA HeldFromOthers ==
  ASSUME TypeOK, ReadingsPast, WorkHeld, NEW v \in Owners, Step(v), NEW w \in Owners, w # v,
         NEW s \in WorkingOn(w)'
  PROVE  Held(w, s)'
<1>1. /\ pc'[w] = pc[w] /\ obj'[w] = obj[w] /\ inserting'[w] = inserting[w]
      /\ hb'[w] = hb[w] /\ leased'[w] = leased[w] /\ late'[w] = late[w]
  BY OthersAlone
<1>2. s \in WorkingOn(w)
  BY <1>1 DEF WorkingOn, Batch
<1>3. s \in Stations /\ Held(w, s)
  BY <1>2, WorkingOnStations DEF WorkHeld
<1>4. row[s].claimed_by = w /\ row[s].lease_until > clock
  BY <1>3, HeldAlive
<1>5. row'[s] = row[s] /\ clock' = clock
  BY <1>3, <1>4, LiveRowAlone, RowWrites
<1>6. s \in leased[w].ids
  BY <1>3 DEF Held
<1> QED
  BY <1>1, <1>3, <1>5, <1>6, HeldStays

\* A claim holds what it takes: the rows of late commits are locked.
LEMMA ClaimHolds ==
  ASSUME TypeOK, NEW w \in Owners, ClaimStates(w), NEW s \in WorkingOn(w)'
  PROVE  Held(w, s)'
<1> USE TypeFacts
<1>1. PICK skipped \in SUBSET Stations : LockedRows \subseteq skipped /\ ClaimWith(w, skipped)
  BY DEF ClaimStates
<1>2. PICK now \in Readings(clock) :
        \E S \in Picks(row, skipped, now) \ {{}} :
          /\ row' = Claimed(row, S, w, now)
          /\ obj' = [obj EXCEPT ![w] = [r \in S |-> row[r].schedule]]
          /\ leased' = [leased EXCEPT ![w] = StateList(S, FALSE)]
  BY <1>1 DEF ClaimWith
<1>3. PICK S \in Picks(row, skipped, now) :
          /\ row' = Claimed(row, S, w, now)
          /\ obj' = [obj EXCEPT ![w] = [r \in S |-> row[r].schedule]]
          /\ leased' = [leased EXCEPT ![w] = StateList(S, FALSE)]
  BY <1>2
<1>4. /\ pc' = [pc EXCEPT ![w] = "fetching"]
      /\ hb' = [hb EXCEPT ![w] = Task("waiting", {}, 0)]
      /\ UNCHANGED <<clock, late>>
  BY <1>1 DEF ClaimWith
<1>5. S \subseteq Stations /\ S \cap skipped = {}
  BY PicksClaimable, PicksUnlocked
<1>6. s \in S
  <2>1. pc'[w] = "fetching" /\ Batch(w)' = S
    BY <1>3, <1>4 DEF Batch
  <2>2. WorkingOn(w)' = Batch(w)'
    BY <2>1 DEF WorkingOn
  <2> QED
    BY <2>1, <2>2
<1>7. s \notin LateRows(w)'
  BY <1>1, <1>4, <1>5, <1>6 DEF LateRows, LockedRows, LockedBy
<1>8. row'[s].claimed_by = w /\ row'[s].lease_until = now + ClaimFor
  BY <1>3, <1>5, <1>6 DEF Claimed
<1>9. hb'[w].pc = "waiting" /\ s \in leased'[w].ids
  BY <1>3, <1>4, <1>6 DEF Task, StateList
<1>10. clock' + ClaimFor <= row'[s].lease_until + MaxLag + BeatPeriod
  BY <1>4, <1>8, ReadingsRange, ConstantsAssumption, BeatAssumption
<1> QED
  BY <1>7, <1>8, <1>9, <1>10 DEF Held

\* The other steps of the iteration: what remains in the list stays held, and after
\* the insert there is nothing to hold.
LEMMA MainHolds ==
  ASSUME TypeOK, WorkHeld, NEW w \in Owners, Main(w) \/ Crash(w), ~ClaimStates(w),
         NEW s \in WorkingOn(w)'
  PROVE  Held(w, s)'
<1> USE TypeFacts
<1>1. CASE ClaimNothing(w) \/ FetchFails(w)
  <2>1. /\ UNCHANGED <<clock, row, pc, leased, inserting, hb, late>>
        /\ Batch(w)' = Batch(w)
    BY <1>1 DEF ClaimNothing, FetchFails, vars, Batch
  <2>2. s \in WorkingOn(w)
    BY <2>1 DEF WorkingOn
  <2>3. Held(w, s)
    BY <2>2 DEF WorkHeld
  <2>4. s \in leased[w].ids
    BY <2>3 DEF Held
  <2> QED
    BY <2>1, <2>3, <2>4, HeldStays
<1>2. CASE FetchDone(w)
  <2> DEFINE kept == StateList(leased[w].ids \cap (Batch(w) \ failed[w]), leased[w].fresh)
  <2>1. /\ UNCHANGED <<clock, row, hb, late>>
        /\ leased' = [leased EXCEPT ![w] = kept]
        /\ pc[w] = "fetching"
    BY <1>2 DEF FetchDone
  <2>2. \/ pc' = [pc EXCEPT ![w] = "updating"]
        \/ pc' = [pc EXCEPT ![w] = "inserting"] /\ inserting' = [inserting EXCEPT ![w] = kept]
    BY <1>2 DEF FetchDone
  <2>3. pc'[w] = "inserting" /\ inserting'[w] = kept
    <3>1. pc'[w] = "updating" => WorkingOn(w)' = {}
      BY DEF WorkingOn
    <3> QED
      BY <2>2, <3>1
  <2>4. s \in kept.ids
    BY <2>3 DEF WorkingOn
  <2>5. s \in Batch(w) /\ s \in leased'[w].ids
    BY <2>1, <2>4 DEF StateList
  <2>6. Held(w, s)
    BY <2>1, <2>5, WorkingOnCases DEF WorkHeld
  <2> QED
    BY <2>1, <2>5, <2>6, HeldStays
<1>3. CASE InsertObservations(w) \/ Feedback(w) \/ Stop(w) \/ Crash(w)
  <2>1. pc'[w] \in {"updating", "stopping", "idle", "dead"}
    BY <1>3 DEF InsertObservations, Feedback, Stop, Crash
  <2>2. WorkingOn(w)' = {}
    BY <2>1 DEF WorkingOn
  <2> QED
    BY <2>2
<1> QED
  BY <1>1, <1>2, <1>3 DEF Main

\* The heartbeat's own steps leave the iteration and the batch alone.
LEMMA HeartbeatKeepsWork ==
  ASSUME NEW w \in Owners, HbSend(w) \/ HbRefresh(w) \/ HbReread(w) \/ LateCommit(w)
  PROVE  UNCHANGED <<clock, pc, obj, inserting>> /\ WorkingOn(w)' = WorkingOn(w)
<1>1. UNCHANGED <<clock, pc, obj, inserting>>
  BY DEF HbSend, HbRefresh, HbReread, LateCommit, taskVars
<1> QED
  BY <1>1 DEF WorkingOn, Batch

\* The rows that are held match the guard of a refresh, whatever its reading.
LEMMA HeldOwned ==
  ASSUME TypeOK, NEW w \in Owners, NEW s \in Stations, Held(w, s), NEW now \in 0..clock
  PROVE  s \in Owned(row, w, now)
  BY HeldAlive, TypeFacts DEF Owned

\* A call of refresh_lease, and the commit of another list, keep what is held.
LEMMA SendHolds ==
  ASSUME TypeOK, ReadingsPast, WorkHeld, NEW w \in Owners, HbSend(w) \/ LateCommit(w),
         NEW s \in WorkingOn(w)'
  PROVE  Held(w, s)'
<1> USE TypeFacts
<1>1. s \in WorkingOn(w) /\ UNCHANGED clock
  BY HeartbeatKeepsWork
<1>2. Held(w, s) /\ s \in Stations
  BY <1>1, WorkingOnStations DEF WorkHeld
<1>3. CASE HbSend(w)
  <2>1. /\ hb' = [hb EXCEPT ![w] = Task("refreshing", leased[w].ids, 0)]
        /\ UNCHANGED <<clock, row, leased, late>>
    BY <1>3 DEF HbSend
  <2> QED
    BY <1>2, <2>1 DEF Held, LateRows, Task
<1>4. CASE LateCommit(w)
  <2>1. PICK c \in late[w] : /\ row' = Refreshed(row, c.ids, w, c.now)
                             /\ late' = [late EXCEPT ![w] = @ \ {c}]
                             /\ UNCHANGED <<clock, leased, hb>>
    BY <1>4 DEF LateCommit
  <2>2. s \notin c.ids
    BY <1>2, <2>1 DEF Held, LateRows
  <2>3. row'[s] = row[s]
    BY <1>2, <2>1, <2>2 DEF Refreshed
  <2>4. s \notin LateRows(w)'
    BY <1>2, <2>1 DEF Held, LateRows
  <2> QED
    BY <1>2, <2>1, <2>3, <2>4 DEF Held
<1> QED
  BY <1>3, <1>4

\* A refresh renews what is held, or opens the transaction that does.
LEMMA RefreshHolds ==
  ASSUME TypeOK, ReadingsPast, LeasesBounded, WorkHeld, NEW w \in Owners, HbRefresh(w),
         NEW s \in WorkingOn(w)'
  PROVE  Held(w, s)'
<1> USE TypeFacts
<1>1. s \in WorkingOn(w) /\ UNCHANGED <<clock, late>> /\ hb[w].pc = "refreshing"
  BY HeartbeatKeepsWork DEF HbRefresh
<1>2. Held(w, s) /\ s \in Stations
  BY <1>1, WorkingOnStations DEF WorkHeld
<1>3. PICK now \in Readings(clock) :
        LET refreshed == hb[w].ids \cap Owned(row, w, now) IN
          \/ refreshed = {}
          \/ /\ row' = Refreshed(row, hb[w].ids, w, now)
             /\ hb' = [hb EXCEPT ![w] = Task("waiting", {}, 0)]
             /\ UNCHANGED leased
          \/ /\ hb' = [hb EXCEPT ![w] = Task("rereading", refreshed, now)]
             /\ UNCHANGED <<row, leased>>
  BY DEF HbRefresh
<1> DEFINE refreshed == hb[w].ids \cap Owned(row, w, now)
<1>4. now \in 0..clock /\ now \in Nat /\ clock - now <= MaxLag
  BY ReadingsRange
<1>5. s \in refreshed
  BY <1>1, <1>2, <1>4, HeldOwned DEF Held
<1>6. LateRows(w)' = LateRows(w)
  BY <1>1 DEF LateRows
<1>7. CASE /\ row' = Refreshed(row, hb[w].ids, w, now)
           /\ hb' = [hb EXCEPT ![w] = Task("waiting", {}, 0)]
           /\ UNCHANGED leased
  <2>1. row'[s].claimed_by = w /\ row'[s].lease_until = now + ClaimFor
    BY <1>2, <1>5, <1>7 DEF Refreshed, Owned, Row
  <2>2. hb'[w].pc = "waiting"
    BY <1>7 DEF Task
  <2>3. clock' + ClaimFor <= row'[s].lease_until + MaxLag + BeatPeriod
    BY <1>1, <1>4, <2>1, ConstantsAssumption, BeatAssumption
  <2> QED
    BY <1>2, <1>6, <1>7, <2>1, <2>2, <2>3 DEF Held
<1>8. CASE /\ hb' = [hb EXCEPT ![w] = Task("rereading", refreshed, now)]
           /\ UNCHANGED <<row, leased>>
  <2>1. hb'[w].pc = "rereading" /\ hb'[w].ids = refreshed /\ hb'[w].now = now
    BY <1>8 DEF Task
  <2>2. /\ row'[s].lease_until <= hb'[w].now + MaxLag + ClaimFor
        /\ clock' <= hb'[w].now + MaxLag + BeatPeriod
    <3>1. row[s].lease_until <= clock + ClaimFor
      BY <1>2 DEF LeasesBounded
    <3> QED
      BY <1>1, <1>2, <1>4, <1>8, <2>1, <3>1, ConstantsAssumption, BeatAssumption
  <2> QED
    BY <1>1, <1>2, <1>5, <1>6, <1>8, <2>1, <2>2 DEF Held
<1> QED
  BY <1>3, <1>5, <1>7, <1>8

\* get_claimed returns all that is held, and the commit renews it.
LEMMA RereadHolds ==
  ASSUME TypeOK, ReadingsPast, WorkHeld, NEW w \in Owners, HbReread(w),
         NEW s \in WorkingOn(w)'
  PROVE  Held(w, s)'
<1> USE TypeFacts
<1>1. /\ s \in WorkingOn(w) /\ UNCHANGED <<clock, late>> /\ hb[w].pc = "rereading"
      /\ row' = Refreshed(row, hb[w].ids, w, hb[w].now)
      /\ hb' = [hb EXCEPT ![w] = Task("waiting", {}, 0)]
  BY HeartbeatKeepsWork DEF HbReread
<1>2. Held(w, s) /\ s \in Stations
  BY <1>1, WorkingOnStations DEF WorkHeld
<1>3. hb[w].now \in 0..clock
  BY DEF ReadingsPast
<1>4. s \in hb[w].ids \cap Owned(row, w, hb[w].now)
  BY <1>1, <1>2, <1>3, HeldOwned DEF Held
<1>5. row'[s].claimed_by = w /\ row'[s].lease_until = hb[w].now + ClaimFor
  BY <1>1, <1>2, <1>4 DEF Refreshed, Owned, Row
<1>6. clock <= hb[w].now + MaxLag + BeatPeriod
  BY <1>1, <1>2 DEF Held
<1>7. /\ clock' + ClaimFor <= row'[s].lease_until + MaxLag + BeatPeriod
      /\ row'[s].lease_until > clock
  BY <1>1, <1>3, <1>5, <1>6, ConstantsAssumption, BeatAssumption
<1>8. s \in leased'[w].ids
  <2>1. PICK list \in Reread(w) : leased' = [leased EXCEPT ![w] = list]
    BY DEF HbReread
  <2>2. PICK now \in Readings(clock) : list = StateList(Owned(row', w, now), TRUE)
    BY <1>1, <2>1 DEF Reread
  <2>3. s \in Owned(row', w, now)
    <3>1. now \in Nat /\ now <= clock
      BY ReadingsRange
    <3>2. DOMAIN row' = Stations
      BY <1>1 DEF Refreshed
    <3>3. row'[s].lease_until > now
      BY <1>3, <1>5, <1>7, <3>1, ConstantsAssumption
    <3> QED
      BY <1>2, <1>5, <3>2, <3>3 DEF Owned
  <2> QED
    BY <2>1, <2>2, <2>3 DEF StateList
<1>9. hb'[w].pc = "waiting" /\ LateRows(w)' = LateRows(w)
  BY <1>1 DEF Task, LateRows
<1> QED
  BY <1>2, <1>5, <1>7, <1>8, <1>9 DEF Held

\* The clock goes on only as long as every renewal is on time.
LEMMA TickHolds ==
  ASSUME TypeOK, WorkHeld, Tick, OnTime(clock'), NEW w \in Owners, NEW s \in WorkingOn(w)'
  PROVE  Held(w, s)'
<1> USE TypeFacts
<1>1. clock' = clock + 1 /\ UNCHANGED <<row, pc, obj, leased, inserting, hb, late>>
  BY DEF Tick, taskVars
<1>2. s \in WorkingOn(w)
  BY <1>1 DEF WorkingOn, Batch
<1>3. Held(w, s) /\ s \in Stations
  BY <1>2, WorkingOnStations DEF WorkHeld
<1>4. s \in Beating(w) /\ row[s].claimed_by = w
  BY <1>3 DEF Held, Beating
<1>5. clock' <= row[s].lease_until - ClaimFor + BeatPeriod
  BY <1>4 DEF OnTime
<1>6. hb[w].pc = "rereading" => row[s].lease_until <= hb[w].now + MaxLag + ClaimFor
  BY <1>3 DEF Held
<1>7. /\ clock' + ClaimFor <= row[s].lease_until + MaxLag + BeatPeriod
      /\ hb[w].pc = "rereading" => clock' <= hb[w].now + MaxLag + BeatPeriod
  BY <1>1, <1>3, <1>5, <1>6, ConstantsAssumption, BeatAssumption
<1> QED
  BY <1>1, <1>3, <1>7 DEF Held, LateRows

\* Every step keeps what is worked on held.
LEMMA WorkHeldStep ==
  IInv /\ TimelyInv /\ [TimelyNext]_vars => WorkHeld'
<1> SUFFICES ASSUME TypeOK, ReadingsPast, LeasesBounded, WorkHeld, [TimelyNext]_vars,
                    NEW w \in Owners, NEW s \in WorkingOn(w)'
             PROVE  Held(w, s)'
  BY DEF IInv, TimelyInv, WorkHeld
<1>1. ASSUME NEW v \in Owners, Step(v)
      PROVE  Held(w, s)'
  <2>1. CASE v # w
    BY <1>1, <2>1, HeldFromOthers
  <2>2. CASE v = w
    BY <1>1, <2>2, ClaimHolds, MainHolds, SendHolds, RefreshHolds, RereadHolds DEF Step
  <2> QED
    BY <2>1, <2>2
<1>2. CASE Tick /\ OnTime(clock')
  BY <1>2, TickHolds
<1>3. CASE UNCHANGED vars
  <2>1. WorkingOn(w)' = WorkingOn(w) /\ LateRows(w)' = LateRows(w)
    BY <1>3 DEF vars, WorkingOn, Batch, LateRows
  <2> QED
    BY <1>3, <2>1 DEF vars, WorkHeld, Held
<1> QED
  BY <1>1, <1>2, <1>3 DEF TimelyNext, Step

\* At first nothing is leased and nobody works.
LEMMA TimelyInit == Init => TimelyInv
<1> SUFFICES ASSUME Init PROVE TimelyInv
  OBVIOUS
<1>1. \A s \in Stations : row[s].lease_until = NoLease
  BY DEF Init, FromStation
<1>2. \A w \in Owners : WorkingOn(w) = {}
  BY WorkingOnCases DEF Init
<1> QED
  BY <1>1, <1>2, ConstantsAssumption DEF Init, TimelyInv, LeasesBounded, WorkHeld, NoLease

\* The invariant of the loops holds of the timely ones too.
LEMMA TimelyInvariant == TimelySpec => [](IInv /\ TimelyInv)
<1>1. IInv /\ [TimelyNext]_vars => IInv'
  BY TimelyStep, InvStep
<1>2. IInv /\ TimelyInv /\ [TimelyNext]_vars => TimelyInv'
  BY LeasesBoundedStep, WorkHeldStep DEF IInv, TimelyInv
<1> QED
  BY <1>1, <1>2, InvInit, TimelyInit, PTL DEF TimelySpec

\* As long as the heartbeats are on time, a process keeps the leases of the stations
\* it works on, whatever crashes, lags and late commits there are (iter.py, the
\* heartbeat loop).
THEOREM LeasesAreKept == TimelySpec => []KeepsLease
<1>1. IInv /\ TimelyInv => KeepsLease
  <2> SUFFICES ASSUME TypeOK, WorkHeld, NEW w \in Owners, NEW s \in WorkingOn(w)
               PROVE  s \in leased[w].ids /\ row[s].claimed_by = w /\ row[s].lease_until > clock
    BY DEF IInv, TimelyInv, KeepsLease
  <2>1. Held(w, s) /\ s \in Stations
    BY WorkingOnStations DEF WorkHeld
  <2> QED
    BY <2>1, HeldAlive DEF Held
<1> QED
  BY <1>1, TimelyInvariant, PTL

\* Then no two processes insert the observations of one station at a time, as the
\* check of the ids that exist in ClickHouse needs it.
THEOREM InsertsAreExclusive == TimelySpec => []ExclusiveInsert
<1>1. KeepsLease => ExclusiveInsert
  <2> SUFFICES ASSUME KeepsLease, NEW v \in Owners, NEW w \in Owners, v # w,
                      pc[v] = "inserting", pc[w] = "inserting",
                      NEW s \in inserting[v].ids \cap inserting[w].ids
               PROVE  FALSE
    BY DEF ExclusiveInsert
  <2>1. s \in WorkingOn(v) /\ s \in WorkingOn(w)
    BY WorkingOnCases
  <2> QED
    BY <2>1 DEF KeepsLease
<1> QED
  BY <1>1, LeasesAreKept, PTL

-----------------------------------------------------------------------------
(* What an iteration leaves behind *)

\* Of a process without lapses: what it holds is of its batch, and so is its list;
\* the rows of its heartbeat's open transaction are its own; and no commit is late.
Tidy(w) ==
  /\ pc[w] # "dead" => \A s \in Stations : row[s].claimed_by = w => s \in Batch(w)
  /\ leased[w].ids \subseteq Batch(w) \/ pc[w] = "stopping"
  /\ hb[w].pc = "rereading" => \A s \in hb[w].ids : row[s].claimed_by = w
  /\ late[w] = {}

\* A heartbeat that fails changes no owner, and of the variables of the processes
\* its own list and task only.
LEMMA FailedAlone ==
  ASSUME TypeOK, ReadingsPast, NEW v \in Owners, HbFails(v)
  PROVE  /\ UNCHANGED <<clock, pc, obj, late>> /\ hb'[v].pc = "ended"
         /\ \A s \in Stations : row'[s].claimed_by = row[s].claimed_by
         /\ \A w \in Owners \ {v} : hb'[w] = hb[w] /\ leased'[w] = leased[w]
         /\ leased' = leased \/ \E list \in Reread(v) : leased' = [leased EXCEPT ![v] = list]
<1> USE TypeFacts
<1>1. row' = row \/ \E ids \in SUBSET Stations, now \in Nat : row' = Refreshed(row, ids, v, now)
  BY HeartbeatWrites DEF Heartbeat
<1>2. \A s \in Stations : row'[s].claimed_by = row[s].claimed_by
  BY <1>1, RefreshedType
<1>3. /\ UNCHANGED <<clock, pc, obj, late>> /\ hb' = [hb EXCEPT ![v] = Task("ended", {}, 0)]
      /\ leased' = leased \/ \E list \in Reread(v) : leased' = [leased EXCEPT ![v] = list]
  BY DEF HbFails, taskVars
<1>4. hb'[v].pc = "ended" /\ \A w \in Owners \ {v} : hb'[w] = hb[w] /\ leased'[w] = leased[w]
  BY <1>3 DEF Task
<1> QED
  BY <1>2, <1>3, <1>4

\* Nobody takes a row of a process without lapses, and it takes none of theirs.
LEMMA TidyFromOthers ==
  ASSUME TypeOK, ReadingsPast, NEW v \in Owners, Step(v) \/ HbFails(v),
         NEW w \in Owners, w # v, NeverLapses(w), Tidy(w)
  PROVE  Tidy(w)'
<1> USE TypeFacts
<1>1. /\ pc'[w] = pc[w] /\ obj'[w] = obj[w] /\ hb'[w] = hb[w] /\ leased'[w] = leased[w]
      /\ late'[w] = late[w]
  BY OthersAlone, FailedAlone
<1>2. CASE pc[w] = "dead"
  BY <1>1, <1>2 DEF Tidy, TypeOK, TasksEnded, Batch
<1>3. CASE pc[w] # "dead"
  <2>1. ASSUME NEW s \in Stations
        PROVE  row'[s].claimed_by = w <=> row[s].claimed_by = w
    <3>1. \A now \in Readings(clock) : row[s].claimed_by = w => ~Unleased(row[s], now)
      BY <1>3, ReadingsRange DEF NeverLapses, Unleased, NoLease
    <3>2. CASE Step(v)
      BY <3>1, <3>2, RowWrites, ConstantsAssumption
    <3>3. CASE HbFails(v)
      BY <3>3, FailedAlone
    <3> QED
      BY <3>2, <3>3
  <2> QED
    BY <1>1, <2>1 DEF Tidy, Batch
<1> QED
  BY <1>2, <1>3

\* A claim takes a batch where nothing was held.
LEMMA ClaimTidy ==
  ASSUME TypeOK, NEW w \in Owners, Tidy(w), ClaimStates(w)
  PROVE  Tidy(w)'
<1> USE TypeFacts
<1>1. PICK skipped \in SUBSET Stations : ClaimWith(w, skipped)
  BY DEF ClaimStates
<1>2. PICK now \in Readings(clock) :
        \E S \in Picks(row, skipped, now) \ {{}} :
          /\ row' = Claimed(row, S, w, now)
          /\ obj' = [obj EXCEPT ![w] = [r \in S |-> row[r].schedule]]
          /\ leased' = [leased EXCEPT ![w] = StateList(S, FALSE)]
  BY <1>1 DEF ClaimWith
<1>3. PICK S \in Picks(row, skipped, now) :
          /\ row' = Claimed(row, S, w, now)
          /\ obj' = [obj EXCEPT ![w] = [r \in S |-> row[r].schedule]]
          /\ leased' = [leased EXCEPT ![w] = StateList(S, FALSE)]
  BY <1>2
<1>4. pc[w] = "idle" /\ hb' = [hb EXCEPT ![w] = Task("waiting", {}, 0)] /\ UNCHANGED late
  BY <1>1 DEF ClaimWith
<1>5. Batch(w)' = S /\ leased'[w].ids = S /\ hb'[w].pc = "waiting"
  BY <1>3, <1>4 DEF Batch, StateList, Task
<1>6. \A s \in Stations : row[s].claimed_by # w
  BY <1>4 DEF Tidy, TypeOK, TasksEnded
<1>7. \A s \in Stations : row'[s].claimed_by = w => s \in S
  BY <1>3, <1>6 DEF Claimed
<1> QED
  BY <1>4, <1>5, <1>7 DEF Tidy

\* The other steps of the iteration.  The feedback, whatever reading it is given,
\* releases all that is held; and it has waited for an open transaction of its own
\* heartbeat, so that there is nothing to commit late.
LEMMA MainTidy ==
  ASSUME TypeOK, NEW w \in Owners, NeverLapses(w), Tidy(w), Main(w) \/ Crash(w), ~ClaimStates(w)
  PROVE  Tidy(w)'
<1> USE TypeFacts
<1>1. CASE ClaimNothing(w) \/ FetchFails(w) \/ InsertObservations(w)
  <2>1. UNCHANGED <<row, leased, hb, late>>
    BY <1>1 DEF ClaimNothing, FetchFails, InsertObservations, vars
  <2>2. Batch(w)' = Batch(w)
    BY <1>1 DEF ClaimNothing, FetchFails, InsertObservations, Marked, vars, Batch
  <2>3. (pc'[w] = "dead" <=> pc[w] = "dead") /\ (pc'[w] = "stopping" <=> pc[w] = "stopping")
    BY <1>1 DEF ClaimNothing, FetchFails, InsertObservations, vars
  <2> QED
    BY <2>1, <2>2, <2>3 DEF Tidy
<1>2. CASE FetchDone(w)
  <2>1. /\ UNCHANGED <<row, obj, hb, late>>
        /\ leased'[w].ids \subseteq leased[w].ids
        /\ pc[w] = "fetching" /\ pc'[w] \in {"updating", "inserting"}
    BY <1>2 DEF FetchDone, StateList
  <2> QED
    BY <2>1 DEF Tidy, Batch
<1>3. CASE Feedback(w)
  <2>1. /\ UNCHANGED <<leased, hb, late>> /\ DOMAIN obj[w] = Batch(w)
        /\ pc[w] = "updating" /\ pc'[w] = "stopping"
    BY <1>3 DEF Feedback, Batch
  <2>2. PICK now \in Readings(clock) :
          /\ LockedBy(w) \cap Batch(w) \cap Owned(row, w, now) = {}
          /\ row' = Released(row, obj[w], w, now)
    BY <1>3 DEF Feedback
  <2>3. \A s \in Stations : row[s].claimed_by = w => s \in Batch(w) \cap Owned(row, w, now)
    BY <2>1, ReadingsRange DEF Tidy, NeverLapses, Owned
  <2>4. \A s \in Stations : row'[s].claimed_by # w
    BY <2>1, <2>2, <2>3, ConstantsAssumption DEF Released
  <2>5. hb[w].pc = "rereading" => hb[w].ids = {}
    BY <2>2, <2>3 DEF Tidy, LockedBy
  <2> QED
    BY <2>1, <2>4, <2>5 DEF Tidy
<1>4. CASE Stop(w)
  <2>1. /\ UNCHANGED row /\ pc[w] = "stopping" /\ leased'[w].ids = {} /\ hb'[w].pc = "off"
    BY <1>4 DEF Stop, ForgetHeartbeat, NoStates, StateList, NoTask, Task
  <2>2. \A s \in Stations : row[s].claimed_by # w
    BY <2>1 DEF Tidy, TypeOK, TasksEnded
  <2>3. ASSUME NEW c \in Committing(w)
        PROVE  c.ids = {}
    <3>1. CASE hb[w].pc = "rereading"
      BY <2>2, <2>3, <3>1 DEF Tidy, Committing, Commit
    <3>2. CASE hb[w].pc = "refreshing"
      BY <2>2, <2>3, <3>2 DEF Committing, Commit, Owned
    <3>3. CASE hb[w].pc \notin {"rereading", "refreshing"}
      BY <2>3, <3>3 DEF Committing
    <3> QED
      BY <3>1, <3>2, <3>3
  <2>4. late' = late
    BY <1>4, <2>3 DEF Stop
  <2> QED
    BY <2>1, <2>2, <2>4 DEF Tidy
<1>5. CASE Crash(w)
  <2>1. /\ pc'[w] = "dead" /\ leased'[w].ids = {} /\ hb'[w].pc = "off" /\ late'[w] = {}
    BY <1>5 DEF Crash, ForgetHeartbeat, NoStates, StateList, NoTask, Task
  <2> QED
    BY <2>1 DEF Tidy
<1> QED
  BY <1>1, <1>2, <1>3, <1>4, <1>5 DEF Main

\* What get_claimed returns is held.
LEMMA RereadHeld ==
  ASSUME TypeOK, NEW w \in Owners, NEW list \in Reread(w), NEW s \in list.ids
  PROVE  s \in Stations /\ row[s].claimed_by = w
<1>1. /\ DOMAIN Refreshed(row, hb[w].ids, w, hb[w].now) = Stations
      /\ \A r \in Stations :
           Refreshed(row, hb[w].ids, w, hb[w].now)[r].claimed_by = row[r].claimed_by
  BY TypeFacts, RefreshedType DEF Refreshed
<1> QED
  BY <1>1 DEF Reread, StateList, Owned

\* The heartbeat changes no owner, and what it reads again is held.
LEMMA HeartbeatTidy ==
  ASSUME TypeOK, ReadingsPast, NEW w \in Owners, Tidy(w), Heartbeat(w)
  PROVE  Tidy(w)'
<1> USE TypeFacts
<1>0. /\ UNCHANGED pc /\ Batch(w)' = Batch(w)
      /\ \A s \in Stations : row'[s].claimed_by = row[s].claimed_by
  <2>1. UNCHANGED pc /\ Batch(w)' = Batch(w)
    BY HeartbeatKeepsWork, FailedAlone DEF Heartbeat, Batch
  <2>2. row' = row \/ \E ids \in SUBSET Stations, now \in Nat : row' = Refreshed(row, ids, w, now)
    BY HeartbeatWrites
  <2> QED
    BY <2>1, <2>2, RefreshedType
<1>1. CASE HbSend(w)
  <2>1. /\ UNCHANGED <<leased, late>> /\ hb'[w].pc = "refreshing"
    BY <1>1 DEF HbSend, Task
  <2> QED
    BY <1>0, <2>1 DEF Tidy
<1>2. CASE HbRefresh(w)
  <2>1. /\ UNCHANGED late /\ leased'[w].ids \subseteq leased[w].ids
        /\ hb'[w].pc = "rereading" => \A s \in hb'[w].ids : row[s].claimed_by = w
    BY <1>2 DEF HbRefresh, NoStates, StateList, Task, Owned
  <2>2. hb'[w].ids \subseteq Stations
    BY <1>2 DEF HbRefresh, Task
  <2> QED
    BY <1>0, <2>1, <2>2 DEF Tidy
<1>3. CASE HbReread(w)
  <2>1. /\ UNCHANGED late /\ hb[w].pc = "rereading" /\ hb'[w].pc = "waiting"
        /\ \E list \in Reread(w) : leased'[w] = list
    BY <1>3 DEF HbReread, Task
  <2>2. pc[w] # "dead"
    BY <2>1 DEF TypeOK, TasksEnded
  <2>3. leased'[w].ids \subseteq Batch(w)
    BY <2>1, <2>2, RereadHeld DEF Tidy
  <2> QED
    BY <1>0, <2>1, <2>3 DEF Tidy
<1>4. CASE HbFails(w)
  <2>1. /\ UNCHANGED late /\ hb'[w].pc = "ended"
        /\ leased' = leased \/ \E list \in Reread(w) : leased'[w] = list
    BY <1>4, FailedAlone
  <2>2. pc[w] # "dead"
    BY <1>4 DEF HbFails, TypeOK, TasksEnded
  <2>3. leased'[w].ids \subseteq Batch(w) \/ pc[w] = "stopping"
    BY <2>1, <2>2, RereadHeld DEF Tidy
  <2> QED
    BY <1>0, <2>1, <2>3 DEF Tidy
<1>5. CASE LateCommit(w)
  BY <1>5 DEF LateCommit, Tidy
<1> QED
  BY <1>1, <1>2, <1>3, <1>4, <1>5 DEF Heartbeat

\* Every step keeps a process without lapses tidy.
LEMMA TidyStep ==
  ASSUME NEW w \in Owners
  PROVE  IInv /\ NeverLapses(w) /\ Tidy(w) /\ [Next]_vars => Tidy(w)'
<1> SUFFICES ASSUME TypeOK, ReadingsPast, NeverLapses(w), Tidy(w), [Next]_vars
             PROVE  Tidy(w)'
  BY DEF IInv
<1>1. ASSUME NEW v \in Owners, Main(v) \/ Heartbeat(v) \/ Crash(v)
      PROVE  Tidy(w)'
  <2>1. CASE v # w
    BY <1>1, <2>1, TidyFromOthers DEF Step, Heartbeat
  <2>2. CASE v = w
    BY <1>1, <2>2, ClaimTidy, MainTidy, HeartbeatTidy
  <2> QED
    BY <2>1, <2>2
<1>2. CASE Tick \/ UNCHANGED vars
  <2>1. UNCHANGED <<row, pc, obj, leased, hb, late>>
    BY <1>2 DEF Tick, taskVars, vars
  <2> QED
    BY <2>1 DEF Tidy, Batch
<1> QED
  BY <1>1, <1>2 DEF Next

\* At first no process has anything.
LEMMA TidyInit == ASSUME NEW w \in Owners PROVE Init => Tidy(w)
<1> SUFFICES ASSUME Init PROVE Tidy(w)
  OBVIOUS
<1>1. \A s \in Stations : row[s].claimed_by = NoOwner
  BY DEF Init, FromStation
<1>2. hb[w].pc = "off" /\ leased[w].ids = {} /\ late[w] = {}
  BY DEF Init, NoTask, Task, NoStates, StateList
<1> QED
  BY <1>1, <1>2, ConstantsAssumption DEF Tidy

\* Only a lease that has run out can leave a row behind (iter.py, the end of run).
\* As long as a process lets none of its leases lapse, an iteration that is over
\* has left nothing claimed, nor a commit that could renew it, and get_claimed gives
\* back rows of the batch only - however readings lag and heartbeats are late or fail.
THEOREM OnlyLapsesLeaveRows ==
  ASSUME NEW w \in Owners
  PROVE  Spec /\ []NeverLapses(w) => []HoldsBatchOnly(w)
<1>1. Tidy(w) => HoldsBatchOnly(w)
  BY DEF Tidy, HoldsBatchOnly
<1> QED
  BY <1>1, Invariant, TidyInit, TidyStep, PTL DEF Spec

-----------------------------------------------------------------------------
(* The loops together with the observation store *)

Inserts == INSTANCE ObservationStore_proofs WITH
  Workers <- Owners, MaxFaults <- MaxStoreFaults,
  table <- observed, late <- underway, pc <- call, bad <- errors, faults <- storeFaults

\* An insert is under way only while the iteration waits for it, and its
\* observations are those fetched for the stations of the list; afterwards those
\* of the stations known as stored are in the table.
Called(w) ==
  /\ call[w] # "idle" => pc[w] = "inserting"
  /\ pc[w] = "inserting" => batch[w] = {o \in fetched[w] : StationOf[o] \in inserting[w].ids}
  /\ IF pc[w] = "updating"
       THEN \A o \in fetched[w] : StationOf[o] \in stored[w] => observed[o] > 0
       ELSE stored[w] = {}

PipelineInv ==
  /\ fetched \in [Owners -> SUBSET Obs]
  /\ \A w \in Owners : Called(w)

\* Each step of the pipeline is a step of the loops, or leaves them alone.
LEMMA PipelineLoops == [PipelineNext]_pipelineVars => [Next]_vars
<1> SUFFICES ASSUME [PipelineNext]_pipelineVars
             PROVE  [Next]_vars
  OBVIOUS
<1>1. ASSUME NEW w \in Owners, Run(w)
      PROVE  Main(w) \/ HbSend(w) \/ HbRefresh(w) \/ HbReread(w) \/ LateCommit(w) \/ Crash(w)
             \/ UNCHANGED vars
  BY <1>1 DEF Run, FetchReturns, InsertReturns, FeedbackReturns, ProcessDies, InsertRuns,
              LoopRuns, Main
<1>2. ASSUME NEW w \in Owners, HeartbeatFails(w)
      PROVE  Next
  BY <1>2 DEF HeartbeatFails, Next, Heartbeat
<1>3. CASE UNCHANGED pipelineVars
  BY <1>3 DEF pipelineVars
<1> QED
  BY <1>1, <1>2, <1>3 DEF PipelineNext, ServerRuns, TimePasses, Next, Heartbeat

\* The same with heartbeats on time.
LEMMA PipelineTimelyLoops == [TimelyPipelineNext]_pipelineVars => [TimelyNext]_vars
<1> SUFFICES ASSUME [TimelyPipelineNext]_pipelineVars
             PROVE  [TimelyNext]_vars
  OBVIOUS
<1>1. ASSUME NEW w \in Owners, Run(w)
      PROVE  Main(w) \/ HbSend(w) \/ HbRefresh(w) \/ HbReread(w) \/ LateCommit(w) \/ Crash(w)
             \/ UNCHANGED vars
  BY <1>1 DEF Run, FetchReturns, InsertReturns, FeedbackReturns, ProcessDies, InsertRuns,
              LoopRuns, Main
<1>2. CASE UNCHANGED pipelineVars
  BY <1>2 DEF pipelineVars
<1> QED
  BY <1>1, <1>2 DEF TimelyPipelineNext, ServerRuns, TimePasses, TimelyNext

\* Each step of the pipeline is a step of the store, or leaves it alone.
LEMMA PipelineStore == [PipelineNext]_pipelineVars => [Click!Next]_Click!vars
<1> SUFFICES ASSUME [PipelineNext]_pipelineVars
             PROVE  [Click!Next]_Click!vars
  OBVIOUS
<1>1. UNCHANGED clickVars => UNCHANGED Click!vars
  BY DEF clickVars, Click!vars
<1>2. ASSUME NEW w \in Owners, Run(w)
      PROVE  Click!Start(w) \/ Click!Work(w) \/ UNCHANGED clickVars
  <2>1. CASE FetchReturns(w)
    BY <2>1 DEF FetchReturns
  <2>2. CASE InsertReturns(w)
    BY <2>2 DEF InsertReturns, Click!Work
  <2>3. CASE FeedbackReturns(w) \/ LoopRuns(w)
    BY <2>3 DEF FeedbackReturns, LoopRuns
  <2>4. CASE ProcessDies(w)
    BY <2>4 DEF ProcessDies, Click!Work
  <2>5. CASE InsertRuns(w)
    BY <2>5 DEF InsertRuns, Click!Work
  <2> QED
    BY <1>2, <2>1, <2>2, <2>3, <2>4, <2>5 DEF Run
<1>3. CASE UNCHANGED pipelineVars
  BY <1>1, <1>3 DEF pipelineVars
<1> QED
  BY <1>1, <1>2, <1>3 DEF PipelineNext, HeartbeatFails, ServerRuns, TimePasses, Click!Next

\* The pipeline with heartbeats on time is a pipeline.
LEMMA TimelyPipelineStep == [TimelyPipelineNext]_pipelineVars => [PipelineNext]_pipelineVars
  BY DEF TimelyPipelineNext, PipelineNext

\* What the loops do with the store is what ObservationStore says its workers do:
\* its theorems apply to them.
THEOREM PipelineUsesStore == PipelineSpec => Click!Spec
  BY PipelineStore, PTL DEF PipelineSpec, PipelineInit, Click!Spec

\* What the loops do in the pipeline is what IngestionIteration says: the outcomes
\* the store's answers bring about are among those it allows for.
THEOREM PipelineRunsLoops == PipelineSpec => Spec
  BY PipelineLoops, PTL DEF PipelineSpec, PipelineInit, Spec

\* The store of the proofs is the store of the pipeline.
LEMMA InsertsSame ==
  /\ Click!Init => Inserts!Init
  /\ [Click!Next]_Click!vars => [Inserts!Next]_Inserts!vars
<1>1. Click!Init => Inserts!Init
  BY DEF Click!Init, Inserts!Init
<1>2. UNCHANGED Click!vars => UNCHANGED Inserts!vars
  BY DEF Click!vars, Inserts!vars
<1>3. ASSUME NEW w \in Owners, Click!Start(w) \/ Click!Work(w)
      PROVE  Inserts!Start(w) \/ Inserts!Work(w)
  BY <1>3 DEF Click!Start, Click!Work, Click!BulkCheck, Click!BulkInsert, Click!BulkFails,
    Click!SingleCheck, Click!SingleInsert, Click!SingleFails, Click!SinglesDone,
    Click!MarkStates, Click!Crash, Click!Forget, Click!PartlyAdded, Click!Added,
    Click!Existing, Click!Alone, Click!StationsOf,
    Inserts!Start, Inserts!Work, Inserts!BulkCheck, Inserts!BulkInsert, Inserts!BulkFails,
    Inserts!SingleCheck, Inserts!SingleInsert, Inserts!SingleFails, Inserts!SinglesDone,
    Inserts!MarkStates, Inserts!Crash, Inserts!Forget, Inserts!PartlyAdded, Inserts!Added,
    Inserts!Existing, Inserts!Alone, Inserts!StationsOf
<1>4. Click!Server => Inserts!Server
  BY DEF Click!Server, Click!LateInsert, Click!Merge, Click!Added,
    Inserts!Server, Inserts!LateInsert, Inserts!Merge, Inserts!Added
<1>5. Click!Next => Inserts!Next
  BY <1>3, <1>4 DEF Click!Next, Inserts!Next
<1> QED
  BY <1>1, <1>2, <1>5

\* What is proved of the store, for the store of the pipeline.
LEMMA PipelineInserts ==
  PipelineSpec => [](Inserts!TypeOK /\ Inserts!AcknowledgedStored /\ Inserts!NoDuplicates)
<1>1. Inserts!StoreAssumption
  BY PipelineAssumption DEF Inserts!StoreAssumption
<1>2. PipelineSpec => Inserts!Spec
  BY PipelineUsesStore, InsertsSame, PTL DEF Click!Spec, Inserts!Spec
<1>3. Inserts!Spec => []Inserts!TypeOK
  BY <1>1, Inserts!TypeCorrect
<1>4. Inserts!Spec => []Inserts!AcknowledgedStored
  BY <1>1, Inserts!AcknowledgedIsStored
<1>5. Inserts!Spec => []Inserts!NoDuplicates
  BY <1>1, Inserts!NoDuplicatesUnderLeases
<1> QED
  BY <1>2, <1>3, <1>4, <1>5, PTL

-----------------------------------------------------------------------------
(* What is recorded is stored *)

\* The store's types, as far as the arguments below need them.
LEMMA InsertTypes ==
  ASSUME Inserts!TypeOK
  PROVE  /\ observed \in [Obs -> Nat]
         /\ call \in [Owners -> {"idle", "bulk", "bulk_insert", "single", "single_insert", "marking"}]
         /\ batch \in [Owners -> SUBSET Obs]
         /\ errors \in [Owners -> SUBSET Inserts!StationsOf(Obs)]
         /\ \A w \in Owners : call[w] = "idle" => batch[w] = {}
  BY DEF Inserts!TypeOK

\* No step takes the last row of an observation away.
LEMMA ObservedStays ==
  ASSUME Inserts!TypeOK, [PipelineNext]_pipelineVars, NEW o \in Obs, observed[o] > 0
  PROVE  observed'[o] > 0
<1>1. Inserts!StoreAssumption
  BY PipelineAssumption DEF Inserts!StoreAssumption
<1>2. [Inserts!Next]_Inserts!vars
  BY PipelineStore, InsertsSame
<1>3. Inserts!Existing \subseteq Inserts!Existing'
  BY <1>1, <1>2, Inserts!TableStep
<1> QED
  BY <1>3 DEF Inserts!Existing

\* Steps that leave an owner's iteration and its insert alone.
LEMMA CalledElsewhere ==
  ASSUME Inserts!TypeOK, [PipelineNext]_pipelineVars, PipelineInv, NEW v \in Owners,
         pc'[v] = pc[v], call'[v] = call[v], batch'[v] = batch[v], fetched'[v] = fetched[v],
         inserting'[v] = inserting[v], stored'[v] = stored[v]
  PROVE  Called(v)'
<1>1. Called(v) /\ fetched[v] \subseteq Obs
  BY DEF PipelineInv
<1> QED
  BY <1>1, ObservedStays DEF Called

\* At the end of an insert, what is fetched for a station without an error is there.
LEMMA ReturnedStored ==
  ASSUME Inserts!TypeOK, Inserts!AcknowledgedStored, PipelineInv, NEW w \in Owners,
         InsertReturns(w)
  PROVE  \A o \in fetched[w] : StationOf[o] \in inserting[w].ids \ errors[w] => observed[o] > 0
<1> SUFFICES ASSUME NEW o \in fetched[w], StationOf[o] \in inserting[w].ids \ errors[w]
             PROVE  observed[o] > 0
  OBVIOUS
<1>1. Called(w) /\ pc[w] = "inserting"
  BY DEF PipelineInv, InsertReturns, InsertObservations
<1>2. o \in batch[w]
  BY <1>1 DEF Called
<1>3. call[w] = "marking"
  BY <1>2, InsertTypes DEF InsertReturns, Click!MarkStates
<1> QED
  BY <1>2, <1>3 DEF Inserts!AcknowledgedStored, Inserts!Existing

\* The steps of an iteration that has to do with the store.
LEMMA RunCalled ==
  ASSUME TypeOK, Inserts!TypeOK, Inserts!AcknowledgedStored, PipelineInv, NEW w \in Owners, Run(w)
  PROVE  PipelineInv'
<1>0. [PipelineNext]_pipelineVars
  BY DEF PipelineNext
<1>1. /\ fetched \in [Owners -> SUBSET Obs]
      /\ call \in [Owners -> {"idle", "bulk", "bulk_insert", "single", "single_insert", "marking"}]
      /\ batch \in [Owners -> SUBSET Obs]
      /\ DOMAIN pc = Owners /\ DOMAIN stored = Owners /\ DOMAIN inserting = Owners
      /\ \A v \in Owners : Called(v)
      /\ \A v \in Owners : call[v] = "idle" => batch[v] = {}
  BY InsertTypes DEF PipelineInv, TypeOK, VariableTypes
<1>2. ASSUME FetchReturns(w)
      PROVE  PipelineInv'
  <2>1. PICK found \in SUBSET Obs :
          /\ fetched' = [fetched EXCEPT ![w] = found]
          /\ LET sent == {o \in found : pc'[w] = "inserting" /\ StationOf[o] \in inserting'[w].ids}
             IN  IF sent = {} THEN UNCHANGED clickVars
                 ELSE Click!Start(w) /\ batch'[w] = sent
    BY <1>2 DEF FetchReturns
  <2>2. /\ pc[w] = "fetching"
        /\ \/ pc' = [pc EXCEPT ![w] = "updating"] /\ inserting' = inserting
           \/ /\ pc' = [pc EXCEPT ![w] = "inserting"]
              /\ \E kept : inserting' = [inserting EXCEPT ![w] = kept]
        /\ stored' = stored
    BY <1>2 DEF FetchReturns, FetchDone
  <2>3. call[w] = "idle" /\ batch[w] = {} /\ stored[w] = {}
    BY <1>1, <2>2 DEF Called
  <2>4. \A v \in Owners \ {w} : /\ pc'[v] = pc[v] /\ inserting'[v] = inserting[v]
                               /\ fetched'[v] = fetched[v] /\ stored'[v] = stored[v]
    BY <1>1, <2>1, <2>2
  <2>5. \/ UNCHANGED <<call, batch>>
        \/ /\ call' = [call EXCEPT ![w] = "bulk"]
           /\ \E S \in SUBSET Obs : batch' = [batch EXCEPT ![w] = S]
    BY <2>1 DEF clickVars, Click!Start
  <2>6. \A v \in Owners \ {w} : call'[v] = call[v] /\ batch'[v] = batch[v]
    BY <1>1, <2>5
  <2>7. \A v \in Owners \ {w} : Called(v)'
    BY <1>0, <2>4, <2>6, CalledElsewhere
  <2>8. pc'[w] = "inserting" => batch'[w] = {o \in fetched'[w] : StationOf[o] \in inserting'[w].ids}
    BY <1>1, <2>1, <2>3 DEF clickVars
  <2>9. call'[w] # "idle" => pc'[w] = "inserting"
    BY <1>1, <2>1, <2>3 DEF clickVars
  <2>10. Called(w)'
    BY <1>1, <2>2, <2>3, <2>8, <2>9 DEF Called
  <2> QED
    BY <1>1, <2>1, <2>7, <2>10 DEF PipelineInv
<1>3. ASSUME InsertReturns(w)
      PROVE  PipelineInv'
  <2>1. /\ pc[w] = "inserting" /\ pc' = [pc EXCEPT ![w] = "updating"]
        /\ inserting' = inserting /\ fetched' = fetched
        /\ \E good : stored' = [stored EXCEPT ![w] = good]
        /\ stored'[w] = inserting[w].ids \ errors[w]
    BY <1>3 DEF InsertReturns, InsertObservations
  <2>2. \/ call[w] = "idle" /\ UNCHANGED <<call, batch, observed>>
        \/ /\ call' = [call EXCEPT ![w] = "idle"]
           /\ batch' = [batch EXCEPT ![w] = {}]
           /\ observed' = observed
    BY <1>3 DEF InsertReturns, clickVars, Click!MarkStates, Click!Forget
  <2>3. \A v \in Owners \ {w} : Called(v)'
    BY <1>0, <1>1, <2>1, <2>2, CalledElsewhere
  <2>4. \A o \in fetched'[w] : StationOf[o] \in stored'[w] => observed'[o] > 0
    BY <1>3, <2>1, <2>2, ReturnedStored
  <2>5. Called(w)'
    BY <1>1, <2>1, <2>2, <2>4 DEF Called
  <2> QED
    BY <1>1, <2>1, <2>3, <2>5 DEF PipelineInv
<1>4. ASSUME FeedbackReturns(w) \/ ProcessDies(w)
      PROVE  PipelineInv'
  <2>1. /\ \E at \in {"stopping", "dead"} : pc' = [pc EXCEPT ![w] = at]
        /\ stored' = [stored EXCEPT ![w] = {}]
        /\ inserting' = [inserting EXCEPT ![w] = NoStates]
        /\ fetched' = [fetched EXCEPT ![w] = {}]
    BY <1>4 DEF FeedbackReturns, ProcessDies, Feedback, Crash, ForgetBatch
  <2>2. /\ call'[w] = "idle"
        /\ \A v \in Owners \ {w} : call'[v] = call[v] /\ batch'[v] = batch[v]
    <3>1. CASE FeedbackReturns(w)
      BY <1>1, <3>1 DEF FeedbackReturns, Feedback, Called, clickVars
    <3>2. CASE ProcessDies(w)
      BY <1>1, <3>2 DEF ProcessDies, Click!Crash, Click!Forget, clickVars
    <3> QED
      BY <1>4, <3>1, <3>2
  <2>3. \A v \in Owners \ {w} : Called(v)'
    BY <1>0, <1>1, <2>1, <2>2, CalledElsewhere
  <2>4. Called(w)'
    BY <1>1, <2>1, <2>2 DEF Called
  <2> QED
    BY <1>1, <2>1, <2>3, <2>4 DEF PipelineInv
<1>5. ASSUME InsertRuns(w)
      PROVE  PipelineInv'
  <2>1. /\ UNCHANGED <<pc, inserting, stored, fetched, batch>>
        /\ call[w] # "idle"
        /\ \E at : call' = [call EXCEPT ![w] = at]
    BY <1>5, <1>1 DEF InsertRuns, vars, Click!BulkCheck, Click!BulkInsert, Click!BulkFails,
      Click!SingleCheck, Click!SingleInsert, Click!SingleFails, Click!SinglesDone
  <2>2. \A v \in Owners \ {w} : Called(v)'
    BY <1>0, <1>1, <2>1, CalledElsewhere
  <2>3. Called(w)'
    BY <1>1, <2>1 DEF Called
  <2> QED
    BY <1>1, <2>1, <2>2, <2>3 DEF PipelineInv
<1>6. ASSUME LoopRuns(w)
      PROVE  PipelineInv'
  <2>1. UNCHANGED <<fetched, call, batch, observed>>
    BY <1>6 DEF LoopRuns, clickVars
  <2>2. /\ UNCHANGED <<inserting, stored>>
        /\ \/ UNCHANGED pc
           \/ /\ pc[w] \in {"idle", "stopping"}
              /\ \E at \in {"fetching", "idle"} : pc' = [pc EXCEPT ![w] = at]
    BY <1>6 DEF LoopRuns, ClaimStates, ClaimWith, ClaimNothing, FetchFails, Stop, HbSend,
      HbRefresh, HbReread, LateCommit, vars, taskVars
  <2>3. \A v \in Owners : Called(v)'
    BY <1>1, <2>1, <2>2 DEF Called
  <2> QED
    BY <1>1, <2>1, <2>3 DEF PipelineInv
<1> QED
  BY <1>2, <1>3, <1>4, <1>5, <1>6 DEF Run

LEMMA PipelineInvInit == PipelineInit => PipelineInv
<1> SUFFICES ASSUME PipelineInit PROVE PipelineInv
  OBVIOUS
<1>1. \A w \in Owners : pc[w] = "idle" /\ call[w] = "idle" /\ stored[w] = {} /\ fetched[w] = {}
  BY DEF PipelineInit, Init, Click!Init
<1> QED
  BY <1>1 DEF PipelineInit, PipelineInv, Called

LEMMA PipelineInvStep ==
  /\ TypeOK /\ Inserts!TypeOK /\ Inserts!AcknowledgedStored
  /\ PipelineInv /\ [PipelineNext]_pipelineVars
  => PipelineInv'
<1> SUFFICES ASSUME TypeOK, Inserts!TypeOK, Inserts!AcknowledgedStored, PipelineInv,
                    [PipelineNext]_pipelineVars
             PROVE  PipelineInv'
  OBVIOUS
<1>1. ASSUME NEW w \in Owners, Run(w)
      PROVE  PipelineInv'
  BY <1>1, RunCalled
<1>2. ASSUME UNCHANGED <<pc, inserting, stored, fetched, call, batch>>
      PROVE  PipelineInv'
  BY <1>2, CalledElsewhere DEF PipelineInv
<1>3. ASSUME NEW w \in Owners, HeartbeatFails(w)
      PROVE  PipelineInv'
  BY <1>2, <1>3 DEF HeartbeatFails, HbFails, taskVars, clickVars
<1>4. CASE ServerRuns
  BY <1>2, <1>4 DEF ServerRuns, Click!Server, Click!LateInsert, Click!Merge, vars
<1>5. CASE TimePasses
  BY <1>2, <1>5 DEF TimePasses, Tick, taskVars, clickVars
<1>6. CASE UNCHANGED pipelineVars
  BY <1>2, <1>6 DEF pipelineVars, vars, clickVars
<1> QED
  BY <1>1, <1>3, <1>4, <1>5, <1>6 DEF PipelineNext

LEMMA PipelineInvariant == PipelineSpec => []PipelineInv
<1>1. PipelineSpec => []TypeOK
  BY PipelineRunsLoops, TypeCorrect, PTL
<1> QED
  BY <1>1, PipelineInserts, PipelineInvInit, PipelineInvStep, PTL DEF PipelineSpec

\* A run that is recorded as a success has all it fetched for the station in the
\* table, whatever was late, lost or repeated in Postgres and in ClickHouse between
\* the fetch and the feedback (raw.py, run; iter.py, run).
THEOREM RecordedIsStored == PipelineSpec => RecordedStored
<1> DEFINE RecordStep ==
      \A s \in Stations :
        row'[s].schedule # row[s].schedule /\ ~row'[s].schedule.error
          => \E w \in Owners :
               /\ row[s].claimed_by = w
               /\ \A o \in fetched[w] : StationOf[o] = s => observed[o] > 0
<1>1. PipelineInv /\ TruthfulStep => RecordStep
  BY DEF PipelineInv, Called, TruthfulStep
<1>2. UNCHANGED vars => RecordStep
  BY DEF vars
<1>3. PipelineSpec => [][TruthfulStep]_vars
  BY PipelineRunsLoops, FeedbackIsTruthful, PTL DEF FeedbackTruthful
<1>4. PipelineSpec => [][RecordStep]_pipelineVars
  BY <1>1, <1>2, <1>3, PipelineInvariant, PTL
<1> QED
  BY <1>4 DEF RecordedStored

-----------------------------------------------------------------------------
(* With heartbeats on time, an observation is stored once *)

\* Observations to insert are for stations of the list.
BatchesListed ==
  \A w \in Owners : \A o \in batch[w] :
    pc[w] = "inserting" /\ StationOf[o] \in inserting[w].ids

\* So far no two batches shared a station.
WasExclusive == exclusive = TRUE

LEMMA PipelineListed == PipelineInv /\ Inserts!TypeOK => BatchesListed
<1> SUFFICES ASSUME PipelineInv, Inserts!TypeOK, NEW w \in Owners, NEW o \in batch[w]
             PROVE  pc[w] = "inserting" /\ StationOf[o] \in inserting[w].ids
  BY DEF BatchesListed
<1>1. call[w] # "idle"
  BY InsertTypes
<1> QED
  BY <1>1 DEF PipelineInv, Called

LEMMA TimelyPipelineFacts ==
  TimelyPipelineSpec => [](BatchesListed /\ Inserts!TypeOK /\ Inserts!NoDuplicates
                           /\ KeepsLease /\ ExclusiveInsert)
<1>1. TimelyPipelineSpec => PipelineSpec
  BY TimelyPipelineStep, PTL DEF TimelyPipelineSpec, PipelineSpec
<1>2. TimelyPipelineSpec => TimelySpec
  BY PipelineTimelyLoops, PTL DEF TimelyPipelineSpec, PipelineInit, TimelySpec
<1> QED
  BY <1>1, <1>2, PipelineInvariant, PipelineInserts, PipelineListed, LeasesAreKept,
     InsertsAreExclusive, PTL

\* An insert is only under way for a station whose row is the worker's, with a live
\* lease: the lock that lies in Postgres holds for the work in ClickHouse.
THEOREM InsertsAreLeased == TimelyPipelineSpec => []InsertsLeased
<1>1. BatchesListed /\ KeepsLease => InsertsLeased
  <2> SUFFICES ASSUME BatchesListed, KeepsLease,
                      NEW w \in Owners, NEW o \in batch[w]
               PROVE  row[StationOf[o]].claimed_by = w /\ row[StationOf[o]].lease_until > clock
    BY DEF InsertsLeased
  <2>1. StationOf[o] \in WorkingOn(w)
    BY WorkingOnCases DEF BatchesListed
  <2> QED
    BY <2>1 DEF KeepsLease
<1> QED
  BY <1>1, TimelyPipelineFacts, PTL

\* No step begins an insert beside one for the same station.
LEMMA ExclusiveStays ==
  /\ WasExclusive /\ Inserts!TypeOK /\ [PipelineNext]_pipelineVars
  /\ BatchesListed' /\ ExclusiveInsert'
  => WasExclusive'
<1> SUFFICES ASSUME WasExclusive, Inserts!TypeOK, [PipelineNext]_pipelineVars,
                    BatchesListed', ExclusiveInsert'
             PROVE  WasExclusive'
  OBVIOUS
<1>1. ASSUME NEW w \in Owners, NEW S \in SUBSET Obs, batch' = [batch EXCEPT ![w] = S]
      PROVE  Click!Alone(w, S)
  <2> SUFFICES ASSUME NEW v \in Owners \ {w}, NEW o \in batch[v], NEW p \in S,
                      StationOf[o] = StationOf[p]
               PROVE  FALSE
    BY DEF Click!Alone, Click!StationsOf
  <2>1. o \in batch'[v] /\ p \in batch'[w]
    BY <1>1, InsertTypes
  <2> QED
    BY <2>1 DEF BatchesListed, ExclusiveInsert
<1>2. ASSUME NEW w \in Owners, FetchReturns(w)
      PROVE  WasExclusive'
  <2>1. CASE UNCHANGED clickVars
    BY <2>1 DEF clickVars, WasExclusive
  <2>2. CASE Click!Start(w)
    BY <1>1, <2>2 DEF Click!Start, WasExclusive
  <2> QED
    BY <1>2, <2>1, <2>2 DEF FetchReturns
<1>3. ASSUME NEW w \in Owners, Run(w), ~FetchReturns(w)
      PROVE  exclusive' = exclusive
  BY <1>3 DEF Run, InsertReturns, FeedbackReturns, ProcessDies, InsertRuns, LoopRuns, clickVars,
    Click!MarkStates, Click!Crash, Click!BulkCheck, Click!BulkInsert, Click!BulkFails,
    Click!SingleCheck, Click!SingleInsert, Click!SingleFails, Click!SinglesDone
<1>4. ASSUME NEW w \in Owners, HeartbeatFails(w)
      PROVE  exclusive' = exclusive
  BY <1>4 DEF HeartbeatFails, clickVars
<1>5. ASSUME ServerRuns
      PROVE  exclusive' = exclusive
  BY <1>5 DEF ServerRuns, Click!Server, Click!LateInsert, Click!Merge
<1>6. ASSUME TimePasses
      PROVE  exclusive' = exclusive
  BY <1>6 DEF TimePasses, clickVars
<1>7. ASSUME UNCHANGED pipelineVars
      PROVE  exclusive' = exclusive
  <2>1. UNCHANGED clickVars
    BY <1>7 DEF pipelineVars
  <2> QED
    BY <2>1 DEF clickVars
<1>8. exclusive' = exclusive => WasExclusive'
  BY DEF WasExclusive
<1> QED
  BY <1>2, <1>3, <1>4, <1>5, <1>6, <1>7, <1>8 DEF PipelineNext

\* NoDuplicates without its hypothesis: the check of the existing ids suffices.
THEOREM ObservationsAreStoredOnce == TimelyPipelineSpec => []StoredOnce
<1>1. PipelineInit => WasExclusive
  BY DEF PipelineInit, Click!Init, WasExclusive
<1>2. TimelyPipelineSpec => []WasExclusive
  BY <1>1, ExclusiveStays, TimelyPipelineFacts, TimelyPipelineStep, PTL
     DEF TimelyPipelineSpec
<1>3. WasExclusive /\ Inserts!NoDuplicates => StoredOnce
  BY DEF Inserts!NoDuplicates, StoredOnce, WasExclusive
<1> QED
  BY <1>2, <1>3, TimelyPipelineFacts, PTL
=============================================================================
