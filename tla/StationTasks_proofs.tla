-------------------------- MODULE StationTasks_proofs --------------------------
(***************************************************************************)
(* Proofs about the tasks that add stations, for any number of ids, tasks and  *)
(* processes, any requests and answers, and any number of faults.             *)
(*                                                                         *)
(* That a task which succeeds leaves its stations behind, also those it found   *)
(* present, needs to know where they are at each point: still to be inserted,   *)
(* in the open transaction, or committed.  That the state rows appear with       *)
(* their stations needs that no other transaction has inserted them, or        *)
(* sync_pipeline_states would leave some out.                                *)
(***************************************************************************)
EXTENDS StationTasks, TLAPS

\* Where the stations that p's task is to add are.
Accounted(p) ==
  /\ pc[p] = "inserting"  => accepted[p] \subseteq stations \cup inserted[p] \cup {v.id : v \in todo[p]}
  /\ pc[p] = "committing" => /\ accepted[p] \subseteq stations \cup inserted[p]
                             /\ added[p] = inserted[p]
  /\ pc[p] = "committed"  => accepted[p] \subseteq stations

IInv ==
  /\ TypeOK
  /\ InsertedOnce
  /\ states = stations
  /\ \A p \in Workers : Accounted(p)

-----------------------------------------------------------------------------
(* Types *)

\* The end of a task leaves values of the right types, and no open transaction.
LEMMA FinishType ==
  ASSUME TypeOK, NEW p \in Workers, Finish(p)
  PROVE  /\ pc' \in [Workers -> {"idle", "fetching", "inserting", "committing", "committed", "crashed"}]
         /\ task' \in [Workers -> Tasks \cup {NoTask}]
         /\ accepted' \in [Workers -> SUBSET Ids]
         /\ todo' \in [Workers -> SUBSET Value]
         /\ waiting' \in [Workers -> Ids \cup {NoId}]
         /\ inserted' \in [Workers -> SUBSET Ids]
         /\ added' \in [Workers -> SUBSET Ids]
         /\ pc'[p] = "idle" /\ inserted'[p] = {} /\ todo'[p] = {}
         /\ \A q \in Workers \ {p} :
              pc'[q] = pc[q] /\ accepted'[q] = accepted[q] /\ todo'[q] = todo[q]
                /\ inserted'[q] = inserted[q] /\ added'[q] = added[q]
  BY DEF TypeOK, Finish

\* Both forms publish one message.
LEMMA SubmitPublishes ==
  ASSUME NEW t, SubmitArea(t) \/ SubmitLink(t)
  PROVE  \E req \in Requests : Publish(t, req)
BY DEF SubmitArea, SubmitLink

\* Both fetches lead to rows to insert.
LEMMA FetchBegins ==
  ASSUME NEW p, FetchArea(p) \/ FetchLink(p)
  PROVE  pc[p] = "fetching" /\ \E rows \in SUBSET Row : BeginInsert(p, rows)
<1>1. CASE FetchArea(p)
  <2>1. PICK answer \in Answers :
          BeginInsert(p, {row \in answer : FilterStation(request[task[p]], row)})
    BY <1>1 DEF FetchArea
  <2> QED
    BY <1>1, <2>1, TasksAssumption DEF FetchArea
<1>2. CASE FetchLink(p)
  <2>1. PICK answer \in Answers : \E row \in answer : BeginInsert(p, {row})
    BY <1>2 DEF FetchLink
  <2>2. PICK row \in answer : BeginInsert(p, {row})
    BY <2>1
  <2> QED
    BY <1>2, <2>1, <2>2, TasksAssumption DEF FetchLink
<1> QED
  BY <1>1, <1>2

\* The initial state has the types.
LEMMA TypeInit == Init => TypeOK
<1> SUFFICES ASSUME Init PROVE TypeOK
  OBVIOUS
<1>1. DOMAIN request = {}
  BY DEF Init
<1> QED
  BY <1>1, TasksAssumption DEF Init, TypeOK

\* Every step keeps the types.
LEMMA TypeStep == TypeOK /\ [Next]_vars => TypeOK'
<1> SUFFICES ASSUME TypeOK, [Next]_vars
             PROVE  TypeOK'
  OBVIOUS
<1> USE TasksAssumption
<1> DEFINE Places == {"idle", "fetching", "inserting", "committing", "committed", "crashed"}
<1>f. Fault => faults' \in 0..MaxFaults
  BY DEF Fault, TypeOK
<1>1. ASSUME NEW t \in Tasks, NEW req \in Requests, Publish(t, req)
      PROVE  TypeOK'
  <2>2. DOMAIN request' \subseteq Tasks /\ \A u \in DOMAIN request' : request'[u] \in Request
    BY <1>1 DEF Publish, TypeOK
  <2>3. queue' \in [Tasks -> Nat]
    BY <1>1 DEF Publish, TypeOK
  <2> QED
    BY <1>1, <2>2, <2>3 DEF Publish, TypeOK, work
<1>2. ASSUME NEW t \in Tasks, Redeliver(t)
      PROVE  TypeOK'
  <2>1. queue' \in [Tasks -> Nat]
    BY <1>2 DEF Redeliver, TypeOK
  <2> QED
    BY <1>2, <1>f, <2>1 DEF Redeliver, TypeOK, work
<1>3. ASSUME NEW p \in Workers, NEW t \in Tasks, Start(p, t)
      PROVE  TypeOK'
  <2>1. queue' \in [Tasks -> Nat]
    BY <1>3 DEF Start, TypeOK
  <2>2. /\ pc' \in [Workers -> Places] /\ task' \in [Workers -> Tasks \cup {NoTask}]
        /\ \A q \in Workers : pc'[q] \in {"idle", "fetching"} => pc[q] \in {"idle", "fetching"}
    BY <1>3 DEF Start, TypeOK
  <2> QED
    BY <1>3, <2>1, <2>2 DEF Start, TypeOK, work
<1>4. ASSUME NEW p \in Workers, NEW rows \in SUBSET Row, BeginInsert(p, rows)
      PROVE  TypeOK'
  <2>3. {ValueOf(row) : row \in rows} \subseteq Value /\ {row.id : row \in rows} \subseteq Ids
    <3>1. ASSUME NEW row \in rows
          PROVE  ValueOf(row) \in Value /\ row.id \in Ids
      <4>1. row.id \in Ids
        BY DEF Row
      <4>2. (row.text = "missing") \in BOOLEAN
        OBVIOUS
      <4> QED
        BY <4>1, <4>2, Zenon DEF ValueOf, Value
    <3> QED
      BY <3>1
  <2>4. todo' \in [Workers -> SUBSET Value] /\ accepted' \in [Workers -> SUBSET Ids]
    BY <1>4, <2>3 DEF BeginInsert, TypeOK
  <2>5. /\ pc' \in [Workers -> Places] /\ pc'[p] = "inserting"
        /\ \A q \in Workers \ {p} : pc'[q] = pc[q] /\ todo'[q] = todo[q]
    BY <1>4 DEF BeginInsert, TypeOK
  <2>6. UNCHANGED <<stations, states, request, queue, runtime, task, waiting, inserted, added,
                    acknowledged, faults>>
    BY <1>4 DEF BeginInsert
  <2>7. \A q \in Workers : pc'[q] \in {"idle", "fetching"} => inserted'[q] = {} /\ todo'[q] = {}
    BY <2>5, <2>6 DEF TypeOK
  <2> QED
    BY <2>4, <2>5, <2>6, <2>7 DEF TypeOK
<1>5. ASSUME NEW p \in Workers, Abort(p), UNCHANGED faults \/ Fault
      PROVE  TypeOK'
  BY <1>5, <1>f, FinishType DEF Abort, TypeOK
<1>6. ASSUME NEW p \in Workers, InsertRow(p)
      PROVE  TypeOK'
  <2>1. PICK v \in todo[p] :
          /\ todo' = [todo EXCEPT ![p] = @ \ {v}]
          /\ inserted' = IF v.id \in stations THEN inserted
                         ELSE [inserted EXCEPT ![p] = @ \cup {v.id}]
    BY <1>6 DEF InsertRow, NextValues
  <2>2. v.id \in Ids
    BY <2>1 DEF TypeOK, Value
  <2>3. todo' \in [Workers -> SUBSET Value] /\ inserted' \in [Workers -> SUBSET Ids]
    BY <2>1, <2>2 DEF TypeOK
  <2>4. /\ waiting' \in [Workers -> Ids \cup {NoId}]
        /\ \A q \in Workers : pc[q] \in {"idle", "fetching"} =>
             q # p /\ todo'[q] = todo[q] /\ inserted'[q] = inserted[q]
    BY <1>6, <2>1 DEF InsertRow, TypeOK
  <2> QED
    BY <1>6, <2>3, <2>4 DEF InsertRow, TypeOK
<1>7. ASSUME NEW p \in Workers, WaitForRow(p)
      PROVE  TypeOK'
  <2>1. PICK v \in todo[p] : waiting' = [waiting EXCEPT ![p] = v.id]
    BY <1>7 DEF WaitForRow
  <2>2. waiting' \in [Workers -> Ids \cup {NoId}]
    BY <2>1 DEF TypeOK, Value
  <2> QED
    BY <1>7, <2>2 DEF WaitForRow, TypeOK
<1>8. ASSUME NEW p \in Workers, SyncPipelineStates(p)
      PROVE  TypeOK'
  BY <1>8 DEF SyncPipelineStates, TypeOK
<1>9. ASSUME NEW p \in Workers, Commit(p)
      PROVE  TypeOK'
  BY <1>9 DEF Commit, TypeOK
<1>10. ASSUME NEW p \in Workers, Succeed(p)
       PROVE  TypeOK'
  <2>1. acknowledged' \subseteq Ids
    BY <1>10 DEF Succeed, TypeOK
  <2> QED
    BY <1>10, <2>1, FinishType DEF Succeed, TypeOK
<1>11. ASSUME NEW p \in Workers, Crash(p)
       PROVE  TypeOK'
  BY <1>11, <1>f DEF Crash, TypeOK, work
<1>12. ASSUME NEW p \in Workers, Spawn(p)
       PROVE  TypeOK'
  <2>1. runtime' \in [Workers -> BOOLEAN]
    BY <1>12 DEF Spawn, TypeOK
  <2> QED
    BY <1>12, <2>1, FinishType DEF Spawn, TypeOK
<1>13. CASE UNCHANGED vars
  BY <1>13 DEF vars, work, TypeOK
<1> QED
  BY <1>1, <1>2, <1>3, <1>4, <1>5, <1>6, <1>7, <1>8, <1>9, <1>10, <1>11, <1>12, <1>13,
     SubmitPublishes, FetchBegins
     DEF Next, Work, FetchNothing, RejectRow, AbortDeadlock, Fail

\* Types: in particular a process without a task has no open transaction.
THEOREM TypeCorrect == Spec => []TypeOK
  BY TypeInit, TypeStep, PTL DEF Spec

-----------------------------------------------------------------------------
(* The rows and where they are *)

\* The initial state satisfies the invariant.
LEMMA InvInit == Init => IInv
  BY TypeInit DEF Init, IInv, InsertedOnce, Accounted

\* The end of a task without a commit: its rows are gone, the others' stay.
LEMMA FinishKeeps ==
  ASSUME IInv, NEW p \in Workers, Finish(p), UNCHANGED <<stations, states>>, TypeOK'
  PROVE  IInv'
<1>1. InsertedOnce'
  BY FinishType DEF IInv, InsertedOnce
<1>2. ASSUME NEW q \in Workers
      PROVE  Accounted(q)'
  BY FinishType DEF IInv, Accounted
<1> QED
  BY <1>1, <1>2 DEF IInv

\* Every step keeps account of the rows.
LEMMA InvStep == IInv /\ [Next]_vars => IInv'
<1> SUFFICES ASSUME IInv, [Next]_vars
             PROVE  IInv'
  OBVIOUS
<1>0. TypeOK /\ TypeOK' /\ InsertedOnce /\ states = stations /\ \A p \in Workers : Accounted(p)
  BY TypeStep DEF IInv
\* A step of p that leaves the other processes' tasks and the tables alone.
<1>1. ASSUME NEW p \in Workers, UNCHANGED <<stations, states, inserted>>, Accounted(p)',
             \A q \in Workers \ {p} : /\ pc'[q] = pc[q] /\ accepted'[q] = accepted[q]
                                      /\ todo'[q] = todo[q] /\ added'[q] = added[q]
      PROVE  IInv'
  BY <1>0, <1>1 DEF IInv, InsertedOnce, Accounted
<1>2. ASSUME UNCHANGED <<stations, states, pc, work>>
      PROVE  IInv'
  BY <1>0, <1>2 DEF IInv, InsertedOnce, Accounted, work
<1>3. ASSUME NEW p \in Workers, NEW t \in Tasks, Start(p, t)
      PROVE  IInv'
  BY <1>0, <1>1, <1>3 DEF Start, work, Accounted, TypeOK
<1>4. ASSUME NEW p \in Workers, NEW rows \in SUBSET Row, BeginInsert(p, rows)
      PROVE  IInv'
  <2>2. pc'[p] = "inserting" /\ todo'[p] = {ValueOf(row) : row \in rows}
          /\ accepted'[p] = {row.id : row \in rows}
    BY <1>0, <1>4 DEF BeginInsert, TypeOK
  <2>3. accepted'[p] \subseteq {v.id : v \in todo'[p]}
    <3>1. ASSUME NEW row \in rows
          PROVE  row.id \in {v.id : v \in todo'[p]}
      <4>1. ValueOf(row) \in todo'[p] /\ ValueOf(row).id = row.id
        BY <2>2 DEF ValueOf
      <4> QED
        BY <4>1
    <3> QED
      BY <2>2, <3>1
  <2>4. Accounted(p)'
    BY <2>2, <2>3 DEF Accounted
  <2> QED
    BY <1>0, <1>1, <1>4, <2>2, <2>4 DEF BeginInsert, TypeOK
<1>5. ASSUME NEW p \in Workers, Abort(p)
      PROVE  IInv'
  BY <1>0, <1>5, FinishKeeps DEF Abort
<1>6. ASSUME NEW p \in Workers, InsertRow(p)
      PROVE  IInv'
  <2>1. PICK v \in todo[p] :
          /\ ~HeldByOther(p, v.id)
          /\ todo' = [todo EXCEPT ![p] = @ \ {v}]
          /\ inserted' = IF v.id \in stations THEN inserted
                         ELSE [inserted EXCEPT ![p] = @ \cup {v.id}]
    BY <1>6 DEF InsertRow, NextValues
  <2>2. UNCHANGED <<stations, states, pc, accepted, added>> /\ pc[p] = "inserting"
    BY <1>6 DEF InsertRow
  <2>3. /\ \A q \in Workers \ {p} : inserted'[q] = inserted[q] /\ todo'[q] = todo[q]
        /\ todo'[p] = todo[p] \ {v}
        /\ inserted'[p] = IF v.id \in stations THEN inserted[p] ELSE inserted[p] \cup {v.id}
    BY <1>0, <2>1 DEF TypeOK
  <2>4. \A q \in Workers \ {p} : v.id \notin inserted[q]
    BY <2>1 DEF HeldByOther
  <2>5. InsertedOnce'
    BY <1>0, <2>2, <2>3, <2>4 DEF InsertedOnce
  <2>6. Accounted(p)'
    <3>1. {u.id : u \in todo[p]} \subseteq {v.id} \cup {u.id : u \in todo'[p]}
      BY <2>3
    <3>2. v.id \in stations \cup inserted'[p] /\ inserted[p] \subseteq inserted'[p]
      BY <2>3
    <3>3. accepted[p] \subseteq stations \cup inserted[p] \cup {u.id : u \in todo[p]}
      BY <1>0, <2>2 DEF Accounted
    <3> QED
      BY <2>2, <3>1, <3>2, <3>3 DEF Accounted
  <2>7. \A q \in Workers \ {p} : Accounted(q)'
    BY <1>0, <2>2, <2>3 DEF Accounted
  <2> QED
    BY <1>0, <2>2, <2>5, <2>6, <2>7 DEF IInv
<1>7. ASSUME NEW p \in Workers, SyncPipelineStates(p)
      PROVE  IInv'
  <2>1. /\ pc[p] = "inserting" /\ todo[p] = {} /\ pc'[p] = "committing"
        /\ added'[p] = inserted[p] \ states
    BY <1>0, <1>7 DEF SyncPipelineStates, TypeOK
  <2>2. added'[p] = inserted[p]
    BY <1>0, <2>1 DEF InsertedOnce
  <2>3. Accounted(p)'
    BY <1>0, <1>7, <2>1, <2>2 DEF SyncPipelineStates, Accounted
  <2> QED
    BY <1>0, <1>1, <1>7, <2>3 DEF SyncPipelineStates, TypeOK
<1>8. ASSUME NEW p \in Workers, Commit(p)
      PROVE  IInv'
  <2>1. /\ pc[p] = "committing" /\ pc'[p] = "committed"
        /\ inserted'[p] = {} /\ accepted' = accepted /\ todo' = todo
        /\ stations' = stations \cup inserted[p] /\ states' = states \cup added[p]
        /\ \A q \in Workers \ {p} : inserted'[q] = inserted[q] /\ added'[q] = added[q]
                                      /\ pc'[q] = pc[q]
    BY <1>0, <1>8 DEF Commit, TypeOK
  <2>2. added[p] = inserted[p] /\ accepted[p] \subseteq stations \cup inserted[p]
    BY <1>0, <2>1 DEF Accounted
  <2>3. InsertedOnce'
    BY <1>0, <2>1 DEF InsertedOnce
  <2>4. ASSUME NEW q \in Workers
        PROVE  Accounted(q)'
    <3>1. CASE q = p
      BY <2>1, <2>2, <3>1 DEF Accounted
    <3>2. CASE q # p
      BY <1>0, <2>1, <3>2 DEF Accounted
    <3> QED
      BY <3>1, <3>2
  <2> QED
    BY <1>0, <2>1, <2>2, <2>3, <2>4 DEF IInv
<1>9. ASSUME NEW p \in Workers, Succeed(p) \/ Spawn(p)
      PROVE  IInv'
  BY <1>0, <1>9, FinishKeeps DEF Succeed, Spawn
<1>10. ASSUME NEW p \in Workers, Crash(p)
       PROVE  IInv'
  BY <1>0, <1>1, <1>10 DEF Crash, work, Accounted, TypeOK
<1>11. ASSUME \/ \E t \in Tasks : (\E req \in Requests : Publish(t, req)) \/ Redeliver(t)
              \/ \E p \in Workers : WaitForRow(p)
              \/ UNCHANGED vars
       PROVE  IInv'
  BY <1>0, <1>11 DEF Publish, Redeliver, WaitForRow, vars, work, IInv, InsertedOnce, Accounted
<1> QED
  BY <1>3, <1>4, <1>5, <1>6, <1>7, <1>8, <1>9, <1>10, <1>11,
     SubmitPublishes, FetchBegins DEF Next, Work, FetchNothing, RejectRow, AbortDeadlock, Fail

\* The inductive invariant of the tasks.
THEOREM Invariant == Spec => []IInv
  BY InvInit, InvStep, PTL DEF Spec

\* However the answers of concurrent tasks overlap, each new row is inserted by
\* one transaction.
THEOREM RowsInsertedOnce == Spec => []InsertedOnce
<1>1. IInv => InsertedOnce
  BY DEF IInv
<1> QED
  BY <1>1, Invariant, PTL

-----------------------------------------------------------------------------
(* The registry *)

\* Each step of the tasks is a step of the registry, or none.
LEMMA RegistryStep ==
  IInv /\ [Next]_vars => [Registry!Next]_<<stations, states, acknowledged>>
<1> SUFFICES ASSUME IInv, [Next]_vars
             PROVE  Registry!Next \/ UNCHANGED <<stations, states, acknowledged>>
  OBVIOUS
<1>0. TypeOK /\ InsertedOnce /\ states = stations /\ \A p \in Workers : Accounted(p)
  BY DEF IInv
<1>1. ASSUME NEW p \in Workers, Commit(p)
      PROVE  Registry!Next
  <2>1. inserted[p] \in SUBSET Ids /\ inserted[p] \cap stations = {} /\ added[p] = inserted[p]
    BY <1>0, <1>1 DEF TypeOK, InsertedOnce, Accounted, Commit
  <2>2. Registry!Register(inserted[p])
    BY <1>1, <2>1 DEF Commit, Registry!Register
  <2> QED
    BY <2>1, <2>2 DEF Registry!Next
<1>2. ASSUME NEW p \in Workers, Succeed(p)
      PROVE  Registry!Next
  <2>1. accepted[p] \in SUBSET Ids /\ accepted[p] \subseteq stations
    BY <1>0, <1>2 DEF TypeOK, Accounted, Succeed
  <2>2. Registry!Acknowledge(accepted[p])
    BY <1>2, <2>1 DEF Succeed, Registry!Acknowledge
  <2> QED
    BY <2>1, <2>2 DEF Registry!Next
<1>3. ASSUME NEW p \in Workers, \/ \E t \in Tasks : Start(p, t)
                                \/ (\E rows \in SUBSET Row : BeginInsert(p, rows))
                                \/ InsertRow(p) \/ WaitForRow(p) \/ Abort(p)
                                \/ SyncPipelineStates(p) \/ Spawn(p) \/ Crash(p)
      PROVE  UNCHANGED <<stations, states, acknowledged>>
  BY <1>3 DEF Start, BeginInsert, InsertRow, WaitForRow, Abort, SyncPipelineStates, Spawn, Crash
<1>4. ASSUME \/ \E t \in Tasks : (\E req \in Requests : Publish(t, req)) \/ Redeliver(t)
             \/ UNCHANGED vars
      PROVE  UNCHANGED <<stations, states, acknowledged>>
  BY <1>4 DEF Publish, Redeliver, vars
<1> QED
  BY <1>1, <1>2, <1>3, <1>4, SubmitPublishes, FetchBegins
     DEF Next, Work, FetchNothing, RejectRow, AbortDeadlock, Fail

\* The tasks implement the registry: stations appear with their state rows in one
\* step, and those of a task that succeeded are there, through failures, repeated
\* messages and concurrent tasks.
THEOREM TasksImplementRegistry == Spec => ImplementsRegistry
<1>1. Init => Registry!Init
  BY DEF Init, Registry!Init
<1> QED
  BY <1>1, RegistryStep, Invariant, PTL DEF Spec, ImplementsRegistry, Registry!RegistrySpec
=============================================================================
