------------------------ MODULE ObservationStore_proofs ------------------------
(***************************************************************************)
(* Proofs about the insert of observations, for any number of workers and     *)
(* observations, batches and failures.  The invariant says how far a worker    *)
(* has come with its batch: what is neither stored nor still to be tried has   *)
(* an error.  Under exclusive batches, what a worker is about to insert is     *)
(* not in the table.                                                        *)
(***************************************************************************)
EXTENDS ObservationStore, TLAPS

\* What a worker has done with its batch so far.
Progress ==
  \A w \in Workers : \A o \in batch[w] :
    /\ pc[w] = "bulk_insert" => o \in Existing \cup rows[w]
    /\ pc[w] \in {"single", "single_insert"} =>
         o \in Existing \cup todo[w] \/ StationOf[o] \in bad[w]
    /\ pc[w] = "marking" => o \in Existing \/ StationOf[o] \in bad[w]

IInv == TypeOK /\ Progress

\* The batches of two workers concern different stations.
Exclusive ==
  \A v, w \in Workers : v # w => StationsOf(batch[v]) \cap StationsOf(batch[w]) = {}

\* Only delayed rows are late, and what is about to be inserted is not there.
Single ==
  \A o \in Obs :
    \/ o \in delayed
    \/ /\ table[o] <= 1 /\ late[o] = 0
       /\ \A w \in Workers : o \in rows[w] => table[o] = 0

EInv == TypeOK /\ Exclusive /\ Single

\* The same, as long as the batches were always exclusive.
SInv == TypeOK /\ (exclusive => Exclusive /\ Single)

-----------------------------------------------------------------------------
(* The table *)

\* Adding rows keeps the type and every row that is there.
LEMMA AddedRows ==
  ASSUME NEW copies \in [Obs -> Nat], NEW S
  PROVE  /\ Added(copies, S) \in [Obs -> Nat]
         /\ \A o \in Obs : /\ o \in S => Added(copies, S)[o] = copies[o] + 1
                           /\ o \notin S => Added(copies, S)[o] = copies[o]
  BY DEF Added

\* What a failed insert does to the table, by rows.
LEMMA PartlyAddedRows ==
  ASSUME TypeOK, NEW S \in SUBSET Obs, PartlyAdded(S)
  PROVE  /\ table' \in [Obs -> Nat] /\ late' \in [Obs -> Nat]
         /\ delayed \subseteq delayed' /\ delayed' \subseteq Obs
         /\ \A o \in Obs :
              \/ table'[o] = table[o] /\ late'[o] = late[o]
              \/ o \in S /\ table'[o] = table[o] + 1 /\ late'[o] = late[o]
              \/ o \in S /\ table'[o] = table[o] /\ o \in delayed'
<1>0. PICK part \in SUBSET S : \E rest \in SUBSET (S \ part) :
        /\ table' = Added(table, part)
        /\ late' = Added(late, rest)
        /\ delayed' = delayed \cup rest
  BY DEF PartlyAdded
<1>1. PICK rest \in SUBSET (S \ part) :
        /\ table' = Added(table, part)
        /\ late' = Added(late, rest)
        /\ delayed' = delayed \cup rest
  BY <1>0
<1>2. table \in [Obs -> Nat] /\ late \in [Obs -> Nat] /\ delayed \subseteq Obs
  BY DEF TypeOK
<1> QED
  BY <1>1, <1>2, AddedRows

\* The effect of one step on the table: rows are added or merged, none is lost.
LEMMA TableStep ==
  ASSUME TypeOK, [Next]_vars
  PROVE  /\ table' \in [Obs -> Nat] /\ late' \in [Obs -> Nat] /\ delayed' \subseteq Obs
         /\ Existing \subseteq Existing'
<1>0. table \in [Obs -> Nat] /\ late \in [Obs -> Nat] /\ delayed \subseteq Obs
      /\ \A w \in Workers : rows[w] \in SUBSET Obs
  BY DEF TypeOK
<1>1. ASSUME NEW w \in Workers, NEW S \in SUBSET Obs, PartlyAdded(S)
      PROVE  /\ table' \in [Obs -> Nat] /\ late' \in [Obs -> Nat] /\ delayed' \subseteq Obs
             /\ Existing \subseteq Existing'
  BY <1>0, <1>1, PartlyAddedRows DEF Existing
<1>2. ASSUME UNCHANGED <<table, late, delayed>>
      PROVE  /\ table' \in [Obs -> Nat] /\ late' \in [Obs -> Nat] /\ delayed' \subseteq Obs
             /\ Existing \subseteq Existing'
  BY <1>0, <1>2 DEF Existing
<1>3. ASSUME NEW w \in Workers, BulkInsert(w) \/ SingleInsert(w)
      PROVE  /\ table' \in [Obs -> Nat] /\ late' \in [Obs -> Nat] /\ delayed' \subseteq Obs
             /\ Existing \subseteq Existing'
  <2>1. table' = Added(table, rows[w]) /\ UNCHANGED <<late, delayed>>
    BY <1>3 DEF BulkInsert, SingleInsert
  <2> QED
    BY <1>0, <2>1, AddedRows DEF Existing
<1>4. ASSUME NEW w \in Workers, BulkFails(w) \/ SingleFails(w) \/ Crash(w)
      PROVE  \/ UNCHANGED <<table, late, delayed>>
             \/ \E S \in SUBSET Obs : PartlyAdded(S)
  <2>1. CASE BulkFails(w) \/ Crash(w)
    BY <1>0, <2>1 DEF BulkFails, Crash
  <2>2. CASE SingleFails(w)
    BY <1>0, <2>2 DEF SingleFails
  <2> QED
    BY <1>4, <2>1, <2>2
<1>5. ASSUME NEW w \in Workers,
             Start(w) \/ BulkCheck(w) \/ SingleCheck(w) \/ SinglesDone(w) \/ MarkStates(w)
      PROVE  UNCHANGED <<table, late, delayed>>
  BY <1>5 DEF Start, BulkCheck, SingleCheck, SinglesDone, MarkStates
<1>6. ASSUME NEW o \in Obs, LateInsert(o)
      PROVE  /\ table' \in [Obs -> Nat] /\ late' \in [Obs -> Nat] /\ delayed' \subseteq Obs
             /\ Existing \subseteq Existing'
  <2>1. table' = Added(table, {o}) /\ UNCHANGED delayed
    BY <1>6 DEF LateInsert
  <2>2. late' \in [Obs -> Nat]
    BY <1>0, <1>6 DEF LateInsert
  <2> QED
    BY <1>0, <2>1, <2>2, AddedRows DEF Existing
<1>7. ASSUME NEW o \in Obs, Merge(o)
      PROVE  /\ table' \in [Obs -> Nat] /\ late' \in [Obs -> Nat] /\ delayed' \subseteq Obs
             /\ Existing \subseteq Existing'
  BY <1>0, <1>7 DEF Merge, Existing
<1>8. CASE UNCHANGED vars
  BY <1>2, <1>8 DEF vars
<1> QED
  BY <1>1, <1>2, <1>3, <1>4, <1>5, <1>6, <1>7, <1>8 DEF Next, Work, Server

-----------------------------------------------------------------------------
(* Types *)

\* Initially the types hold, and nothing is in progress.
LEMMA InitInv == Init => IInv /\ Exclusive /\ Single
  BY StoreAssumption DEF Init, IInv, TypeOK, Progress, Exclusive, Single, StationsOf

\* A step of a worker keeps the types of the workers' variables.
LEMMA WorkerTypes ==
  ASSUME TypeOK, NEW w \in Workers, Start(w) \/ Work(w)
  PROVE  /\ pc' \in [Workers -> {"idle", "bulk", "bulk_insert", "single", "single_insert", "marking"}]
         /\ batch' \in [Workers -> SUBSET Obs]
         /\ todo' \in [Workers -> SUBSET Obs]
         /\ rows' \in [Workers -> SUBSET Obs]
         /\ bad' \in [Workers -> SUBSET StationsOf(Obs)]
         /\ faults' \in 0..MaxFaults
         /\ \A v \in Workers : /\ todo'[v] \subseteq batch'[v] /\ rows'[v] \subseteq batch'[v]
                               /\ pc'[v] = "idle" => batch'[v] = {}
<1> USE StoreAssumption
<1>1. CASE Start(w)
  <2>1. PICK S \in SUBSET Obs \ {{}} : batch' = [batch EXCEPT ![w] = S]
    BY <1>1 DEF Start
  <2> QED
    BY <1>1, <2>1 DEF Start, TypeOK
<1>2. CASE BulkCheck(w)
  BY <1>2 DEF BulkCheck, TypeOK
<1>3. CASE BulkInsert(w)
  BY <1>3 DEF BulkInsert, TypeOK
<1>4. CASE BulkFails(w)
  BY <1>4 DEF BulkFails, TypeOK
<1>5. CASE SingleCheck(w)
  BY <1>5 DEF SingleCheck, TypeOK
<1>6. CASE SingleInsert(w)
  BY <1>6 DEF SingleInsert, TypeOK
<1>7. CASE SingleFails(w)
  <2>1. PICK o \in todo[w] :
          /\ todo' = [todo EXCEPT ![w] = @ \ {o}]
          /\ bad' = [bad EXCEPT ![w] = @ \cup {StationOf[o]}]
    BY <1>7 DEF SingleFails
  <2>2. StationOf[o] \in StationsOf(Obs)
    BY <2>1 DEF TypeOK, StationsOf
  <2> QED
    BY <1>7, <2>1, <2>2 DEF SingleFails, TypeOK
<1>8. CASE SinglesDone(w)
  BY <1>8 DEF SinglesDone, TypeOK
<1>9. CASE MarkStates(w)
  BY <1>9 DEF MarkStates, Forget, TypeOK
<1>10. CASE Crash(w)
  BY <1>10 DEF Crash, Forget, TypeOK
<1> QED
  BY <1>1, <1>2, <1>3, <1>4, <1>5, <1>6, <1>7, <1>8, <1>9, <1>10 DEF Work

\* Only a start ends the exclusivity, and nothing brings it back.
LEMMA ExclusiveHistory ==
  ASSUME TypeOK, [Next]_vars
  PROVE  exclusive' \in BOOLEAN /\ (exclusive' => exclusive)
<1>0. exclusive \in BOOLEAN
  BY DEF TypeOK
<1>1. ASSUME NEW w \in Workers, Start(w)
      PROVE  exclusive' \in BOOLEAN /\ (exclusive' => exclusive)
  BY <1>0, <1>1 DEF Start
<1>2. ASSUME NEW w \in Workers, Work(w)
      PROVE  UNCHANGED exclusive
  BY <1>2 DEF Work, BulkCheck, BulkInsert, BulkFails, SingleCheck, SingleInsert, SingleFails,
              SinglesDone, MarkStates, Crash
<1>3. ASSUME Server \/ UNCHANGED vars
      PROVE  UNCHANGED exclusive
  BY <1>3 DEF Server, LateInsert, Merge, vars
<1> QED
  BY <1>0, <1>1, <1>2, <1>3 DEF Next

\* Every step keeps the types.
LEMMA TypeStep == TypeOK /\ [Next]_vars => TypeOK'
<1> SUFFICES ASSUME TypeOK, [Next]_vars
             PROVE  TypeOK'
  OBVIOUS
<1>1. table' \in [Obs -> Nat] /\ late' \in [Obs -> Nat] /\ delayed' \subseteq Obs
      /\ exclusive' \in BOOLEAN
  BY TableStep, ExclusiveHistory
<1>2. CASE \E w \in Workers : Start(w) \/ Work(w)
  BY <1>1, <1>2, WorkerTypes DEF TypeOK
<1>3. CASE Server \/ UNCHANGED vars
  <2>1. UNCHANGED <<pc, batch, todo, rows, bad, faults>>
    BY <1>3 DEF Server, LateInsert, Merge, vars
  <2> QED
    BY <1>1, <2>1 DEF TypeOK
<1> QED
  BY <1>2, <1>3 DEF Next

-----------------------------------------------------------------------------
(* What is marked as processed is stored *)

\* Every step keeps the progress of all workers: what is stored stays stored,
\* and a step of a worker leaves an observation out only when it is there or its
\* station has an error.
LEMMA ProgressStep == IInv /\ [Next]_vars => Progress'
<1> SUFFICES ASSUME IInv, [Next]_vars, NEW v \in Workers, NEW o \in batch'[v]
             PROVE  /\ pc'[v] = "bulk_insert" => o \in Existing' \cup rows'[v]
                    /\ pc'[v] \in {"single", "single_insert"} =>
                         o \in Existing' \cup todo'[v] \/ StationOf[o] \in bad'[v]
                    /\ pc'[v] = "marking" => o \in Existing' \/ StationOf[o] \in bad'[v]
  BY DEF Progress
<1> USE DEF IInv
<1>1. Existing \subseteq Existing'
  BY TableStep
<1>2. CASE /\ pc'[v] = pc[v] /\ batch'[v] = batch[v] /\ todo'[v] = todo[v]
           /\ rows'[v] = rows[v] /\ bad'[v] = bad[v]
  BY <1>1, <1>2 DEF Progress
<1>3. ASSUME NEW w \in Workers, Start(w) \/ Work(w), v # w
      PROVE  /\ pc'[v] = pc[v] /\ batch'[v] = batch[v] /\ todo'[v] = todo[v]
             /\ rows'[v] = rows[v] /\ bad'[v] = bad[v]
  BY <1>3
     DEF Start, Work, BulkCheck, BulkInsert, BulkFails, SingleCheck, SingleInsert, SingleFails,
         SinglesDone, MarkStates, Crash, Forget, TypeOK
<1>4. CASE Server \/ UNCHANGED vars
  BY <1>2, <1>4 DEF Server, LateInsert, Merge, vars
<1>5. CASE Start(v)
  BY <1>5 DEF Start, TypeOK
<1>6. CASE BulkCheck(v)
  BY <1>1, <1>6 DEF BulkCheck, TypeOK
<1>7. CASE BulkInsert(v)
  <2>1. o \in batch[v] /\ o \in Obs /\ o \in Existing \cup rows[v]
    BY <1>7 DEF BulkInsert, TypeOK, Progress
  <2>2. o \in Existing'
    <3>0. table \in [Obs -> Nat] /\ table' = Added(table, rows[v])
      BY <1>7 DEF BulkInsert, TypeOK
    <3>1. table'[o] = table[o] + 1 \/ (table'[o] = table[o] /\ o \notin rows[v])
      BY <2>1, <3>0, AddedRows
    <3>2. table[o] \in Nat
      BY <2>1 DEF TypeOK
    <3> QED
      BY <2>1, <3>1, <3>2 DEF Existing
  <2> QED
    BY <1>7, <2>2 DEF BulkInsert, TypeOK
<1>8. CASE BulkFails(v)
  BY <1>8 DEF BulkFails, TypeOK
<1>9. CASE SingleCheck(v)
  BY <1>1, <1>9 DEF SingleCheck, TypeOK, Progress
<1>10. CASE SingleInsert(v)
  <2>1. o \in batch[v] /\ o \in Obs
        /\ (o \in Existing \cup todo[v] \/ StationOf[o] \in bad[v])
    BY <1>10 DEF SingleInsert, TypeOK, Progress
  <2>2. o \in rows[v] => o \in Existing'
    <3>1. o \in rows[v] => table'[o] = table[o] + 1
      BY <1>10, <2>1, AddedRows DEF SingleInsert, TypeOK
    <3>2. table[o] \in Nat
      BY <2>1 DEF TypeOK
    <3> QED
      BY <2>1, <3>1, <3>2 DEF Existing
  <2> QED
    BY <1>1, <1>10, <2>1, <2>2 DEF SingleInsert, TypeOK
<1>11. CASE SingleFails(v)
  BY <1>1, <1>11 DEF SingleFails, TypeOK, Progress
<1>12. CASE SinglesDone(v)
  BY <1>1, <1>12 DEF SinglesDone, TypeOK, Progress
<1>13. CASE MarkStates(v) \/ Crash(v)
  BY <1>13 DEF MarkStates, Crash, Forget, TypeOK
<1> QED
  BY <1>2, <1>3, <1>4, <1>5, <1>6, <1>7, <1>8, <1>9, <1>10, <1>11, <1>12, <1>13
     DEF Next, Work

\* The types of the store and its workers.
THEOREM TypeCorrect == Spec => []TypeOK
<1>1. Init => TypeOK
  BY InitInv DEF IInv
<1> QED
  BY <1>1, TypeStep, PTL DEF Spec

\* What is marked as processed is stored, whatever failed on the way.
THEOREM AcknowledgedIsStored == Spec => []AcknowledgedStored
<1>1. IInv /\ [Next]_vars => IInv'
  BY TypeStep, ProgressStep DEF IInv
<1>2. IInv => AcknowledgedStored
  BY DEF IInv, Progress, AcknowledgedStored
<1> QED
  BY <1>1, <1>2, InitInv, PTL DEF Spec

-----------------------------------------------------------------------------
(* No duplicates under exclusive batches *)

\* Observations of batches of two workers differ.
LEMMA BatchesDiffer ==
  ASSUME TypeOK, Exclusive, NEW v \in Workers, NEW w \in Workers, v # w,
         NEW o \in batch[v]
  PROVE  o \notin batch[w]
  BY DEF Exclusive, StationsOf

\* As long as the history says so, the batches are exclusive: a new one was
\* chosen so, the others are unchanged or given up.
LEMMA ExclusiveStep == TypeOK /\ Exclusive /\ [Next]_vars /\ exclusive' => Exclusive'
<1> SUFFICES ASSUME TypeOK, Exclusive, [Next]_vars, exclusive',
                    NEW u \in Workers, NEW v \in Workers, u # v
             PROVE  StationsOf(batch'[u]) \cap StationsOf(batch'[v]) = {}
  BY DEF Exclusive, StationsOf
<1>1. ASSUME NEW w \in Workers, Start(w)
      PROVE  StationsOf(batch'[u]) \cap StationsOf(batch'[v]) = {}
  <2>0. PICK S \in SUBSET Obs \ {{}} :
          /\ batch' = [batch EXCEPT ![w] = S]
          /\ exclusive' = (exclusive /\ Alone(w, S))
    BY <1>1 DEF Start
  <2>1. \A x \in Workers \ {w} :
          /\ batch'[x] = batch[x]
          /\ StationsOf(batch[x]) \cap StationsOf(batch'[w]) = {}
    BY <2>0 DEF Alone, TypeOK
  <2> QED
    BY <2>1 DEF Exclusive
<1>2. ASSUME NEW w \in Workers, MarkStates(w) \/ Crash(w)
      PROVE  StationsOf(batch'[u]) \cap StationsOf(batch'[v]) = {}
  <2>1. \A x \in Workers : batch'[x] = batch[x] \/ batch'[x] = {}
    BY <1>2 DEF MarkStates, Crash, Forget, TypeOK
  <2>2. StationsOf({}) = {}
    BY DEF StationsOf
  <2> QED
    BY <2>1, <2>2 DEF Exclusive
<1>3. ASSUME UNCHANGED batch
      PROVE  StationsOf(batch'[u]) \cap StationsOf(batch'[v]) = {}
  BY <1>3 DEF Exclusive
<1>4. ASSUME NEW w \in Workers,
             \/ BulkCheck(w) \/ BulkInsert(w) \/ BulkFails(w) \/ SingleCheck(w)
             \/ SingleInsert(w) \/ SingleFails(w) \/ SinglesDone(w)
      PROVE  UNCHANGED batch
  BY <1>4 DEF BulkCheck, BulkInsert, BulkFails, SingleCheck, SingleInsert, SingleFails,
              SinglesDone
<1>5. CASE Server \/ UNCHANGED vars
  BY <1>3, <1>5 DEF Server, LateInsert, Merge, vars
<1> QED
  BY <1>1, <1>2, <1>3, <1>4, <1>5 DEF Next, Work

\* An insert that a worker carries out or gives up adds only rows that are not
\* there, or that are remembered as delayed.
LEMMA InsertKeepsSingle ==
  ASSUME EInv, NEW w \in Workers,
         rows' = [rows EXCEPT ![w] = {}], delayed \subseteq delayed',
         \A o \in Obs :
           \/ table'[o] = table[o] /\ late'[o] = late[o]
           \/ o \in rows[w] /\ table'[o] = table[o] + 1 /\ late'[o] = late[o]
           \/ o \in rows[w] /\ table'[o] = table[o] /\ o \in delayed'
  PROVE  Single'
<1> SUFFICES ASSUME NEW o \in Obs, o \notin delayed'
             PROVE  /\ table'[o] <= 1 /\ late'[o] = 0
                    /\ \A v \in Workers : o \in rows'[v] => table'[o] = 0
  BY DEF Single
<1> USE DEF EInv
<1>1. /\ table[o] <= 1 /\ late[o] = 0
      /\ \A v \in Workers : o \in rows[v] => table[o] = 0
  BY DEF Single
<1>2. \A v \in Workers : v # w => rows'[v] = rows[v]
  BY DEF TypeOK
<1>3. rows'[w] = {}
  BY DEF TypeOK
<1>4. CASE table'[o] = table[o] /\ late'[o] = late[o]
  BY <1>1, <1>2, <1>3, <1>4
<1>5. CASE o \in rows[w] /\ table'[o] = table[o] + 1 /\ late'[o] = late[o]
  <2>1. ASSUME NEW v \in Workers, v # w
        PROVE  o \notin rows[v]
    <3>1. o \in batch[w] /\ rows[v] \subseteq batch[v]
      BY <1>5 DEF TypeOK
    <3> QED
      BY <2>1, <3>1, BatchesDiffer
  <2> QED
    BY <1>1, <1>2, <1>3, <1>5, <2>1
<1> QED
  BY <1>4, <1>5

\* Every step keeps what is not delayed single.
LEMMA SingleStep == EInv /\ [Next]_vars => Single'
<1> SUFFICES ASSUME EInv, [Next]_vars
             PROVE  Single'
  OBVIOUS
<1> USE DEF EInv
<1>0. table \in [Obs -> Nat] /\ late \in [Obs -> Nat]
      /\ \A w \in Workers : rows[w] \in SUBSET Obs
  BY DEF TypeOK
<1>1. ASSUME NEW w \in Workers, BulkInsert(w) \/ SingleInsert(w)
      PROVE  Single'
  <2>1. table' = Added(table, rows[w]) /\ UNCHANGED <<late, delayed>>
        /\ rows' = [rows EXCEPT ![w] = {}]
    BY <1>1 DEF BulkInsert, SingleInsert
  <2>2. \A o \in Obs : \/ table'[o] = table[o] /\ late'[o] = late[o]
                       \/ o \in rows[w] /\ table'[o] = table[o] + 1 /\ late'[o] = late[o]
    BY <1>0, <2>1 DEF Added
  <2> QED
    BY <2>1, <2>2, InsertKeepsSingle
<1>2. ASSUME NEW w \in Workers, BulkFails(w) \/ SingleFails(w) \/ Crash(w)
      PROVE  Single'
  <2>1. PartlyAdded(rows[w]) \/ UNCHANGED <<table, late, delayed>>
    <3>1. CASE BulkFails(w) \/ Crash(w)
      BY <3>1 DEF BulkFails, Crash
    <3>2. CASE SingleFails(w)
      BY <3>2 DEF SingleFails
    <3> QED
      BY <1>2, <3>1, <3>2
  <2>2. rows' = [rows EXCEPT ![w] = {}]
    BY <1>2 DEF BulkFails, SingleFails, Crash, Forget
  <2>3. CASE PartlyAdded(rows[w])
    BY <1>0, <2>2, <2>3, PartlyAddedRows, InsertKeepsSingle
  <2>4. CASE UNCHANGED <<table, late, delayed>>
    BY <2>2, <2>4, InsertKeepsSingle
  <2> QED
    BY <2>1, <2>3, <2>4
<1>3. ASSUME NEW w \in Workers, BulkCheck(w) \/ SingleCheck(w)
      PROVE  Single'
  <2>1. UNCHANGED <<table, late, delayed>>
    BY <1>3 DEF BulkCheck, SingleCheck
  <2>2. \A v \in Workers : \A o \in rows'[v] : o \in rows[v] \/ o \notin Existing
    BY <1>3 DEF BulkCheck, SingleCheck, TypeOK
  <2>3. \A o \in Obs : o \notin Existing => table[o] = 0
    BY <1>0 DEF Existing
  <2> QED
    BY <2>1, <2>2, <2>3 DEF Single
<1>4. ASSUME NEW w \in Workers, Start(w) \/ SinglesDone(w) \/ MarkStates(w)
      PROVE  Single'
  <2>1. UNCHANGED <<table, late, delayed>>
        /\ \A v \in Workers : rows'[v] \subseteq rows[v]
    BY <1>4 DEF Start, SinglesDone, MarkStates, Forget, TypeOK
  <2> QED
    BY <2>1 DEF Single
<1>5. ASSUME NEW o \in Obs, LateInsert(o)
      PROVE  Single'
  <2>1. UNCHANGED <<delayed, rows>> /\ o \in delayed
    BY <1>0, <1>5 DEF LateInsert, Single
  <2>2. \A x \in Obs \ {o} : table'[x] = table[x] /\ late'[x] = late[x]
    BY <1>0, <1>5 DEF LateInsert, Added
  <2> QED
    BY <2>1, <2>2 DEF Single
<1>6. ASSUME NEW o \in Obs, Merge(o)
      PROVE  Single'
  <2>1. UNCHANGED <<delayed, rows, late>> /\ o \in delayed
    BY <1>0, <1>6 DEF Merge, Single
  <2>2. \A x \in Obs \ {o} : table'[x] = table[x]
    BY <1>0, <1>6 DEF Merge
  <2> QED
    BY <2>1, <2>2 DEF Single
<1>7. CASE UNCHANGED vars
  BY <1>7 DEF vars, Single
<1> QED
  BY <1>1, <1>2, <1>3, <1>4, <1>5, <1>6, <1>7 DEF Next, Work, Server

\* As long as the leases keep batches apart, an observation is stored twice only
\* through a late insert.
THEOREM NoDuplicatesUnderLeases == Spec => []NoDuplicates
<1>1. Init => SInv
  BY InitInv DEF IInv, SInv
<1>2. SInv /\ [Next]_vars => SInv'
  <2> SUFFICES ASSUME SInv, [Next]_vars
               PROVE  SInv'
    OBVIOUS
  <2>1. TypeOK'
    BY TypeStep DEF SInv
  <2>2. ASSUME exclusive'
        PROVE  Exclusive' /\ Single'
    <3>1. EInv
      BY <2>2, ExclusiveHistory DEF SInv, EInv
    <3> QED
      BY <2>2, <3>1, ExclusiveStep, SingleStep DEF EInv
  <2> QED
    BY <2>1, <2>2 DEF SInv
<1>3. SInv => NoDuplicates
  BY DEF SInv, TypeOK, Single, NoDuplicates
<1> QED
  BY <1>1, <1>2, <1>3, PTL DEF Spec
=============================================================================
