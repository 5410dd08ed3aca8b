--------------------------- MODULE LeaseTable_proofs ---------------------------
(***************************************************************************)
(* Proofs about the state store, for all stations, owners, intervals, lags   *)
(* and bounds on the clock.  TypeOK, with its conjunct that relates owner    *)
(* and lease, is inductive; the other properties follow from it.             *)
(***************************************************************************)
EXTENDS LeaseTable, TLAPS

\* What the domain methods return has the types of the schedule columns.
LEMMA OutcomeType ==
  ASSUME NEW t \in Int
  PROVE  Processed(t) \in Schedule /\ Failed(t) \in Schedule
  BY ConstantsAssumption DEF Processed, Failed, Schedule

\* A new row (from_station) has its type, no owner and no lease.
LEMMA FromStationType ==
  ASSUME NEW t \in Nat
  PROVE  FromStation(t) \in Row /\ FromStation(t).claimed_by = NoOwner
                                /\ FromStation(t).lease_until = NoLease
  BY DEF FromStation, Row, Schedule, NoLease, MinTime

\* One step as seen by one row: it stays, is claimed, is refreshed, or released.
RowStep(s) ==
  \/ row'[s] = row[s]
  \/ \E o \in Owners, now \in 0..clock :
       /\ clock - now <= MaxLag
       /\ Unleased(row[s], now)
       /\ row'[s] = [claimed_by |-> o, lease_until |-> now + ClaimFor, schedule |-> row[s].schedule]
  \/ \E now \in 0..clock :
       /\ row[s].claimed_by \in Owners
       /\ row'[s] = [row[s] EXCEPT !.lease_until = now + ClaimFor]
  \/ \E now \in 0..clock, sched \in Outcomes(s) :
       /\ clock - now <= MaxLag
       /\ row[s].claimed_by \in Owners
       /\ row[s].lease_until > now
       /\ row'[s] = [claimed_by |-> NoOwner, lease_until |-> NoLease, schedule |-> sched]

\* The same by columns.
LEMMA RowStepColumns ==
  ASSUME TypeOK, NEW s \in DOMAIN row, RowStep(s)
  PROVE  \/ row'[s] = row[s]
         \/ \E o \in Owners, now \in 0..clock :
              /\ clock - now <= MaxLag
              /\ Unleased(row[s], now)
              /\ row'[s] \in Row
              /\ row'[s].claimed_by = o
              /\ row'[s].lease_until = now + ClaimFor
              /\ row'[s].schedule = row[s].schedule
         \/ \E now \in 0..clock :
              /\ row[s].claimed_by \in Owners
              /\ row'[s] \in Row
              /\ row'[s].claimed_by = row[s].claimed_by
              /\ row'[s].lease_until = now + ClaimFor
              /\ row'[s].schedule = row[s].schedule
         \/ \E now \in 0..clock :
              /\ clock - now <= MaxLag
              /\ row[s].claimed_by \in Owners
              /\ row[s].lease_until > now
              /\ row'[s] \in Row
              /\ row'[s].claimed_by = NoOwner
              /\ row'[s].lease_until = NoLease
              /\ row[s].schedule.last_processed_at <= row'[s].schedule.last_processed_at
<1>1. row[s] \in Row
  BY DEF TypeOK
<1>2. ClaimFor \in Nat /\ clock \in Nat
  BY ConstantsAssumption, MaxTimeAssumption DEF TypeOK
<1>3. ASSUME NEW o \in Owners, NEW now \in 0..clock,
             row'[s] = [claimed_by |-> o, lease_until |-> now + ClaimFor, schedule |-> row[s].schedule]
      PROVE  /\ row'[s] \in Row
             /\ row'[s].claimed_by = o
             /\ row'[s].lease_until = now + ClaimFor
             /\ row'[s].schedule = row[s].schedule
  BY <1>1, <1>2, <1>3 DEF Row
<1>4. ASSUME NEW now \in 0..clock,
             row'[s] = [row[s] EXCEPT !.lease_until = now + ClaimFor]
      PROVE  /\ row'[s] \in Row
             /\ row'[s].claimed_by = row[s].claimed_by
             /\ row'[s].lease_until = now + ClaimFor
             /\ row'[s].schedule = row[s].schedule
  BY <1>1, <1>2, <1>4 DEF Row
<1>5. ASSUME NEW sched \in Outcomes(s)
      PROVE  sched \in Schedule /\ row[s].schedule.last_processed_at <= sched.last_processed_at
  <2>1. row[s].schedule \in Schedule /\ row[s].schedule.last_processed_at \in Int
    BY <1>1 DEF Row, Schedule
  <2>2. CASE sched = row[s].schedule
    BY <2>1, <2>2
  <2>3. ASSUME NEW t \in 0..clock, row[s].schedule.last_processed_at <= t,
               sched = Processed(t) \/ sched = Failed(t)
        PROVE  sched \in Schedule /\ row[s].schedule.last_processed_at <= sched.last_processed_at
    <3>1. sched.last_processed_at = t
      BY <2>3 DEF Processed, Failed
    <3> QED
      BY <2>3, <3>1, <1>2, OutcomeType
  <2> QED
    BY <2>2, <2>3 DEF Outcomes
<1>6. ASSUME NEW sched \in Outcomes(s),
             row'[s] = [claimed_by |-> NoOwner, lease_until |-> NoLease, schedule |-> sched]
      PROVE  /\ row'[s] \in Row
             /\ row'[s].claimed_by = NoOwner
             /\ row'[s].lease_until = NoLease
             /\ row[s].schedule.last_processed_at <= row'[s].schedule.last_processed_at
  BY <1>5, <1>6 DEF Row, NoLease
<1>7. CASE row'[s] = row[s]
  BY <1>7
<1>8. CASE \E o \in Owners, now \in 0..clock :
             /\ clock - now <= MaxLag
             /\ Unleased(row[s], now)
             /\ row'[s] = [claimed_by |-> o, lease_until |-> now + ClaimFor, schedule |-> row[s].schedule]
  BY <1>8, <1>3
<1>9. CASE \E now \in 0..clock :
             /\ row[s].claimed_by \in Owners
             /\ row'[s] = [row[s] EXCEPT !.lease_until = now + ClaimFor]
  BY <1>9, <1>4
<1>10. CASE \E now \in 0..clock, sched \in Outcomes(s) :
             /\ clock - now <= MaxLag
             /\ row[s].claimed_by \in Owners
             /\ row[s].lease_until > now
             /\ row'[s] = [claimed_by |-> NoOwner, lease_until |-> NoLease, schedule |-> sched]
  BY <1>10, <1>6
<1> QED
  BY <1>7, <1>8, <1>9, <1>10 DEF RowStep

\* Every step is a RowStep for each old row, and new rows are those of new stations.
LEMMA StepByRow ==
  ASSUME TypeOK, [Next]_vars
  PROVE  /\ clock' \in {clock, clock + 1} /\ clock' \in 0..MaxTime
         /\ DOMAIN row \subseteq DOMAIN row'
         /\ DOMAIN row' \subseteq Stations
         /\ row' = [s \in DOMAIN row' |-> row'[s]]
         /\ \A s \in DOMAIN row : RowStep(s)
         /\ \A s \in DOMAIN row' \ DOMAIN row : \E now \in 0..clock : row'[s] = FromStation(now)
<1> USE MaxTimeAssumption DEF TypeOK
<1>1. ASSUME NEW o \in Owners, Claim(o)
      PROVE  /\ clock' = clock
             /\ row' = [s \in DOMAIN row |-> row'[s]]
             /\ \A s \in DOMAIN row : RowStep(s)
  <2>a. PICK now \in Readings(clock), locked \in SUBSET Stations :
          \E S \in Picks(row, locked, now) : row' = Claimed(row, S, o, now)
    BY <1>1 DEF Claim
  <2>1. PICK S \in Picks(row, locked, now) : row' = Claimed(row, S, o, now)
    BY <2>a
  <2>2. clock' = clock
    BY <1>1 DEF Claim
  <2>3. \A s \in S : s \in DOMAIN row /\ Unleased(row[s], now)
    BY DEF Picks, Claimable
  <2>4. now \in 0..clock /\ clock - now <= MaxLag
    BY DEF Readings
  <2> QED
    BY <2>1, <2>2, <2>3, <2>4 DEF Claimed, RowStep
<1>2. ASSUME NEW o \in Owners, Refresh(o)
      PROVE  /\ clock' = clock
             /\ row' = [s \in DOMAIN row |-> row'[s]]
             /\ \A s \in DOMAIN row : RowStep(s)
  BY <1>2 DEF Refresh, Refreshed, Owned, RowStep
<1>3. ASSUME NEW o \in Owners, Feedback(o)
      PROVE  /\ clock' = clock
             /\ row' = [s \in DOMAIN row |-> row'[s]]
             /\ \A s \in DOMAIN row : RowStep(s)
  <2>1. PICK now \in Readings(clock), ids \in SUBSET DOMAIN row :
          \E obj \in [ids -> UNION {Outcomes(s) : s \in ids}] :
            /\ \A s \in ids \cap Owned(row, o, now) : obj[s] \in Outcomes(s)
            /\ row' = Released(row, obj, o, now)
    BY <1>3 DEF Feedback
  <2>2. PICK obj \in [ids -> UNION {Outcomes(s) : s \in ids}] :
            /\ \A s \in ids \cap Owned(row, o, now) : obj[s] \in Outcomes(s)
            /\ row' = Released(row, obj, o, now)
    BY <2>1
  <2>3. clock' = clock
    BY <1>3 DEF Feedback
  <2>4. now \in 0..clock /\ clock - now <= MaxLag
    BY DEF Readings
  <2>5. DOMAIN obj = ids
    OBVIOUS
  <2>6. ASSUME NEW s \in DOMAIN row
        PROVE  RowStep(s)
    <3>1. CASE s \in ids \cap Owned(row, o, now)
      <4>1. row'[s] = [claimed_by |-> NoOwner, lease_until |-> NoLease, schedule |-> obj[s]]
        BY <3>1, <2>2, <2>5 DEF Released
      <4>2. obj[s] \in Outcomes(s) /\ row[s].claimed_by = o /\ row[s].lease_until > now
        BY <3>1, <2>2 DEF Owned
      <4> QED
        BY <4>1, <4>2, <2>4 DEF RowStep
    <3>2. CASE s \notin ids \cap Owned(row, o, now)
      BY <3>2, <2>2, <2>5 DEF Released, RowStep
    <3> QED
      BY <3>1, <3>2
  <2> QED
    BY <2>2, <2>3, <2>6 DEF Released
<1>4. ASSUME AddStations
      PROVE  /\ clock' = clock
             /\ DOMAIN row \subseteq DOMAIN row' /\ DOMAIN row' \subseteq Stations
             /\ row' = [s \in DOMAIN row' |-> row'[s]]
             /\ \A s \in DOMAIN row : RowStep(s)
             /\ \A s \in DOMAIN row' \ DOMAIN row : \E now \in 0..clock : row'[s] = FromStation(now)
  BY <1>4 DEF AddStations, InsertedSafe, Readings, RowStep
<1>5. CASE Tick
  BY <1>5 DEF Tick, RowStep
<1>6. CASE UNCHANGED vars
  BY <1>6 DEF vars, RowStep
<1> QED
  BY <1>1, <1>2, <1>3, <1>4, <1>5, <1>6 DEF Next

\* The initial table has the types.
LEMMA TypeInit == Init => TypeOK
  BY FromStationType, MaxTimeAssumption DEF Init, TypeOK

\* Every operation of the store keeps the types, and owner and lease together.
LEMMA TypeStep == TypeOK /\ [Next]_vars => TypeOK'
<1> SUFFICES ASSUME TypeOK, [Next]_vars
             PROVE  TypeOK'
  OBVIOUS
<1> USE ConstantsAssumption DEF TypeOK
<1>1. ASSUME NEW s \in DOMAIN row
      PROVE  row'[s] \in Row /\ (row'[s].claimed_by = NoOwner <=> row'[s].lease_until = NoLease)
  <2>1. row[s] \in Row /\ RowStep(s) /\ (row[s].claimed_by = NoOwner <=> row[s].lease_until = NoLease)
    BY StepByRow
  <2>2. clock \in Nat
    BY MaxTimeAssumption
  <2> QED
    BY <2>1, <2>2, RowStepColumns DEF NoLease
<1>2. ASSUME NEW s \in DOMAIN row' \ DOMAIN row
      PROVE  row'[s] \in Row /\ row'[s].claimed_by = NoOwner /\ row'[s].lease_until = NoLease
  BY StepByRow, FromStationType
<1> QED
  BY <1>1, <1>2, StepByRow

\* The rows always have their types, and an owner exactly when they have a lease.
THEOREM TypeCorrect == TableSpec => []TypeOK
  BY TypeInit, TypeStep, PTL DEF TableSpec

-----------------------------------------------------------------------------
\* No sequence of claims and refreshes puts a lease more than ClaimFor ahead of
\* the clock, so that a dead process blocks its rows no longer than that.
THEOREM LeaseIsBounded == TableSpec => []LeaseBounded
<1>1. Init => LeaseBounded
  BY ConstantsAssumption DEF Init, LeaseBounded, FromStation, NoLease
<1>2. TypeOK /\ LeaseBounded /\ [Next]_vars => LeaseBounded'
  <2> SUFFICES ASSUME TypeOK, LeaseBounded, [Next]_vars, NEW s \in DOMAIN row'
               PROVE  row'[s].lease_until <= clock' + ClaimFor
    BY DEF LeaseBounded
  <2>1. clock' >= clock /\ clock \in Nat /\ clock' \in Nat
    BY StepByRow, MaxTimeAssumption DEF TypeOK
  <2>2. CASE s \in DOMAIN row
    <3>1. row[s] \in Row /\ RowStep(s) /\ row[s].lease_until <= clock + ClaimFor
      BY <2>2, StepByRow DEF TypeOK, LeaseBounded
    <3> QED
      BY <2>1, <2>2, <3>1, RowStepColumns, ConstantsAssumption DEF Row, NoLease
  <2>3. CASE s \notin DOMAIN row
    BY <2>1, <2>3, StepByRow, ConstantsAssumption DEF FromStation, NoLease
  <2> QED
    BY <2>2, <2>3
<1> QED
  BY <1>1, <1>2, TypeCorrect, PTL DEF TableSpec

\* A live lease never passes to another owner.
THEOREM LiveLeaseIsKept == TableSpec => NoLiveSteal
<1>1. TypeOK /\ [Next]_vars =>
        \A s \in DOMAIN row :
          (row'[s].claimed_by # row[s].claimed_by /\ row[s].lease_until > clock)
            => row'[s].claimed_by = NoOwner
  <2> SUFFICES ASSUME TypeOK, [Next]_vars, NEW s \in DOMAIN row,
                      row'[s].claimed_by # row[s].claimed_by, row[s].lease_until > clock
               PROVE  row'[s].claimed_by = NoOwner
    OBVIOUS
  <2>1. row[s] \in Row /\ RowStep(s) /\ clock \in Nat
    BY StepByRow, MaxTimeAssumption DEF TypeOK
  <2> QED
    BY <2>1, RowStepColumns, ConstantsAssumption DEF Row, Unleased, NoLease
<1> QED
  BY <1>1, TypeCorrect, PTL DEF TableSpec, NoLiveSteal

\* A schedule changes only by the guarded release, and never goes back.
THEOREM ScheduleIsGuarded == TableSpec => ScheduleGuarded
<1>1. TypeOK /\ [Next]_vars =>
        \A s \in DOMAIN row :
          /\ s \in DOMAIN row'
          /\ row'[s].schedule # row[s].schedule =>
               /\ row[s].claimed_by # NoOwner
               /\ row[s].lease_until > clock - MaxLag
               /\ row'[s].claimed_by = NoOwner
               /\ row[s].schedule.last_processed_at <= row'[s].schedule.last_processed_at
  <2> SUFFICES ASSUME TypeOK, [Next]_vars, NEW s \in DOMAIN row
               PROVE  /\ s \in DOMAIN row'
                      /\ row'[s].schedule # row[s].schedule =>
                           /\ row[s].claimed_by # NoOwner
                           /\ row[s].lease_until > clock - MaxLag
                           /\ row'[s].claimed_by = NoOwner
                           /\ row[s].schedule.last_processed_at <= row'[s].schedule.last_processed_at
    OBVIOUS
  <2>1. row[s] \in Row /\ RowStep(s) /\ clock \in Nat /\ s \in DOMAIN row'
    BY StepByRow, MaxTimeAssumption DEF TypeOK
  <2> QED
    BY <2>1, RowStepColumns, ConstantsAssumption DEF Row
<1> QED
  BY <1>1, TypeCorrect, PTL DEF TableSpec, ScheduleGuarded
=============================================================================
