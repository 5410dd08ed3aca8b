---------------------- MODULE ClickHouseMigrations_proofs ----------------------
(***************************************************************************)
(* Proofs about the migrations of ClickHouse, for any number of migrators, any *)
(* commands and images, and any crashes.                                     *)
(*                                                                         *)
(* As long as there are only upgrades the version of an object never falls, so  *)
(* what a migrator has made stays made, whatever the others do.  Its command    *)
(* began at a recorded revision, so by the time it records the next one, the    *)
(* schema has both what the old one and what the new one stand for.           *)
(*                                                                         *)
(* With discipline - one command at a time, the last one repeated if it failed -   *)
(* the schema is always that after so many statements of one file: the one under   *)
(* way, or the one that was cut off last.  A command that repeats a cut-off file    *)
(* succeeds if each statement can be repeated on that schema, which only those of   *)
(* revision 3 and of the down files can.                                     *)
(***************************************************************************)
EXTENDS ClickHouseMigrations, TLAPS

\* A command that runs is on its way to its target; another has no statement done.
OnTheWay ==
  \A m \in Migrators :
    /\ Running(m) =>
         IF IsUpgrade(m) THEN at[m] <= command[m].target ELSE command[m].target < at[m]
    /\ ~Running(m) => done[m] = 0

\* What m's command relies on: the revision before its file has been applied, and
\* so have the statements that are done.
Relied(m) ==
  /\ IsUpgrade(m)
  /\ AtLeast(schema, at[m] - 1)
  /\ \A k \in 1..done[m] : Up[at[m]][k].version <= schema[Up[at[m]][k].object]

IInv ==
  /\ TypeOK
  /\ OnTheWay
  /\ RecordedApplied
  /\ StatsReadable
  /\ ~downgraded => \A m \in Migrators : Running(m) => Relied(m)

-----------------------------------------------------------------------------
(* The files *)

Objects == {"table", "norm", "stats"}
Schemas == [table : {0, 1}, norm : {0, 2, 3}, stats : {0, 2, 3}]

\* The statements of up.sql.
LEMMA UpStatements ==
  /\ Up[0] = <<>>
  /\ Up[1] = <<Effect("create", "table", 1)>>
  /\ Up[2] = <<Effect("create", "norm", 2), Effect("create", "stats", 2)>>
  /\ Up[3] = <<Effect("replace", "norm", 3), Effect("replace", "stats", 3)>>
  BY DEF Up, Revisions

\* The statements of down.sql.
LEMMA DownStatements ==
  /\ Down[0] = <<>>
  /\ Down[1] = <<Effect("drop", "table", 0)>>
  /\ Down[2] = <<Effect("drop", "stats", 0), Effect("drop", "norm", 0)>>
  /\ Down[3] = <<Effect("replace", "norm", 2), Effect("replace", "stats", 2)>>
  BY DEF Down, Revisions

\* A revision is one of four.
LEMMA FourRevisions == Revisions = {0, 1, 2, 3}
  BY DEF Revisions

\* The number of statements of a file, and their effects.
LEMMA FileShape ==
  ASSUME NEW r \in Revisions
  PROVE  /\ Len(Up[r]) \in 0..2 /\ Len(Down[r]) \in 0..2
         /\ \A k \in 1..Len(Up[r]) : Up[r][k].version \in {1, 2, 3} /\ Up[r][k].object \in Objects
         /\ \A db \in Schemas :
              /\ \A k \in 1..Len(Up[r]) : Carried(Up[r][k], db) \in Schemas
              /\ \A k \in 1..Len(Down[r]) : Carried(Down[r][k], db) \in Schemas
<1>1. CASE r = 0
  BY <1>1, UpStatements, DownStatements
<1>2. CASE r = 1
  BY <1>2, UpStatements, DownStatements DEF Effect, Carried, Schemas, Objects
<1>3. CASE r = 2
  BY <1>3, UpStatements, DownStatements DEF Effect, Carried, Schemas, Objects
<1>4. CASE r = 3
  BY <1>4, UpStatements, DownStatements DEF Effect, Carried, Schemas, Objects
<1> QED
  BY <1>1, <1>2, <1>3, <1>4, FourRevisions

-----------------------------------------------------------------------------
(* Types *)

\* The initial state satisfies the invariant.
LEMMA InvInit == Init => IInv
<1> SUFFICES ASSUME Init PROVE IInv
  OBVIOUS
<1>1. \A m \in Migrators : ~Running(m)
  BY DEF Init, Running
<1>2. TypeOK
  <2>2. schema \in [table : {0, 1}, norm : {0, 2, 3}, stats : {0, 2, 3}]
    BY DEF Init, Nothing
  <2>3. /\ command \in [Migrators -> Command \cup {NoCommand}]
        /\ at \in [Migrators -> Revisions \cup {Base}] /\ done \in [Migrators -> 0..2]
    BY DEF Init
  <2>4. newest \subseteq Revisions \cup {Base} /\ newest # {}
    BY DEF Init
  <2>5. still \in BOOLEAN /\ downgraded \in BOOLEAN /\ disciplined \in BOOLEAN
    BY DEF Init
  <2> QED
    BY <1>1, <2>2, <2>3, <2>4, <2>5 DEF Init, TypeOK
<1>3. RecordedApplied /\ StatsReadable
  BY DEF Init, RecordedApplied, StatsReadable, AtLeast, SchemaAt, Nothing, Base
<1> QED
  BY <1>1, <1>2, <1>3 DEF IInv, OnTheWay, Init

\* A command that runs is within the file of a revision.
LEMMA RunningFile ==
  ASSUME TypeOK, NEW m \in Migrators, Running(m)
  PROVE  /\ command[m] \in Command /\ at[m] \in Revisions /\ done[m] \in 0..2
         /\ Len(File(m)) \in 0..2 /\ done[m] <= Len(File(m))
         /\ command[m].target \in Revisions \cup {Base}
         /\ IsUpgrade(m) => command[m].target \in Revisions /\ File(m) = Up[at[m]]
         /\ ~IsUpgrade(m) => File(m) = Down[at[m]]
<1>1. command[m] \in Command /\ at[m] \in Revisions /\ done[m] \in 0..2 /\ done[m] <= Len(File(m))
  BY DEF TypeOK, Running
<1> QED
  BY <1>1, FileShape DEF File, IsUpgrade, Command

\* The end of a command leaves it idle and the others alone.
LEMMA OverType ==
  ASSUME TypeOK, NEW m \in Migrators, Over(m)
  PROVE  /\ command' \in [Migrators -> Command \cup {NoCommand}]
         /\ at' \in [Migrators -> Revisions \cup {Base}]
         /\ done' \in [Migrators -> 0..2]
         /\ command'[m] = NoCommand
         /\ \A n \in Migrators \ {m} : command'[n] = command[n] /\ at'[n] = at[n] /\ done'[n] = done[n]
  BY DEF TypeOK, Over

\* What a migrator is doing depends on its own variables.
LEMMA SameCommand ==
  ASSUME NEW m \in Migrators, command'[m] = command[m], at'[m] = at[m]
  PROVE  Running(m)' = Running(m) /\ IsUpgrade(m)' = IsUpgrade(m) /\ File(m)' = File(m)
  BY DEF Running, IsUpgrade, File

\* The bookkeeping of the discipline keeps its types.
LEMMA EndedType ==
  ASSUME NEW kept \in BOOLEAN, NEW cut \in Command \cup {NoCommand},
         NEW target \in Revisions \cup {Base}, Ended(kept, cut, target)
  PROVE  /\ disciplined' \in BOOLEAN /\ pending' \in Command \cup {NoCommand}
         /\ reached' \in Revisions \cup {Base}
  BY DEF Ended

\* A step that ends a command.
LEMMA OverStep ==
  ASSUME TypeOK, OnTheWay, NEW m \in Migrators, Over(m), UNCHANGED schema,
         newest' \subseteq Revisions \cup {Base}, newest' # {}, still' \in BOOLEAN,
         downgraded' = downgraded, disciplined' \in BOOLEAN,
         pending' \in Command \cup {NoCommand}, reached' \in Revisions \cup {Base},
         torn' \subseteq Revisions
  PROVE  TypeOK' /\ OnTheWay'
<1>1. ~Running(m)' /\ done'[m] = 0
  BY OverType DEF Running, Over, TypeOK
<1>2. ASSUME NEW n \in Migrators \ {m}
      PROVE  /\ Running(n)' = Running(n) /\ IsUpgrade(n)' = IsUpgrade(n) /\ File(n)' = File(n)
             /\ command'[n] = command[n] /\ at'[n] = at[n] /\ done'[n] = done[n]
  BY OverType, SameCommand
<1>3. \A n \in Migrators : Running(n)' => at'[n] \in Revisions /\ done'[n] <= Len(File(n)')
  BY <1>1, <1>2 DEF TypeOK
<1>4. OnTheWay'
  BY <1>1, <1>2 DEF OnTheWay
<1> QED
  BY <1>3, <1>4, OverType DEF TypeOK

\* Types and ways together are kept by every step.
LEMMA TypeStep == TypeOK /\ OnTheWay /\ [Next]_vars => TypeOK' /\ OnTheWay'
<1> SUFFICES ASSUME TypeOK, OnTheWay, [Next]_vars
             PROVE  TypeOK' /\ OnTheWay'
  OBVIOUS
<1> USE FourRevisions DEF Base
<1> DEFINE InFile(m) == at[m] \in Revisions /\ done[m] <= Len(File(m))
           OnWay(m) == IF IsUpgrade(m) THEN at[m] <= command[m].target
                                       ELSE command[m].target < at[m]
<1>1. ASSUME NEW m \in Migrators, Begin(m)
      PROVE  TypeOK' /\ OnTheWay'
  <2>1. PICK c \in Commands : \E head \in Heads, current \in newest :
       /\ Accepts(c, head, current)
       /\ downgraded' = (downgraded \/ c.kind = "downgrade")
       /\ IF current = c.target
            THEN /\ Ended(Disciplined(c), NoCommand, c.target)
                 /\ UNCHANGED <<command, at>>
            ELSE /\ Ended(Disciplined(c), pending, reached)
                 /\ command' = [command EXCEPT ![m] = c]
                 /\ at' = [at EXCEPT ![m] = IF c.kind = "upgrade" THEN current + 1 ELSE current]
    BY <1>1 DEF Begin
  <2>2. PICK head \in Heads, current \in newest :
       /\ Accepts(c, head, current)
       /\ downgraded' = (downgraded \/ c.kind = "downgrade")
       /\ IF current = c.target
            THEN /\ Ended(Disciplined(c), NoCommand, c.target)
                 /\ UNCHANGED <<command, at>>
            ELSE /\ Ended(Disciplined(c), pending, reached)
                 /\ command' = [command EXCEPT ![m] = c]
                 /\ at' = [at EXCEPT ![m] = IF c.kind = "upgrade" THEN current + 1 ELSE current]
    BY <2>1
  <2>3. c \in Command /\ current \in {-1, 0, 1, 2, 3} /\ c.target \in {-1, 0, 1, 2, 3} /\ head \in {0, 1, 2, 3}
    BY <2>2, MigrationsAssumption DEF TypeOK, Command
  <2>4. UNCHANGED <<schema, newest, still, done, torn>> /\ ~Running(m)
    BY <1>1 DEF Begin
  <2>9. done[m] = 0
    BY <2>4 DEF OnTheWay
  <2>5. Disciplined(c) \in BOOLEAN
    BY DEF Disciplined, TypeOK
  <2>6. downgraded' \in BOOLEAN
    BY <2>2, Zenon DEF TypeOK
  <2>7. CASE current = c.target
    <3>1. UNCHANGED <<command, at>> /\ Ended(Disciplined(c), NoCommand, c.target)
      BY <2>2, <2>7
    <3>2. disciplined' \in BOOLEAN /\ pending' \in Command \cup {NoCommand} /\ reached' \in Revisions \cup {Base}
      BY <2>3, <2>5, <3>1, EndedType
    <3>3. \A n \in Migrators : Running(n)' = Running(n) /\ IsUpgrade(n)' = IsUpgrade(n) /\ File(n)' = File(n)
      BY <3>1, SameCommand
    <3> QED
      BY <2>4, <2>6, <3>1, <3>2, <3>3 DEF TypeOK, OnTheWay
  <2>8. CASE current # c.target
    <3>1. /\ Ended(Disciplined(c), pending, reached)
          /\ command' = [command EXCEPT ![m] = c]
          /\ at' = [at EXCEPT ![m] = IF c.kind = "upgrade" THEN current + 1 ELSE current]
      BY <2>2, <2>8
    <3>2. disciplined' \in BOOLEAN /\ pending' \in Command \cup {NoCommand} /\ reached' \in Revisions \cup {Base}
      BY <2>5, <3>1, EndedType DEF TypeOK
    <3>3. /\ c.kind = "upgrade" => current + 1 \in Revisions /\ current + 1 <= c.target
          /\ c.kind # "upgrade" => current \in Revisions /\ c.target < current
      BY <2>2, <2>3, <2>8 DEF Accepts, Command
    <3>4. /\ command' \in [Migrators -> Command \cup {NoCommand}]
          /\ at' \in [Migrators -> Revisions \cup {Base}]
          /\ command'[m] = c /\ at'[m] \in Revisions
          /\ at'[m] = IF c.kind = "upgrade" THEN current + 1 ELSE current
          /\ \A n \in Migrators \ {m} : command'[n] = command[n] /\ at'[n] = at[n]
      BY <2>3, <3>1, <3>3 DEF TypeOK
    <3>5. IsUpgrade(m)' <=> c.kind = "upgrade"
      BY <3>4 DEF IsUpgrade
    <3>6. done'[m] <= Len(File(m)')
      BY <2>4, <2>9, <3>4, FileShape DEF File
    <3>7. Running(m)'
      BY <2>3, <3>4, MigrationsAssumption DEF Running
    <3> QED
      BY <2>4, <2>6, <3>2, <3>3, <3>4, <3>5, <3>6, <3>7, SameCommand DEF TypeOK, OnTheWay
  <2> QED
    BY <2>7, <2>8
<1>2. ASSUME NEW m \in Migrators, Apply(m)
      PROVE  TypeOK' /\ OnTheWay'
  <2>1. /\ Running(m) /\ done[m] < Len(File(m)) /\ done' = [done EXCEPT ![m] = done[m] + 1]
        /\ schema' = Carried(File(m)[done[m] + 1], schema)
        /\ UNCHANGED <<newest, command, at, history>> /\ still' = FALSE
    BY <1>2 DEF Apply
  <2>2. done[m] + 1 \in 1..Len(File(m)) /\ Len(File(m)) \in 0..2
    BY <2>1, RunningFile
  <2>3. schema' \in Schemas
    <3>1. schema \in Schemas /\ at[m] \in Revisions
      BY <2>1, RunningFile DEF TypeOK, Schemas
    <3>2. CASE IsUpgrade(m)
      <4>1. File(m) = Up[at[m]]
        BY <2>1, <3>2, RunningFile
      <4> QED
        BY <2>1, <2>2, <3>1, <4>1, FileShape
    <3>3. CASE ~IsUpgrade(m)
      <4>1. File(m) = Down[at[m]]
        BY <2>1, <3>3, RunningFile
      <4> QED
        BY <2>1, <2>2, <3>1, <4>1, FileShape
    <3> QED
      BY <3>2, <3>3
  <2>4. done' \in [Migrators -> 0..2] /\ done'[m] <= Len(File(m))
          /\ \A n \in Migrators \ {m} : done'[n] = done[n]
    BY <2>1, <2>2 DEF TypeOK
  <2>5. \A n \in Migrators : Running(n)' = Running(n) /\ IsUpgrade(n)' = IsUpgrade(n) /\ File(n)' = File(n)
    BY <2>1, SameCommand
  <2> QED
    BY <2>1, <2>3, <2>4, <2>5 DEF TypeOK, OnTheWay, Schemas, history
<1>3. ASSUME NEW m \in Migrators, Record(m)
      PROVE  TypeOK' /\ OnTheWay'
  <2>1. Running(m) /\ SetRevision(NextRevision(m)) /\ Advance(m)
          /\ UNCHANGED <<schema, downgraded, torn>>
    BY <1>3 DEF Record
  <2>2. /\ at[m] \in {0, 1, 2, 3} /\ command[m].target \in {-1, 0, 1, 2, 3}
        /\ NextRevision(m) = IF IsUpgrade(m) THEN at[m] ELSE at[m] - 1
        /\ OnWay(m)
        /\ IsUpgrade(m) => command[m].target \in {0, 1, 2, 3}
    BY <2>1, RunningFile DEF NextRevision, OnTheWay
  <2>6. NextRevision(m) \in Revisions \cup {Base}
    BY <2>2
  <2>3. newest' \subseteq Revisions \cup {Base} /\ newest' # {} /\ still' \in BOOLEAN
    BY <2>1, <2>6 DEF SetRevision, TypeOK
  <2>4. CASE NextRevision(m) = command[m].target
    <3>1. Over(m) /\ Ended(disciplined, NoCommand, command[m].target)
      BY <2>1, <2>4 DEF Advance
    <3>2. disciplined' \in BOOLEAN /\ pending' \in Command \cup {NoCommand} /\ reached' \in Revisions \cup {Base}
      BY <2>2, <3>1, EndedType DEF TypeOK
    <3> QED
      BY <2>1, <2>3, <3>1, <3>2, OverStep DEF TypeOK
  <2>5. CASE NextRevision(m) # command[m].target
    <3>1. /\ at' = [at EXCEPT ![m] = IF IsUpgrade(m) THEN at[m] + 1 ELSE at[m] - 1]
          /\ done' = [done EXCEPT ![m] = 0]
          /\ UNCHANGED <<command, disciplined, pending, reached>>
      BY <2>1, <2>5 DEF Advance
    <3>2. /\ IsUpgrade(m) => at[m] + 1 \in Revisions /\ at[m] + 1 <= command[m].target
          /\ ~IsUpgrade(m) => at[m] - 1 \in Revisions /\ command[m].target < at[m] - 1
      BY <2>2, <2>5
    <3>3. /\ at' \in [Migrators -> Revisions \cup {Base}] /\ done' \in [Migrators -> 0..2]
          /\ at'[m] = (IF IsUpgrade(m) THEN at[m] + 1 ELSE at[m] - 1) /\ done'[m] = 0
          /\ at'[m] \in Revisions
          /\ \A n \in Migrators \ {m} : at'[n] = at[n] /\ done'[n] = done[n]
      BY <3>1, <3>2 DEF TypeOK
    <3>4. IsUpgrade(m)' = IsUpgrade(m) /\ done'[m] <= Len(File(m)')
      BY <3>1, <3>3, FileShape DEF IsUpgrade, File
    <3> QED
      BY <2>1, <2>3, <3>1, <3>2, <3>3, <3>4, SameCommand DEF TypeOK, OnTheWay
  <2> QED
    BY <2>4, <2>5
<1>4. ASSUME NEW m \in Migrators, Reject(m) \/ Crash(m)
      PROVE  TypeOK' /\ OnTheWay'
  <2>1. /\ Running(m) /\ Over(m) /\ Ended(disciplined, command[m], reached)
        /\ UNCHANGED <<schema, newest, still, downgraded>>
        /\ torn' = torn \/ torn' = torn \cup {at[m]}
    BY <1>4 DEF Reject, Rejected, Crash
  <2>2. torn' \subseteq Revisions
    BY <2>1, RunningFile DEF TypeOK
  <2>3. disciplined' \in BOOLEAN /\ pending' \in Command \cup {NoCommand} /\ reached' \in Revisions \cup {Base}
    BY <2>1, EndedType DEF TypeOK
  <2>4. newest' \subseteq Revisions \cup {Base} /\ newest' # {} /\ still' \in BOOLEAN
    BY <2>1 DEF TypeOK
  <2> QED
    BY <2>1, <2>2, <2>3, <2>4, OverStep DEF TypeOK
<1>5. CASE UNCHANGED vars
  <2>1. \A n \in Migrators : Running(n)' = Running(n) /\ IsUpgrade(n)' = IsUpgrade(n) /\ File(n)' = File(n)
    BY <1>5, SameCommand DEF vars
  <2> QED
    BY <1>5, <2>1 DEF vars, history, TypeOK, OnTheWay
<1> QED
  BY <1>1, <1>2, <1>3, <1>4, <1>5 DEF Next, Refuse

\* Types: in particular a command never leaves the files of its image.
THEOREM TypeCorrect == Spec => []TypeOK
<1>1. IInv => TypeOK /\ OnTheWay
  BY DEF IInv
<1> QED
  BY <1>1, InvInit, TypeStep, PTL DEF Spec

-----------------------------------------------------------------------------
(* Upgrades only *)

NewerOrSame(db, new) == \A object \in Objects : db[object] <= new[object]

\* What a statement leaves behind.
LEMMA CarriedFields ==
  ASSUME NEW db \in Schemas, NEW op, NEW object \in Objects, NEW version
  PROVE  Carried(Effect(op, object, version), db)
           = [table |-> IF object = "table" THEN version ELSE db.table,
              norm  |-> IF object = "norm"  THEN version ELSE db.norm,
              stats |-> IF object = "stats" THEN version ELSE db.stats]
<1>1. db = [table |-> db.table, norm |-> db.norm, stats |-> db.stats]
  BY DEF Schemas
<1>2. Carried(Effect(op, object, version), db) = [db EXCEPT ![object] = version]
  BY DEF Carried, Effect
<1>3. CASE object = "table"
  BY <1>1, <1>2, <1>3
<1>4. CASE object = "norm"
  BY <1>1, <1>2, <1>4
<1>5. CASE object = "stats"
  BY <1>1, <1>2, <1>5
<1> QED
  BY <1>3, <1>4, <1>5 DEF Objects

\* What each kind of statement asks for.
LEMMA PossibleUp ==
  ASSUME NEW db \in Schemas, NEW object \in Objects, NEW version
  PROVE  /\ Possible(Effect("create", object, version), db) => db[object] = 0 /\ Readable(object, version, db)
         /\ Possible(Effect("replace", object, version), db) => Readable(object, version, db)
<1>1. \A op : LET effect == Effect(op, object, version) IN
              effect.op = op /\ effect.object = object /\ effect.version = version
  BY DEF Effect
<1>2. "create" # "replace"
  OBVIOUS
<1> QED
  BY <1>1, <1>2, Zenon DEF Possible

\* What each view reads.
LEMMA ReadableViews ==
  ASSUME NEW db, NEW version
  PROVE  /\ Readable("norm", version, db) => db.table # 0
         /\ Readable("stats", version, db) <=> db.norm # 0 /\ (version = 3 => db.norm = 3)
  BY DEF Readable

\* A statement of up.sql that succeeds makes its object and lowers no version, and
\* leaves statistics that could be read readable.
LEMMA UpStatement ==
  ASSUME NEW r \in Revisions, NEW k \in 1..Len(Up[r]), NEW db \in Schemas,
         Possible(Up[r][k], db), db.stats # 0 => Readable("stats", db.stats, db)
  PROVE  /\ Carried(Up[r][k], db) \in Schemas
         /\ NewerOrSame(db, Carried(Up[r][k], db))
         /\ Carried(Up[r][k], db)[Up[r][k].object] = Up[r][k].version
         /\ Carried(Up[r][k], db).stats # 0 =>
              Readable("stats", Carried(Up[r][k], db).stats, Carried(Up[r][k], db))
<1> DEFINE new == Carried(Up[r][k], db)
           Goal == /\ new \in Schemas /\ NewerOrSame(db, new)
                   /\ new[Up[r][k].object] = Up[r][k].version
                   /\ new.stats # 0 => new.norm # 0 /\ (new.stats = 3 => new.norm = 3)
<1> USE DEF NewerOrSame, Objects
<1>0. /\ db.table \in {0, 1} /\ db.norm \in {0, 2, 3} /\ db.stats \in {0, 2, 3}
      /\ db.stats # 0 => db.norm # 0 /\ (db.stats = 3 => db.norm = 3)
  BY ReadableViews DEF Schemas
\* The five statements.
<1>1. ASSUME Up[r][k] = Effect("create", "table", 1)
      PROVE  Goal
  <2>1. new = [table |-> 1, norm |-> db.norm, stats |-> db.stats]
    BY <1>1, CarriedFields
  <2> QED
    BY <1>0, <1>1, <2>1 DEF Schemas, Effect
<1>2. ASSUME Up[r][k] = Effect("create", "norm", 2)
      PROVE  Goal
  <2>1. new = [table |-> db.table, norm |-> 2, stats |-> db.stats] /\ db.norm = 0
    BY <1>2, CarriedFields, PossibleUp
  <2> QED
    BY <1>0, <1>2, <2>1 DEF Schemas, Effect
<1>3. ASSUME Up[r][k] = Effect("create", "stats", 2)
      PROVE  Goal
  <2>1. new = [table |-> db.table, norm |-> db.norm, stats |-> 2] /\ db.stats = 0 /\ db.norm # 0
    BY <1>3, CarriedFields, PossibleUp, ReadableViews
  <2> QED
    BY <1>0, <1>3, <2>1 DEF Schemas, Effect
<1>4. ASSUME Up[r][k] = Effect("replace", "norm", 3)
      PROVE  Goal
  <2>1. new = [table |-> db.table, norm |-> 3, stats |-> db.stats]
    BY <1>4, CarriedFields
  <2> QED
    BY <1>0, <1>4, <2>1 DEF Schemas, Effect
<1>5. ASSUME Up[r][k] = Effect("replace", "stats", 3)
      PROVE  Goal
  <2>1. new = [table |-> db.table, norm |-> db.norm, stats |-> 3] /\ db.norm = 3
    BY <1>5, CarriedFields, PossibleUp, ReadableViews
  <2> QED
    BY <1>0, <1>5, <2>1 DEF Schemas, Effect
<1>6. Up[r][k] \in {Effect("create", "table", 1), Effect("create", "norm", 2), Effect("create", "stats", 2),
                    Effect("replace", "norm", 3), Effect("replace", "stats", 3)}
  <2>1. r # 0
    BY UpStatements
  <2>2. CASE r = 1
    BY <2>2, UpStatements
  <2>3. CASE r = 2
    BY <2>3, UpStatements
  <2>4. CASE r = 3
    BY <2>4, UpStatements
  <2> QED
    BY <2>1, <2>2, <2>3, <2>4, FourRevisions
<1>7. Goal
  BY <1>1, <1>2, <1>3, <1>4, <1>5, <1>6
<1> QED
  BY <1>7, ReadableViews

\* What a revision stands for is not undone by newer versions.
LEMMA AtLeastKept ==
  ASSUME NEW r \in Int, NEW db \in Schemas, NEW new \in Schemas, NewerOrSame(db, new),
         AtLeast(db, r)
  PROVE  AtLeast(new, r)
  BY DEF AtLeast, SchemaAt, Schemas, NewerOrSame, Objects

\* After its statements, up.sql has led from one revision to the next.
LEMMA FileDone ==
  ASSUME NEW r \in Revisions, NEW db \in Schemas, AtLeast(db, r - 1),
         \A k \in 1..Len(Up[r]) : Up[r][k].version <= db[Up[r][k].object]
  PROVE  AtLeast(db, r)
<1> USE DEF AtLeast, SchemaAt, Schemas, Effect
<1>1. CASE r = 0
  BY <1>1
<1>2. CASE r = 1
  <2>1. Up[1][1].version <= db[Up[1][1].object]
    BY <1>2, UpStatements
  <2> QED
    BY <1>2, <2>1, UpStatements
<1>3. CASE r = 2
  <2>1. /\ Up[2][1].version <= db[Up[2][1].object]
        /\ Up[2][2].version <= db[Up[2][2].object]
    BY <1>3, UpStatements
  <2> QED
    BY <1>3, <2>1, UpStatements
<1>4. CASE r = 3
  <2>1. /\ Up[3][1].version <= db[Up[3][1].object]
        /\ Up[3][2].version <= db[Up[3][2].object]
    BY <1>4, UpStatements
  <2> QED
    BY <1>4, <2>1, UpStatements
<1> QED
  BY <1>1, <1>2, <1>3, <1>4, FourRevisions

\* What a command relies on is kept by newer versions while it stands still.
LEMMA ReliedKept ==
  ASSUME TypeOK, OnTheWay, NEW m \in Migrators, Running(m), Relied(m), schema' \in Schemas,
         NewerOrSame(schema, schema'), command'[m] = command[m], at'[m] = at[m], done'[m] = done[m]
  PROVE  Relied(m)'
<1>1. schema \in Schemas /\ at[m] \in Revisions /\ at[m] - 1 \in Int
  BY RunningFile, FourRevisions DEF TypeOK, Schemas
<1>2. AtLeast(schema', at[m] - 1)
  BY <1>1, AtLeastKept DEF Relied
<1>3. ASSUME NEW k \in 1..done[m]
      PROVE  Up[at[m]][k].version <= schema'[Up[at[m]][k].object]
  <2>1. k \in 1..Len(Up[at[m]])
    BY <1>1, RunningFile DEF Relied
  <2>2. Up[at[m]][k].version \in {1, 2, 3} /\ Up[at[m]][k].object \in Objects
    BY <1>1, <2>1, FileShape
  <2>3. schema[Up[at[m]][k].object] \in Int /\ schema'[Up[at[m]][k].object] \in Int
    BY <1>1, <2>2 DEF Schemas, Objects
  <2> QED
    BY <1>3, <2>2, <2>3 DEF Relied, NewerOrSame
<1> QED
  BY <1>2, <1>3 DEF Relied, IsUpgrade

\* Without downgrades, what is recorded has been applied, what commands rely on
\* holds, and the statistics can be read.
LEMMA UpgradeStep ==
  ASSUME IInv, [Next]_vars, ~downgraded'
  PROVE  /\ \A r \in newest' : AtLeast(schema', r)
         /\ schema'.stats # 0 => Readable("stats", schema'.stats, schema')
         /\ \A m \in Migrators : Running(m)' => Relied(m)'
<1> USE FourRevisions DEF Base
<1> DEFINE Goal == /\ \A r \in newest' : AtLeast(schema', r)
                   /\ schema'.stats # 0 => Readable("stats", schema'.stats, schema')
                   /\ \A m \in Migrators : Running(m)' => Relied(m)'
<1>0. TypeOK /\ OnTheWay /\ TypeOK' /\ OnTheWay' /\ schema \in Schemas /\ newest \subseteq {-1, 0, 1, 2, 3}
  BY TypeStep DEF IInv, TypeOK, Schemas
<1>1. ~downgraded
  <2>1. ASSUME NEW m \in Migrators, Begin(m)
        PROVE  ~downgraded
    BY <2>1 DEF Begin
  <2>2. ASSUME NEW m \in Migrators, Apply(m) \/ Record(m) \/ Reject(m) \/ Crash(m)
        PROVE  ~downgraded
    BY <2>2 DEF Apply, Record, Reject, Crash, history
  <2> QED
    BY <2>1, <2>2 DEF Next, Refuse, vars, history
<1>2. /\ \A r \in newest : AtLeast(schema, r)
      /\ schema.stats # 0 => Readable("stats", schema.stats, schema)
      /\ \A m \in Migrators : Running(m) => Relied(m)
  BY <1>1 DEF IInv, RecordedApplied, StatsReadable
\* A command that neither begins nor goes on relies on what it did.
<1>3. ASSUME NEW n \in Migrators, UNCHANGED schema, command'[n] = command[n], at'[n] = at[n],
             done'[n] = done[n], Running(n)'
      PROVE  Relied(n)'
  <2>1. Running(n) /\ Relied(n)
    BY <1>2, <1>3, SameCommand
  <2>2. NewerOrSame(schema, schema')
    BY <1>0, <1>3 DEF NewerOrSame, Schemas, Objects
  <2> QED
    BY <1>0, <1>3, <2>1, <2>2, ReliedKept
<1>4. ASSUME NEW m \in Migrators, Begin(m)
      PROVE  Goal
  <2>1. PICK c \in Commands : \E head \in Heads, current \in newest :
       /\ downgraded' = (downgraded \/ c.kind = "downgrade")
       /\ \/ UNCHANGED <<command, at>>
          \/ /\ command' = [command EXCEPT ![m] = c]
             /\ at' = [at EXCEPT ![m] = IF c.kind = "upgrade" THEN current + 1 ELSE current]
    BY <1>4 DEF Begin
  <2>2. PICK current \in newest :
       /\ downgraded' = (downgraded \/ c.kind = "downgrade")
       /\ \/ UNCHANGED <<command, at>>
          \/ /\ command' = [command EXCEPT ![m] = c]
             /\ at' = [at EXCEPT ![m] = IF c.kind = "upgrade" THEN current + 1 ELSE current]
    BY <2>1
  <2>3. UNCHANGED <<schema, newest, done>> /\ done[m] = 0
    BY <1>0, <1>4 DEF Begin, OnTheWay
  <2>4. c.kind = "upgrade"
    <3>1. c.kind # "downgrade"
      BY <2>2
    <3> QED
      BY <3>1, MigrationsAssumption DEF Command
  <2>5. ASSUME NEW n \in Migrators, Running(n)'
        PROVE  Relied(n)'
    <3>1. CASE command'[n] = command[n] /\ at'[n] = at[n]
      BY <1>3, <2>3, <2>5, <3>1
    <3>2. CASE ~(command'[n] = command[n] /\ at'[n] = at[n])
      <4>1. n = m /\ command'[m] = c /\ at'[m] = current + 1
        BY <1>0, <2>2, <2>4, <3>2 DEF TypeOK
      <4>2. current \in Int
        <5>1. current \in {-1, 0, 1, 2, 3}
          BY <1>0, <2>2
        <5> QED
          BY <5>1
      <4>3. AtLeast(schema', at'[m] - 1)
        <5>1. AtLeast(schema, current)
          BY <1>2, <2>2
        <5>2. at'[m] - 1 = current
          BY <4>1, <4>2
        <5> QED
          BY <2>3, <5>1, <5>2
      <4>4. 1..done'[m] = {}
        BY <2>3
      <4> QED
        BY <2>4, <4>1, <4>3, <4>4 DEF Relied, IsUpgrade
    <3> QED
      BY <3>1, <3>2
  <2> QED
    BY <1>2, <2>3, <2>5
<1>5. ASSUME NEW m \in Migrators, Apply(m)
      PROVE  Goal
  <2>1. /\ Running(m) /\ Relied(m) /\ done[m] < Len(File(m)) /\ done' = [done EXCEPT ![m] = done[m] + 1]
        /\ Possible(File(m)[done[m] + 1], schema)
        /\ schema' = Carried(File(m)[done[m] + 1], schema)
        /\ UNCHANGED <<newest, command, at>>
    BY <1>2, <1>5 DEF Apply
  <2>2. File(m) = Up[at[m]] /\ at[m] \in Revisions /\ done[m] + 1 \in 1..Len(Up[at[m]]) /\ done[m] \in 0..2
    BY <1>0, <2>1, RunningFile DEF Relied
  <2> DEFINE effect == Up[at[m]][done[m] + 1]
  <2>3. /\ schema' \in Schemas /\ NewerOrSame(schema, schema')
        /\ schema'[effect.object] = effect.version
        /\ schema'.stats # 0 => Readable("stats", schema'.stats, schema')
    <3>1. schema' = Carried(effect, schema) /\ Possible(effect, schema)
      BY <2>1, <2>2
    <3> QED
      BY <1>0, <1>2, <2>2, <3>1, UpStatement
  <2>4. ASSUME NEW r \in newest'
        PROVE  AtLeast(schema', r)
    <3>1. r \in newest /\ r \in Int
      BY <1>0, <2>1
    <3>2. AtLeast(schema, r)
      BY <1>2, <3>1
    <3> QED
      BY <1>0, <2>3, <3>1, <3>2, AtLeastKept
  <2>5. ASSUME NEW n \in Migrators, Running(n)'
        PROVE  Relied(n)'
    <3>1. Running(n) /\ Relied(n)
      BY <1>2, <2>1, <2>5, SameCommand
    <3>2. CASE n # m
      <4>1. done'[n] = done[n]
        BY <1>0, <2>1, <3>2 DEF TypeOK
      <4> QED
        BY <1>0, <2>1, <2>3, <3>1, <4>1, ReliedKept
    <3>3. CASE n = m
      <4>1. AtLeast(schema', at[m] - 1)
        BY <1>0, <2>1, <2>2, <2>3, AtLeastKept DEF Relied
      <4>2. done'[m] = done[m] + 1
        BY <1>0, <2>1 DEF TypeOK
      <4>3. ASSUME NEW k \in 1..done'[m]
            PROVE  Up[at[m]][k].version <= schema'[Up[at[m]][k].object]
        <5>1. k \in 1..Len(Up[at[m]])
          BY <2>2, <4>2
        <5>2. Up[at[m]][k].version \in {1, 2, 3} /\ Up[at[m]][k].object \in Objects
          BY <2>2, <5>1, FileShape
        <5>3. schema[Up[at[m]][k].object] \in Int /\ schema'[Up[at[m]][k].object] \in Int
          BY <1>0, <2>3, <5>2 DEF Schemas, Objects
        <5>4. CASE k = done[m] + 1
          BY <2>3, <5>2, <5>4
        <5>5. CASE k # done[m] + 1
          <6>1. k \in 1..done[m]
            BY <2>2, <4>2, <5>5
          <6> QED
            BY <2>1, <2>3, <5>2, <5>3, <6>1 DEF Relied, NewerOrSame
        <5> QED
          BY <5>4, <5>5
      <4> QED
        BY <2>1, <3>3, <4>1, <4>3 DEF Relied, IsUpgrade
    <3> QED
      BY <3>2, <3>3
  <2> QED
    BY <2>3, <2>4, <2>5
<1>6. ASSUME NEW m \in Migrators, Record(m)
      PROVE  Goal
  <2>1. /\ Running(m) /\ Relied(m) /\ done[m] = Len(File(m)) /\ SetRevision(NextRevision(m)) /\ Advance(m)
        /\ UNCHANGED schema
    BY <1>2, <1>6 DEF Record
  <2>2. File(m) = Up[at[m]] /\ at[m] \in Revisions /\ NextRevision(m) = at[m]
    BY <1>0, <2>1, RunningFile DEF Relied, NextRevision
  <2>3. AtLeast(schema, at[m])
    BY <1>0, <2>1, <2>2, FileDone DEF Relied
  <2>4. \A r \in newest' : AtLeast(schema', r)
    BY <1>2, <2>1, <2>2, <2>3 DEF SetRevision
  <2>5. ASSUME NEW n \in Migrators, Running(n)'
        PROVE  Relied(n)'
    <3>1. CASE n # m
      <4>1. command'[n] = command[n] /\ at'[n] = at[n] /\ done'[n] = done[n]
        BY <1>0, <2>1, <3>1 DEF Advance, Over, TypeOK
      <4> QED
        BY <1>3, <2>1, <2>5, <4>1
    <3>2. CASE n = m
      <4>1. ~Over(m)
        BY <1>0, <2>5, <3>2, OverType DEF Running
      <4>2. /\ at' = [at EXCEPT ![m] = at[m] + 1] /\ done' = [done EXCEPT ![m] = 0]
            /\ UNCHANGED command
        BY <2>1, <4>1 DEF Advance, Relied
      <4>3. at'[m] - 1 = at[m] /\ 1..done'[m] = {}
        BY <1>0, <2>2, <4>2 DEF TypeOK
      <4> QED
        BY <2>1, <2>3, <3>2, <4>2, <4>3 DEF Relied, IsUpgrade
    <3> QED
      BY <3>1, <3>2
  <2> QED
    BY <1>2, <2>1, <2>4, <2>5
<1>7. ASSUME NEW m \in Migrators, Reject(m) \/ Crash(m)
      PROVE  Goal
  <2>1. Over(m) /\ UNCHANGED <<schema, newest>>
    BY <1>7 DEF Reject, Crash
  <2>2. ASSUME NEW n \in Migrators, Running(n)'
        PROVE  Relied(n)'
    BY <1>0, <1>3, <2>1, <2>2, OverType DEF Running
  <2> QED
    BY <1>2, <2>1, <2>2
<1>8. CASE UNCHANGED vars
  BY <1>2, <1>3, <1>8 DEF vars
<1> QED
  BY <1>4, <1>5, <1>6, <1>7, <1>8 DEF Next, Refuse

\* The invariant is inductive.
LEMMA InvStep == IInv /\ [Next]_vars => IInv'
<1> SUFFICES ASSUME IInv, [Next]_vars
             PROVE  IInv'
  OBVIOUS
<1>1. TypeOK' /\ OnTheWay'
  BY TypeStep DEF IInv
<1>2. ASSUME ~downgraded'
      PROVE  /\ \A r \in newest' : AtLeast(schema', r)
             /\ schema'.stats # 0 => Readable("stats", schema'.stats, schema')
             /\ \A m \in Migrators : Running(m)' => Relied(m)'
  BY <1>2, UpgradeStep
<1> QED
  BY <1>1, <1>2 DEF IInv, RecordedApplied, StatsReadable

\* The inductive invariant of the migrations.
THEOREM Invariant == Spec => []IInv
  BY InvInit, InvStep, PTL DEF Spec

\* Through crashes, and with any number of migrators at once, no upgrade records a
\* revision that has not been applied.
THEOREM RecordedIsApplied == Spec => []RecordedApplied
<1>1. IInv => RecordedApplied
  BY DEF IInv
<1> QED
  BY <1>1, Invariant, PTL

\* Nor does any leave the statistics unreadable, at any point.
THEOREM StatsStayReadable == Spec => []StatsReadable
<1>1. IInv => StatsReadable
  BY DEF IInv
<1> QED
  BY <1>1, Invariant, PTL

-----------------------------------------------------------------------------
(* With discipline *)

Steps(kind, r) == IF kind = "upgrade" THEN Up[r] ELSE Down[r]

\* The revision a file starts from.
Source(kind, r) == IF kind = "upgrade" THEN r - 1 ELSE r

\* The schema after j statements of a file.
SchemaAfter(kind, r, j) ==
  LET file == Steps(kind, r)
      from == SchemaAt(Source(kind, r))
  IN  CASE j = 0 -> from
        [] j = 1 -> Carried(file[1], from)
        [] j = 2 -> Carried(file[2], Carried(file[1], from))

\* The schemas of the revisions.
LEMMA SchemaValues ==
  /\ SchemaAt(-1) = [table |-> 0, norm |-> 0, stats |-> 0]
  /\ SchemaAt(0)  = [table |-> 0, norm |-> 0, stats |-> 0]
  /\ SchemaAt(1)  = [table |-> 1, norm |-> 0, stats |-> 0]
  /\ SchemaAt(2)  = [table |-> 1, norm |-> 2, stats |-> 2]
  /\ SchemaAt(3)  = [table |-> 1, norm |-> 3, stats |-> 3]
  BY DEF SchemaAt

\* They differ, but for those of no revision and the first.
LEMMA SchemasDiffer ==
  ASSUME NEW q \in {-1, 0, 1, 2, 3}, NEW r \in {0, 1, 2, 3}, SchemaAt(q) = SchemaAt(r)
  PROVE  q = r \/ (q = -1 /\ r = 0)
<1>1. \A a, b, c, d, e, f : [table |-> a, norm |-> b, stats |-> c] = [table |-> d, norm |-> e, stats |-> f]
        => a = d /\ b = e
  OBVIOUS
<1> QED
  BY <1>1, SchemaValues

\* One statement after another.
LEMMA AfterOne ==
  ASSUME NEW kind, NEW r
  PROVE  /\ SchemaAfter(kind, r, 0) = SchemaAt(Source(kind, r))
         /\ SchemaAfter(kind, r, 1) = Carried(Steps(kind, r)[1], SchemaAfter(kind, r, 0))
         /\ SchemaAfter(kind, r, 2) = Carried(Steps(kind, r)[2], SchemaAfter(kind, r, 1))
  BY DEF SchemaAfter

\* What the next statement makes of a schema.
LEMMA NextSchema ==
  ASSUME NEW kind, NEW r, NEW j \in {0, 1}, NEW op, NEW object \in Objects, NEW version,
         SchemaAfter(kind, r, j) \in Schemas, Steps(kind, r)[j + 1] = Effect(op, object, version)
  PROVE  LET db == SchemaAfter(kind, r, j) IN
         SchemaAfter(kind, r, j + 1)
           = [table |-> IF object = "table" THEN version ELSE db.table,
              norm  |-> IF object = "norm"  THEN version ELSE db.norm,
              stats |-> IF object = "stats" THEN version ELSE db.stats]
<1>1. SchemaAfter(kind, r, j + 1) = Carried(Steps(kind, r)[j + 1], SchemaAfter(kind, r, j))
  BY AfterOne
<1> QED
  BY <1>1, CarriedFields

\* The files' statements, one by one.
LEMMA FileStatements ==
  /\ Steps("upgrade", 1)[1] = Effect("create", "table", 1)
  /\ Steps("upgrade", 2)[1] = Effect("create", "norm", 2)
  /\ Steps("upgrade", 2)[2] = Effect("create", "stats", 2)
  /\ Steps("upgrade", 3)[1] = Effect("replace", "norm", 3)
  /\ Steps("upgrade", 3)[2] = Effect("replace", "stats", 3)
  /\ Steps("downgrade", 1)[1] = Effect("drop", "table", 0)
  /\ Steps("downgrade", 2)[1] = Effect("drop", "stats", 0)
  /\ Steps("downgrade", 2)[2] = Effect("drop", "norm", 0)
  /\ Steps("downgrade", 3)[1] = Effect("replace", "norm", 2)
  /\ Steps("downgrade", 3)[2] = Effect("replace", "stats", 2)
<1>1. Steps("upgrade", 1) = Up[1] /\ Steps("upgrade", 2) = Up[2] /\ Steps("upgrade", 3) = Up[3]
  BY DEF Steps
<1>2. Steps("downgrade", 1) = Down[1] /\ Steps("downgrade", 2) = Down[2] /\ Steps("downgrade", 3) = Down[3]
  BY DEF Steps
<1>3. ASSUME NEW x
      PROVE  <<x>>[1] = x
  OBVIOUS
<1>4. ASSUME NEW x, NEW y
      PROVE  <<x, y>>[1] = x /\ <<x, y>>[2] = y
  OBVIOUS
<1> QED
  BY <1>1, <1>2, <1>3, <1>4, UpStatements, DownStatements

\* The schemas in the middle of the files.
LEMMA UpSchemas ==
  /\ SchemaAfter("upgrade", 1, 0) = [table |-> 0, norm |-> 0, stats |-> 0]
  /\ SchemaAfter("upgrade", 1, 1) = [table |-> 1, norm |-> 0, stats |-> 0]
  /\ SchemaAfter("upgrade", 2, 0) = [table |-> 1, norm |-> 0, stats |-> 0]
  /\ SchemaAfter("upgrade", 2, 1) = [table |-> 1, norm |-> 2, stats |-> 0]
  /\ SchemaAfter("upgrade", 2, 2) = [table |-> 1, norm |-> 2, stats |-> 2]
  /\ SchemaAfter("upgrade", 3, 0) = [table |-> 1, norm |-> 2, stats |-> 2]
  /\ SchemaAfter("upgrade", 3, 1) = [table |-> 1, norm |-> 3, stats |-> 2]
  /\ SchemaAfter("upgrade", 3, 2) = [table |-> 1, norm |-> 3, stats |-> 3]
<1>1. /\ SchemaAfter("upgrade", 1, 0) = [table |-> 0, norm |-> 0, stats |-> 0]
      /\ SchemaAfter("upgrade", 2, 0) = [table |-> 1, norm |-> 0, stats |-> 0]
      /\ SchemaAfter("upgrade", 3, 0) = [table |-> 1, norm |-> 2, stats |-> 2]
  BY SchemaValues, AfterOne DEF Source
<1>2. SchemaAfter("upgrade", 1, 1) = [table |-> 1, norm |-> 0, stats |-> 0]
  <2>1. SchemaAfter("upgrade", 1, 0) \in Schemas /\ "table" \in Objects
    BY <1>1 DEF Schemas, Objects
  <2>2. Steps("upgrade", 1)[0 + 1] = Effect("create", "table", 1)
    BY FileStatements
  <2> QED
    BY <1>1, <2>1, <2>2, NextSchema
<1>3. SchemaAfter("upgrade", 2, 1) = [table |-> 1, norm |-> 2, stats |-> 0]
  <2>1. SchemaAfter("upgrade", 2, 0) \in Schemas /\ "norm" \in Objects
    BY <1>1 DEF Schemas, Objects
  <2>2. Steps("upgrade", 2)[0 + 1] = Effect("create", "norm", 2)
    BY FileStatements
  <2> QED
    BY <1>1, <2>1, <2>2, NextSchema
<1>4. SchemaAfter("upgrade", 2, 2) = [table |-> 1, norm |-> 2, stats |-> 2]
  <2>1. SchemaAfter("upgrade", 2, 1) \in Schemas /\ "stats" \in Objects
    BY <1>3 DEF Schemas, Objects
  <2>2. Steps("upgrade", 2)[1 + 1] = Effect("create", "stats", 2)
    BY FileStatements
  <2> QED
    BY <1>3, <2>1, <2>2, NextSchema
<1>5. SchemaAfter("upgrade", 3, 1) = [table |-> 1, norm |-> 3, stats |-> 2]
  <2>1. SchemaAfter("upgrade", 3, 0) \in Schemas /\ "norm" \in Objects
    BY <1>1 DEF Schemas, Objects
  <2>2. Steps("upgrade", 3)[0 + 1] = Effect("replace", "norm", 3)
    BY FileStatements
  <2> QED
    BY <1>1, <2>1, <2>2, NextSchema
<1>6. SchemaAfter("upgrade", 3, 2) = [table |-> 1, norm |-> 3, stats |-> 3]
  <2>1. SchemaAfter("upgrade", 3, 1) \in Schemas /\ "stats" \in Objects
    BY <1>5 DEF Schemas, Objects
  <2>2. Steps("upgrade", 3)[1 + 1] = Effect("replace", "stats", 3)
    BY FileStatements
  <2> QED
    BY <1>5, <2>1, <2>2, NextSchema
<1> QED
  BY <1>1, <1>2, <1>3, <1>4, <1>5, <1>6

\* What the statements of down.sql make, file by file.
LEMMA DownSchemas ==
  /\ SchemaAfter("downgrade", 0, 0) = [table |-> 0, norm |-> 0, stats |-> 0]
  /\ SchemaAfter("downgrade", 1, 0) = [table |-> 1, norm |-> 0, stats |-> 0]
  /\ SchemaAfter("downgrade", 1, 1) = [table |-> 0, norm |-> 0, stats |-> 0]
  /\ SchemaAfter("downgrade", 2, 0) = [table |-> 1, norm |-> 2, stats |-> 2]
  /\ SchemaAfter("downgrade", 2, 1) = [table |-> 1, norm |-> 2, stats |-> 0]
  /\ SchemaAfter("downgrade", 2, 2) = [table |-> 1, norm |-> 0, stats |-> 0]
  /\ SchemaAfter("downgrade", 3, 0) = [table |-> 1, norm |-> 3, stats |-> 3]
  /\ SchemaAfter("downgrade", 3, 1) = [table |-> 1, norm |-> 2, stats |-> 3]
  /\ SchemaAfter("downgrade", 3, 2) = [table |-> 1, norm |-> 2, stats |-> 2]
<1>1. /\ SchemaAfter("downgrade", 0, 0) = [table |-> 0, norm |-> 0, stats |-> 0]
      /\ SchemaAfter("downgrade", 1, 0) = [table |-> 1, norm |-> 0, stats |-> 0]
      /\ SchemaAfter("downgrade", 2, 0) = [table |-> 1, norm |-> 2, stats |-> 2]
      /\ SchemaAfter("downgrade", 3, 0) = [table |-> 1, norm |-> 3, stats |-> 3]
  BY SchemaValues, AfterOne DEF Source
<1>2. SchemaAfter("downgrade", 1, 1) = [table |-> 0, norm |-> 0, stats |-> 0]
  <2>1. SchemaAfter("downgrade", 1, 0) \in Schemas /\ "table" \in Objects
    BY <1>1 DEF Schemas, Objects
  <2>2. Steps("downgrade", 1)[0 + 1] = Effect("drop", "table", 0)
    BY FileStatements
  <2> QED
    BY <1>1, <2>1, <2>2, NextSchema
<1>3. SchemaAfter("downgrade", 2, 1) = [table |-> 1, norm |-> 2, stats |-> 0]
  <2>1. SchemaAfter("downgrade", 2, 0) \in Schemas /\ "stats" \in Objects
    BY <1>1 DEF Schemas, Objects
  <2>2. Steps("downgrade", 2)[0 + 1] = Effect("drop", "stats", 0)
    BY FileStatements
  <2> QED
    BY <1>1, <2>1, <2>2, NextSchema
<1>4. SchemaAfter("downgrade", 2, 2) = [table |-> 1, norm |-> 0, stats |-> 0]
  <2>1. SchemaAfter("downgrade", 2, 1) \in Schemas /\ "norm" \in Objects
    BY <1>3 DEF Schemas, Objects
  <2>2. Steps("downgrade", 2)[1 + 1] = Effect("drop", "norm", 0)
    BY FileStatements
  <2> QED
    BY <1>3, <2>1, <2>2, NextSchema
<1>5. SchemaAfter("downgrade", 3, 1) = [table |-> 1, norm |-> 2, stats |-> 3]
  <2>1. SchemaAfter("downgrade", 3, 0) \in Schemas /\ "norm" \in Objects
    BY <1>1 DEF Schemas, Objects
  <2>2. Steps("downgrade", 3)[0 + 1] = Effect("replace", "norm", 2)
    BY FileStatements
  <2> QED
    BY <1>1, <2>1, <2>2, NextSchema
<1>6. SchemaAfter("downgrade", 3, 2) = [table |-> 1, norm |-> 2, stats |-> 2]
  <2>1. SchemaAfter("downgrade", 3, 1) \in Schemas /\ "stats" \in Objects
    BY <1>5 DEF Schemas, Objects
  <2>2. Steps("downgrade", 3)[1 + 1] = Effect("replace", "stats", 2)
    BY FileStatements
  <2> QED
    BY <1>5, <2>1, <2>2, NextSchema
<1> QED
  BY <1>1, <1>2, <1>3, <1>4, <1>5, <1>6

\* The lengths of the files.
LEMMA FileLengths ==
  /\ Len(Up[0]) = 0 /\ Len(Up[1]) = 1 /\ Len(Up[2]) = 2 /\ Len(Up[3]) = 2
  /\ Len(Down[0]) = 0 /\ Len(Down[1]) = 1 /\ Len(Down[2]) = 2 /\ Len(Down[3]) = 2
  BY UpStatements, DownStatements

\* When each kind of statement succeeds.
LEMMA PossibleIs ==
  ASSUME NEW db, NEW object, NEW version
  PROVE  /\ Possible(Effect("create", object, version), db)
              <=> db[object] = 0 /\ Readable(object, version, db)
         /\ Possible(Effect("replace", object, version), db) <=> Readable(object, version, db)
         /\ Possible(Effect("drop", object, version), db)
<1>1. \A op : LET effect == Effect(op, object, version) IN
              effect.op = op /\ effect.object = object /\ effect.version = version
  BY DEF Effect
<1>2. "create" # "replace" /\ "create" # "drop" /\ "replace" # "drop"
      /\ "drop existing" # "create" /\ "drop existing" # "replace" /\ "drop existing" # "drop"
  OBVIOUS
<1> QED
  BY <1>1, <1>2 DEF Possible

\* The statements of up.sql where the first j of its file have been carried out and
\* the command is at statement k + 1: only those of revision 3 can be repeated.
LEMMA UpRepeated ==
  ASSUME NEW r \in {1, 2, 3}, NEW k \in 0..2, NEW j \in 0..2,
         k < Len(Up[r]), k <= j, j <= Len(Up[r])
  PROVE  /\ Possible(Up[r][k + 1], SchemaAfter("upgrade", r, j)) <=> r = 3 \/ j = k
         /\ r = 3 \/ j = k =>
              Carried(Up[r][k + 1], SchemaAfter("upgrade", r, j))
                = SchemaAfter("upgrade", r, IF j > k THEN j ELSE k + 1)
<1> USE DEF Schemas, Objects
<1> DEFINE db == SchemaAfter("upgrade", r, j)
           Goal == /\ Possible(Up[r][k + 1], db) <=> r = 3 \/ j = k
                   /\ r = 3 \/ j = k =>
                        Carried(Up[r][k + 1], db) = SchemaAfter("upgrade", r, IF j > k THEN j ELSE k + 1)
<1>1. db \in Schemas
  <2>1. CASE r = 1
    BY <2>1, FileLengths, UpSchemas
  <2>2. CASE r = 2
    BY <2>2, FileLengths, UpSchemas
  <2>3. CASE r = 3
    BY <2>3, FileLengths, UpSchemas
  <2> QED
    BY <2>1, <2>2, <2>3
<1>2. CASE r = 1
  <2>1. k = 0 /\ j \in {0, 1} /\ Up[r][k + 1] = Effect("create", "table", 1)
    BY <1>2, UpStatements
  <2>2. Readable("table", 1, db)
    BY DEF Readable
  <2>3. Possible(Up[r][k + 1], db) <=> db.table = 0
    BY <2>1, <2>2, PossibleIs
  <2>4. Carried(Up[r][k + 1], db) = [table |-> 1, norm |-> db.norm, stats |-> db.stats]
    BY <1>1, <2>1, CarriedFields
  <2> QED
    BY <1>2, <2>1, <2>3, <2>4, UpSchemas
<1>3. CASE r = 2 /\ k = 0
  <2>1. j \in {0, 1, 2} /\ Up[r][k + 1] = Effect("create", "norm", 2)
    BY <1>3, UpStatements
  <2>2. db.table = 1
    BY <1>3, <2>1, UpSchemas
  <2>3. Readable("norm", 2, db)
    BY <2>2 DEF Readable
  <2>4. Possible(Up[r][k + 1], db) <=> db.norm = 0
    BY <2>1, <2>3, PossibleIs
  <2>5. Carried(Up[r][k + 1], db) = [table |-> db.table, norm |-> 2, stats |-> db.stats]
    BY <1>1, <2>1, CarriedFields
  <2> QED
    BY <1>3, <2>1, <2>4, <2>5, UpSchemas
<1>4. CASE r = 2 /\ k = 1
  <2>1. j \in {1, 2} /\ Up[r][k + 1] = Effect("create", "stats", 2)
    BY <1>4, UpStatements
  <2>2. db.norm = 2
    BY <1>4, <2>1, UpSchemas
  <2>3. Readable("stats", 2, db)
    BY <2>2, ReadableViews
  <2>4. Possible(Up[r][k + 1], db) <=> db.stats = 0
    BY <2>1, <2>3, PossibleIs
  <2>5. Carried(Up[r][k + 1], db) = [table |-> db.table, norm |-> db.norm, stats |-> 2]
    BY <1>1, <2>1, CarriedFields
  <2> QED
    BY <1>4, <2>1, <2>4, <2>5, UpSchemas
<1>5. CASE r = 3 /\ k = 0
  <2>1. j \in {0, 1, 2} /\ Up[r][k + 1] = Effect("replace", "norm", 3)
    BY <1>5, UpStatements
  <2>2. db.table = 1
    BY <1>5, <2>1, UpSchemas
  <2>3. Readable("norm", 3, db)
    BY <2>2 DEF Readable
  <2>4. Possible(Up[r][k + 1], db)
    BY <2>1, <2>3, PossibleIs
  <2>5. Carried(Up[r][k + 1], db) = [table |-> db.table, norm |-> 3, stats |-> db.stats]
    BY <1>1, <2>1, CarriedFields
  <2> QED
    BY <1>5, <2>1, <2>4, <2>5, UpSchemas
<1>6. CASE r = 3 /\ k = 1
  <2>1. j \in {1, 2} /\ Up[r][k + 1] = Effect("replace", "stats", 3)
    BY <1>6, UpStatements
  <2>2. db.norm = 3
    BY <1>6, <2>1, UpSchemas
  <2>3. Readable("stats", 3, db)
    BY <2>2, ReadableViews
  <2>4. Possible(Up[r][k + 1], db)
    BY <2>1, <2>3, PossibleIs
  <2>5. Carried(Up[r][k + 1], db) = [table |-> db.table, norm |-> db.norm, stats |-> 3]
    BY <1>1, <2>1, CarriedFields
  <2> QED
    BY <1>6, <2>1, <2>4, <2>5, UpSchemas
<1>7. r = 1 \/ (r = 2 /\ k = 0) \/ (r = 2 /\ k = 1) \/ (r = 3 /\ k = 0) \/ (r = 3 /\ k = 1)
  <2>1. r = 1 \/ r = 2 \/ r = 3
    OBVIOUS
  <2>2. k = 0 \/ k = 1
    <3>1. CASE r = 1
      <4>1. k < 1
        BY <3>1, FileLengths
      <4> QED
        BY <4>1
    <3>2. CASE r = 2
      <4>1. k < 2
        BY <3>2, FileLengths
      <4> QED
        BY <4>1
    <3>3. CASE r = 3
      <4>1. k < 2
        BY <3>3, FileLengths
      <4> QED
        BY <4>1
    <3> QED
      BY <2>1, <3>1, <3>2, <3>3
  <2> QED
    BY <2>1, <2>2
<1>8. Goal
  BY <1>2, <1>3, <1>4, <1>5, <1>6, <1>7
<1> QED
  BY <1>8

\* The statements of down.sql can all be repeated.
LEMMA DownRepeated ==
  ASSUME NEW r \in Revisions, NEW k \in 0..2, NEW j \in 0..2,
         k < Len(Down[r]), k <= j, j <= Len(Down[r])
  PROVE  /\ Possible(Down[r][k + 1], SchemaAfter("downgrade", r, j))
         /\ Carried(Down[r][k + 1], SchemaAfter("downgrade", r, j))
              = SchemaAfter("downgrade", r, IF j > k THEN j ELSE k + 1)
<1> USE DEF Schemas, Objects
<1> DEFINE db == SchemaAfter("downgrade", r, j)
           Goal == /\ Possible(Down[r][k + 1], db)
                   /\ Carried(Down[r][k + 1], db)
                        = SchemaAfter("downgrade", r, IF j > k THEN j ELSE k + 1)
<1>1. db \in Schemas
  <2>1. CASE r = 0
    BY <2>1, FileLengths, DownSchemas
  <2>2. CASE r = 1
    BY <2>2, FileLengths, DownSchemas
  <2>3. CASE r = 2
    BY <2>3, FileLengths, DownSchemas
  <2>4. CASE r = 3
    BY <2>4, FileLengths, DownSchemas
  <2> QED
    BY <2>1, <2>2, <2>3, <2>4, FourRevisions
<1>2. CASE r = 1
  <2>1. k = 0 /\ j \in {0, 1} /\ Down[r][k + 1] = Effect("drop", "table", 0)
    BY <1>2, DownStatements
  <2>2. Possible(Down[r][k + 1], db)
    BY <2>1, PossibleIs
  <2>3. Carried(Down[r][k + 1], db) = [table |-> 0, norm |-> db.norm, stats |-> db.stats]
    BY <1>1, <2>1, CarriedFields
  <2> QED
    BY <1>2, <2>1, <2>2, <2>3, DownSchemas
<1>3. CASE r = 2 /\ k = 0
  <2>1. j \in {0, 1, 2} /\ Down[r][k + 1] = Effect("drop", "stats", 0)
    BY <1>3, DownStatements
  <2>2. Possible(Down[r][k + 1], db)
    BY <2>1, PossibleIs
  <2>3. Carried(Down[r][k + 1], db) = [table |-> db.table, norm |-> db.norm, stats |-> 0]
    BY <1>1, <2>1, CarriedFields
  <2> QED
    BY <1>3, <2>1, <2>2, <2>3, DownSchemas
<1>4. CASE r = 2 /\ k = 1
  <2>1. j \in {1, 2} /\ Down[r][k + 1] = Effect("drop", "norm", 0)
    BY <1>4, DownStatements
  <2>2. Possible(Down[r][k + 1], db)
    BY <2>1, PossibleIs
  <2>3. Carried(Down[r][k + 1], db) = [table |-> db.table, norm |-> 0, stats |-> db.stats]
    BY <1>1, <2>1, CarriedFields
  <2> QED
    BY <1>4, <2>1, <2>2, <2>3, DownSchemas
<1>5. CASE r = 3 /\ k = 0
  <2>1. j \in {0, 1, 2} /\ Down[r][k + 1] = Effect("replace", "norm", 2)
    BY <1>5, DownStatements
  <2>2. db.table = 1
    BY <1>5, <2>1, DownSchemas
  <2>3. Readable("norm", 2, db)
    BY <2>2 DEF Readable
  <2>4. Possible(Down[r][k + 1], db)
    BY <2>1, <2>3, PossibleIs
  <2>5. Carried(Down[r][k + 1], db) = [table |-> db.table, norm |-> 2, stats |-> db.stats]
    BY <1>1, <2>1, CarriedFields
  <2> QED
    BY <1>5, <2>1, <2>4, <2>5, DownSchemas
<1>6. CASE r = 3 /\ k = 1
  <2>1. j \in {1, 2} /\ Down[r][k + 1] = Effect("replace", "stats", 2)
    BY <1>6, DownStatements
  <2>2. db.norm = 2
    BY <1>6, <2>1, DownSchemas
  <2>3. Readable("stats", 2, db)
    BY <2>2, ReadableViews
  <2>4. Possible(Down[r][k + 1], db)
    BY <2>1, <2>3, PossibleIs
  <2>5. Carried(Down[r][k + 1], db) = [table |-> db.table, norm |-> db.norm, stats |-> 2]
    BY <1>1, <2>1, CarriedFields
  <2> QED
    BY <1>6, <2>1, <2>4, <2>5, DownSchemas
<1>7. r = 1 \/ (r = 2 /\ k = 0) \/ (r = 2 /\ k = 1) \/ (r = 3 /\ k = 0) \/ (r = 3 /\ k = 1)
  <2>0. r # 0
    BY FileLengths
  <2>1. r = 1 \/ r = 2 \/ r = 3
    BY <2>0, FourRevisions
  <2>2. k = 0 \/ k = 1
    <3>1. CASE r = 1
      <4>1. k < 1
        BY <3>1, FileLengths
      <4> QED
        BY <4>1
    <3>2. CASE r = 2
      <4>1. k < 2
        BY <3>2, FileLengths
      <4> QED
        BY <4>1
    <3>3. CASE r = 3
      <4>1. k < 2
        BY <3>3, FileLengths
      <4> QED
        BY <4>1
    <3> QED
      BY <2>1, <3>1, <3>2, <3>3
  <2> QED
    BY <2>1, <2>2
<1>8. Goal
  BY <1>2, <1>3, <1>4, <1>5, <1>6, <1>7
<1> QED
  BY <1>8

\* The file r is one that c carries out.
Within(c, r) == IF c.kind = "upgrade" THEN r <= c.target ELSE c.target < r

\* c is at statement k + 1 of the file r, or will be: the recorded revision is where
\* the file starts, and j of its statements have been carried out, those that c
\* did not carry out itself before it was cut off.
CutAt(c, r, k) ==
  /\ \A q \in newest : SchemaAt(q) = SchemaAt(Source(c.kind, r))
  /\ \E j \in k..Len(Steps(c.kind, r)) :
       /\ schema = SchemaAfter(c.kind, r, j)
       /\ j > 0 => Within(c, r)
       /\ pending = NoCommand => j = k
       /\ c.kind = "upgrade" /\ j > k => r \in torn \cup {3}

\* The file m is in; the first file of an upgrade is empty.
Position(m) == IF IsUpgrade(m) /\ at[m] = 0 THEN 1 ELSE at[m]

UnderWay(m) ==
  /\ pending \in {NoCommand, command[m]}
  /\ done[m] > 0 => ~still
  /\ CutAt(command[m], Position(m), done[m])

\* What is there between two commands.
Settled ==
  IF pending = NoCommand
    THEN schema = SchemaAt(reached) /\ \A q \in newest : SchemaAt(q) = schema
    ELSE \E r \in Revisions : (pending.kind = "upgrade" => r # 0) /\ CutAt(pending, r, 0)

Orderly ==
  /\ \A m, n \in Migrators : Running(m) /\ Running(n) => m = n
  /\ \A m \in Migrators : Running(m) => UnderWay(m)
  /\ (\A m \in Migrators : ~Running(m)) => Settled

KInv == TypeOK /\ OnTheWay /\ (disciplined => Orderly)

\* A file leads from its source to the next revision.
LEMMA FileEnds ==
  ASSUME NEW r \in Revisions
  PROVE  /\ \A kind : SchemaAfter(kind, r, 0) = SchemaAt(Source(kind, r))
         /\ r # 0 => SchemaAfter("upgrade", r, Len(Up[r])) = SchemaAt(r)
         /\ SchemaAfter("downgrade", r, Len(Down[r])) = SchemaAt(r - 1)
<1>1. \A kind : SchemaAfter(kind, r, 0) = SchemaAt(Source(kind, r))
  BY DEF SchemaAfter
<1>2. r # 0 => SchemaAfter("upgrade", r, Len(Up[r])) = SchemaAt(r)
  BY FourRevisions, FileLengths, UpSchemas, SchemaValues
<1>3. SchemaAfter("downgrade", r, Len(Down[r])) = SchemaAt(r - 1)
  <2>1. CASE r = 0
    BY <2>1, FileLengths, DownSchemas, SchemaValues
  <2>2. CASE r = 1
    BY <2>2, FileLengths, DownSchemas, SchemaValues
  <2>3. CASE r = 2
    BY <2>3, FileLengths, DownSchemas, SchemaValues
  <2>4. CASE r = 3
    BY <2>4, FileLengths, DownSchemas, SchemaValues
  <2> QED
    BY <2>1, <2>2, <2>3, <2>4, FourRevisions
<1> QED
  BY <1>1, <1>2, <1>3

\* A command is an upgrade or a downgrade.
LEMMA Kinds ==
  ASSUME NEW c \in Command
  PROVE  /\ c.kind \in {"upgrade", "downgrade"} /\ c # NoCommand
         /\ c.target \in {-1, 0, 1, 2, 3}
         /\ c.kind = "upgrade" => c.target \in {0, 1, 2, 3}
  BY MigrationsAssumption, FourRevisions DEF Command, Base

\* Before a command, the recorded revision tells which file it is that was cut off.
LEMMA CutFile ==
  ASSUME NEW c \in Command, NEW r \in Revisions, c.kind = "upgrade" => r # 0,
         NEW current \in {-1, 0, 1, 2, 3}, SchemaAt(current) = SchemaAt(Source(c.kind, r))
  PROVE  IF c.kind = "upgrade" THEN r = IF current + 1 = 0 THEN 1 ELSE current + 1
                               ELSE r = current \/ (current = -1 /\ r = 0)
<1>1. CASE c.kind = "upgrade"
  <2>1. Source(c.kind, r) = r - 1 /\ r - 1 \in {0, 1, 2, 3}
    BY <1>1, FourRevisions DEF Source
  <2>2. current = r - 1 \/ (current = -1 /\ r - 1 = 0)
    BY <2>1, SchemasDiffer
  <2> QED
    BY <1>1, <2>1, <2>2, FourRevisions
<1>2. CASE c.kind # "upgrade"
  <2>1. Source(c.kind, r) = r
    BY <1>2 DEF Source
  <2> QED
    BY <1>2, <2>1, SchemasDiffer, FourRevisions
<1> QED
  BY <1>1, <1>2

\* The file a command begins with at a recorded revision.
FirstFile(c, current) ==
  IF c.kind = "upgrade" THEN (IF current + 1 = 0 THEN 1 ELSE current + 1) ELSE current

\* A command that is to begin finds what the last one left.
LEMMA SettledCut ==
  ASSUME TypeOK, Settled, NEW c \in Command, pending \in {NoCommand, c},
         NEW current \in newest,
         IF c.kind = "upgrade" THEN current <= c.target ELSE c.target <= current
  PROVE  /\ current = c.target => \A q \in newest : SchemaAt(q) = schema
         /\ current # c.target => CutAt(c, FirstFile(c, current), 0)
<1> USE FourRevisions
<1>1. newest \subseteq {-1, 0, 1, 2, 3} /\ current \in {-1, 0, 1, 2, 3}
  BY DEF TypeOK, Base
<1>2. /\ c.kind \in {"upgrade", "downgrade"} /\ c # NoCommand
      /\ c.target \in {-1, 0, 1, 2, 3}
      /\ c.kind = "upgrade" => c.target \in {0, 1, 2, 3}
  BY Kinds
<1>3. CASE pending = NoCommand
  <2>1. schema = SchemaAt(current) /\ \A q \in newest : SchemaAt(q) = schema
    BY <1>3 DEF Settled
  <2>2. ASSUME current # c.target
        PROVE  CutAt(c, FirstFile(c, current), 0)
    <3> DEFINE f == FirstFile(c, current)
    <3>1. f \in Revisions /\ SchemaAt(Source(c.kind, f)) = SchemaAt(current)
      <4>1. CASE c.kind = "upgrade"
        BY <1>1, <1>2, <2>2, <4>1, SchemaValues DEF FirstFile, Source
      <4>2. CASE c.kind # "upgrade"
        BY <1>1, <1>2, <2>2, <4>2 DEF FirstFile, Source
      <4> QED
        BY <4>1, <4>2
    <3> HIDE DEF f
    <3>2. schema = SchemaAfter(c.kind, f, 0)
      BY <2>1, <3>1, FileEnds
    <3>3. 0 \in 0..Len(Steps(c.kind, f))
      <4>1. Len(Steps(c.kind, f)) \in 0..2
        BY <3>1, FileShape DEF Steps
      <4> QED
        BY <4>1
    <3>4. CutAt(c, f, 0)
      BY <1>3, <2>1, <3>1, <3>2, <3>3 DEF CutAt
    <3> QED
      BY <3>4 DEF f
  <2> QED
    BY <2>1, <2>2
<1>4. CASE pending = c
  <2>1. PICK r \in Revisions : (c.kind = "upgrade" => r # 0) /\ CutAt(c, r, 0)
    BY <1>2, <1>4 DEF Settled
  <2>2. SchemaAt(current) = SchemaAt(Source(c.kind, r))
    BY <2>1 DEF CutAt
  <2>3. IF c.kind = "upgrade" THEN r = IF current + 1 = 0 THEN 1 ELSE current + 1
                              ELSE r = current \/ (current = -1 /\ r = 0)
    BY <1>1, <2>1, <2>2, CutFile
  <2>4. ASSUME current = c.target
        PROVE  \A q \in newest : SchemaAt(q) = schema
    <3>1. PICK j \in 0..Len(Steps(c.kind, r)) :
            schema = SchemaAfter(c.kind, r, j) /\ (j > 0 => Within(c, r))
      BY <2>1 DEF CutAt
    <3>2. j = 0
      <4>1. CASE c.kind = "upgrade"
        BY <1>1, <1>2, <2>3, <2>4, <3>1, <4>1 DEF Within
      <4>2. CASE c.kind # "upgrade" /\ r = current
        BY <1>1, <1>2, <2>4, <3>1, <4>2 DEF Within
      <4>3. CASE c.kind # "upgrade" /\ r = 0
        <5>1. Len(Steps(c.kind, r)) = 0
          BY <4>3, FileLengths DEF Steps
        <5> QED
          BY <3>1, <5>1
      <4> QED
        BY <2>3, <4>1, <4>2, <4>3
    <3>3. schema = SchemaAt(Source(c.kind, r))
      BY <3>1, <3>2, FileEnds
    <3> QED
      BY <2>1, <3>3 DEF CutAt
  <2>5. ASSUME current # c.target
        PROVE  CutAt(c, FirstFile(c, current), 0)
    <3>1. FirstFile(c, current) = r
      <4>1. CASE c.kind = "upgrade"
        BY <2>3, <4>1 DEF FirstFile
      <4>2. CASE c.kind # "upgrade"
        BY <1>1, <1>2, <2>3, <2>5, <4>2 DEF FirstFile
      <4> QED
        BY <4>1, <4>2
    <3> QED
      BY <2>1, <3>1
  <2> QED
    BY <2>4, <2>5
<1> QED
  BY <1>3, <1>4

\* What is left of a file depends on the schema, the record and the discipline's
\* bookkeeping.
LEMMA SameCut ==
  ASSUME UNCHANGED <<schema, newest, torn>>, pending' = pending
  PROVE  \A c, r, k : CutAt(c, r, k) => CutAt(c, r, k)'
  BY DEF CutAt

\* The discipline is kept by the command that begins.
LEMMA BeginOrderly ==
  ASSUME KInv, NEW m \in Migrators, Begin(m), disciplined'
  PROVE  Orderly'
<1> USE FourRevisions DEF Base
<1>1. PICK c \in Commands, head \in Heads, current \in newest :
       /\ Accepts(c, head, current)
       /\ IF current = c.target
            THEN /\ Ended(Disciplined(c), NoCommand, c.target)
                 /\ UNCHANGED <<command, at>>
            ELSE /\ Ended(Disciplined(c), pending, reached)
                 /\ command' = [command EXCEPT ![m] = c]
                 /\ at' = [at EXCEPT ![m] = IF c.kind = "upgrade" THEN current + 1 ELSE current]
  BY DEF Begin
<1>2. UNCHANGED <<schema, newest, still, done, torn>> /\ done[m] = 0
  BY DEF Begin, KInv, OnTheWay
<1>3. /\ c \in Command /\ TypeOK /\ current \in {-1, 0, 1, 2, 3}
      /\ c.kind \in {"upgrade", "downgrade"} /\ c # NoCommand
  BY MigrationsAssumption, Kinds DEF KInv, TypeOK
<1>4. Disciplined(c)
  BY <1>1 DEF Ended
<1>5. /\ pending \in {NoCommand, c}
      /\ \A n \in Migrators : ~Running(n)
      /\ Settled
  BY <1>4 DEF Disciplined, KInv, Orderly
<1>6. /\ current = c.target => \A q \in newest : SchemaAt(q) = schema
      /\ current # c.target => CutAt(c, FirstFile(c, current), 0)
  BY <1>1, <1>3, <1>5, SettledCut DEF Accepts
<1>7. CASE current = c.target
  <2>1. pending' = NoCommand /\ reached' = c.target /\ UNCHANGED <<command, at>>
    BY <1>1, <1>4, <1>7 DEF Ended
  <2>2. \A n \in Migrators : ~Running(n)'
    BY <1>5, <2>1 DEF Running
  <2>3. schema' = SchemaAt(reached') /\ \A q \in newest' : SchemaAt(q) = schema'
    BY <1>2, <1>6, <1>7, <2>1
  <2> QED
    BY <2>1, <2>2, <2>3 DEF Orderly, Settled
<1>8. CASE current # c.target
  <2>1. /\ pending' = pending
        /\ command' = [command EXCEPT ![m] = c]
        /\ at' = [at EXCEPT ![m] = IF c.kind = "upgrade" THEN current + 1 ELSE current]
    BY <1>1, <1>4, <1>8 DEF Ended
  <2>2. /\ command'[m] = c
        /\ at'[m] = IF c.kind = "upgrade" THEN current + 1 ELSE current
        /\ \A n \in Migrators \ {m} : command'[n] = command[n]
    BY <1>3, <2>1 DEF TypeOK
  <2>3. Running(m)' /\ \A n \in Migrators \ {m} : ~Running(n)'
    BY <1>3, <1>5, <2>2 DEF Running
  <2>4. Position(m)' = FirstFile(c, current)
    BY <1>3, <2>2 DEF Position, IsUpgrade, FirstFile
  <2>5. CutAt(c, FirstFile(c, current), 0)'
    BY <1>2, <1>6, <1>8, <2>1, SameCut
  <2>6. UnderWay(m)'
    BY <1>2, <1>5, <2>1, <2>2, <2>4, <2>5 DEF UnderWay
  <2> QED
    BY <2>3, <2>6 DEF Orderly
<1> QED
  BY <1>7, <1>8

\* A command that runs, and what is known of its file.
LEMMA RunningCut ==
  ASSUME KInv, disciplined, NEW m \in Migrators, Running(m)
  PROVE  /\ command[m] \in Command /\ at[m] \in Revisions /\ done[m] \in 0..2
         /\ command[m].kind = IF IsUpgrade(m) THEN "upgrade" ELSE "downgrade"
         /\ File(m) = Steps(command[m].kind, at[m])
         /\ Within(command[m], at[m])
         /\ UnderWay(m)
         /\ \A n \in Migrators \ {m} : ~Running(n)
<1>1. TypeOK /\ command[m] \in Command
  BY RunningFile DEF KInv
<1>2. command[m].kind = IF IsUpgrade(m) THEN "upgrade" ELSE "downgrade"
  BY <1>1, Kinds DEF IsUpgrade
<1>3. UnderWay(m) /\ \A n \in Migrators \ {m} : ~Running(n)
  BY DEF KInv, Orderly
<1>4. File(m) = Steps(command[m].kind, at[m])
  BY <1>2 DEF File, Steps
<1>5. Within(command[m], at[m])
  BY DEF KInv, OnTheWay, Within, IsUpgrade
<1> QED
  BY <1>1, <1>2, <1>3, <1>4, <1>5, RunningFile

\* A file with statements is not the empty first one of an upgrade.
LEMMA FileWithStatements ==
  ASSUME KInv, disciplined, NEW m \in Migrators, Running(m), 0 < Len(File(m))
  PROVE  Position(m) = at[m] /\ at[m] # 0
<1>1. File(m) = Steps(command[m].kind, at[m])
  BY RunningCut
<1>2. at[m] # 0
  BY <1>1, FileLengths DEF Steps
<1> QED
  BY <1>2 DEF Position

\* A statement leaves the schema on the way through the file.
LEMMA ApplyOrderly ==
  ASSUME KInv, NEW m \in Migrators, Apply(m), disciplined'
  PROVE  Orderly'
<1> USE FourRevisions
<1>0. PICK c \in Command, r \in Revisions, k \in 0..2 :
        c = command[m] /\ r = at[m] /\ k = done[m]
  BY RunningFile DEF Apply, KInv
<1> DEFINE file == Steps(c.kind, r)
<1>1. /\ Running(m) /\ k < Len(File(m)) /\ done' = [done EXCEPT ![m] = k + 1]
      /\ Possible(File(m)[k + 1], schema) /\ schema' = Carried(File(m)[k + 1], schema)
      /\ UNCHANGED <<newest, command, at, pending, torn>> /\ still' = FALSE
      /\ disciplined
  BY <1>0 DEF Apply, history
<1>2. /\ TypeOK /\ c \in Command /\ r \in Revisions /\ k \in 0..2
      /\ c.kind = IF IsUpgrade(m) THEN "upgrade" ELSE "downgrade"
      /\ File(m) = file /\ Within(c, r) /\ UnderWay(m)
      /\ \A n \in Migrators \ {m} : ~Running(n)
  BY <1>0, <1>1, RunningCut DEF KInv
<1>3. Len(file) \in 0..2 /\ k + 1 \in 0..Len(file)
  <2>1. Len(file) \in 0..2
    BY <1>2, FileShape DEF Steps
  <2> QED
    BY <1>1, <1>2, <2>1
<1>4. Position(m) = r /\ r # 0
  <2>1. 0 < Len(File(m))
    BY <1>1, <1>2, <1>3
  <2> QED
    BY <1>0, <1>1, <2>1, FileWithStatements
<1>5. PICK j \in k..Len(file) :
        /\ schema = SchemaAfter(c.kind, r, j)
        /\ pending = NoCommand => j = k
        /\ c.kind = "upgrade" /\ j > k => r \in torn \cup {3}
  BY <1>0, <1>2, <1>4 DEF UnderWay, CutAt
<1> DEFINE i == IF j > k THEN j ELSE k + 1
<1>6. j \in 0..2 /\ k <= j /\ j <= Len(file) /\ i \in k + 1..Len(file) /\ i > 0
  <2> DEFINE n == Len(file)
  <2>1. n \in 0..2 /\ k + 1 \in 0..n
    BY <1>3
  <2>2. j \in k..n
    OBVIOUS
  <2> HIDE DEF n, file
  <2>3. n \in Int /\ k + 1 <= n /\ n <= 2 /\ j \in k..n
    BY <2>1, <2>2
  <2>4. j \in 0..2 /\ k <= j /\ j <= n /\ i \in k + 1..n /\ i > 0
    BY <2>3
  <2> QED
    BY <2>4 DEF n
<1>7. schema' = SchemaAfter(c.kind, r, i)
  <2>1. CASE IsUpgrade(m)
    <3>1. c.kind = "upgrade" /\ file = Up[r]
      BY <1>2, <2>1 DEF Steps
    <3>2. /\ Possible(Up[r][k + 1], SchemaAfter("upgrade", r, j)) <=> r = 3 \/ j = k
          /\ r = 3 \/ j = k =>
               Carried(Up[r][k + 1], SchemaAfter("upgrade", r, j)) = SchemaAfter("upgrade", r, i)
      <4>1. r \in {1, 2, 3} /\ k < Len(Up[r]) /\ j <= Len(Up[r])
        BY <1>1, <1>2, <1>4, <1>6, <3>1
      <4> QED
        BY <1>2, <1>6, <4>1, UpRepeated
    <3> QED
      BY <1>1, <1>2, <1>5, <3>1, <3>2
  <2>2. CASE ~IsUpgrade(m)
    <3>1. c.kind = "downgrade" /\ file = Down[r]
      BY <1>2, <2>2 DEF Steps
    <3>2. Carried(Down[r][k + 1], SchemaAfter("downgrade", r, j)) = SchemaAfter("downgrade", r, i)
      <4>1. r \in Revisions /\ k < Len(Down[r]) /\ j <= Len(Down[r])
        BY <1>1, <1>2, <1>6, <3>1
      <4> QED
        BY <1>2, <1>6, <4>1, DownRepeated
    <3> QED
      BY <1>1, <1>2, <1>5, <3>1, <3>2
  <2> QED
    BY <2>1, <2>2
<1>8. /\ pending = NoCommand => i = k + 1
      /\ c.kind = "upgrade" /\ i > k + 1 => r \in torn \cup {3}
  BY <1>2, <1>5
<1>9. \A q \in newest : SchemaAt(q) = SchemaAt(Source(c.kind, r))
  BY <1>0, <1>2, <1>4 DEF UnderWay, CutAt
<1>10. /\ command'[m] = c /\ at'[m] = r /\ done'[m] = k + 1
       /\ Running(m)' /\ \A n \in Migrators \ {m} : ~Running(n)'
       /\ Position(m)' = r
  BY <1>0, <1>1, <1>2, <1>4 DEF TypeOK, Running, Position, IsUpgrade
<1>11. CutAt(c, r, k + 1)'
  <2> HIDE DEF i
  <2> QED
    BY <1>1, <1>2, <1>6, <1>7, <1>8, <1>9 DEF CutAt
<1>12. UnderWay(m)'
  BY <1>0, <1>1, <1>2, <1>10, <1>11 DEF UnderWay
<1> QED
  BY <1>10, <1>12 DEF Orderly

\* Where a file is done, the schema is that of the revision it leads to, and so is
\* what is recorded.  The first file of an upgrade is empty: what was cut off
\* behind it is still there.
LEMMA RecordOrderly ==
  ASSUME KInv, NEW m \in Migrators, Record(m), disciplined'
  PROVE  Orderly'
<1> USE FourRevisions DEF Base
<1>0. PICK c \in Command, r \in Revisions, k \in 0..2 :
        c = command[m] /\ r = at[m] /\ k = done[m]
  BY RunningFile DEF Record, KInv
<1> DEFINE file == Steps(c.kind, r)
           up == c.kind = "upgrade"
           next == IF up THEN r ELSE r - 1
<1>1. /\ Running(m) /\ k = Len(File(m)) /\ disciplined
      /\ SetRevision(NextRevision(m)) /\ Advance(m) /\ UNCHANGED <<schema, torn>>
  BY <1>0 DEF Record, Advance, Ended
<1>2. /\ TypeOK /\ OnTheWay /\ TypeOK'
      /\ up <=> IsUpgrade(m)
      /\ c.kind = IF up THEN "upgrade" ELSE "downgrade"
      /\ File(m) = file /\ Within(c, r) /\ UnderWay(m)
      /\ \A n \in Migrators \ {m} : ~Running(n)
  <2>1. [Next]_vars
    BY DEF Next
  <2> QED
    BY <1>0, <1>1, <2>1, RunningCut, TypeStep DEF KInv
<1>3. NextRevision(m) = next
  BY <1>0, <1>2 DEF NextRevision
<1>4. /\ next = c.target =>
           /\ command' = [command EXCEPT ![m] = NoCommand]
           /\ pending' = NoCommand /\ reached' = c.target
      /\ next # c.target =>
           /\ at' = [at EXCEPT ![m] = IF up THEN r + 1 ELSE r - 1]
           /\ done' = [done EXCEPT ![m] = 0]
           /\ UNCHANGED <<command, pending>>
  <2>1. CASE next = c.target
    BY <1>0, <1>1, <1>3, <2>1 DEF Advance, Over, Ended
  <2>2. CASE next # c.target
    BY <1>0, <1>1, <1>2, <1>3, <2>2 DEF Advance
  <2> QED
    BY <2>1, <2>2
<1>5. newest' = {next} \/ (still /\ newest' = newest \cup {next})
  BY <1>1, <1>3 DEF SetRevision
<1>6. CutAt(c, Position(m), k) /\ (k > 0 => ~still) /\ pending \in {NoCommand, c}
  BY <1>0, <1>2 DEF UnderWay
\* A command that has reached its target leaves its schema.
<1>7. ASSUME next = c.target, schema = SchemaAt(next),
             \A q \in newest' : SchemaAt(q) = SchemaAt(next)
      PROVE  Orderly'
  <2>1. \A n \in Migrators : ~Running(n)'
    BY <1>2, <1>4, <1>7 DEF Running, TypeOK
  <2>2. Settled'
    BY <1>1, <1>4, <1>7 DEF Settled
  <2> QED
    BY <2>1, <2>2 DEF Orderly
\* One that goes on is at the start of its next file.
<1>8. ASSUME next # c.target, NEW f \in Revisions,
             f = IF up THEN r + 1 ELSE r - 1, CutAt(c, f, 0)'
      PROVE  Orderly'
  <2>1. /\ command'[m] = c /\ at'[m] = f /\ done'[m] = 0 /\ pending' = pending
        /\ \A n \in Migrators \ {m} : command'[n] = command[n]
    BY <1>0, <1>2, <1>4, <1>8 DEF TypeOK
  <2>2. Running(m)' /\ \A n \in Migrators \ {m} : ~Running(n)'
    BY <1>0, <1>1, <1>2, <2>1 DEF Running
  <2>3. Position(m)' = f
    BY <1>0, <1>8, <2>1 DEF Position, IsUpgrade
  <2>4. UnderWay(m)'
    BY <1>6, <1>8, <2>1, <2>3 DEF UnderWay
  <2> QED
    BY <2>2, <2>4 DEF Orderly
<1>9. next # c.target => (IF up THEN r + 1 ELSE r - 1) \in Revisions
  <2> SUFFICES ASSUME next # c.target
               PROVE  (IF up THEN r + 1 ELSE r - 1) \in Revisions
    OBVIOUS
  <2>1. Running(m)' /\ at'[m] = IF up THEN r + 1 ELSE r - 1
    BY <1>0, <1>1, <1>2, <1>4 DEF Running, TypeOK
  <2> QED
    BY <1>2, <2>1 DEF TypeOK
<1>10. CASE up /\ r = 0
  <2>1. Position(m) = 1 /\ k = 0 /\ next = 0
    BY <1>0, <1>1, <1>2, <1>10, FileLengths DEF Position, Steps
  <2>2. \A q \in newest' : SchemaAt(q) = SchemaAt(0)
    <3>1. \A q \in newest : SchemaAt(q) = SchemaAt(0)
      BY <1>6, <1>10, <2>1 DEF CutAt, Source
    <3> QED
      BY <1>5, <2>1, <3>1
  <2>3. CASE next = c.target
    <3>1. PICK j \in 0..Len(Steps(c.kind, 1)) :
            schema = SchemaAfter(c.kind, 1, j) /\ (j > 0 => Within(c, 1))
      BY <1>6, <2>1 DEF CutAt
    <3>2. j = 0
      BY <1>10, <2>1, <2>3, <3>1 DEF Within
    <3>3. schema = SchemaAt(0)
      BY <1>10, <3>1, <3>2, UpSchemas, SchemaValues
    <3> QED
      BY <1>7, <2>1, <2>2, <2>3, <3>3
  <2>4. CASE next # c.target
    <3>1. CutAt(c, 1, 0)'
      <4>1. CutAt(c, 1, 0)
        BY <1>6, <2>1
      <4>2. \A q \in newest' : SchemaAt(q) = SchemaAt(Source(c.kind, 1))
        BY <1>10, <2>2 DEF Source
      <4> QED
        BY <1>1, <1>4, <2>4, <4>1, <4>2 DEF CutAt
    <3> QED
      BY <1>8, <1>10, <2>4, <3>1
  <2> QED
    BY <2>3, <2>4
<1>11. CASE ~(up /\ r = 0)
  <2>1. Position(m) = r /\ k = Len(file)
    BY <1>0, <1>1, <1>2, <1>11 DEF Position
  <2>2. schema = SchemaAt(next)
    <3>1. PICK j \in k..Len(file) : schema = SchemaAfter(c.kind, r, j)
      BY <1>6, <2>1 DEF CutAt
    <3>2. j = Len(file)
      BY <2>1, <3>1
    <3>3. CASE up
      BY <1>11, <3>1, <3>2, <3>3, FileEnds DEF Steps
    <3>4. CASE ~up
      BY <1>2, <3>1, <3>2, <3>4, FileEnds DEF Steps
    <3> QED
      BY <3>3, <3>4
  <2>3. \A q \in newest' : SchemaAt(q) = SchemaAt(next)
    <3>1. CASE r = 0
      <4>1. next = -1 /\ Source(c.kind, r) = 0
        BY <1>11, <3>1 DEF Source
      <4>2. \A q \in newest : SchemaAt(q) = SchemaAt(0)
        BY <1>6, <2>1, <4>1 DEF CutAt
      <4> QED
        BY <1>5, <4>1, <4>2, SchemaValues
    <3>2. CASE r # 0
      <4>1. k \in {1, 2}
        BY <2>1, <3>2, FileLengths DEF Steps
      <4> QED
        BY <1>5, <1>6, <4>1
    <3> QED
      BY <3>1, <3>2
  <2>4. CASE next = c.target
    BY <1>7, <2>2, <2>3, <2>4
  <2>5. CASE next # c.target
    <3> DEFINE f == IF up THEN r + 1 ELSE r - 1
    <3>1. f \in Revisions /\ Source(c.kind, f) = next
      BY <1>9, <2>5 DEF Source
    <3>2. schema' = SchemaAfter(c.kind, f, 0)
      BY <1>1, <2>2, <3>1, FileEnds
    <3>3. Len(Steps(c.kind, f)) \in 0..2
      BY <3>1, FileShape DEF Steps
    <3> HIDE DEF f
    <3>4. 0 \in 0..Len(Steps(c.kind, f))
      BY <3>3
    <3>5. CutAt(c, f, 0)'
      BY <2>3, <3>1, <3>2, <3>4 DEF CutAt
    <3> QED
      BY <1>8, <2>5, <3>1, <3>5 DEF f
  <2> QED
    BY <2>4, <2>5
<1> QED
  BY <1>10, <1>11

\* A command that is cut off leaves what it was at, to be repeated.
LEMMA CutOffOrderly ==
  ASSUME KInv, NEW m \in Migrators, Reject(m) \/ Crash(m), disciplined'
  PROVE  Orderly'
<1> USE FourRevisions DEF Base
<1>0. PICK c \in Command, r \in Revisions, k \in 0..2 :
        c = command[m] /\ r = at[m] /\ k = done[m]
  BY RunningFile DEF Reject, Rejected, Crash, KInv
<1> DEFINE up == c.kind = "upgrade"
<1>1. /\ Running(m) /\ Over(m) /\ disciplined /\ pending' = c
      /\ UNCHANGED <<schema, newest>>
      /\ torn \subseteq torn'
  BY <1>0 DEF Reject, Rejected, Crash, Ended
<1>2. /\ TypeOK
      /\ up <=> IsUpgrade(m)
      /\ File(m) = Steps(c.kind, r) /\ UnderWay(m)
      /\ \A n \in Migrators \ {m} : ~Running(n)
      /\ c # NoCommand
      /\ k <= Len(File(m)) /\ Len(File(m)) \in 0..2
  BY <1>0, <1>1, RunningCut, RunningFile, Kinds DEF KInv
<1>3. \A n \in Migrators : ~Running(n)'
  BY <1>1, <1>2, OverType DEF Running
<1>4. PICK p \in Revisions : p = Position(m) /\ (up => p # 0)
  BY <1>0, <1>2 DEF Position
<1>5. CutAt(c, p, k)
  BY <1>0, <1>2, <1>4 DEF UnderWay
<1>6. PICK j \in k..Len(Steps(c.kind, p)) :
        /\ schema = SchemaAfter(c.kind, p, j)
        /\ j > 0 => Within(c, p)
        /\ up /\ j > k => p \in torn \cup {3}
  BY <1>5 DEF CutAt
<1>7. Len(Steps(c.kind, p)) \in 0..2
  BY FileShape DEF Steps
<1>8. j \in 0..Len(Steps(c.kind, p)) /\ j \in 0..2 /\ k <= j
  <2> DEFINE n == Len(Steps(c.kind, p))
  <2>1. n \in 0..2 /\ j \in k..n
    BY <1>7
  <2> HIDE DEF n
  <2>2. j \in 0..n /\ j \in 0..2 /\ k <= j
    BY <2>1
  <2> QED
    BY <2>2 DEF n
<1>9. ASSUME up, j > 0
      PROVE  p \in torn' \cup {3}
  <2>1. CASE j > k
    BY <1>1, <1>6, <1>9, <2>1
  <2>2. CASE j = k
    <3>1. 0 < Len(File(m))
      BY <1>2, <1>9, <2>2
    <3>2. p = r /\ r # 0
      BY <1>0, <1>1, <1>4, <3>1, FileWithStatements
    <3>3. CASE Crash(m)
      BY <1>0, <1>1, <1>2, <1>9, <2>2, <3>2, <3>3 DEF Crash
    <3>4. CASE Reject(m)
      <4>1. Steps(c.kind, r) = Up[r] /\ c.kind = "upgrade"
        BY <1>9 DEF Steps
      <4>2. k < Len(Up[r]) /\ ~Possible(Up[r][k + 1], schema)
        BY <1>0, <1>2, <3>4, <4>1 DEF Reject, Rejected
      <4>3. r \in {1, 2, 3} /\ j <= Len(Up[r])
        BY <1>2, <2>2, <3>2, <4>1
      <4>4. Possible(Up[r][k + 1], SchemaAfter("upgrade", r, j)) <=> r = 3 \/ j = k
        BY <1>8, <4>2, <4>3, UpRepeated
      <4> QED
        BY <1>6, <2>2, <3>2, <4>1, <4>2, <4>4
    <3> QED
      BY <3>3, <3>4
  <2> QED
    BY <1>8, <2>1, <2>2
<1>10. CutAt(c, p, 0)'
  <2>1. \A q \in newest' : SchemaAt(q) = SchemaAt(Source(c.kind, p))
    BY <1>1, <1>5 DEF CutAt
  <2> QED
    BY <1>1, <1>2, <1>6, <1>8, <1>9, <2>1 DEF CutAt
<1>11. Settled'
  BY <1>1, <1>2, <1>4, <1>10 DEF Settled
<1> QED
  BY <1>3, <1>11 DEF Orderly

\* Initially nothing runs and nothing was cut off.
LEMMA OrderlyInit == Init => KInv
<1> SUFFICES ASSUME Init
             PROVE  KInv
  OBVIOUS
<1>1. TypeOK /\ OnTheWay
  BY InvInit DEF IInv
<1>2. \A m \in Migrators : ~Running(m)
  BY DEF Init, Running
<1>3. Settled
  BY SchemaValues DEF Init, Settled, Nothing, Base
<1> QED
  BY <1>1, <1>2, <1>3 DEF KInv, Orderly

\* Every step keeps the order as long as the discipline is kept.
LEMMA OrderlyStep == KInv /\ [Next]_vars => KInv'
<1> SUFFICES ASSUME KInv, [Next]_vars
             PROVE  KInv'
  OBVIOUS
<1>1. TypeOK' /\ OnTheWay'
  BY TypeStep DEF KInv
<1>2. ASSUME disciplined'
      PROVE  Orderly'
  <2>1. ASSUME NEW m \in Migrators, Begin(m)
        PROVE  Orderly'
    BY <1>2, <2>1, BeginOrderly
  <2>2. ASSUME NEW m \in Migrators, Apply(m)
        PROVE  Orderly'
    BY <1>2, <2>2, ApplyOrderly
  <2>3. ASSUME NEW m \in Migrators, Record(m)
        PROVE  Orderly'
    BY <1>2, <2>3, RecordOrderly
  <2>4. ASSUME NEW m \in Migrators, Reject(m) \/ Crash(m)
        PROVE  Orderly'
    BY <1>2, <2>4, CutOffOrderly
  <2>5. ASSUME UNCHANGED vars
        PROVE  Orderly'
    BY <1>2, <2>5 DEF vars, history, KInv, Orderly, Settled, UnderWay, CutAt, Running, Position,
                      IsUpgrade
  <2> QED
    BY <2>1, <2>2, <2>3, <2>4, <2>5 DEF Next, Refuse
<1> QED
  BY <1>1, <1>2 DEF KInv

\* A disciplined command that succeeds has led exactly to its target, and whichever
\* of the newest rows the next one reads, it finds that schema.
THEOREM SuccessIsExact == Spec => []SuccessExact
<1>1. KInv => SuccessExact
  BY DEF KInv, Orderly, Settled, SuccessExact
<1> QED
  BY <1>1, OrderlyInit, OrderlyStep, PTL DEF Spec

\* A disciplined command fails only where an upgrade to revision 1 or 2 was cut off.
THEOREM OnlyTornIsRejected == Spec => []RejectedOnlyTorn
<1>1. KInv => RejectedOnlyTorn
  <2> SUFFICES ASSUME KInv, NEW m \in Migrators, disciplined, Rejected(m)
               PROVE  IsUpgrade(m) /\ at[m] \in torn \cap {1, 2}
    BY DEF RejectedOnlyTorn
  <2> DEFINE c == command[m]
             r == at[m]
             k == done[m]
  <2>1. /\ Running(m) /\ k < Len(File(m)) /\ ~Possible(File(m)[k + 1], schema)
        /\ TypeOK
    BY DEF Rejected, KInv
  <2>2. /\ r \in Revisions /\ k \in 0..2 /\ Len(File(m)) \in 0..2
        /\ c.kind = IF IsUpgrade(m) THEN "upgrade" ELSE "downgrade"
        /\ File(m) = Steps(c.kind, r) /\ UnderWay(m)
    BY <2>1, RunningCut, RunningFile
  <2>3. Position(m) = r /\ r # 0
    <3>1. 0 < Len(File(m))
      BY <2>1, <2>2
    <3> QED
      BY <2>1, <3>1, FileWithStatements
  <2>4. PICK j \in k..Len(File(m)) :
          /\ schema = SchemaAfter(c.kind, r, j)
          /\ c.kind = "upgrade" /\ j > k => r \in torn \cup {3}
    BY <2>2, <2>3 DEF UnderWay, CutAt
  <2>5. j \in 0..2 /\ k <= j /\ j <= Len(File(m))
    <3> DEFINE n == Len(File(m))
    <3>1. n \in 0..2 /\ k \in 0..2 /\ j \in k..n
      BY <2>2
    <3> HIDE DEF n, k
    <3>2. j \in 0..2 /\ k <= j /\ j <= n
      BY <3>1
    <3> QED
      BY <3>2 DEF n
  <2>6. CASE ~IsUpgrade(m)
    <3>1. c.kind = "downgrade" /\ File(m) = Down[r]
      BY <2>2, <2>6 DEF Steps
    <3>2. Possible(Down[r][k + 1], SchemaAfter("downgrade", r, j))
      BY <2>1, <2>2, <2>5, <3>1, DownRepeated
    <3> QED
      BY <2>1, <2>4, <3>1, <3>2
  <2>7. CASE IsUpgrade(m)
    <3>1. c.kind = "upgrade" /\ File(m) = Up[r] /\ r \in {1, 2, 3}
      BY <2>2, <2>3, <2>7, FourRevisions DEF Steps
    <3>2. Possible(Up[r][k + 1], SchemaAfter("upgrade", r, j)) <=> r = 3 \/ j = k
      BY <2>1, <2>2, <2>5, <3>1, UpRepeated
    <3>3. r # 3 /\ j # k
      BY <2>1, <2>4, <3>1, <3>2
    <3> QED
      BY <2>2, <2>4, <2>5, <2>7, <3>1, <3>3
  <2> QED
    BY <2>6, <2>7
<1> QED
  BY <1>1, OrderlyInit, OrderlyStep, PTL DEF Spec
=============================================================================
