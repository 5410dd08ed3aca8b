------------------------- MODULE ClickHouseMigrations -------------------------
(***************************************************************************)
(* The migrations of the ClickHouse schema.  A command walks from the recorded *)
(* revision to its target: for each revision it carries out the statements of   *)
(* up.sql or down.sql one after the other and then records where it is.         *)
(*                                                                         *)
(* ClickHouse has no transaction around any of this.  A process may die or      *)
(* lose its connection between any two steps; nothing keeps two processes       *)
(* apart; and the record is the row with the newest updated_at, a time in       *)
(* milliseconds that two rows may share.                                     *)
(***************************************************************************)
EXTENDS SqlScript

CONSTANTS
  Migrators,   \* processes of `cli.py click`
  Commands,    \* the commands in use, of the set Command
  Heads,       \* the last revisions of the images in use
  NoCommand,   \* no command
  Scripts      \* files to read, as sequences of tokens

Revisions == 0..3
Base == -1

Command == [kind : {"upgrade"}, target : Revisions]
             \cup [kind : {"downgrade"}, target : Revisions \cup {Base}]

ASSUME MigrationsAssumption ==
  /\ Commands \subseteq Command
  /\ Heads \subseteq Revisions
  /\ NoCommand \notin Command

-----------------------------------------------------------------------------
(* The files *)

\* The symbols of up.sql and down.sql.  A word stands for a statement or, inside a
\* literal, for its characters.
UpFile == [r \in Revisions |->
  CASE r = 0 -> <<>>
    [] r = 1 -> <<"create table", "'", "UTC", "'", ";">>
    [] r = 2 -> <<"create norm 2", "'", "20", "-", "50", "'", ";", "\n", "\n", "create stats 2", ";">>
    [] r = 3 -> <<"replace norm 3", "'", "50", "\\", "\\", "s", "*", "\\", "\\", "+", "'", ";", "\n",
                  "-", "-", "\n", "replace stats 3", ";">>]
DownFile == [r \in Revisions |->
  CASE r = 0 -> <<>>
    [] r = 1 -> <<"drop table", ";">>
    [] r = 2 -> <<"drop stats", ";", "\n", "drop norm", ";">>
    [] r = 3 -> <<"replace norm 2", "'", "20", "-", "50", "'", ";", "\n",
                  "-", "-", "\n", "replace stats 2", ";">>]

\* An object and the revision whose file made it; 0 is none.
Effect(op, object, version) == [op |-> op, object |-> object, version |-> version]

\* Mutants of Down: the views are dropped without IF EXISTS; the first revision
\* drops nothing.
DownStrictly == [r \in Revisions |->
  CASE r = 0 -> <<>>
    [] r = 1 -> <<Effect("drop", "table", 0)>>
    [] r = 2 -> <<Effect("drop existing", "stats", 0), Effect("drop existing", "norm", 0)>>
    [] r = 3 -> <<Effect("replace", "norm", 2), Effect("replace", "stats", 2)>>]
DownLeavingTable == [r \in Revisions |->
  CASE r = 0 -> <<>>
    [] r = 1 -> <<>>
    [] r = 2 -> <<Effect("drop", "stats", 0), Effect("drop", "norm", 0)>>
    [] r = 3 -> <<Effect("replace", "norm", 2), Effect("replace", "stats", 2)>>]

\* Mutant of Up: the second revision replaces views that exist.
UpReplacing == [r \in Revisions |->
  CASE r = 0 -> <<>>
    [] r = 1 -> <<Effect("create", "table", 1)>>
    [] r = 2 -> <<Effect("replace", "norm", 2), Effect("replace", "stats", 2)>>
    [] r = 3 -> <<Effect("replace", "norm", 3), Effect("replace", "stats", 3)>>]

\* What the statements of the files do.
Up == [r \in Revisions |->
  CASE r = 0 -> <<>>
    [] r = 1 -> <<Effect("create", "table", 1)>>
    [] r = 2 -> <<Effect("create", "norm", 2), Effect("create", "stats", 2)>>
    [] r = 3 -> <<Effect("replace", "norm", 3), Effect("replace", "stats", 3)>>]
Down == [r \in Revisions |->
  CASE r = 0 -> <<>>
    [] r = 1 -> <<Effect("drop", "table", 0)>>
    [] r = 2 -> <<Effect("drop", "stats", 0), Effect("drop", "norm", 0)>>
    [] r = 3 -> <<Effect("replace", "norm", 2), Effect("replace", "stats", 2)>>]

-----------------------------------------------------------------------------
VARIABLES
  schema,        \* object -> the revision whose file made it
  newest,        \* revisions recorded with the newest updated_at
  still,         \* whether no statement was carried out since that record
  command,       \* migrator -> its command
  at,            \* migrator -> the revision whose file it applies
  done,          \* migrator -> statements of that file that were carried out
  downgraded,    \* whether a downgrade ever began (history)
  disciplined,   \* whether commands never overlapped, and one that was cut off
                 \* was always repeated first (history)
  pending,       \* the last command, if it was cut off (history)
  reached,       \* the target of the last command that succeeded (history)
  torn           \* revisions in whose up.sql a command was cut off (history)

history == <<downgraded, disciplined, pending, reached, torn>>
vars == <<schema, newest, still, command, at, done, history>>

Nothing == [table |-> 0, norm |-> 0, stats |-> 0]

Init ==
  /\ schema = Nothing
  /\ newest = {Base}
  /\ still = TRUE
  /\ command = [m \in Migrators |-> NoCommand]
  /\ at = [m \in Migrators |-> Base]
  /\ done = [m \in Migrators |-> 0]
  /\ downgraded = FALSE /\ disciplined = TRUE
  /\ pending = NoCommand
  /\ reached = Base
  /\ torn = {}

-----------------------------------------------------------------------------
(* ClickHouse *)

\* The objects a view reads are there and have the columns it names: version 3
\* of the statistics counts service_state, which the other view has since then.
Readable(object, version, db) ==
  CASE object = "table" -> TRUE
    [] object = "norm"  -> db.table # 0
    [] object = "stats" -> db.norm # 0 /\ (version = 3 => db.norm = 3)

\* The statement succeeds.
Possible(effect, db) ==
  CASE effect.op = "create"  -> db[effect.object] = 0 /\ Readable(effect.object, effect.version, db)
    [] effect.op = "replace" -> Readable(effect.object, effect.version, db)
    [] effect.op = "drop existing" -> db[effect.object] # 0
    [] OTHER -> TRUE

Carried(effect, db) == [db EXCEPT ![effect.object] = effect.version]

-----------------------------------------------------------------------------
(* A command *)

Running(m) == command[m] # NoCommand

IsUpgrade(m) == command[m].kind = "upgrade"

File(m) == IF IsUpgrade(m) THEN Up[at[m]] ELSE Down[at[m]]

\* What upgrade and downgrade refuse: a stored revision the image does not have,
\* an unknown target, and a target on the wrong side.
Accepts(c, head, current) ==
  /\ current <= head /\ c.target <= head
  /\ IF c.kind = "upgrade" THEN current <= c.target ELSE c.target <= current

Refuse(m) ==
  /\ ~Running(m)
  /\ \E c \in Commands, head \in Heads, current \in newest : ~Accepts(c, head, current)
  /\ UNCHANGED vars

\* The command of m is over.
Over(m) ==
  /\ command' = [command EXCEPT ![m] = NoCommand]
  /\ at' = [at EXCEPT ![m] = Base]
  /\ done' = [done EXCEPT ![m] = 0]

\* Whether c now keeps the discipline.
Disciplined(c) ==
  /\ disciplined
  /\ pending \in {NoCommand, c}
  /\ \A m \in Migrators : ~Running(m)

\* What the last command has come to, as far as the discipline was kept.
Ended(kept, cut, target) ==
  /\ disciplined' = kept
  /\ pending' = IF kept THEN cut ELSE NoCommand
  /\ reached' = IF kept THEN target ELSE Base

\* The command begins at the recorded revision, and ends there if that is its
\* target.
Begin(m) ==
  /\ ~Running(m)
  /\ \E c \in Commands, head \in Heads, current \in newest :
       /\ Accepts(c, head, current)
       /\ downgraded' = (downgraded \/ c.kind = "downgrade")
       /\ IF current = c.target
            THEN /\ Ended(Disciplined(c), NoCommand, c.target)
                 /\ UNCHANGED <<command, at>>
            ELSE /\ Ended(Disciplined(c), pending, reached)
                 /\ command' = [command EXCEPT ![m] = c]
                 /\ at' = [at EXCEPT ![m] = IF c.kind = "upgrade" THEN current + 1 ELSE current]
  /\ UNCHANGED <<schema, newest, still, done, torn>>

\* client.command: one statement is carried out.
Apply(m) ==
  /\ Running(m)
  /\ done[m] < Len(File(m))
  /\ LET effect == File(m)[done[m] + 1] IN
       /\ Possible(effect, schema)
       /\ schema' = Carried(effect, schema)
  /\ done' = [done EXCEPT ![m] = @ + 1]
  /\ still' = FALSE
  /\ UNCHANGED <<newest, command, at, history>>

\* set_current_revision: the new row may share its updated_at with the last one if
\* nothing was carried out in between.
SetRevision(revision) ==
  /\ \/ newest' = {revision}
     \/ still /\ newest' = newest \cup {revision}
  /\ still' = TRUE

\* The revision a file leads to.
NextRevision(m) == IF IsUpgrade(m) THEN at[m] ELSE at[m] - 1

\* The file is done: the command goes on with the next or has reached its target.
Advance(m) ==
  IF NextRevision(m) = command[m].target
    THEN /\ Over(m)
         /\ Ended(disciplined, NoCommand, command[m].target)
    ELSE /\ at' = [at EXCEPT ![m] = IF IsUpgrade(m) THEN @ + 1 ELSE @ - 1]
         /\ done' = [done EXCEPT ![m] = 0]
         /\ UNCHANGED <<command, disciplined, pending, reached>>

\* Mutants of Record: the record may precede the last statement; the count of the
\* statements goes on.
RecordEarly(m) ==
  /\ Running(m)
  /\ done[m] >= Len(File(m)) - 1
  /\ SetRevision(NextRevision(m))
  /\ IF done[m] = Len(File(m)) THEN Advance(m)
     ELSE UNCHANGED <<command, at, done, disciplined, pending, reached>>
  /\ UNCHANGED <<schema, downgraded, torn>>
RecordCounting(m) ==
  /\ Running(m)
  /\ done[m] = Len(File(m))
  /\ SetRevision(NextRevision(m))
  /\ IF NextRevision(m) = command[m].target
       THEN Over(m) /\ Ended(disciplined, NoCommand, command[m].target)
       ELSE /\ at' = [at EXCEPT ![m] = IF IsUpgrade(m) THEN @ + 1 ELSE @ - 1]
            /\ UNCHANGED <<command, done, disciplined, pending, reached>>
  /\ UNCHANGED <<schema, downgraded, torn>>

\* After its last statement the file's revision is recorded.
Record(m) ==
  /\ Running(m)
  /\ done[m] = Len(File(m))
  /\ SetRevision(NextRevision(m))
  /\ Advance(m)
  /\ UNCHANGED <<schema, downgraded, torn>>

\* The next statement fails.
Rejected(m) ==
  /\ Running(m)
  /\ done[m] < Len(File(m))
  /\ ~Possible(File(m)[done[m] + 1], schema)

Reject(m) ==
  /\ Rejected(m)
  /\ Over(m)
  /\ Ended(disciplined, command[m], reached)
  /\ UNCHANGED <<schema, newest, still, downgraded, torn>>

\* The process dies, or the answer to a statement or to the record is lost.
Crash(m) ==
  /\ Running(m)
  /\ Over(m)
  /\ Ended(disciplined, command[m], reached)
  /\ torn' = IF disciplined /\ IsUpgrade(m) /\ done[m] > 0 THEN torn \cup {at[m]} ELSE torn
  /\ UNCHANGED <<schema, newest, still, downgraded>>

Next == \E m \in Migrators :
          Refuse(m) \/ Begin(m) \/ Apply(m) \/ Record(m) \/ Reject(m) \/ Crash(m)

Spec == Init /\ [][Next]_vars
-----------------------------------------------------------------------------
(* Properties *)

\* The types; a command that runs is within the file of a revision.
TypeOK ==
  /\ schema \in [table : {0, 1}, norm : {0, 2, 3}, stats : {0, 2, 3}]
  /\ newest \subseteq Revisions \cup {Base} /\ newest # {}
  /\ still \in BOOLEAN
  /\ command \in [Migrators -> Command \cup {NoCommand}]
  /\ at \in [Migrators -> Revisions \cup {Base}]
  /\ done \in [Migrators -> 0..2]
  /\ downgraded \in BOOLEAN /\ disciplined \in BOOLEAN
  /\ pending \in Command \cup {NoCommand}
  /\ reached \in Revisions \cup {Base}
  /\ torn \subseteq Revisions
  /\ \A m \in Migrators : Running(m) =>
       at[m] \in Revisions /\ done[m] <= Len(File(m))

\* The schema of a revision.
SchemaAt(r) == [table |-> IF r >= 1 THEN 1 ELSE 0,
                norm  |-> IF r >= 2 THEN r ELSE 0,
                stats |-> IF r >= 2 THEN r ELSE 0]

AtLeast(db, r) == \A object \in DOMAIN db : db[object] >= SchemaAt(r)[object]

\* As long as there are only upgrades, a revision that is recorded has been
\* applied, wherever processes were cut off and however many ran at once
\* (env.py, upgrade: the record follows the statements).
RecordedApplied == ~downgraded => \A r \in newest : AtLeast(schema, r)

\* And between any two statements the statistics can be read: no upgrade that is
\* late puts an older view under the newer one that reads it.
StatsReadable ==
  ~downgraded /\ schema.stats # 0 => Readable("stats", schema.stats, schema)

\* Where commands do not overlap and one that was cut off is repeated first, one
\* that succeeds leads to its target: the schema is exactly the target's, and so
\* is every revision the next command may read, ties of updated_at included.
SuccessExact ==
  disciplined /\ pending = NoCommand /\ (\A m \in Migrators : ~Running(m)) =>
    /\ schema = SchemaAt(reached)
    /\ \A r \in newest : SchemaAt(r) = schema

\* Under the same discipline a statement fails only where up.sql of revision 1 or
\* 2 was cut off in the middle: repeating a downgrade brings it to its end.
RejectedOnlyTorn ==
  \A m \in Migrators : disciplined /\ Rejected(m) => IsUpgrade(m) /\ at[m] \in torn \cap {1, 2}

\* What the words of the files do.
Words == [w \in {"create table", "create norm 2", "create stats 2", "replace norm 2", "replace norm 3",
                 "replace stats 2", "replace stats 3", "drop table", "drop norm", "drop stats"} |->
  CASE w = "create table"    -> Effect("create", "table", 1)
    [] w = "create norm 2"   -> Effect("create", "norm", 2)
    [] w = "create stats 2"  -> Effect("create", "stats", 2)
    [] w = "replace norm 2"  -> Effect("replace", "norm", 2)
    [] w = "replace norm 3"  -> Effect("replace", "norm", 3)
    [] w = "replace stats 2" -> Effect("replace", "stats", 2)
    [] w = "replace stats 3" -> Effect("replace", "stats", 3)
    [] w = "drop table"      -> Effect("drop", "table", 0)
    [] w = "drop norm"       -> Effect("drop", "norm", 0)
    [] w = "drop stats"      -> Effect("drop", "stats", 0)]

Effects(text) ==
  LET statements == Statements(text)
      words(k) == Range(statements[k]) \cap DOMAIN Words
  IN  [k \in DOMAIN statements |-> {Words[w] : w \in words(k)}]

\* A file is read as its tokens mean, whatever literals and comments hold: each
\* statement is carried out once, whole and in order.  The migrations' own files
\* give the statements of Up and Down.  (Asked once, before any command.)
ScriptsRead ==
  Init =>
    /\ \A tokens \in Scripts : WellFormed(tokens) => Statements(Symbols(tokens)) = Meaning(tokens)
    /\ \A r \in Revisions :
         /\ Effects(UpFile[r]) = [k \in DOMAIN Up[r] |-> {Up[r][k]}]
         /\ Effects(DownFile[r]) = [k \in DOMAIN Down[r] |-> {Down[r][k]}]
=============================================================================
