----------------------------- MODULE PgUnitOfWork -----------------------------
(***************************************************************************)
(* The unit of work: begin opens a session for the statements of a block,  *)
(* and when the block is left _finish commits or rolls back and closes the *)
(* session.  _finish is a task of its own, which the caller awaits and     *)
(* which a cancellation of the caller does not reach; so it may still be   *)
(* at work when the caller is gone.                                        *)
(*                                                                         *)
(* The blocks of a process share the connections of two pools.  A          *)
(* connection may break, and one of a pool may long be broken when it is   *)
(* taken; the server notices some time later, and a COMMIT that had        *)
(* reached it is carried out.  A process that ends waits for its callers   *)
(* and not for what they left behind.                                      *)
(***************************************************************************)
EXTENDS Naturals, FiniteSets

CONSTANTS
  Blocks,      \* uses of begin at a time
  PoolSize,    \* the most connections of a pool at a time
  MaxFaults    \* bound on broken connections, refused commits and crashes

ASSUME PoolAssumption == PoolSize \in Nat \ {0} /\ MaxFaults \in Nat

VARIABLES
  process,     \* whether the process serves, has disposed of its engines, or is down
  write,       \* block -> whether it writes
  caller,      \* block -> where its caller is: in the block, leaving it, or what it was told
  finish,      \* block -> where its _finish is
  ex,          \* block -> the exception _finish was given, or the error of its commit
  conn,        \* block -> its connection
  tx,          \* block -> its transaction at the server
  sent,        \* block -> whether a COMMIT has reached the server and not its answer the block
  faults       \* faults so far

block == <<write, caller, finish, ex, conn, tx, sent>>
vars == <<process, block, faults>>

Init ==
  /\ process = "up"
  /\ write = [b \in Blocks |-> FALSE]
  /\ caller = [b \in Blocks |-> "idle"]
  /\ finish = [b \in Blocks |-> "none"]
  /\ ex = [b \in Blocks |-> "none"]
  /\ conn = [b \in Blocks |-> "none"]
  /\ tx = [b \in Blocks |-> "none"]
  /\ sent = [b \in Blocks |-> FALSE]
  /\ faults = 0

Fault == faults < MaxFaults /\ faults' = faults + 1

-----------------------------------------------------------------------------
(* The block *)

Begin(b) ==
  /\ process = "up"
  /\ caller[b] = "idle"
  /\ caller' = [caller EXCEPT ![b] = "inside"]
  /\ \E writes \in BOOLEAN : write' = [write EXCEPT ![b] = writes]
  /\ UNCHANGED <<process, finish, ex, conn, tx, sent, faults>>

\* Blocks that write and blocks that read have an engine, and a pool, each.
FreeConnection(b) ==
  Cardinality({c \in Blocks : conn[c] # "none" /\ write[c] = write[b]}) < PoolSize

\* The first statement takes a connection, and of a block that writes it begins
\* the transaction.
Execute(b) ==
  /\ caller[b] = "inside" /\ conn[b] = "none"
  /\ FreeConnection(b)
  /\ conn' = [conn EXCEPT ![b] = "good"]
  /\ tx' = [tx EXCEPT ![b] = IF write[b] THEN "open" ELSE @]
  /\ UNCHANGED <<process, write, caller, finish, ex, sent, faults>>

\* Mutant of Leave: a block that is cancelled is committed, as one that ended.
LeaveCommitting(b, exception) ==
  /\ caller' = [caller EXCEPT ![b] = "leaving"]
  /\ ex' = [ex EXCEPT ![b] = exception]
  /\ finish' = [finish EXCEPT ![b] = IF ~write[b] THEN "closing"
                                     ELSE IF exception = "raised" THEN "rolling back"
                                     ELSE "committing"]
  /\ UNCHANGED <<process, write, tx, sent>>

\* The block is left with `exception`; a block that only reads is just closed.
Leave(b, exception) ==
  /\ caller' = [caller EXCEPT ![b] = "leaving"]
  /\ ex' = [ex EXCEPT ![b] = exception]
  /\ finish' = [finish EXCEPT ![b] = IF ~write[b] THEN "closing"
                                     ELSE IF exception = "none" THEN "committing"
                                     ELSE "rolling back"]
  /\ UNCHANGED <<process, write, tx, sent>>

EndBlock(b) ==
  /\ caller[b] = "inside"
  /\ Leave(b, "none")
  /\ UNCHANGED <<conn, faults>>

\* A statement fails, the pool has no connection in time, or the block's own code
\* raises.
RaiseInBlock(b) ==
  /\ caller[b] = "inside"
  /\ Leave(b, "raised")
  /\ UNCHANGED <<conn, faults>>

\* The connection of the pool turns out to be broken.
ExecuteStale(b) ==
  /\ caller[b] = "inside" /\ conn[b] = "none"
  /\ FreeConnection(b)
  /\ Fault
  /\ conn' = [conn EXCEPT ![b] = "broken"]
  /\ Leave(b, "raised")

\* The caller is cancelled in the block; in the middle of a statement that costs
\* the connection.
CancelInBlock(b) ==
  /\ caller[b] = "inside"
  /\ Leave(b, "cancelled")
  /\ \/ UNCHANGED conn
     \/ conn[b] = "good" /\ conn' = [conn EXCEPT ![b] = "broken"]
  /\ UNCHANGED faults

\* Mutant of CancelLeaving: _finish is cancelled with its caller.
CancelLeavingUnshielded(b) ==
  /\ caller[b] = "leaving"
  /\ caller' = [caller EXCEPT ![b] = "cancelled"]
  /\ finish' = [finish EXCEPT ![b] = "none"]
  /\ UNCHANGED <<process, write, ex, conn, tx, sent, faults>>

\* The caller is cancelled while it awaits _finish, which goes on.
CancelLeaving(b) ==
  /\ caller[b] = "leaving"
  /\ caller' = [caller EXCEPT ![b] = "cancelled"]
  /\ UNCHANGED <<process, write, finish, ex, conn, tx, sent, faults>>

-----------------------------------------------------------------------------
(* _finish *)

\* A block without a statement has nothing to commit.
Commit(b) ==
  /\ finish[b] = "committing"
  /\ conn[b] # "broken"
  /\ tx' = [tx EXCEPT ![b] = "committed"]
  /\ finish' = [finish EXCEPT ![b] = "closing"]
  /\ UNCHANGED <<process, write, caller, ex, conn, sent, faults>>

\* The connection is broken, or the server refuses.
CommitFails(b) ==
  /\ finish[b] = "committing"
  /\ finish' = [finish EXCEPT ![b] = "rolling back"]
  /\ ex' = [ex EXCEPT ![b] = "error"]
  /\ \/ conn[b] = "broken" /\ UNCHANGED <<tx, faults>>
     \/ conn[b] = "good" /\ Fault /\ tx' = [tx EXCEPT ![b] = "aborted"]
  /\ UNCHANGED <<process, write, caller, conn, sent>>

\* Mutant of Rollback: its failure is raised, and the session stays as it is.
RollbackRaising(b) ==
  /\ finish[b] = "rolling back"
  /\ IF conn[b] = "broken"
       THEN finish' = [finish EXCEPT ![b] = "none"] /\ UNCHANGED tx
       ELSE /\ finish' = [finish EXCEPT ![b] = "closing"]
            /\ tx' = [tx EXCEPT ![b] = IF @ = "open" THEN "aborted" ELSE @]
  /\ UNCHANGED <<process, write, caller, ex, conn, sent, faults>>

\* A rollback over a broken connection fails, which is ignored.
Rollback(b) ==
  /\ finish[b] = "rolling back"
  /\ finish' = [finish EXCEPT ![b] = "closing"]
  /\ tx' = [tx EXCEPT ![b] = IF @ = "open" /\ conn[b] = "good" THEN "aborted" ELSE @]
  /\ UNCHANGED <<process, write, caller, ex, conn, sent, faults>>

\* The session is closed, and a caller that still waits gets the exception, if
\* there is one.
Close(b) ==
  /\ finish[b] = "closing"
  /\ conn' = [conn EXCEPT ![b] = "none"]
  /\ finish' = [finish EXCEPT ![b] = "none"]
  /\ caller' = [caller EXCEPT ![b] = IF @ # "leaving" THEN @
                                     ELSE IF ex[b] = "none" THEN "done" ELSE ex[b]]
  /\ UNCHANGED <<process, write, ex, tx, sent, faults>>

\* What a caller can be told: that all is well, the exception of its block, the
\* error of the commit, or its own cancellation.
Told == {"done", "raised", "error", "cancelled"}

\* The session is garbage; the place is free for another block.
Forget(b) ==
  /\ caller[b] \in Told
  /\ finish[b] = "none" /\ tx[b] # "open"
  /\ caller' = [caller EXCEPT ![b] = "idle"]
  /\ ex' = [ex EXCEPT ![b] = "none"]
  /\ tx' = [tx EXCEPT ![b] = "none"]
  /\ UNCHANGED <<process, write, finish, conn, sent, faults>>

-----------------------------------------------------------------------------
(* The server, and the process *)

\* Blocks whose COMMIT may have reached the server.
Asking == {b \in Blocks : finish[b] = "committing" /\ conn[b] = "good"}

Break(b) ==
  /\ conn[b] = "good"
  /\ Fault
  /\ conn' = [conn EXCEPT ![b] = "broken"]
  /\ \E reached \in BOOLEAN :
       /\ reached => b \in Asking
       /\ sent' = [sent EXCEPT ![b] = reached]
  /\ UNCHANGED <<process, write, caller, finish, ex, tx>>

\* The server notices that the connection is gone.
Notice(b) ==
  /\ tx[b] = "open" /\ conn[b] # "good"
  /\ \/ tx' = [tx EXCEPT ![b] = "aborted"]
     \/ sent[b] /\ tx' = [tx EXCEPT ![b] = "committed"]
  /\ sent' = [sent EXCEPT ![b] = FALSE]
  /\ UNCHANGED <<process, write, caller, finish, ex, conn, faults>>

\* The shutdown of the process has cancelled its tasks and awaited them, and
\* disposes of the engines.
Dispose ==
  /\ process = "up"
  /\ \A b \in Blocks : caller[b] \notin {"inside", "leaving"}
  /\ process' = "disposed"
  /\ UNCHANGED <<block, faults>>

\* The event loop ends and cancels the tasks that are left, or the process dies.
End ==
  /\ process # "down"
  /\ process' = "down"
  /\ IF process = "disposed" THEN UNCHANGED faults ELSE Fault
  /\ \E reached \in SUBSET Asking : sent' = [b \in Blocks |-> sent[b] \/ b \in reached]
  /\ caller' = [b \in Blocks |-> IF caller[b] \in {"inside", "leaving"} THEN "lost" ELSE caller[b]]
  /\ finish' = [b \in Blocks |-> "none"]
  /\ conn' = [b \in Blocks |-> "none"]
  /\ UNCHANGED <<write, ex, tx>>

\* A new process, once the server has done with the old one's transactions.
Restart ==
  /\ process = "down"
  /\ \A b \in Blocks : tx[b] # "open"
  /\ process' = "up"
  /\ caller' = [b \in Blocks |-> "idle"]
  /\ ex' = [b \in Blocks |-> "none"]
  /\ tx' = [b \in Blocks |-> "none"]
  /\ UNCHANGED <<write, finish, conn, sent, faults>>

Finish(b) == Commit(b) \/ CommitFails(b) \/ Rollback(b) \/ Close(b)

Next ==
  \/ \E b \in Blocks :
       \/ Begin(b) \/ Execute(b) \/ ExecuteStale(b)
       \/ EndBlock(b) \/ RaiseInBlock(b) \/ CancelInBlock(b) \/ CancelLeaving(b)
       \/ Finish(b) \/ Forget(b)
       \/ Break(b) \/ Notice(b)
  \/ Dispose \/ End \/ Restart

Spec == Init /\ [][Next]_vars

\* The event loop carries on a task that can go on - a COMMIT or ROLLBACK is
\* answered or fails - and the server notices a connection that is gone.
FairSpec == Spec /\ \A b \in Blocks : WF_vars(Finish(b)) /\ WF_vars(Notice(b))
-----------------------------------------------------------------------------
(* Properties *)

\* The types; only a _finish that has begun commits, and only a COMMIT can be
\* under way without a connection.
TypeOK ==
  /\ process \in {"up", "disposed", "down"}
  /\ write \in [Blocks -> BOOLEAN]
  /\ caller \in [Blocks -> {"idle", "inside", "leaving", "lost"} \cup Told]
  /\ finish \in [Blocks -> {"none", "committing", "rolling back", "closing"}]
  /\ ex \in [Blocks -> {"none", "raised", "error", "cancelled"}]
  /\ conn \in [Blocks -> {"none", "good", "broken"}]
  /\ tx \in [Blocks -> {"none", "open", "committed", "aborted"}]
  /\ sent \in [Blocks -> BOOLEAN]
  /\ faults \in 0..MaxFaults

\* No connection is lost to the pool, wherever a caller is cancelled or a
\* connection breaks: whoever has one is in the block, or its _finish is still to
\* close it; and only a caller that was cancelled leaves a _finish behind.
ConnectionsOwned ==
  \A b \in Blocks :
    /\ conn[b] # "none" => caller[b] = "inside" \/ finish[b] # "none"
    /\ finish[b] # "none" => caller[b] \in {"leaving", "cancelled"}

\* What a block that writes has come to; it is open until it is left, also when the
\* server has given its transaction up.
Outcome(b) ==
  CASE tx[b] = "committed" -> "applied"
    [] tx[b] # "committed" /\ caller[b] \in {"idle", "inside"} -> "open"
    [] tx[b] # "committed" /\ caller[b] \notin {"idle", "inside"} ->
         IF tx[b] # "aborted" /\ (finish[b] = "committing" \/ sent[b])
           THEN "ready" ELSE "dropped"

Answer(b) == IF caller[b] \in Told THEN caller[b] ELSE "none"

\* The exception is the block's own, and not an error of its commit.
Raised(b) == ex[b] \in {"raised", "cancelled"}

UnitOf(b) ==
  [outcome |-> IF write[b] THEN Outcome(b) ELSE "open",
   raised |-> write[b] /\ Raised(b),
   answer |-> IF write[b] THEN Answer(b) ELSE "none"]

\* The blocks that write implement the promise of a unit of work: all or nothing,
\* nothing at any time after an exception of the block, success only for what is
\* committed, and a late effect only for callers that were cancelled while they
\* waited, or told of an error of the commit.
Units == INSTANCE UnitsOfWork WITH unit <- [b \in Blocks |-> UnitOf(b)]
ImplementsUnits == Units!UnitsSpec

\* A block that is left gives its connection back at last and has no transaction
\* open at the server, also if its caller is gone, the rollback fails or the
\* process ends.
Settled == \A b \in Blocks : (finish[b] # "none") ~> (conn[b] = "none" /\ tx[b] # "open")
=============================================================================
