----------------------------- MODULE UnitsOfWork -----------------------------
(***************************************************************************)
(* What a use of the unit of work promises: the statements of its block    *)
(* take effect together and at one moment, or never.  They never do once   *)
(* the block has raised an exception, and they have when the caller is     *)
(* told that all is well.  A caller that is told of an error of the        *)
(* commit, or is cancelled while it waits for it, knows nothing: the       *)
(* effect may still come.                                                  *)
(***************************************************************************)

CONSTANT Blocks      \* uses of begin(write=True) at a time

VARIABLE unit        \* block -> its outcome for the database, whether it raised an
                     \* exception, and what its caller is told

Outcomes == {"open", "ready", "applied", "dropped"}
Answers == {"none", "done", "raised", "error", "cancelled"}
Unit == [outcome : Outcomes, raised : BOOLEAN, answer : Answers]

Fresh == [outcome |-> "open", raised |-> FALSE, answer |-> "none"]

Init == unit = [b \in Blocks |-> Fresh]

\* The block ends, by itself or with an exception.
Ends(x, y) ==
  /\ x.outcome = "open" /\ y.outcome \in {"ready", "dropped"}
  /\ y.answer = x.answer

\* The database decides, and against a block that raised an exception.
Settles(x, y) ==
  /\ x.outcome = "ready" /\ y.outcome \in {"applied", "dropped"}
  /\ y.outcome = "applied" => ~x.raised
  /\ y.raised = x.raised /\ y.answer = x.answer

\* The caller goes on: after the exception of its block, or an error of the commit.
IsTold(x, y) ==
  /\ x.answer = "none" /\ y.answer \in Answers \ {"none"}
  /\ x.outcome # "open" /\ y.outcome = x.outcome /\ y.raised = x.raised
  /\ y.answer = "done" => x.outcome = "applied"
  /\ y.answer = "raised" => x.raised
  /\ y.answer \in {"done", "error"} => ~x.raised

\* A block that is settled is over, and another may take its place.
IsOver(x, y) == x.outcome \in {"applied", "dropped"} /\ y = Fresh

Moves(x, y) == x = y \/ Ends(x, y) \/ Settles(x, y) \/ IsTold(x, y) \/ IsOver(x, y)

Next ==
  /\ unit' \in [Blocks -> Unit]
  /\ \A b \in Blocks : Moves(unit[b], unit'[b])

UnitsSpec == Init /\ [][Next]_unit
=============================================================================
