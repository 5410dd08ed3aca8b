------------------------- MODULE PgUnitOfWork_proofs -------------------------
(***************************************************************************)
(* Proofs about the unit of work, for every number of blocks, connections  *)
(* and faults: connections are owned, and the blocks that write implement  *)
(* the promise of UnitsOfWork.                                             *)
(***************************************************************************)
EXTENDS PgUnitOfWork, TLAPS

Owned(b) ==
  /\ conn[b] # "none" => caller[b] = "inside" \/ finish[b] # "none"
  /\ finish[b] # "none" => caller[b] \in {"leaving", "cancelled"}

\* The transaction of a block that may still commit follows its connection.
Follows(b) ==
  /\ conn[b] = "none" => tx[b] = "none"
  /\ conn[b] = "good" => tx[b] = "open"

InBlock(b) ==
  /\ caller[b] \in {"idle", "inside"} => ex[b] = "none"
  /\ caller[b] = "idle" => tx[b] = "none"
  /\ caller[b] = "inside" => tx[b] # "committed" /\ (write[b] => Follows(b))
  /\ ~write[b] => tx[b] = "none"

InFinish(b) ==
  /\ finish[b] = "committing" => write[b] /\ ex[b] = "none" /\ Follows(b)
  /\ finish[b] = "rolling back" => write[b] /\ ex[b] # "none"
  /\ finish[b] = "closing" /\ write[b] /\ ex[b] = "none" => tx[b] = "committed"

\* Only a transaction that is open has a COMMIT under way, once its connection is
\* gone, and only of a block that raised nothing.
UnderWay(b) ==
  sent[b] => /\ tx[b] = "open" /\ conn[b] # "good" /\ ~Raised(b)
             /\ caller[b] \notin {"idle", "inside"}

\* Nothing is at work in a process that is down.
AtRest(b) ==
  process = "down" =>
    finish[b] = "none" /\ conn[b] = "none" /\ caller[b] \notin {"inside", "leaving"}

Good(b) == Owned(b) /\ InBlock(b) /\ InFinish(b) /\ UnderWay(b) /\ AtRest(b)

IInv == TypeOK /\ \A b \in Blocks : Good(b)
-----------------------------------------------------------------------------
(* Types *)

LEMMA InitInv == Init => IInv
  BY PoolAssumption DEF Init, IInv, TypeOK, Good, Owned, Follows, InBlock, InFinish,
     UnderWay, Raised, AtRest, Told

LEMMA FaultType == TypeOK /\ Fault => faults' \in 0..MaxFaults
<1> SUFFICES ASSUME TypeOK, Fault PROVE faults' \in 0..MaxFaults
  OBVIOUS
<1>1. faults \in 0..MaxFaults
  BY DEF TypeOK
<1>2. MaxFaults \in Nat
  BY PoolAssumption
<1> QED
  BY <1>1, <1>2 DEF Fault

LEMMA LeaveTypes ==
  ASSUME TypeOK, NEW b \in Blocks, NEW e \in {"none", "raised", "cancelled"}, Leave(b, e)
  PROVE  /\ process' = process /\ write' = write /\ tx' = tx /\ sent' = sent
         /\ caller' \in [Blocks -> {"idle", "inside", "leaving", "lost"} \cup Told]
         /\ finish' \in [Blocks -> {"none", "committing", "rolling back", "closing"}]
         /\ ex' \in [Blocks -> {"none", "raised", "error", "cancelled"}]
  BY DEF TypeOK, Leave, Told

\* Every step keeps the types.
LEMMA TypeStep == TypeOK /\ [Next]_vars => TypeOK'
<1> SUFFICES ASSUME TypeOK, [Next]_vars PROVE TypeOK'
  OBVIOUS
<1> USE PoolAssumption DEF TypeOK, Told
<1>1. ASSUME NEW b \in Blocks, Begin(b) PROVE TypeOK'
  BY <1>1 DEF Begin
<1>2. ASSUME NEW b \in Blocks, Execute(b) PROVE TypeOK'
  BY <1>2 DEF Execute
<1>3. ASSUME NEW b \in Blocks, EndBlock(b) PROVE TypeOK'
  <2>1. Leave(b, "none")
    BY <1>3 DEF EndBlock
  <2> QED
    BY <1>3, <2>1, LeaveTypes, FaultType DEF EndBlock
<1>4. ASSUME NEW b \in Blocks, RaiseInBlock(b) PROVE TypeOK'
  <2>1. Leave(b, "raised")
    BY <1>4 DEF RaiseInBlock
  <2> QED
    BY <1>4, <2>1, LeaveTypes, FaultType DEF RaiseInBlock
<1>5. ASSUME NEW b \in Blocks, ExecuteStale(b) PROVE TypeOK'
  <2>1. Leave(b, "raised")
    BY <1>5 DEF ExecuteStale
  <2> QED
    BY <1>5, <2>1, LeaveTypes, FaultType DEF ExecuteStale
<1>6. ASSUME NEW b \in Blocks, CancelInBlock(b) PROVE TypeOK'
  <2>1. Leave(b, "cancelled")
    BY <1>6 DEF CancelInBlock
  <2> QED
    BY <1>6, <2>1, LeaveTypes, FaultType DEF CancelInBlock
<1>7. ASSUME NEW b \in Blocks, CancelLeaving(b) PROVE TypeOK'
  BY <1>7 DEF CancelLeaving
<1>8. ASSUME NEW b \in Blocks, Commit(b) PROVE TypeOK'
  BY <1>8 DEF Commit
<1>9. ASSUME NEW b \in Blocks, CommitFails(b) PROVE TypeOK'
  BY <1>9, FaultType DEF CommitFails
<1>10. ASSUME NEW b \in Blocks, Rollback(b) PROVE TypeOK'
  BY <1>10 DEF Rollback
<1>11. ASSUME NEW b \in Blocks, Close(b) PROVE TypeOK'
  BY <1>11 DEF Close
<1>12. ASSUME NEW b \in Blocks, Forget(b) PROVE TypeOK'
  BY <1>12 DEF Forget
<1>13. ASSUME NEW b \in Blocks, Break(b) PROVE TypeOK'
  BY <1>13, FaultType DEF Break, Asking
<1>14. ASSUME NEW b \in Blocks, Notice(b) PROVE TypeOK'
  BY <1>14 DEF Notice
<1>15. CASE Dispose
  BY <1>15 DEF Dispose, block
<1>16. CASE End
  <2>1. faults' \in 0..MaxFaults
    BY <1>16, FaultType DEF End
  <2>2. process' \in {"up", "disposed", "down"} /\ write' = write /\ ex' = ex /\ tx' = tx
    BY <1>16 DEF End
  <2>3. sent' \in [Blocks -> BOOLEAN]
    <3>1. PICK reached : sent' = [b \in Blocks |-> sent[b] \/ b \in reached]
      BY <1>16 DEF End
    <3>2. \A b \in Blocks : (sent[b] \/ b \in reached) \in BOOLEAN
      BY Zenon
    <3> QED
      BY <3>1, <3>2, Zenon
  <2>4. caller' \in [Blocks -> {"idle", "inside", "leaving", "lost"} \cup Told]
    BY <1>16 DEF End
  <2>5. /\ finish' \in [Blocks -> {"none", "committing", "rolling back", "closing"}]
        /\ conn' \in [Blocks -> {"none", "good", "broken"}]
    BY <1>16 DEF End
  <2> QED
    BY <2>1, <2>2, <2>3, <2>4, <2>5
<1>17. CASE Restart
  BY <1>17 DEF Restart, block
<1>18. CASE UNCHANGED vars
  BY <1>18 DEF vars, block
<1> QED
  BY <1>1, <1>2, <1>3, <1>4, <1>5, <1>6, <1>7, <1>8, <1>9, <1>10, <1>11, <1>12, <1>13,
     <1>14, <1>15, <1>16, <1>17, <1>18 DEF Next, Finish

-----------------------------------------------------------------------------
(* A step of one block leaves the others alone *)

Step(b) ==
  \/ Begin(b) \/ Execute(b) \/ ExecuteStale(b)
  \/ EndBlock(b) \/ RaiseInBlock(b) \/ CancelInBlock(b) \/ CancelLeaving(b)
  \/ Finish(b) \/ Forget(b)
  \/ Break(b) \/ Notice(b)

Same(c) ==
  /\ process' = process
  /\ write'[c] = write[c] /\ caller'[c] = caller[c] /\ finish'[c] = finish[c]
  /\ ex'[c] = ex[c] /\ conn'[c] = conn[c] /\ tx'[c] = tx[c] /\ sent'[c] = sent[c]

LEMMA Elsewhere ==
  ASSUME TypeOK, NEW b \in Blocks, NEW c \in Blocks, c # b, Step(b)
  PROVE  Same(c)
<1> USE DEF TypeOK, Same
<1>1. CASE Begin(b)
  BY <1>1 DEF Begin
<1>2. CASE Execute(b)
  BY <1>2 DEF Execute
<1>3. CASE EndBlock(b)
  BY <1>3 DEF EndBlock, Leave
<1>4. CASE RaiseInBlock(b)
  BY <1>4 DEF RaiseInBlock, Leave
<1>5. CASE ExecuteStale(b)
  BY <1>5 DEF ExecuteStale, Leave, Fault
<1>6. CASE CancelInBlock(b)
  BY <1>6 DEF CancelInBlock, Leave
<1>7. CASE CancelLeaving(b)
  BY <1>7 DEF CancelLeaving
<1>8. CASE Commit(b)
  BY <1>8 DEF Commit
<1>9. CASE CommitFails(b)
  BY <1>9 DEF CommitFails, Fault
<1>10. CASE Rollback(b)
  BY <1>10 DEF Rollback
<1>11. CASE Close(b)
  BY <1>11 DEF Close
<1>12. CASE Forget(b)
  BY <1>12 DEF Forget
<1>13. CASE Break(b)
  BY <1>13 DEF Break, Fault, Asking
<1>14. CASE Notice(b)
  BY <1>14 DEF Notice
<1> QED
  BY <1>1, <1>2, <1>3, <1>4, <1>5, <1>6, <1>7, <1>8, <1>9, <1>10, <1>11, <1>12, <1>13, <1>14
     DEF Step, Finish

LEMMA SameGood == ASSUME NEW c \in Blocks, Good(c), Same(c) PROVE Good(c)'
  BY DEF Same, Good, Owned, Follows, InBlock, InFinish, UnderWay, Raised, AtRest, Told

LEMMA SameUnit == ASSUME NEW c \in Blocks, Same(c) PROVE UnitOf(c)' = UnitOf(c)
  BY DEF Same, UnitOf, Outcome, Answer, Raised, Told

-----------------------------------------------------------------------------
(* The invariant *)

\* The step of a block keeps its invariant.
LEMMA GoodHere ==
  ASSUME TypeOK, NEW b \in Blocks, Good(b), Step(b)
  PROVE  Good(b)'
<1> USE DEF TypeOK, Good, Owned, Follows, InBlock, InFinish, UnderWay, Raised, AtRest, Told
<1>1. CASE Begin(b)
  BY <1>1 DEF Begin
<1>2. CASE Execute(b)
  BY <1>2 DEF Execute
<1>3. CASE EndBlock(b)
  BY <1>3 DEF EndBlock, Leave
<1>4. CASE RaiseInBlock(b)
  BY <1>4 DEF RaiseInBlock, Leave
<1>5. CASE ExecuteStale(b)
  BY <1>5 DEF ExecuteStale, Leave, Fault
<1>6. CASE CancelInBlock(b)
  BY <1>6 DEF CancelInBlock, Leave
<1>7. CASE CancelLeaving(b)
  BY <1>7 DEF CancelLeaving
<1>8. CASE Commit(b)
  BY <1>8 DEF Commit
<1>9. CASE CommitFails(b)
  BY <1>9 DEF CommitFails, Fault
<1>10. CASE Rollback(b)
  BY <1>10 DEF Rollback
<1>11. CASE Close(b)
  BY <1>11 DEF Close
<1>12. CASE Forget(b)
  BY <1>12 DEF Forget
<1>13. CASE Break(b)
  BY <1>13 DEF Break, Fault, Asking
<1>14. CASE Notice(b)
  BY <1>14 DEF Notice
<1> QED
  BY <1>1, <1>2, <1>3, <1>4, <1>5, <1>6, <1>7, <1>8, <1>9, <1>10, <1>11, <1>12, <1>13, <1>14
     DEF Step, Finish

\* Every step keeps the invariant of every block.
LEMMA GoodStep ==
  ASSUME IInv, [Next]_vars, NEW c \in Blocks
  PROVE  Good(c)'
<1>1. ASSUME NEW b \in Blocks, Step(b) PROVE Good(c)'
  BY <1>1, Elsewhere, SameGood, GoodHere DEF IInv
<1> USE DEF IInv, TypeOK, Good, Owned, Follows, InBlock, InFinish, UnderWay, Raised, AtRest, Told
<1>2. CASE Dispose
  BY <1>2 DEF Dispose, block
<1>3. CASE End
  BY <1>3 DEF End, Fault, Asking, block
<1>4. CASE Restart
  BY <1>4 DEF Restart, block
<1>5. CASE UNCHANGED vars
  BY <1>5 DEF vars, block
<1> QED
  BY <1>1, <1>2, <1>3, <1>4, <1>5 DEF Next, Step

\* The types and the state of every block are kept by every step.
THEOREM Invariant == Spec => []IInv
<1>1. IInv /\ [Next]_vars => IInv'
  BY TypeStep, GoodStep DEF IInv
<1> QED
  BY InitInv, <1>1, PTL DEF Spec

\* No connection is lost to its pool: a block that has one has its caller inside or
\* a _finish that is still to close the session.
THEOREM ConnectionsAreOwned == Spec => []ConnectionsOwned
<1>1. IInv => ConnectionsOwned
  BY DEF IInv, Good, Owned, ConnectionsOwned
<1> QED
  BY Invariant, <1>1, PTL

-----------------------------------------------------------------------------
(* The refinement *)

LEMMA UnitInit == Init => Units!Init
  BY DEF Init, Units!Init, Units!Fresh, UnitOf, Outcome, Answer, Raised, Told

LEMMA UnitType == TypeOK' => \A c \in Blocks : UnitOf(c)' \in Units!Unit
  BY DEF TypeOK, UnitOf, Outcome, Answer, Raised, Told, Units!Unit, Units!Outcomes, Units!Answers

\* The step of a block is a move of its unit, or none.
LEMMA UnitHere ==
  ASSUME TypeOK, NEW b \in Blocks, Good(b), Step(b)
  PROVE  Units!Moves(UnitOf(b), UnitOf(b)')
<1> USE DEF TypeOK, Good, Owned, Follows, InBlock, InFinish, UnderWay, Raised, AtRest,
    Told, UnitOf,
    Outcome, Answer,
            Units!Moves, Units!Ends, Units!Settles, Units!IsTold, Units!IsOver, Units!Fresh,
            Units!Answers
<1>1. CASE Begin(b)
  BY <1>1 DEF Begin
<1>2. CASE Execute(b)
  BY <1>2 DEF Execute
<1>3. CASE EndBlock(b)
  BY <1>3 DEF EndBlock, Leave
<1>4. CASE RaiseInBlock(b)
  BY <1>4 DEF RaiseInBlock, Leave
<1>5. CASE ExecuteStale(b)
  BY <1>5 DEF ExecuteStale, Leave, Fault
<1>6. CASE CancelInBlock(b)
  BY <1>6 DEF CancelInBlock, Leave
<1>7. CASE CancelLeaving(b)
  <2>1. /\ caller[b] = "leaving" /\ caller'[b] = "cancelled"
        /\ UNCHANGED <<write, finish, ex, tx, sent>>
    BY <1>7 DEF CancelLeaving
  <2>2. Outcome(b)' = Outcome(b) /\ Outcome(b) # "open"
    BY <2>1
  <2>3. Answer(b) = "none" /\ Answer(b)' = "cancelled"
    BY <2>1
  <2>4. Raised(b)' = Raised(b)
    BY <2>1
  <2> HIDE DEF Outcome, Answer, Raised
  <2> QED
    BY <2>1, <2>2, <2>3, <2>4
<1>8. CASE Commit(b)
  BY <1>8 DEF Commit
<1>9. CASE CommitFails(b)
  BY <1>9 DEF CommitFails, Fault
<1>10. CASE Rollback(b)
  BY <1>10 DEF Rollback
<1>11. CASE Close(b)
  <2>1. /\ finish[b] = "closing" /\ finish'[b] = "none" /\ UNCHANGED <<write, ex, tx, sent>>
        /\ caller[b] \in {"leaving", "cancelled"}
        /\ caller'[b] = IF caller[b] = "cancelled" THEN "cancelled"
                        ELSE IF ex[b] = "none" THEN "done" ELSE ex[b]
    BY <1>11 DEF Close
  <2>2. caller'[b] \in Told
    BY <2>1
  <2>3. Outcome(b)' = Outcome(b) /\ Outcome(b) # "open"
    BY <2>1, <2>2
  <2>4. Answer(b)' = caller'[b] /\ Answer(b) = IF caller[b] = "cancelled" THEN "cancelled" ELSE "none"
    BY <2>1, <2>2
  <2>5. caller[b] = "leaving" /\ write[b] /\ ex[b] = "none" => Outcome(b) = "applied"
    BY <2>1
  <2>8. /\ Raised(b)' = Raised(b)
        /\ ex[b] = "raised" => Raised(b)
        /\ ex[b] \in {"none", "error"} => ~Raised(b)
    BY <2>1
  <2> HIDE DEF Outcome, Answer, Raised
  <2>6. CASE caller[b] = "cancelled"
    <3>1. Answer(b)' = Answer(b)
      BY <2>1, <2>4, <2>6
    <3>2. UnitOf(b)' = UnitOf(b)
      BY <2>1, <2>3, <2>8, <3>1
    <3> HIDE DEF UnitOf
    <3> QED
      BY <3>2
  <2>7. CASE caller[b] = "leaving"
    <3>1. /\ Answer(b) = "none" /\ Answer(b)' \in Told
          /\ Answer(b)' = "done" /\ write[b] => Outcome(b) = "applied"
          /\ Answer(b)' = "raised" => Raised(b)
          /\ Answer(b)' \in {"done", "error"} => ~Raised(b)
      BY <2>1, <2>2, <2>4, <2>5, <2>7, <2>8
    <3>2. CASE write[b]
      BY <2>1, <2>3, <2>8, <3>1, <3>2
    <3>3. CASE ~write[b]
      BY <2>1, <3>3
    <3> QED
      BY <3>2, <3>3
  <2> QED
    BY <2>1, <2>6, <2>7
<1>12. CASE Forget(b)
  BY <1>12 DEF Forget
<1>13. CASE Break(b)
  BY <1>13 DEF Break, Fault, Asking
<1>14. CASE Notice(b)
  <2>1. tx[b] = "open" /\ conn[b] # "good" /\ UNCHANGED <<write, caller, finish, ex>>
    BY <1>14 DEF Notice
  <2>2. Answer(b)' = Answer(b) /\ Raised(b)' = Raised(b)
    BY <2>1
  <2>3. CASE tx'[b] = "aborted"
    <3>1. /\ Outcome(b) \in {"open", "ready", "dropped"} /\ Outcome(b)' \in {"open", "dropped"}
          /\ Outcome(b)' = "open" <=> Outcome(b) = "open"
      BY <2>1, <2>3
    <3> HIDE DEF Outcome, Answer, Raised
    <3> QED
      BY <2>1, <2>2, <3>1
  <2>4. CASE sent[b] /\ tx'[b] = "committed"
    <3>1. Outcome(b) = "ready" /\ Outcome(b)' = "applied" /\ ~Raised(b)
      BY <2>1, <2>4
    <3> HIDE DEF Outcome, Answer, Raised
    <3> QED
      BY <2>1, <2>2, <3>1
  <2> QED
    BY <1>14, <2>3, <2>4 DEF Notice
<1> QED
  BY <1>1, <1>2, <1>3, <1>4, <1>5, <1>6, <1>7, <1>8, <1>9, <1>10, <1>11, <1>12, <1>13, <1>14
     DEF Step, Finish

\* What the end of the process does to a block.
LEMMA EndHere ==
  ASSUME TypeOK, End, NEW c \in Blocks
  PROVE  /\ UNCHANGED <<write, ex, tx>> /\ finish'[c] = "none"
         /\ caller'[c] = IF caller[c] \in {"inside", "leaving"} THEN "lost" ELSE caller[c]
         /\ sent'[c] \in BOOLEAN /\ (sent[c] => sent'[c])
         /\ sent'[c] => sent[c] \/ finish[c] = "committing"
<1>1. PICK reached \in SUBSET Asking : sent' = [b \in Blocks |-> sent[b] \/ b \in reached]
  BY DEF End
<1>2. sent'[c] = (sent[c] \/ c \in reached)
  BY <1>1, Zenon
<1>3. sent[c] \in BOOLEAN
  BY DEF TypeOK
<1>4. c \in reached => finish[c] = "committing"
  BY <1>1 DEF Asking
<1>5. /\ UNCHANGED <<write, ex, tx>> /\ finish'[c] = "none"
      /\ caller'[c] = IF caller[c] \in {"inside", "leaving"} THEN "lost" ELSE caller[c]
  BY DEF End
<1> QED
  BY <1>2, <1>3, <1>4, <1>5

\* So is, for every block, every step.
LEMMA UnitMoves ==
  ASSUME IInv, [Next]_vars, NEW c \in Blocks
  PROVE  Units!Moves(UnitOf(c), UnitOf(c)')
<1>1. ASSUME NEW b \in Blocks, Step(b)
      PROVE  Units!Moves(UnitOf(c), UnitOf(c)')
  BY <1>1, Elsewhere, SameUnit, UnitHere DEF IInv, Units!Moves
<1> USE DEF IInv, TypeOK, Good, Owned, Follows, InBlock, InFinish, UnderWay, Raised, AtRest,
    Told, UnitOf,
    Outcome, Answer,
            Units!Moves, Units!Ends, Units!Settles, Units!IsOver, Units!Fresh
<1>2. CASE Dispose
  BY <1>2 DEF Dispose, block
<1>3. CASE End
  <2>1. /\ UNCHANGED <<write, ex, tx>> /\ finish'[c] = "none"
        /\ caller'[c] = IF caller[c] \in {"inside", "leaving"} THEN "lost" ELSE caller[c]
        /\ sent'[c] \in BOOLEAN /\ (sent[c] => sent'[c])
        /\ sent'[c] => sent[c] \/ finish[c] = "committing"
    BY <1>3, EndHere DEF IInv
  <2>2. Answer(c)' = Answer(c) /\ Raised(c)' = Raised(c)
    BY <2>1
  <2>3. CASE tx[c] \in {"committed", "aborted"}
    <3>1. Outcome(c)' \in {Outcome(c), "dropped"} /\ Outcome(c) \in {"open", "applied", "dropped"}
          /\ (Outcome(c) = "applied" => Outcome(c)' = "applied")
      BY <2>1, <2>3
    <3> HIDE DEF Outcome, Answer, Raised
    <3> QED
      BY <2>1, <2>2, <3>1
  <2>4. CASE tx[c] \in {"none", "open"}
    <3>1. CASE caller[c] \in {"idle", "inside"}
      <4>1. Outcome(c) = "open" /\ Outcome(c)' \in {"open", "dropped"}
        BY <2>1, <2>4, <3>1
      <4> HIDE DEF Outcome, Answer, Raised
      <4> QED
        BY <2>1, <2>2, <4>1
    <3>2. CASE caller[c] \notin {"idle", "inside"}
      <4>1. /\ Outcome(c) = IF finish[c] = "committing" \/ sent[c] THEN "ready" ELSE "dropped"
            /\ Outcome(c)' = IF sent'[c] THEN "ready" ELSE "dropped"
        BY <2>1, <2>4, <3>2
      <4> HIDE DEF Outcome, Answer, Raised
      <4> QED
        BY <2>1, <2>2, <4>1
    <3> QED
      BY <3>1, <3>2
  <2> QED
    BY <2>1, <2>3, <2>4
<1>4. CASE Restart
  BY <1>4 DEF Restart, block
<1>5. CASE UNCHANGED vars
  BY <1>5 DEF vars, block
<1> QED
  BY <1>1, <1>2, <1>3, <1>4, <1>5 DEF Next, Step

\* The blocks that write implement the promise of a unit of work.
THEOREM UnitsAreImplemented == Spec => ImplementsUnits
<1>1. IInv /\ IInv' /\ [Next]_vars => Units!Next
  <2> SUFFICES ASSUME IInv, IInv', [Next]_vars PROVE Units!Next
    OBVIOUS
  <2>1. TypeOK'
    BY DEF IInv
  <2>2. \A c \in Blocks : UnitOf(c)' \in Units!Unit
    BY <2>1, UnitType
  <2>3. \A c \in Blocks : Units!Moves(UnitOf(c), UnitOf(c)')
    BY UnitMoves
  <2> QED
    BY <2>2, <2>3 DEF Units!Next
<1> QED
  BY Invariant, UnitInit, <1>1, PTL DEF Spec, ImplementsUnits, Units!UnitsSpec
=============================================================================
