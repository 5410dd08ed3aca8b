SPECIFICATION FairSpec
CONSTANTS
  Ids <- MCIds
  Tasks = {"t1", "t2"}
  Workers = {"p1", "p2"}
  Requests <- MCRequests
  Answers <- MCAnswers
  NoId = 0
  NoTask = "none"
  MaxFaults = 2
INVARIANTS TypeOK InsertedOnce
PROPERTIES ImplementsRegistry TasksEnd
CHECK_DEADLOCK FALSE
