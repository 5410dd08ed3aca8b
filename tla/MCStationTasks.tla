---- MODULE MCStationTasks ----
EXTENDS StationTasks
MCIds == 1..2
MCRequests == {[link |-> FALSE, by_id |-> NoId, by_name |-> FALSE],
               [link |-> FALSE, by_id |-> 1, by_name |-> TRUE],
               [link |-> TRUE, by_id |-> NoId, by_name |-> FALSE]}
MCAnswers == {answer \in SUBSET Row : Cardinality(answer) <= 2}
====
