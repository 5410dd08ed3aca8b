---- MODULE MCStationStats ----
EXTENDS StationStats
MCHours == {<<1, 8>>, <<2, 8>>}
MCKinds == [unavailable : {FALSE}, status : {"yes"}, severity : {NULL, 0, 2, 3, 5, 6}]
             \cup [unavailable : {FALSE}, status : {"no"}, severity : {5}]
             \cup [unavailable : {FALSE}, status : {"other"}, severity : {0}]
             \cup [unavailable : {TRUE}, status : {"yes"}, severity : {4}]
====
