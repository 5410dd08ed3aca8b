---- MODULE MCIngestionIteration ----
EXTENDS IngestionIteration, TLC
CONSTANTS s1, s2, w1, w2
MCStations == {s1, s2}
MCOwners == {w1, w2}
MCSymmetry == Permutations(MCStations) \cup Permutations(MCOwners)
====
