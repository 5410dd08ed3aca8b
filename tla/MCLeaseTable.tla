---- MODULE MCLeaseTable ----
EXTENDS LeaseTable, TLC
CONSTANTS s1, s2, o1, o2
MCStations == {s1, s2}
MCOwners == {o1, o2}
\* Stations and owners are interchangeable: the order of the claim is that of
\* last_processed_at, and ties are left open.
MCSymmetry == Permutations(MCStations) \cup Permutations(MCOwners)
====
