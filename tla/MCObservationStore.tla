---- MODULE MCObservationStore ----
EXTENDS ObservationStore, TLC
CONSTANTS w1, w2, o1, o2, o3, s1, s2
MCWorkers == {w1, w2}
MCObs == {o1, o2, o3}
MCStationOf == (o1 :> s1) @@ (o2 :> s1) @@ (o3 :> s2)
\* The two workers are interchangeable, and so are the two observations of s1.
MCSymmetry == Permutations(MCWorkers) \cup Permutations({o1, o2})
====
