---- MODULE MCIngestionPipeline ----
EXTENDS IngestionPipeline, TLC
CONSTANTS s1, s2, w1, w2, o1, o2
MCStations == {s1, s2}
MCOwners == {w1, w2}
MCObs == {o1, o2}
MCStationOf == (o1 :> s1) @@ (o2 :> s2)
\* The owners are interchangeable, and so are the stations with their observations.
MCSwap == (s1 :> s2) @@ (s2 :> s1) @@ (o1 :> o2) @@ (o2 :> o1)
MCSymmetry == Permutations(MCOwners) \cup {MCSwap}
====
