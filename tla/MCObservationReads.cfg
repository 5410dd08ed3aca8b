SPECIFICATION Spec
CONSTANTS
  w1 = w1
  w2 = w2
  o1 = o1
  o2 = o2
  o3 = o3
  s1 = s1
  s2 = s2
  Workers <- MCWorkers
  Obs <- MCObs
  StationOf <- MCStationOf
  MaxFaults = 0
SYMMETRY MCSymmetry
INVARIANT ReadsDeduplicated
