SPECIFICATION TimelyPipelineSpec
CONSTANTS
  s1 = s1
  s2 = s2
  w1 = w1
  w2 = w2
  o1 = o1
  o2 = o2
  Stations <- MCStations
  Owners <- MCOwners
  Obs <- MCObs
  StationOf <- MCStationOf
  NoOwner = NoOwner
  BatchSize = 2
  ClaimFor = 2
  BeatPeriod = 1
  FetchInterval = 2
  ErrorInterval = 2
  MaxLag = 0
  MaxTime = 2
  MaxFaults = 1
  MaxStoreFaults = 2
SYMMETRY MCSymmetry
INVARIANTS KeepsLease ExclusiveInsert NoLeftover LeasedFromBatch StoredOnce
PROPERTY RecordedStored
