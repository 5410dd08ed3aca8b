SPECIFICATION TableSpec
CONSTANTS
  s1 = s1
  s2 = s2
  o1 = o1
  o2 = o2
  Stations <- MCStations
  Owners <- MCOwners
  NoOwner = NoOwner
  BatchSize = 1
  ClaimFor = 2
  FetchInterval = 2
  ErrorInterval = 3
  MaxLag = 1
  MaxTime = 4
SYMMETRY MCSymmetry
INVARIANTS TypeOK LeaseBounded
PROPERTIES NoLiveSteal ScheduleGuarded
