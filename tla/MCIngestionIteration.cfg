SPECIFICATION Spec
CONSTANTS
  s1 = s1
  s2 = s2
  w1 = w1
  w2 = w2
  Stations <- MCStations
  Owners <- MCOwners
  NoOwner = NoOwner
  BatchSize = 2
  ClaimFor = 2
  FetchInterval = 2
  ErrorInterval = 2
  MaxLag = 1
  MaxTime = 2
  MaxFaults = 0
SYMMETRY MCSymmetry
INVARIANTS TypeOK SchedulesAhead ObjectsCurrent
PROPERTIES FeedbackTruthful RescheduledUnlessReread
