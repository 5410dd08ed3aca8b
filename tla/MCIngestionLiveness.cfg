SPECIFICATION FairSpec
CONSTANTS
  s1 = s1
  s2 = s2
  w1 = w1
  w2 = w2
  Stations <- MCStations
  Owners <- MCOwners
  NoOwner = NoOwner
  BatchSize = 1
  ClaimFor = 1
  FetchInterval = 2
  ErrorInterval = 2
  MaxLag = 0
  MaxTime = 1
  MaxFaults = 1
PROPERTIES ImplementsTable IterationEnds Reclaimed
