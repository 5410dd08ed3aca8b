SPECIFICATION FairSpec
CONSTANTS
  b1 = b1
  b2 = b2
  Blocks <- MCBlocks
  PoolSize = 1
  MaxFaults = 2
INVARIANT ConnectionsOwned
PROPERTIES ImplementsUnits Settled
