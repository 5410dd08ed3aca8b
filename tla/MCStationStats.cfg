SPECIFICATION Spec
CONSTANTS
  Stations = {1, 2}
  Hours <- MCHours
  Kinds <- MCKinds
  FullSample = 2
  MaxObservations = 3
  Unit = 12
INVARIANTS ScoreCalibrated QueuesCost MapTruthful
PROPERTY EvidenceCounts
