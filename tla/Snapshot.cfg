SPECIFICATION SnapshotSpec
CONSTANTS
  Capacity = 3
  MaxWindow = 4
  MaxLost = 1
  MaxFed = 8
  MaxPolls = 4
INVARIANTS
  StartsMatchBlocks
  CapacityBound
  LossRemembered
  ContinuousIsHonest
  BoundariesExact
  IndexingMatchesIteration
  LoadHonest
PROPERTIES
  ImplementsBoundedTail
