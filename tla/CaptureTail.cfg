SPECIFICATION ReadFairSpec
CONSTANTS
  Capacity = 2
  Target = 4
  Clamp = 3
  MaxSlices = 3
  HasDeadline = TRUE
  CounterModulus = 4
  StatsMayFail = TRUE
  MayRaise = TRUE
  MaxCalls = 2
  MaxRetired = 7
INVARIANTS
  HeldBounded
  StreamOrdered
  TailReachesLastHalt
PROPERTIES
  Terminates
