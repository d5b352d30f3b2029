SPECIFICATION ReadSpec
CONSTANTS
  Capacity = 5
  Target = 5
  Clamp = 3
  MaxSlices = 6
  HasDeadline = TRUE
  CounterModulus = 16
  StatsMayFail = FALSE
  MayRaise = FALSE
  MaxCalls = 1
  MaxRetired = 12
INVARIANTS
  CoveredNeverFlushes
