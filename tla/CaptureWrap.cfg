SPECIFICATION ReadSpec
CONSTANTS
  Capacity = 8
  Target = 5
  Clamp = 3
  MaxSlices = 6
  HasDeadline = TRUE
  CounterModulus = 4
  StatsMayFail = FALSE
  MayRaise = FALSE
  MaxCalls = 1
  MaxRetired = 12
INVARIANTS
  SeamsAccounted
