SPECIFICATION CaptureSpec
CONSTANTS
  Capacity = 8
  Target = 5
  Clamp = 3
  MaxSlices = 6
  HasDeadline = TRUE
  CounterModulus = 16
  StatsMayFail = FALSE
  MayRaise = TRUE
  MaxCalls = 1
  MaxRetired = 12
INVARIANTS
  SeamsAccounted
  HaltReasonBelongs
  WholeCapture
  ProbeReleased
  UntruncatedIsComplete
