SPECIFICATION ProgramSpec
CONSTANTS
  Fns = {f, g, h}
  Unknown = unknown
  MaxDepth = 3
  MaxBelow = 2
  MaxStream = 5
  NestsOnce = TRUE
  MaxCalls = 3
SYMMETRY FnSymmetry
INVARIANTS
  FramesNest
  NothingSpansAHole
  LevelsBounded
  ReconstructionExact
