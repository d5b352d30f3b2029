SPECIFICATION ProbeSpec
CONSTANTS
  Handles = {h1, h2}
  Devices = {d1, d2}
  Points = {p1, p2}
  MaxNest = 2
  None = None
  Packets <- MCPackets
  BlockLists <- MCBlockLists
  MaxPackets = 2
  HostBytes = 4
  Chunk = 2
  Readers = {o1, o2}
  MaxSamples = 2
  MaxTrace = 4
  TraceRoom = 3
  WindowSize = 3
  MaxWindows = 2
  Costs = {0, 3}
  Room = 5
  NoTime = NoTime
INVARIANTS
  HandleHoldsProbe
  RegistersOfDevice
  BodyRunsHalted
  EachByteOnce
  PacketsDecoded
  SamplesDecodeAsTaken
  WalkIsPrefix
  StampsStayWithInstructions
  TimeHonest
PROPERTY
  CallsReturn
