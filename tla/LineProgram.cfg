SPECIFICATION LineSpec
CONSTANTS
  Headers <- MCHeaders
  Operands = {3}
  LineSteps = {3}
  Addresses = {0, 2}
  MaxAddress = 5
  MaxUnits = 2
  MaxOpcodes = 5
INVARIANTS
  AddressExact
  LookupsMatchProgram
  GapsAreNowhere
  SpansConstant
