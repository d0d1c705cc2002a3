SPECIFICATION Spec
CONSTANTS
  Radix = 2
  MaxLen = 3
  MaxValue = 5
  MaxHeight = 3
  MaxTxIndex = 2
  MaxUsize = 4
  Reserve = 3
  AddrLen = 1
  Groups = {"g", "h"}
  MaxSlot = 1
  MaxIndex = 4
  MaxInputs = 3
  MaxWire = 12
  MaxItems = 2
  MaxOutputs = 3
INVARIANTS
  MixGivesIndices
  RoundTrip
  Canonical
  CommandLineKept
CHECK_DEADLOCK FALSE
