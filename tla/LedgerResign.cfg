SPECIFICATION Spec
CONSTANTS
  Scripts <- Script2
  OpReturn = "op_return"
  NoOwner = "no one"
  Funding <- Coinbase
  Shapes <- AgainShapes
  MaxSlot = 3
  MaxVout = 2
  MaxTokensPerTx = 4
PROPERTIES
  OwnerMustSign
CHECK_DEADLOCK FALSE
