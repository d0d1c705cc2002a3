SPECIFICATION Spec
CONSTANTS
  Scripts <- Script2
  OpReturn = "op_return"
  NoOwner = "no one"
  Funding <- Coinbase
  Shapes <- AllShapes
  MaxSlot = 3
  MaxVout = 2
  MaxTokensPerTx = 4
INVARIANTS
  TypeOK
  RowsMatchRanges
  OwnerIsOutput
  RestsOnce
  FinderAgrees
PROPERTIES
  BaseSigns
  ImplementsTokenLedger
CHECK_DEADLOCK FALSE
