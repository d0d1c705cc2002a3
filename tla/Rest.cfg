SPECIFICATION RestSpec
CONSTANTS
  Scripts <- People
  OpReturn = "op_return"
  NoOwner = "no one"
  Funding <- Coinbase
  Shapes <- ShortShapes
  MaxSlot = 2
  MaxVout = 2
  MaxTokensPerTx = 4
INVARIANTS
  ListingIsSnapshot
  OwnerAnswer
  OwnerThenAssets
  StillTokensListed
CHECK_DEADLOCK FALSE
