SPECIFICATION Spec
CONSTANTS
  NoBlock = NoBlock
  Blocks <- DeepBlocks
  Parent <- DeepParent
  Chains <- DeepChains
  Poison = {"c5"}
  Confirmations = 1
  BatchSize = 2
  StartHeight = 2
INVARIANTS
  TypeOK
  IndexIsChainSegment
  IndexedIsBuried
PROPERTIES
  ImplementsIndexLog
