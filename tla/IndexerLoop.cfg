SPECIFICATION Spec
CONSTANTS
  NoBlock = NoBlock
  Blocks <- ShallowBlocks
  Parent <- ShallowParent
  Chains <- ShallowChains
  Poison = {}
  Confirmations = 1
  BatchSize = 2
  StartHeight = 2
PROPERTIES
  LoopEndsOnlyOnShutdown
