SPECIFICATION TendedSpec
CONSTANTS
  NoBlock = NoBlock
  Blocks <- DeepBlocks
  Parent <- DeepParent
  Chains <- DeepChains
  Poison = {}
  Confirmations = 1
  BatchSize = 2
  StartHeight = 2
PROPERTIES
  CatchesUp
