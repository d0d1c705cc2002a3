SPECIFICATION FairSpec
CONSTANTS
  NoBlock = NoBlock
  Blocks <- ShallowBlocks
  Parent <- ShallowParent
  Chains <- ShallowChains
  Poison = {"c5"}
  Confirmations = 1
  BatchSize = 2
  StartHeight = 2
INVARIANTS
  NoFalseReorg
PROPERTIES
  CatchesUp
  ShutdownStops
  StopsAtPoison
