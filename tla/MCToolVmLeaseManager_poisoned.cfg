SPECIFICATION RequestingSpec
CONSTANTS
  Agents = {a1}
  Leaves <- TwoLeaves
  NoLeaf = NoLeaf
  MaxEpochs = 1
  PoolSize = 2
CHECK_DEADLOCK FALSE
PROPERTIES
  AgentIsNotPoisoned
