\* Two Gateway epochs of one agent.
SPECIFICATION FairSpec
CONSTANTS
  Agents = {a1}
  Leaves <- TwoLeaves
  NoLeaf = NoLeaf
  MaxEpochs = 2
  PoolSize = 2
CHECK_DEADLOCK FALSE
PROPERTIES
  OwnershipImplemented
  LocksAreReleased
