\* Three leaves of one agent: a predecessor, its replacement and the next.
SPECIFICATION Spec
CONSTANTS
  Agents = {a1}
  Leaves <- ThreeLeaves
  NoLeaf = NoLeaf
  MaxEpochs = 1
  PoolSize = 2
CHECK_DEADLOCK FALSE
INVARIANTS
  OneVmServesAgent
  ReachableVmIsRecorded
  RegistriesAgree
