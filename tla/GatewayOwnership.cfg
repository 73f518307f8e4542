\* Two agents, two epochs of the zone, and a leaf for each child of an epoch.
CONSTANTS
  Agents = {a1, a2}
  Leaves = {g1, g2, g3}
  NoLeaf = NoLeaf
  MaxEpochs = 2
SPECIFICATION FairSpec
CHECK_DEADLOCK FALSE
INVARIANTS
  NothingOutlivesItsGateway
  MembershipIsSound
PROPERTIES
  ContainmentIsKept
  DestructionIsAnswered
