\* One agent with two profile revisions, a rollover, two uses, two processes, two attachments.
SPECIFICATION Spec
CONSTANTS
  a1 = a1
  p1 = p1
  p2 = p2
  Agents = {a1}
  Principals = {p1, p2}
  AgentOf <- MCAgentOf
  LeafGenerations = {g1, g2}
  UseIds = {u1, u2}
  ProcessEpochs = {e1, e2}
  SessionAttachments = {1, 2}
  IdleTtl = 1
  ObservationGapGrace = 1
  LeafTombstoneTtl = 1
  TerminalUseTombstoneTtl = 1
  MaxLeafTombstones = 2
  MaxTerminalUseTombstones = 1
  MaxTime = 1
SYMMETRY GenerationSymmetry
INVARIANTS
  Ownership
  WorkIsAttributable
PROPERTIES
  LeavesAreHeldUntilDestroyed
  SealedParentAdmitsNothing
CHECK_DEADLOCK FALSE
