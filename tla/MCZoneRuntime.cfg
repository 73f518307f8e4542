\* Three calls of any kind, with automatic recovery and VM processes that die.
SPECIFICATION Spec
CONSTANTS
  None = None
  Ops = {o1, o2, o3}
  Kinds = {"start", "stop", "restart", "refresh"}
  Recovers = TRUE
  VmsDie = TRUE
SYMMETRY Symmetry
CHECK_DEADLOCK FALSE
INVARIANTS
  ZoneIsServedOnce
  ExpiredStartIsNotPublished
  NoCallIsStuck
