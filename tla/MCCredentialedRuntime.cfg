\* Two commands and an administrative call of any kind on one agent, a change of
\* its credentials, and crashes.
SPECIFICATION Spec
CONSTANTS
  Agents = {a1}
  Commands = {c1, c2}
  Admins = {m1}
  AdminKinds = {"retire", "force-retire", "invalidate", "close", "reap"}
  None = None
  MaxMaterial = 1
  MaxCrashes = 1
SYMMETRY Symmetry
CHECK_DEADLOCK FALSE
INVARIANTS
  LockAndCloseHold
  RunningVmIsRecorded
  InvalidatedMaterialIsGone
  NoCallIsStuck
PROPERTIES
  OnlyForceInterruptsCommands
