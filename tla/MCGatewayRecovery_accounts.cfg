\* Two Gateways, every source of decisions, and a stop.
CONSTANTS
  Sources = {g1, g2}
  Threshold = 1
  MaxFailed = 1
  Cooldown = 1
  Reset = 2
  Deadline = 1
  Grace = 1
  StaleAfter = 1
  Stability = 1
  ChannelPolicy = TRUE
  Terminals = TRUE
  Stops = TRUE
SYMMETRY GatewaySymmetry
SPECIFICATION RecoverySpec
INVARIANTS
  RecoveriesAreAccounted
PROPERTIES
  EvidenceIsOfThisGateway
  LiveSessionKeepsTheGateway
CHECK_DEADLOCK FALSE
