\* Two Gateways and the ticks of the monitor.
CONSTANTS
  Sources = {g1, g2}
  Threshold = 1
  MaxFailed = 1
  Cooldown = 1
  Reset = 2
  Deadline = 1
  Grace = 1
  StaleAfter = 1
  Stability = 1
  ChannelPolicy = FALSE
  Terminals = FALSE
  Stops = FALSE
SPECIFICATION LiveSpec
CHECK_DEADLOCK FALSE
PROPERTIES
  DeadGatewayIsRecovered
