-------------------------- MODULE MCGatewayRecovery --------------------------
(* Instances of GatewayRecovery for TLC, with thresholds and windows of a unit *)
(* or two.                                                                     *)
EXTENDS GatewayRecovery, TLC

\* Gateways are only compared for equality.
GatewaySymmetry == Permutations(Sources)
=============================================================================
