---------------------------- MODULE MCZoneRuntime ---------------------------
(* Instances of ZoneRuntime for TLC.                                       *)
EXTENDS ZoneRuntime, TLC

Symmetry == Permutations(Ops)
=============================================================================
