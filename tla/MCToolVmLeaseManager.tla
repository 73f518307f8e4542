------------------------ MODULE MCToolVmLeaseManager ------------------------
(* Instances of ToolVmLeaseManager for TLC.                                *)
EXTENDS ToolVmLeaseManager

TwoLeaves == 1..2
ThreeLeaves == 1..3
=============================================================================
