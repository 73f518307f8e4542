--------------------- MODULE MCControllerApprovalLedger ---------------------
(* Small instances of ControllerApprovalLedger for TLC.                    *)
EXTENDS ControllerApprovalLedger, TLC

MCSymmetry == Permutations(Callers)
=============================================================================
