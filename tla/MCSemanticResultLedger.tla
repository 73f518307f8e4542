----------------------- MODULE MCSemanticResultLedger -----------------------
(* Small instances of SemanticResultLedger for TLC.                        *)
EXTENDS SemanticResultLedger, TLC

MCSymmetry == Permutations(Keys) \cup Permutations(Meanings)
=============================================================================
