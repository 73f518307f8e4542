----------------------- MODULE MCToolVmLeaseAuthority -----------------------
(* The lease authority of one agent for TLC: two profile assignment        *)
(* revisions, two generations of its Tool VM, and the work on them.        *)
EXTENDS ToolVmLeaseAuthority, TLC

CONSTANTS a1, p1, p2

MCAgentOf == p1 :> a1 @@ p2 :> a1

\* Generations are interchangeable: the reducer only compares them for equality.
GenerationSymmetry == Permutations(LeafGenerations)
=============================================================================
