------------------------ MODULE MCCredentialedRuntime -----------------------
(* Instances of CredentialedRuntime.                                       *)
EXTENDS CredentialedRuntime, TLC

Symmetry == Permutations(Agents) \cup Permutations(Commands) \cup Permutations(Admins)

=============================================================================
