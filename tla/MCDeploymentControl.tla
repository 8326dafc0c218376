------------------------- MODULE MCDeploymentControl -------------------------
(***************************************************************************)
(* DeploymentControl on a chain of up to three deployments.                *)
(***************************************************************************)
EXTENDS DeploymentControl, TLC

Symmetric == Permutations(Policies) \cup Permutations(Requests)
               \cup Permutations(Conversations)
=============================================================================
