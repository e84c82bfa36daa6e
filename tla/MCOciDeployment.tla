--------------------------- MODULE MCOciDeployment ---------------------------
(***************************************************************************)
(* Instances of the deployment: two deployers, one or two recoverers.      *)
(***************************************************************************)
EXTENDS OciDeployment, TLC

CONSTANTS d1, d2, q1, q2, r1, r2, r3

DeployersAndReleases == Permutations({d1, d2}) \cup Permutations({r2, r3}) \cup Permutations(Recoverers)
=============================================================================
