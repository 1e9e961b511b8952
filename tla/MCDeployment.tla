---------------------------- MODULE MCDeployment ----------------------------
(***************************************************************************)
(* Instances of Deployment.                                                *)
(***************************************************************************)
EXTENDS Deployment, TLC

\* Operations differ by who calls them only.
Interchangeable == Permutations(Clients)
=============================================================================
