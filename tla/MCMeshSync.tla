----------------------------- MODULE MCMeshSync -----------------------------
(* Instances of MeshSync for TLC. *)
EXTENDS MeshSync, TLC

CONSTANTS v1, v2

PrintOrder == (v1 :> 1) @@ (v2 :> 2)
=============================================================================
