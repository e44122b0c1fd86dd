---------------------------- MODULE MCMeshSync ----------------------------
(* Both managers and one agent; every constant is a number or a flag.      *)
EXTENDS MeshSync
=============================================================================
