----------------------------- MODULE MCGateTree -----------------------------
(* The contributor/PR tree for TLC. *)
EXTENDS GateTree
=============================================================================
