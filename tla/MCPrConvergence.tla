-------------------------- MODULE MCPrConvergence --------------------------
(* One pull request under all its writers, for TLC.                          *)
EXTENDS PrConvergence
=============================================================================
