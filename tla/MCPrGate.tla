------------------------------ MODULE MCPrGate ------------------------------
(* prGate for TLC: the parameters are numbers and small sets of numbers, so    *)
(* the configurations give them directly.                                      *)
EXTENDS PrGate
=============================================================================
