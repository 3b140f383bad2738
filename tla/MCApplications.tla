--------------------------- MODULE MCApplications ---------------------------
(* Applications for TLC: its constants are given in the .cfg. *)
EXTENDS Applications
=============================================================================
