---- MODULE MCQaBoard ----
(* An item of the batch in flight on two boards. *)
EXTENDS QaBoard
MCBatchOf == [i \in Items |-> i]
====
