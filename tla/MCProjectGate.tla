---- MODULE MCProjectGate ----
(* Two rows a page, a third row that may be written during the fan-out. *)
EXTENDS ProjectGate
====
