---------------------------- MODULE MCDeliveries ----------------------------
(* Two deliveries of one merge group's head: the second start is refused. *)
EXTENDS Deliveries
CONSTANTS r1, r2, e1, e2, g1, g2, h1, ep1, ep2

SameHead == [g \in {g1, g2} |-> h1]
=============================================================================
