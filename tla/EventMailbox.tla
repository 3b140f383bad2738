---------------------------- MODULE EventMailbox ----------------------------
(***************************************************************************)
(* What the entity tree promises for the envelopes of one pull request,    *)
(* whatever workflows they pass through: each is converged at most once,   *)
(* none that was not sent, and never after a newer one.  An envelope may   *)
(* be dropped (a run that fails takes its queue along; the reconcile sweep *)
(* is the safety net), so nothing is promised about all being converged.   *)
(***************************************************************************)
EXTENDS Naturals

CONSTANT MaxEvents

VARIABLES sent, waiting, last

mailbox == <<sent, waiting, last>>

MInit == sent = 0 /\ waiting = {} /\ last = 0

(* The next envelope is handed in. *)
Send ==
  /\ sent < MaxEvents
  /\ sent' = sent + 1 /\ waiting' = waiting \cup {sent + 1}
  /\ UNCHANGED last

(* The oldest one waiting takes effect; it is newer than all that did. *)
Converge ==
  \E e \in waiting :
    /\ e > last /\ \A f \in waiting : e <= f
    /\ last' = e /\ waiting' \subseteq waiting \ {e}
    /\ UNCHANGED sent

Drop ==
  /\ waiting' \subseteq waiting
  /\ UNCHANGED <<sent, last>>

MNext == Send \/ Converge \/ Drop

MSpec == MInit /\ [][MNext]_mailbox
=============================================================================
