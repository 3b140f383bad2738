------------------------------- MODULE PrGate -------------------------------
(***************************************************************************)
(* The per-PR entity workflow `prGate` (src/src/worker/workflows/pr-gate.ts)*)
(* one execution chain for one (repository, pull request).                 *)
(*                                                                         *)
(* Temporal runs workflow code atomically from one await to the next, runs *)
(* signal handlers before the main coroutine is resumed, and lets a signal *)
(* in at every await.  So a step here is the code between two awaits, and  *)
(* a signal is a step that may fall between any two of them.               *)
(*                                                                         *)
(* Events and re-gate nonces are numbered in the order they are first      *)
(* sent: an envelope's payload and a nonce's text play no part.            *)
(***************************************************************************)
EXTENDS Naturals, Sequences, Functions

CONSTANTS
  MaxEvents,        \* bound: pull_request envelopes that are ever delivered
  CloseEvents,      \* the envelopes with action `closed`: only they can be terminal
  MaxNonces,        \* bound: distinct re-gate requests that are ever sent
  EventsCap,        \* EVENTS_BEFORE_CONTINUE
  SuggestFrom       \* the server may set continueAsNewSuggested from here on

ASSUME PrGateAssumption ==
  /\ MaxEvents \in Nat /\ MaxNonces \in Nat
  /\ CloseEvents \subseteq 1..MaxEvents
  /\ EventsCap \in Nat \ {0} /\ SuggestFrom \in Nat \ {0}

VARIABLES
  pc,             \* where the run is suspended; "none": no run is open
  hasParent,      \* workflowInfo().parent is set (started by a contributorGate)
  queue,          \* queue: envelopes not yet converged, oldest first
  pendingReGate,  \* pendingReGate.nonce, 0 for null
  lastNonce,      \* lastNonce, 0 for null
  req,            \* the re-gate request being converged, 0 if none
  terminal,       \* the last event converge answered `terminal`
  processed,      \* converges of this run, reset by Continue-As-New
  \* What an observer outside remembers; no step reads these
  arrivals,       \* envelopes accepted so far
  owed,           \* envelopes this chain accepted and has not converged
  lastConverged,  \* the newest envelope ever converged
  asked,          \* the newest nonce ever sent
  settled,        \* no nonce up to here awaits a converge of this chain
  displaced       \* a nonce already applied came again and took the slot of a newer one

gateVars == <<pc, hasParent, queue, pendingReGate, lastNonce, req, terminal, processed>>
ghostVars == <<arrivals, owed, lastConverged, asked, settled, displaced>>
vars == <<pc, hasParent, queue, pendingReGate, lastNonce, req, terminal, processed,
          arrivals, owed, lastConverged, asked, settled, displaced>>

Points == {"none", "head", "wait", "event", "regate", "leave", "notified"}

(* The run still reads its queue: it is not on its way out. *)
Serving == pc \in {"head", "wait", "event", "regate"}

(* A signal finds the run open.  Without a parent notifyParentCompleted returns *)
(* at once, so leaving and completing are one activation no signal gets into.   *)
Listening == pc # "none" /\ ~(pc = "leave" /\ ~hasParent)

Init ==
  /\ pc = "none" /\ hasParent = FALSE /\ queue = <<>>
  /\ pendingReGate = 0 /\ lastNonce = 0 /\ req = 0
  /\ terminal = FALSE /\ processed = 0
  /\ arrivals = 0 /\ owed = {} /\ lastConverged = 0 /\ asked = 0 /\ settled = 0
  /\ displaced = FALSE

-----------------------------------------------------------------------------
(* A run opens with this queue and this pending request. *)
Open(parent, events, nonce) ==
  /\ pc = "none"
  /\ pc' = "head" /\ hasParent' = parent /\ queue' = events
  /\ pendingReGate' = nonce /\ lastNonce' = 0 /\ req' = 0
  /\ terminal' = FALSE /\ processed' = 0

(* A run closes; what it still held goes down with it. *)
Close ==
  /\ pc' = "none" /\ hasParent' = FALSE /\ queue' = <<>>
  /\ pendingReGate' = 0 /\ lastNonce' = 0 /\ req' = 0
  /\ terminal' = FALSE /\ processed' = 0
  /\ owed' = {} /\ settled' = asked /\ displaced' = FALSE
  /\ UNCHANGED <<arrivals, lastConverged, asked>>

Accept(e) == arrivals' = e /\ owed' = owed \cup {e}

(* A contributorGate starts the entity as its child, `first` in the start args. *)
StartChild(e) ==
  /\ Open(TRUE, <<e>>, 0)
  /\ Accept(e)
  /\ UNCHANGED <<lastConverged, asked, settled, displaced>>

(* Handler of `githubEvent` in an open run. *)
SignalEvent(e) ==
  /\ Listening
  /\ queue' = Append(queue, e)
  /\ Accept(e)
  /\ UNCHANGED <<pc, hasParent, pendingReGate, lastNonce, req, terminal, processed,
                 lastConverged, asked, settled, displaced>>

(* signalWithStart of `githubEvent`: the route for a PR whose repository is *)
(* not managed or whose author is unknown; it starts a parentless run.      *)
SignalWithStartEvent(e) ==
  \/ SignalEvent(e)
  \/ /\ Open(FALSE, <<e>>, 0)
     /\ Accept(e)
     /\ UNCHANGED <<lastConverged, asked, settled, displaced>>

(* Handler of `reGate`: whatever comes overwrites the slot. *)
SignalReGate(n) ==
  /\ Listening
  /\ pendingReGate' = n
  /\ asked' = IF n > asked THEN n ELSE asked
  /\ displaced' = (n < asked /\ n \in {lastNonce, req})
  /\ UNCHANGED <<pc, hasParent, queue, lastNonce, req, terminal, processed,
                 arrivals, owed, lastConverged, settled>>

(* signalPrReGate: signal the open run, or start a parentless one.  There are   *)
(* two senders: a fan-out, whose activity is retried as a unit and repeats its   *)
(* nonce, and an admin's re-evaluation, which sends one of its own past          *)
(* projectGate.  So a nonce may come again after a newer one.                    *)
ReGate(n) ==
  /\ n <= MaxNonces /\ n <= asked + 1
  /\ \/ SignalReGate(n)
     \/ /\ Open(FALSE, <<>>, n)
        /\ asked' = IF n > asked THEN n ELSE asked
        /\ UNCHANGED <<arrivals, owed, lastConverged, settled, displaced>>

-----------------------------------------------------------------------------
HasWork == queue # <<>> \/ pendingReGate # 0

MayContinueAsNew == processed >= SuggestFrom \/ processed >= EventsCap

(* Mutant of ContinueAsNew: the new run's input leaves the queue out. *)
ContinueAsNewWithoutQueue ==
  /\ pc = "head" /\ MayContinueAsNew /\ HasWork
  /\ processed' = 0 /\ queue' = <<>>
  /\ UNCHANGED <<pc, hasParent, pendingReGate, lastNonce, req, terminal, ghostVars>>

(* The loop test fails and there is work: the chain goes on in a new run. *)
ContinueAsNew ==
  /\ pc = "head" /\ MayContinueAsNew /\ HasWork
  /\ processed' = 0
  /\ UNCHANGED <<pc, hasParent, queue, pendingReGate, lastNonce, req, terminal, ghostVars>>

(* The loop test fails with nothing pending: the run returns. *)
CapComplete == pc = "head" /\ MayContinueAsNew /\ ~HasWork /\ Close

(* The loop test holds: on to `condition(queue or pendingReGate, IDLE_TIMEOUT)`. *)
EnterLoop ==
  /\ pc = "head" /\ processed < EventsCap
  /\ pc' = "wait"
  /\ UNCHANGED <<hasParent, queue, pendingReGate, lastNonce, req, terminal, processed, ghostVars>>

(* Events first: convergePrEvent is scheduled on the head, which stays queued. *)
TakeEvent ==
  /\ pc = "wait" /\ queue # <<>>
  /\ pc' = "event"
  /\ UNCHANGED <<hasParent, queue, pendingReGate, lastNonce, req, terminal, processed, ghostVars>>

(* The activity answers: shift, count, and leave the loop if the close was final. *)
EventConverged ==
  /\ pc = "event"
  /\ queue' = Tail(queue) /\ processed' = processed + 1
  /\ owed' = owed \ {Head(queue)} /\ lastConverged' = Head(queue)
  /\ \/ pc' = "head" /\ terminal' = FALSE
     \/ Head(queue) \in CloseEvents /\ pc' = "leave" /\ terminal' = TRUE
  /\ UNCHANGED <<hasParent, pendingReGate, lastNonce, req, arrivals, asked, settled, displaced>>

(* No events: take the pending request; one already applied costs no converge. *)
TakeReGate ==
  /\ pc = "wait" /\ queue = <<>> /\ pendingReGate # 0
  /\ pendingReGate' = 0
  /\ IF pendingReGate = lastNonce
     THEN pc' = "head" /\ UNCHANGED <<req, settled>>
     ELSE pc' = "regate" /\ req' = pendingReGate /\ settled' = asked
  /\ UNCHANGED <<hasParent, queue, lastNonce, terminal, processed,
                 arrivals, owed, lastConverged, asked, displaced>>

(* Mutant of ReGateConverged: the slot is cleared after the await, not before. *)
ReGateConvergedClearing ==
  /\ pc = "regate"
  /\ pc' = "head" /\ lastNonce' = req /\ req' = 0 /\ processed' = processed + 1
  /\ pendingReGate' = 0
  /\ UNCHANGED <<hasParent, queue, terminal, ghostVars>>

ReGateConverged ==
  /\ pc = "regate"
  /\ pc' = "head" /\ lastNonce' = req /\ req' = 0 /\ processed' = processed + 1
  /\ UNCHANGED <<hasParent, queue, pendingReGate, terminal, ghostVars>>

(* A converge failed its last attempt (or failed for good): the run fails. *)
Fail == pc \in {"event", "regate"} /\ Close

(* Nothing came for IDLE_TIMEOUT. *)
IdleTimeout ==
  /\ pc = "wait" /\ ~HasWork
  /\ pc' = "leave"
  /\ UNCHANGED <<hasParent, queue, pendingReGate, lastNonce, req, terminal, processed, ghostVars>>

(* notifyParentCompleted: prChildCompleted reaches the parent, or finds it gone. *)
NotifyParent ==
  /\ pc = "leave" /\ hasParent
  /\ pc' = "notified"
  /\ UNCHANGED <<hasParent, queue, pendingReGate, lastNonce, req, terminal, processed, ghostVars>>

(* `return`: the execution closes with whatever its queue holds. *)
Complete == (pc = "notified" \/ (pc = "leave" /\ ~hasParent)) /\ Close

-----------------------------------------------------------------------------
(* What others do: the next envelope, by either route, or a re-gate. *)
Deliver ==
  /\ arrivals < MaxEvents
  /\ StartChild(arrivals + 1) \/ SignalWithStartEvent(arrivals + 1)

Environment == Deliver \/ \E n \in 1..MaxNonces : ReGate(n)

Settle == TakeEvent \/ EventConverged \/ TakeReGate \/ ReGateConverged \/ Fail

(* What the worker does, every step of it an activation Temporal schedules. *)
Work ==
  \/ ContinueAsNew \/ CapComplete \/ EnterLoop
  \/ Settle
  \/ IdleTimeout \/ NotifyParent \/ Complete

Next == Environment \/ Work

Spec == Init /\ [][Next]_vars

-----------------------------------------------------------------------------
TypeOK ==
  /\ pc \in Points
  /\ hasParent \in BOOLEAN /\ terminal \in BOOLEAN
  /\ queue \in Seq(1..MaxEvents)
  /\ pendingReGate \in 0..MaxNonces /\ lastNonce \in 0..MaxNonces /\ req \in 0..MaxNonces
  /\ processed \in 0..EventsCap
  /\ arrivals \in 0..MaxEvents /\ lastConverged \in 0..MaxEvents
  /\ owed \subseteq 1..MaxEvents
  /\ asked \in 0..MaxNonces /\ settled \in 0..MaxNonces
  /\ displaced \in BOOLEAN

(* pr-gate.ts:151-153 "Keep the event in the queue until the activity succeeds *)
(* so a Continue-As-New (or crash) never drops it": what an open run was handed *)
(* and has not converged is in its queue, across every await and every roll.    *)
NoEventForgotten == pc # "none" => owed = Range(queue)

(* Envelopes carry the state of the PR at their time, so converging one after a *)
(* newer one would write a stale state back: they go in the order delivered.    *)
EventsInOrder ==
  /\ \A i \in 1..Len(queue) : lastConverged < queue[i]
  /\ \A i, j \in 1..Len(queue) : i < j => queue[i] < queue[j]

(* pr-gate.ts:109-110: a newer request subsumes an older un-applied one, and   *)
(* none is lost: while the run serves, the newest request that no re-gate       *)
(* converge has started since is covered by the one pending, which will not be  *)
(* skipped.  One thing the code lets happen is left out: a repeated nonce that  *)
(* was applied already takes the slot of a newer one, and both are skipped.     *)
NoReGateForgotten ==
  Serving /\ settled < asked /\ ~displaced => pendingReGate # 0 /\ pendingReGate # lastNonce

=============================================================================
