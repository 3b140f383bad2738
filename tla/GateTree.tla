------------------------------ MODULE GateTree ------------------------------
(***************************************************************************)
(* A contributorGate routing one pull request's events to its prGate child *)
(* (src/src/worker/workflows/contributor-gate.ts), composed with PrGate.   *)
(*                                                                         *)
(* The contributor's other tasks (a decision, a CLA change, a cooldown     *)
(* refresh) appear as the task Other: an activity that succeeds, or fails  *)
(* for good and takes the run with it.  Its timers are never armed here.   *)
(*                                                                         *)
(* startChild and an external signal are commands: the server acts on them *)
(* in one step, the parent sees the answer in a later one, and signals to  *)
(* the parent are handled in between.                                      *)
(***************************************************************************)
EXTENDS PrGate

CONSTANTS
  MaxOthers,   \* bound: other tasks that are ever signalled
  TasksCap     \* TASKS_BEFORE_CONTINUE

ASSUME GateTreeAssumption == MaxOthers \in Nat /\ TasksCap \in Nat \ {0}

VARIABLES
  cpc,         \* where the contributorGate is suspended; "none": no run is open
  tasks,       \* tasks: envelopes, and Other, oldest first
  live,        \* liveChildren.has(childId)
  cprocessed,  \* tasks of this run, reset by Continue-As-New
  \* What an observer outside remembers
  sent,        \* envelopes signalled so far
  others,      \* other tasks signalled so far
  ours         \* the open prGate run was started by this contributorGate chain

parentVars == <<cpc, tasks, live, cprocessed, sent, others, ours>>
treeVars == <<vars, parentVars>>

Other == 0

ParentPoints ==
  {"none", "head", "wait", "other", "signal", "start", "started", "refused", "adopt"}

TreeInit ==
  /\ Init
  /\ cpc = "none" /\ tasks = <<>> /\ live = FALSE /\ cprocessed = 0
  /\ sent = 0 /\ others = 0 /\ ours = FALSE

-----------------------------------------------------------------------------
(* signalWithStart of the contributorGate with one more task. *)
PushTask(t) ==
  /\ tasks' = Append(tasks, t)
  /\ cpc' = IF cpc = "none" THEN "head" ELSE cpc
  /\ cprocessed' = IF cpc = "none" THEN 0 ELSE cprocessed
  /\ UNCHANGED <<vars, live, ours>>

PrEvent == sent < MaxEvents /\ sent' = sent + 1 /\ PushTask(sent + 1) /\ UNCHANGED others

OtherTask == others < MaxOthers /\ others' = others + 1 /\ PushTask(Other) /\ UNCHANGED sent

(* A project's re-gate goes straight to the prGate and may start it parentless. *)
TreeReGate == \E n \in 1..MaxNonces : ReGate(n) /\ UNCHANGED parentVars

-----------------------------------------------------------------------------
(* Mutant of ParentContinueAsNew: the tasks are left out of the next run's input. *)
ParentContinueAsNewEmpty ==
  /\ cpc = "head" /\ cprocessed >= TasksCap
  /\ cprocessed' = 0 /\ tasks' = <<>>
  /\ UNCHANGED <<vars, cpc, live, sent, others, ours>>

(* The loop test fails: queue and live children go to a fresh run. *)
ParentContinueAsNew ==
  /\ cpc = "head" /\ cprocessed >= TasksCap
  /\ cprocessed' = 0
  /\ UNCHANGED <<vars, cpc, tasks, live, sent, others, ours>>

(* Mutant of TakeTask: tasks are run past the cap. *)
TakeTaskUncapped ==
  /\ cpc = "head"
  /\ cpc' = CASE tasks = <<>> -> "wait"
              [] tasks # <<>> /\ Head(tasks) = Other -> "other"
              [] tasks # <<>> /\ Head(tasks) # Other -> IF live THEN "signal" ELSE "start"
  /\ UNCHANGED <<vars, tasks, live, cprocessed, sent, others, ours>>

(* The loop test holds: run the first task, or wait for one. *)
TakeTask ==
  /\ cpc = "head" /\ cprocessed < TasksCap
  /\ cpc' = CASE tasks = <<>> -> "wait"
              [] tasks # <<>> /\ Head(tasks) = Other -> "other"
              [] tasks # <<>> /\ Head(tasks) # Other -> IF live THEN "signal" ELSE "start"
  /\ UNCHANGED <<vars, tasks, live, cprocessed, sent, others, ours>>

Wake ==
  /\ cpc = "wait" /\ tasks # <<>>
  /\ cpc' = "head"
  /\ UNCHANGED <<vars, tasks, live, cprocessed, sent, others, ours>>

(* The task is done: shift and count. *)
TaskDone ==
  /\ cpc' = "head" /\ tasks' = Tail(tasks) /\ cprocessed' = cprocessed + 1
  /\ UNCHANGED <<sent, others>>

OtherDone == cpc = "other" /\ TaskDone /\ UNCHANGED <<vars, live, ours>>

(* Mutant of SignalLive: an envelope that finds its child gone is queued again. *)
SignalLiveRequeue ==
  /\ cpc = "signal"
  /\ \/ SignalEvent(Head(tasks)) /\ TaskDone /\ UNCHANGED <<live, ours>>
     \/ /\ pc = "none"
        /\ live' = FALSE /\ cpc' = "head" /\ tasks' = Append(Tail(tasks), Head(tasks))
        /\ UNCHANGED <<vars, cprocessed, sent, others, ours>>

(* Mutant of SignalLive: a child that is gone stays in the live set. *)
SignalLiveKeeping ==
  /\ cpc = "signal"
  /\ \/ SignalEvent(Head(tasks)) /\ TaskDone /\ UNCHANGED <<live, ours>>
     \/ /\ pc = "none"
        /\ cpc' = "head"
        /\ UNCHANGED <<vars, tasks, live, cprocessed, sent, others, ours>>

(* deliverPrEvent, child in the live set: signal it; if it has completed, drop *)
(* it from the set and start it again.                                          *)
SignalLive ==
  /\ cpc = "signal"
  /\ \/ SignalEvent(Head(tasks)) /\ TaskDone /\ UNCHANGED <<live, ours>>
     \/ /\ pc = "none"
        /\ live' = FALSE /\ cpc' = "start"
        /\ UNCHANGED <<vars, tasks, cprocessed, sent, others, ours>>

(* startChild on the server: a fresh child, or refused because one is running. *)
ServerStart ==
  /\ cpc = "start"
  /\ \/ StartChild(Head(tasks)) /\ cpc' = "started" /\ ours' = TRUE
     \/ Listening /\ cpc' = "refused" /\ UNCHANGED <<vars, ours>>
  /\ UNCHANGED <<tasks, live, cprocessed, sent, others>>

(* Mutant of ChildStarted: the started child is not added to the live set. *)
ChildStartedUnlisted == cpc = "started" /\ TaskDone /\ UNCHANGED <<vars, live, ours>>

(* startChild resolves: the child counts as live from here on. *)
ChildStarted == cpc = "started" /\ live' = TRUE /\ TaskDone /\ UNCHANGED <<vars, ours>>

(* startChild rejects: adopt the running child. *)
ChildRefused ==
  /\ cpc = "refused"
  /\ live' = TRUE /\ cpc' = "adopt"
  /\ UNCHANGED <<vars, tasks, cprocessed, sent, others, ours>>

(* Signal the adopted child; if it is gone by now the envelope is given up. *)
SignalAdopted ==
  /\ cpc = "adopt"
  /\ SignalEvent(Head(tasks)) \/ (pc = "none" /\ UNCHANGED vars)
  /\ TaskDone
  /\ UNCHANGED <<live, ours>>

ParentGone ==
  /\ cpc' = "none" /\ tasks' = <<>> /\ live' = FALSE /\ cprocessed' = 0 /\ ours' = FALSE
  /\ UNCHANGED <<vars, sent, others>>

(* No task, no live child, and nothing came for IDLE_TIMEOUT_MS. *)
ParentIdle == cpc = "wait" /\ tasks = <<>> /\ ~live /\ ParentGone

(* A task's activity failed its last attempt: the run fails. *)
ParentFail == cpc = "other" /\ ParentGone

-----------------------------------------------------------------------------
(* prChildCompleted: the handler drops the child from the set and wakes the wait. *)
TreeNotify ==
  /\ NotifyParent
  /\ live' = FALSE
  /\ cpc' = IF cpc = "wait" THEN "head" ELSE cpc
  /\ UNCHANGED <<tasks, cprocessed, sent, others, ours>>

(* The child's run closes. *)
ChildCloses ==
  /\ CapComplete \/ Fail \/ Complete
  /\ ours' = FALSE
  /\ UNCHANGED <<cpc, tasks, live, cprocessed, sent, others>>

(* Every other step of the child is its own. *)
ChildStep ==
  /\ \/ ContinueAsNew \/ EnterLoop \/ TakeEvent \/ EventConverged
     \/ TakeReGate \/ ReGateConverged \/ IdleTimeout
  /\ UNCHANGED parentVars

ChildWork == TreeNotify \/ ChildCloses \/ ChildStep

ParentWork ==
  \/ ParentContinueAsNew \/ TakeTask \/ Wake \/ OtherDone \/ ParentFail \/ ParentIdle
  \/ SignalLive \/ ServerStart \/ ChildStarted \/ ChildRefused \/ SignalAdopted

TreeNext == PrEvent \/ OtherTask \/ TreeReGate \/ ParentWork \/ ChildWork

TreeSpec ==
  TreeInit /\ [][TreeNext]_treeVars /\ WF_treeVars(ParentWork) /\ WF_treeVars(ChildWork)

-----------------------------------------------------------------------------
TreeTypeOK ==
  /\ TypeOK
  /\ cpc \in ParentPoints
  /\ tasks \in Seq(0..MaxEvents)
  /\ live \in BOOLEAN /\ ours \in BOOLEAN
  /\ cprocessed \in 0..TasksCap
  /\ sent \in 0..MaxEvents /\ others \in 0..MaxOthers

(* A child the server has already started from Head(tasks) holds that envelope. *)
Ahead == IF cpc = "started" THEN Tail(tasks) ELSE tasks
InTasks == Range(Ahead) \ {Other}

InHand == InTasks \cup owed

(* The tree implements the ordered at-most-once mailbox. *)
Mailbox == INSTANCE EventMailbox WITH waiting <- InHand, last <- lastConverged
ImplementsMailbox == Mailbox!MSpec

(* contributor-gate.ts:89-91 "completes only once all report done (an ABANDON   *)
(* child is therefore never orphaned by the parent idling out)": a gate that    *)
(* completes for idleness leaves no child of its own that has yet to report.    *)
IdleNeverOrphans ==
  [][cpc = "wait" /\ cpc' = "none" => ~(ours /\ pc # "none" /\ pc # "notified")]_treeVars

(* An envelope leaves the tree by being converged; else a run went down with it: *)
(* it failed, it was on its way out when the envelope was accepted, or the child *)
(* to adopt completed first.  Rolling, idling, restarting a child lose nothing.  *)
LostOnlyWithItsRun ==
  [][\A e \in InHand \ InHand' :
       \/ e = lastConverged'
       \/ pc' = "none" /\ pc \in {"event", "regate", "leave", "notified"}
       \/ cpc = "other" /\ cpc' = "none"
       \/ cpc = "adopt" /\ pc = "none"]_treeVars

(* Once the senders fall silent the contributor's queue drains and the child    *)
(* completes, whatever starts, refusals, adoptions and rolls it takes.          *)
TreeDrains == <>[][ParentWork \/ ChildWork]_treeVars => <>[](tasks = <<>> /\ pc = "none")
=============================================================================
