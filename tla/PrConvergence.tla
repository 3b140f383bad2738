---------------------------- MODULE PrConvergence ----------------------------
(***************************************************************************)
(* What becomes of one pull request of one contributor: its state on       *)
(* GitHub, its PrCheck row, the contributor's Application, and the four     *)
(* writers that act on them concurrently, each one await at a time:         *)
(*   - convergePr, serialized per PR by prGate (lib/github/webhook.ts);     *)
(*   - the post-decision fan-out, serialized with webhook delivery by       *)
(*     contributorGate (lib/github/post-decision.ts);                       *)
(*   - the hourly reconcile sweep (lib/github/reconcile.ts), which nothing  *)
(*     serializes with the other two;                                       *)
(*   - people on GitHub and in the dashboard.                               *)
(* The project requires an application and neither a CLA nor DCO, so a      *)
(* verdict is APPROVED, PENDING or DENIED.                                  *)
(***************************************************************************)
EXTENDS Naturals, Sequences

CONSTANTS
  MaxActs,       \* bound: what people do to the PR on GitHub
  MaxDecisions,  \* bound: decisions and resubmissions of the application
  MaxFaults,     \* bound: worker crashes, refused GitHub calls, lost writes
  MaxSteps       \* bound: all of these together

ASSUME ConvergenceAssumption ==
  {MaxActs, MaxDecisions, MaxFaults, MaxSteps} \subseteq Nat

VARIABLES
  apps,       \* Application.status of the contributor's applications, oldest first
  pr,         \* the PR on GitHub, and who closed it
  row,        \* its PrCheck; status "none" before the first converge
  tasks,      \* contributorGate's tasks: webhooks and decisions, oldest first
  inbox,      \* prGate's queue of webhooks
  reGate,     \* prGate has a pending re-gate
  gate,       \* the converge in flight in prGate
  fan,        \* the fan-out of the decision at the head of tasks
  sweep,      \* the reconcile sweep's work on this PR
  acts, decisions, faults,   \* spent of the bounds
  \* What an observer remembers; no step reads these
  past,          \* the kinds of decision ever taken
  lapses         \* effects that failed and that the code does not try again

work == <<tasks, inbox, reGate, gate, fan, sweep>>
spent == <<acts, decisions, faults>>
ghosts == <<past, lapses>>
vars == <<apps, pr, row, tasks, inbox, reGate, gate, fan, sweep,
          acts, decisions, faults, past, lapses>>

Blocking == {"PENDING", "DENIED"}
DecisionKinds == {"approved", "denied", "revoked"}
TaskKinds == {"gate", "evaluate", "closed"} \cup DecisionKinds

(* A webhook carries the PR's state at the time it was sent, a decision the *)
(* application it is about.                                                 *)
Event(kind, closed) == [kind |-> kind, closed |-> closed, about |-> 0]
Decision(kind, i) == [kind |-> kind, closed |-> FALSE, about |-> i]

(* Only the newest application counts for a PR (orderBy createdAt desc). *)
Newest == apps[Len(apps)]

NoConverge == [at |-> "idle", event |-> FALSE, closed |-> FALSE,
               reEval |-> FALSE, verdict |-> "none"]

Init ==
  /\ apps = <<"SUBMITTED">> /\ pr = "open"
  /\ row = [status |-> "none", closedByApp |-> FALSE]
  /\ tasks = <<Event("gate", FALSE)>> /\ inbox = <<>> /\ reGate = FALSE
  /\ gate = NoConverge /\ fan = "idle" /\ sweep = "idle"
  /\ acts = 0 /\ decisions = 0 /\ faults = 0
  /\ past = {} /\ lapses = {}

-----------------------------------------------------------------------------
(* GitHub.  Closing a closed PR changes nothing and sends no webhook; a merged *)
(* PR cannot be reopened.                                                      *)
closePullRequest ==
  IF pr = "open"
  THEN pr' = "botClosed" /\ tasks' = Append(tasks, Event("closed", TRUE))
  ELSE UNCHANGED <<pr, tasks>>

reopenPullRequest ==
  /\ pr # "merged"
  /\ IF pr = "open" THEN UNCHANGED <<pr, tasks>>
     ELSE pr' = "open" /\ tasks' = Append(tasks, Event("gate", FALSE))

(* Each step the bounds are about spends one of its kind and one of them all. *)
Within == acts + decisions + faults < MaxSteps

Fault == Within /\ faults < MaxFaults /\ faults' = faults + 1

-----------------------------------------------------------------------------
(* People on GitHub: a push, a close, a merge, a reopening, the evaluate label. *)
Act(state, event) ==
  /\ Within /\ acts < MaxActs /\ acts' = acts + 1
  /\ pr' = state /\ tasks' = Append(tasks, event)
  /\ UNCHANGED <<apps, row, inbox, reGate, gate, fan, sweep, decisions, faults, ghosts>>

Push == pr = "open" /\ Act("open", Event("gate", FALSE))
HumanCloses == pr = "open" /\ Act("humanClosed", Event("closed", TRUE))
Merge == pr = "open" /\ Act("merged", Event("closed", TRUE))
HumanReopens == pr \in {"botClosed", "humanClosed"} /\ Act("open", Event("gate", FALSE))
Label == Act(pr, Event("evaluate", pr # "open"))

(* "Re-evaluate" in the dashboard, or a settings change: straight to prGate. *)
AskReGate ==
  /\ Within /\ acts < MaxActs /\ acts' = acts + 1
  /\ reGate' = TRUE
  /\ UNCHANGED <<apps, pr, row, tasks, inbox, gate, fan, sweep, decisions, faults, ghosts>>

(* A decision on an application, be it the newest or not: its row, then its *)
(* task for contributorGate.                                                 *)
Decide(from, to, kind) ==
  /\ Within /\ decisions < MaxDecisions /\ decisions' = decisions + 1
  /\ \E i \in DOMAIN apps :
       /\ apps[i] \in from /\ apps' = [apps EXCEPT ![i] = to]
       /\ tasks' = Append(tasks, Decision(kind, i))
  /\ past' = past \cup {kind}
  /\ UNCHANGED <<pr, row, inbox, reGate, gate, fan, sweep, acts, faults, lapses>>

approveAction == Decide({"SUBMITTED", "DENIED"}, "APPROVED", "approved")
denyAction == Decide({"SUBMITTED"}, "DENIED", "denied")

(* Mutant of revokeAction: the form's target is stored as the status. *)
revokeActionVerbatim ==
  \E target \in {"DENIED", "SUBMITTED", "PENDING"} : Decide({"APPROVED"}, target, "revoked")

revokeAction == \E target \in {"DENIED", "SUBMITTED"} : Decide({"APPROVED"}, target, "revoked")

(* The applicant submits again: a new application, and nothing is fanned out. *)
Resubmit ==
  /\ Within /\ decisions < MaxDecisions /\ decisions' = decisions + 1
  /\ Newest = "DENIED" /\ apps' = Append(apps, "SUBMITTED")
  /\ UNCHANGED <<pr, row, work, acts, faults, ghosts>>

-----------------------------------------------------------------------------
(* prGate.  The converge is over: an event's leaves the queue only now. *)
Converged ==
  /\ gate' = NoConverge
  /\ inbox' = IF gate.event THEN Tail(inbox) ELSE inbox

GateStep == UNCHANGED <<apps, reGate, fan, sweep, acts, decisions, past>>

TakeEvent ==
  /\ gate.at = "idle" /\ inbox # <<>> /\ Head(inbox).kind # "closed"
  /\ gate' = [at |-> "decide", event |-> TRUE, closed |-> Head(inbox).closed,
              reEval |-> Head(inbox).kind = "evaluate", verdict |-> "none"]
  /\ UNCHANGED <<pr, row, tasks, inbox, faults, lapses>> /\ GateStep

(* Mutant of handlePrClosed: every close is terminal. *)
handlePrClosedTerminal ==
  /\ gate.at = "idle" /\ inbox # <<>> /\ Head(inbox).kind = "closed"
  /\ inbox' = <<>> /\ reGate' = FALSE
  /\ UNCHANGED <<apps, pr, row, tasks, gate, fan, sweep, spent, ghosts>>

(* A close the app did not make is terminal: prGate leaves, its queue with it. *)
handlePrClosed ==
  /\ gate.at = "idle" /\ inbox # <<>> /\ Head(inbox).kind = "closed"
  /\ IF row.closedByApp
     THEN inbox' = Tail(inbox) /\ UNCHANGED reGate
     ELSE inbox' = <<>> /\ reGate' = FALSE
  /\ UNCHANGED <<apps, pr, row, tasks, gate, fan, sweep, spent, ghosts>>

TakeReGate ==
  /\ gate.at = "idle" /\ inbox = <<>> /\ reGate
  /\ reGate' = FALSE /\ gate' = [NoConverge EXCEPT !.at = "fetch", !.reEval = TRUE]
  /\ UNCHANGED <<apps, pr, row, tasks, inbox, fan, sweep, spent, ghosts>>

(* A re-gate reads the PR afresh; a failed read ends it without a retry. *)
Fetch ==
  /\ gate.at = "fetch"
  /\ \/ gate' = [gate EXCEPT !.at = "decide", !.closed = pr # "open"] /\ UNCHANGED faults
     \/ Fault /\ gate' = NoConverge
  /\ UNCHANGED <<pr, row, tasks, inbox, lapses>> /\ GateStep

(* A denial that allows another attempt blocks as PENDING once its cooldown is over. *)
Verdicts == IF Newest = "APPROVED" THEN {"APPROVED"}
            ELSE IF Newest = "DENIED" THEN Blocking ELSE {"PENDING"}

DecideForPR ==
  /\ gate.at = "decide"
  /\ \E v \in Verdicts : gate' = [gate EXCEPT !.at = "upsert", !.verdict = v]
  /\ UNCHANGED <<pr, row, tasks, inbox, faults, lapses>> /\ GateStep

(* The row takes the verdict; only a re-evaluation looks at a closed PR again. *)
Upsert ==
  /\ gate.at = "upsert"
  /\ row' = [row EXCEPT !.status = gate.verdict]
  /\ \/ /\ gate.verdict = "APPROVED" /\ gate.reEval /\ gate.closed
        /\ gate' = [gate EXCEPT !.at = "check"] /\ UNCHANGED inbox
     \/ /\ gate.verdict \in Blocking /\ ~gate.closed
        /\ gate' = [gate EXCEPT !.at = "close"] /\ UNCHANGED inbox
     \/ /\ IF gate.verdict = "APPROVED" THEN ~(gate.reEval /\ gate.closed) ELSE gate.closed
        /\ Converged
  /\ UNCHANGED <<pr, tasks, faults, lapses>> /\ GateStep

CheckClosedByApp ==
  /\ gate.at = "check"
  /\ IF row.closedByApp
     THEN gate' = [gate EXCEPT !.at = "reopen"] /\ UNCHANGED inbox
     ELSE Converged
  /\ UNCHANGED <<pr, row, tasks, faults, lapses>> /\ GateStep

GateReopens ==
  /\ gate.at = "reopen"
  /\ \/ /\ reopenPullRequest /\ gate' = [gate EXCEPT !.at = "unmark"]
        /\ UNCHANGED <<inbox, faults>>
     \/ pr = "merged" /\ Converged /\ UNCHANGED <<pr, tasks, faults>>
     \/ Fault /\ Converged /\ UNCHANGED <<pr, tasks>>
  /\ UNCHANGED <<row, lapses>> /\ GateStep

(* Mutant of GateCloses: the close is not followed by its mark. *)
GateClosesUnmarked ==
  /\ gate.at = "close"
  /\ closePullRequest /\ Converged
  /\ UNCHANGED <<row, faults, lapses>> /\ GateStep

GateCloses ==
  /\ gate.at = "close"
  /\ \/ /\ closePullRequest /\ gate' = [gate EXCEPT !.at = "mark"]
        /\ UNCHANGED <<inbox, faults, lapses>>
     \/ /\ Fault /\ Converged /\ lapses' = lapses \cup {"closeRefused"}
        /\ UNCHANGED <<pr, tasks>>
  /\ UNCHANGED row /\ GateStep

(* closedByApp follows the close or the reopening; a failed write is swallowed. *)
GateMarks ==
  /\ gate.at \in {"mark", "unmark"}
  /\ Converged
  /\ \/ row' = [row EXCEPT !.closedByApp = gate.at = "mark"] /\ UNCHANGED <<faults, lapses>>
     \/ Fault /\ lapses' = lapses \cup {"markLost"} /\ UNCHANGED row
  /\ UNCHANGED <<pr, tasks>> /\ GateStep

(* The worker dies: Temporal runs the whole activity again, an event's with the *)
(* payload it had, a re-gate's with a new look at the PR, which is then closed. *)
GateRetry ==
  /\ gate.at # "idle" /\ Fault
  /\ gate' = IF gate.event THEN [gate EXCEPT !.at = "decide", !.verdict = "none"]
             ELSE [NoConverge EXCEPT !.at = "fetch", !.reEval = TRUE]
  /\ lapses' = CASE gate.at \notin {"mark", "unmark"} -> lapses
                 [] gate.event -> lapses \cup {"cut"}
                 [] OTHER      -> lapses \cup {"markLost"}
  /\ UNCHANGED <<pr, row, tasks, inbox>> /\ GateStep

Gate ==
  \/ TakeEvent \/ handlePrClosed \/ TakeReGate \/ Fetch \/ DecideForPR \/ Upsert
  \/ CheckClosedByApp \/ GateReopens \/ GateCloses \/ GateMarks

-----------------------------------------------------------------------------
(* contributorGate: one task at a time, which leaves the queue when it is done. *)
FanStep == UNCHANGED <<apps, reGate, gate, sweep, acts, decisions, past>>
TaskDone == fan' = "idle" /\ tasks' = Tail(tasks)
Kind == Head(tasks).kind

deliverPrEvent ==
  /\ tasks # <<>> /\ Kind \notin DecisionKinds
  /\ inbox' = Append(inbox, Head(tasks)) /\ TaskDone
  /\ UNCHANGED <<pr, row, faults, lapses>> /\ FanStep

(* The fan-out loads its application; only a denial's asks what it is by now. *)
LoadApplication ==
  /\ fan = "idle" /\ tasks # <<>> /\ Kind \in DecisionKinds
  /\ IF Kind = "denied" /\ apps[Head(tasks).about] # "DENIED" THEN TaskDone
     ELSE fan' = "select" /\ UNCHANGED tasks
  /\ UNCHANGED <<pr, row, inbox, faults, lapses>> /\ FanStep

(* The rows each fan-out picks. *)
Picked ==
  CASE Kind = "approved" -> row.status \in Blocking /\ row.closedByApp
    [] Kind = "denied"   -> row.status = "PENDING" /\ row.closedByApp
    [] Kind = "revoked"  -> row.status = "APPROVED"

SelectChecks ==
  /\ fan = "select"
  /\ IF Picked THEN fan' = "act" /\ UNCHANGED tasks ELSE TaskDone
  /\ UNCHANGED <<pr, row, inbox, faults, lapses>> /\ FanStep

(* Reopen, comment or close; a PR GitHub refuses is logged and passed over. *)
FanActs ==
  /\ fan = "act"
  /\ \/ /\ CASE Kind = "approved" -> reopenPullRequest
             [] Kind = "denied"   -> UNCHANGED <<pr, tasks>>
             [] Kind = "revoked"  -> closePullRequest
        /\ fan' = "mark" /\ UNCHANGED <<faults, lapses>>
     \/ Kind = "approved" /\ pr = "merged" /\ TaskDone /\ UNCHANGED <<pr, faults, lapses>>
     \/ /\ Fault /\ TaskDone /\ UNCHANGED pr
        /\ lapses' = IF Kind = "revoked" THEN lapses \cup {"closeRefused"} ELSE lapses
  /\ UNCHANGED <<row, inbox>> /\ FanStep

FanMarks ==
  /\ fan = "mark" /\ TaskDone
  /\ \/ /\ row' = CASE Kind = "approved" -> [status |-> "APPROVED", closedByApp |-> FALSE]
                    [] Kind = "denied"   -> [row EXCEPT !.status = "DENIED"]
                    [] Kind = "revoked"  -> [status |-> "PENDING", closedByApp |-> TRUE]
        /\ UNCHANGED <<faults, lapses>>
     \/ Fault /\ lapses' = lapses \cup {"markLost"} /\ UNCHANGED row
  /\ UNCHANGED <<pr, inbox>> /\ FanStep

(* The worker dies: the activity is run again from its first read, and a row that *)
(* prGate re-classified between a revocation's close and its mark is not picked.  *)
FanRetry ==
  /\ fan # "idle" /\ Fault /\ fan' = "idle"
  /\ lapses' = IF fan = "mark" THEN lapses \cup {"cut"} ELSE lapses
  /\ UNCHANGED <<pr, row, tasks, inbox>> /\ FanStep

Fan == deliverPrEvent \/ LoadApplication \/ SelectChecks \/ FanActs \/ FanMarks

-----------------------------------------------------------------------------
(* The reconcile sweep; whatever it fails to do the next one tries again. *)
SweepStep == UNCHANGED <<apps, inbox, reGate, gate, fan, acts, decisions, ghosts>>

(* Mutant of SweepSelects: the rows classified as approved are looked at instead. *)
SweepSelectsApproved ==
  /\ sweep = "idle" /\ row.status = "APPROVED" /\ row.closedByApp
  /\ sweep' = "decide"
  /\ UNCHANGED <<pr, row, tasks, faults>> /\ SweepStep

SweepSelects ==
  /\ sweep = "idle" /\ row.status \in Blocking /\ row.closedByApp
  /\ sweep' = "decide"
  /\ UNCHANGED <<pr, row, tasks, faults>> /\ SweepStep

SweepDecides ==
  /\ sweep = "decide"
  /\ sweep' = IF Newest = "APPROVED" THEN "reopen" ELSE "idle"
  /\ UNCHANGED <<pr, row, tasks, faults>> /\ SweepStep

SweepReopens ==
  /\ sweep = "reopen"
  /\ \/ reopenPullRequest /\ sweep' = "mark" /\ UNCHANGED faults
     \/ pr = "merged" /\ sweep' = "idle" /\ UNCHANGED <<pr, tasks, faults>>
     \/ Fault /\ sweep' = "idle" /\ UNCHANGED <<pr, tasks>>
  /\ UNCHANGED row /\ SweepStep

SweepMarks ==
  /\ sweep = "mark" /\ sweep' = "idle"
  /\ \/ row' = [status |-> "APPROVED", closedByApp |-> FALSE] /\ UNCHANGED faults
     \/ Fault /\ UNCHANGED row
  /\ UNCHANGED <<pr, tasks>> /\ SweepStep

Sweep == SweepSelects \/ SweepDecides \/ SweepReopens \/ SweepMarks

-----------------------------------------------------------------------------
People ==
  \/ Push \/ HumanCloses \/ Merge \/ HumanReopens \/ Label \/ AskReGate
  \/ approveAction \/ denyAction \/ revokeAction \/ Resubmit

Next == People \/ Gate \/ GateRetry \/ Fan \/ FanRetry \/ Sweep

Spec == Init /\ [][Next]_vars

(* Workers go on serving both workflows, and the schedule goes on firing sweeps. *)
FairSpec == Spec /\ WF_vars(Gate) /\ WF_vars(Fan) /\ WF_vars(Sweep)

-----------------------------------------------------------------------------
Envelopes == [kind : TaskKinds, closed : BOOLEAN, about : 0..(MaxDecisions + 1)]

TypeOK ==
  /\ apps \in Seq({"SUBMITTED", "APPROVED", "DENIED"}) /\ Len(apps) \in 1..(MaxDecisions + 1)
  /\ pr \in {"open", "botClosed", "humanClosed", "merged"}
  /\ row \in [status : {"none", "PENDING", "DENIED", "APPROVED"}, closedByApp : BOOLEAN]
  /\ tasks \in Seq(Envelopes) /\ inbox \in Seq(Envelopes)
  /\ reGate \in BOOLEAN
  /\ gate \in [at : {"idle", "fetch", "decide", "upsert", "check", "reopen", "unmark", "close", "mark"},
               event : BOOLEAN, closed : BOOLEAN, reEval : BOOLEAN,
               verdict : {"none", "PENDING", "DENIED", "APPROVED"}]
  /\ fan \in {"idle", "select", "act", "mark"}
  /\ sweep \in {"idle", "decide", "reopen", "mark"}
  /\ acts \in 0..MaxActs /\ decisions \in 0..MaxDecisions /\ faults \in 0..MaxFaults
  /\ past \subseteq DecisionKinds /\ lapses \subseteq {"closeRefused", "markLost", "cut"}

(* Every webhook, decision and re-gate is dealt with and no sweep is under way. *)
Quiet == tasks = <<>> /\ inbox = <<>> /\ ~reGate /\ gate.at = "idle" /\ sweep = "idle"

(* A PR the next sweep reopens. *)
Healable ==
  /\ Newest = "APPROVED" /\ pr \in {"botClosed", "humanClosed"}
  /\ row.status \in Blocking /\ row.closedByApp

(* src/README.md:3: the PR of an author who has never been approved does not    *)
(* stay open, whatever was pushed, closed, reopened, labelled or re-gated in     *)
(* whatever order, terminal closes that drop a queue included.                   *)
NeverApprovedStaysClosed == Quiet /\ lapses \subseteq {"cut"} /\ "approved" \notin past => pr # "open"

(* post-decision.ts:52-53 "The closedByApp flag is the source of truth": a PR    *)
(* the bot closed is one that an approval, a re-evaluation or a sweep will find, *)
(* or its row claims that it is approved already.                                *)
BotCloseIsOnRecord ==
  Quiet /\ lapses = {} /\ past \subseteq {"approved"} /\ pr = "botClosed"
    => row.closedByApp \/ row.status = "APPROVED"

(* reconcile.ts:17-27, the safety net: once the author stays approved, sweeps    *)
(* see to it that no PR recorded as closed by the bot and blocked stays closed.  *)
SweepHeals == <>[](Newest = "APPROVED") => <>[]~Healable

(* README.md:3 "On approval, previously-closed PRs are automatically reopened":  *)
(* with the author approved and nothing left to do, the PR is not closed by us.  *)
ApprovedIsReopened ==
  Quiet /\ lapses = {} /\ Newest = "APPROVED" /\ ~Healable => pr # "botClosed"
=============================================================================
