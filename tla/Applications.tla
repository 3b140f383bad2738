---------------------------- MODULE Applications ----------------------------
(***************************************************************************)
(* One contributor's applications to one project, the requests of reviewers *)
(* and of the applicant that decide on them, and the contributorGate that    *)
(* carries the decisions out and keeps the cooldown timer                    *)
(* (src/src/lib/applications/decide.ts and lifecycle.ts, the dashboard's     *)
(* actions.ts, src/src/worker/workflows/contributor-gate.ts).                *)
(*                                                                         *)
(* A request checks, writes and signals in separate steps, and requests      *)
(* overlap: no write repeats the check it rests on.  A date is the ticks     *)
(* left until it plus one: 0 is null, 1 is a date that has come.             *)
(***************************************************************************)
EXTENDS Naturals, Sequences, FiniteSets

CONSTANTS
  Desks,        \* requests that may be in flight at once
  Cooldown,     \* cooldownDays, in ticks
  MaxApps,      \* bound: applications the contributor ever submits
  MaxRequests,  \* bound: requests ever made
  MaxFaults     \* bound: signals that are not sent, activities that fail for good

ASSUME ApplicationsAssumption ==
  {Cooldown, MaxApps, MaxRequests, MaxFaults} \subseteq Nat /\ MaxApps > 0

VARIABLES
  apps,      \* the Application rows with their appeals, oldest first
  desk,      \* desk[d]: the request in flight there
  tasks,     \* contributorGate's decisions and refreshes, oldest first
  cooldown,  \* its one cooldown timer
  gpc,       \* where it is suspended
  \* What an observer remembers; no step reads these
  told,      \* told[i]: the last thing application i's owner was told of it
  mistold,   \* applications whose last word is a mail sent when they stood approved
  untimed,   \* applications whose cooldown was set, or its timer taken, for no timer
  requests, faults   \* spent of the bounds

gateVars == <<tasks, cooldown, gpc>>
heard == <<told, mistold>>
vars == <<apps, desk, gateVars, heard, untimed, requests, faults>>

Decisions == {"approved", "denied", "revoked"}
Mails == {"mayReapply", "remainsDenied"}
Ops == {"submit", "appeal", "approve", "deny", "revoke", "allow",
        "grant", "letResubmit", "reject"}

FreshApp == [status |-> "SUBMITTED", allowResubmit |-> TRUE, cooldownUntil |-> 0,
             appeal |-> "none"]
NoRequest == [op |-> "none", app |-> 0, at |-> "idle"]
NoTimer == [app |-> 0, deadline |-> 0]
OnCooldown == Cooldown + 1

Init ==
  /\ apps = <<FreshApp>>
  /\ desk = [d \in Desks |-> NoRequest]
  /\ tasks = <<>> /\ cooldown = NoTimer /\ gpc = "idle"
  /\ told = [i \in 1..MaxApps |-> "nothing"] /\ mistold = {} /\ untimed = {}
  /\ requests = 0 /\ faults = 0

-----------------------------------------------------------------------------
(* What each request checks before it writes anything. *)
MaySubmit(i) ==
  /\ i = Len(apps)
  /\ Len(apps) + Cardinality({d \in Desks : desk[d].op = "submit"}) < MaxApps
  /\ apps[i].status = "DENIED" /\ apps[i].appeal # "PENDING"
  /\ apps[i].allowResubmit /\ apps[i].cooldownUntil <= 1

Checks(op, i) ==
  CASE op = "submit"  -> MaySubmit(i)
    [] op = "appeal"  -> apps[i].status = "DENIED" /\ apps[i].appeal = "none"
    [] op = "approve" -> apps[i].status \in {"SUBMITTED", "DENIED"}
    [] op = "deny"    -> apps[i].status = "SUBMITTED"
    [] op = "revoke"  -> apps[i].status = "APPROVED"
    [] op = "allow"   -> apps[i].status = "DENIED"
    [] op = "reject"  -> apps[i].appeal = "PENDING"
    [] op \in {"grant", "letResubmit"} ->
         apps[i].appeal = "PENDING" /\ apps[i].status = "DENIED"

Begin(d) ==
  /\ desk[d] = NoRequest /\ requests < MaxRequests /\ requests' = requests + 1
  /\ \E op \in Ops, i \in DOMAIN apps :
       /\ Checks(op, i)
       /\ desk' = [desk EXCEPT ![d] =
            [op |-> op, app |-> i, at |-> IF op = "reject" THEN "resolve" ELSE "write"]]
  /\ UNCHANGED <<apps, gateVars, heard, untimed, faults>>

-----------------------------------------------------------------------------
Settle(i, status, allowResubmit, until) ==
  apps' = [apps EXCEPT ![i].status = status, ![i].allowResubmit = allowResubmit,
                       ![i].cooldownUntil = until]

approveApplication(i) == Settle(i, "APPROVED", TRUE, 0) /\ UNCHANGED untimed

denyApplication(i) ==
  /\ Settle(i, "DENIED", TRUE, OnCooldown) \/ Settle(i, "DENIED", FALSE, 0)
  /\ UNCHANGED untimed

revokeApplication(i) ==
  /\ \/ Settle(i, "DENIED", TRUE, OnCooldown)
     \/ Settle(i, "DENIED", TRUE, 0)
     \/ Settle(i, "SUBMITTED", TRUE, 0)
  /\ UNCHANGED untimed

(* The status is left as it is by now. *)
allowApplicationResubmit(i, refreshed) ==
  /\ apps' = [apps EXCEPT ![i].allowResubmit = TRUE, ![i].cooldownUntil = OnCooldown]
  /\ untimed' = IF refreshed THEN untimed ELSE untimed \cup {i}

submitApplication == apps' = Append(apps, FreshApp) /\ UNCHANGED untimed

(* One appeal per application: a second row is refused by its unique key. *)
submitAppeal(i) ==
  /\ apps' = IF apps[i].appeal = "none" THEN [apps EXCEPT ![i].appeal = "PENDING"] ELSE apps
  /\ UNCHANGED untimed

Write(d) ==
  LET op == desk[d].op
      i == desk[d].app
      at == CASE op \in {"allow", "letResubmit"} -> "mail"
              [] op = "grant" -> "resolve"
              [] op \in {"submit", "appeal"} -> "idle"
              [] OTHER -> "dispatch"
  IN /\ desk[d].at = "write"
     /\ CASE op \in {"approve", "grant"} -> approveApplication(i)
          [] op = "deny"        -> denyApplication(i)
          [] op = "revoke"      -> revokeApplication(i)
          [] op = "allow"       -> allowApplicationResubmit(i, TRUE)
          [] op = "letResubmit" -> allowApplicationResubmit(i, FALSE)
          [] op = "submit"      -> submitApplication
          [] op = "appeal"      -> submitAppeal(i)
     /\ desk' = [desk EXCEPT ![d] = IF at = "idle" THEN NoRequest ELSE [@ EXCEPT !.at = at]]
     /\ UNCHANGED <<gateVars, heard, requests, faults>>

(* The mail a reviewer's request sends of itself, whatever the status is by now. *)
Mail(d) ==
  LET i == desk[d].app
  IN /\ desk[d].at = "mail"
     /\ told' = [told EXCEPT ![i] =
          IF desk[d].op = "reject" THEN "remainsDenied" ELSE "mayReapply"]
     /\ mistold' = IF apps[i].status = "APPROVED" THEN mistold \cup {i} ELSE mistold \ {i}
     /\ desk' = [desk EXCEPT ![d] =
          CASE @.op = "reject"      -> NoRequest
            [] @.op = "letResubmit" -> [@ EXCEPT !.at = "resolve"]
            [] @.op = "allow"       -> [@ EXCEPT !.at = "dispatch"]]
     /\ UNCHANGED <<apps, gateVars, untimed, requests, faults>>

(* resolveAppeal marks the appeal when the rest is written; then a grant signals *)
(* and a rejection is mailed.                                                    *)
ResolveAppeal(d) ==
  /\ desk[d].at = "resolve"
  /\ apps' = [apps EXCEPT ![desk[d].app].appeal =
       CASE desk[d].op = "grant"       -> "GRANTED"
         [] desk[d].op = "letResubmit" -> "RESUBMIT_ALLOWED"
         [] desk[d].op = "reject"      -> "REJECTED"]
  /\ desk' = [desk EXCEPT ![d] =
       CASE @.op = "grant"       -> [@ EXCEPT !.at = "dispatch"]
         [] @.op = "letResubmit" -> NoRequest
         [] @.op = "reject"      -> [@ EXCEPT !.at = "mail"]]
  /\ UNCHANGED <<gateVars, heard, untimed, requests, faults>>

TaskOf(op) ==
  CASE op \in {"approve", "grant"} -> "approved"
    [] op = "deny"   -> "denied"
    [] op = "revoke" -> "revoked"
    [] op = "allow"  -> "refresh"

(* dispatchContributorDecision, refreshContributorCooldown. *)
Dispatch(d) ==
  /\ desk[d].at = "dispatch"
  /\ tasks' = Append(tasks, [kind |-> TaskOf(desk[d].op), app |-> desk[d].app])
  /\ desk' = [desk EXCEPT ![d] = NoRequest]
  /\ UNCHANGED <<apps, cooldown, gpc, heard, untimed, requests, faults>>

(* The request dies after its first write: what it had still to do is not done. *)
RequestDies(d) ==
  /\ desk[d].at \in {"resolve", "mail", "dispatch"}
  /\ faults < MaxFaults /\ faults' = faults + 1
  /\ desk' = [desk EXCEPT ![d] = NoRequest]
  /\ untimed' = IF desk[d].op = "reject" THEN untimed ELSE untimed \cup {desk[d].app}
  /\ UNCHANGED <<apps, gateVars, heard, requests>>
-----------------------------------------------------------------------------
(* contributorGate.  A due timer goes before the next task. *)
Due == cooldown.deadline = 1

TimerFires ==
  /\ gpc = "idle" /\ Due
  /\ gpc' = "elapse"
  /\ UNCHANGED <<apps, desk, tasks, cooldown, heard, untimed, requests, faults>>

(* elapseApplicationCooldown looks whether the cooldown is still there, and over. *)
ElapseReads ==
  /\ gpc = "elapse"
  /\ IF apps[cooldown.app].status = "DENIED" /\ apps[cooldown.app].cooldownUntil = 1
     THEN gpc' = "elapsing" /\ UNCHANGED cooldown
     ELSE gpc' = "idle" /\ cooldown' = NoTimer
  /\ UNCHANGED <<apps, desk, tasks, heard, untimed, requests, faults>>

ElapseWrites ==
  /\ gpc = "elapsing"
  /\ apps' = [apps EXCEPT ![cooldown.app].allowResubmit = TRUE,
                          ![cooldown.app].cooldownUntil = 0]
  /\ gpc' = "idle" /\ cooldown' = NoTimer
  /\ UNCHANGED <<desk, tasks, heard, untimed, requests, faults>>

Task == Head(tasks)

(* A refresh only reads the cooldown; a decision is fanned out to the PRs first *)
(* (PrConvergence), and then told.                                               *)
TakeTask ==
  /\ gpc = "idle" /\ ~Due /\ tasks # <<>>
  /\ gpc' = IF Task.kind = "refresh" THEN "arm" ELSE "notify"
  /\ UNCHANGED <<apps, desk, tasks, cooldown, heard, untimed, requests, faults>>

StillStands(kind, status) ==
  CASE kind = "approved" -> status = "APPROVED"
    [] kind = "denied"   -> status = "DENIED"
    [] kind = "revoked"  -> status \in {"DENIED", "SUBMITTED"}

Tell(i, word) == told' = [told EXCEPT ![i] = word] /\ mistold' = mistold \ {i}

(* Mutant of Notify: whatever the status is by now. *)
NotifyUnchecked ==
  /\ gpc = "notify" /\ gpc' = "arm"
  /\ Tell(Task.app, Task.kind)
  /\ UNCHANGED <<apps, desk, tasks, cooldown, untimed, requests, faults>>

(* notifyApplicationDecision tells the applicant what still stands. *)
Notify ==
  /\ gpc = "notify" /\ gpc' = "arm"
  /\ IF StillStands(Task.kind, apps[Task.app].status)
     THEN Tell(Task.app, Task.kind) ELSE UNCHANGED heard
  /\ UNCHANGED <<apps, desk, tasks, cooldown, untimed, requests, faults>>

(* readApplicationCooldown: null unless denied. *)
ReadCooldown(i) ==
  IF apps[i].status = "DENIED" /\ apps[i].cooldownUntil # 0
  THEN [app |-> i, deadline |-> apps[i].cooldownUntil]
  ELSE NoTimer

(* An application's own refresh times it; the timer it takes may be another's. *)
UntimedBy(i) ==
  untimed' = (untimed \ {i}) \cup ({cooldown.app} \ {0, i})

(* Mutant of Arm: an armed timer is left alone. *)
ArmIfFree ==
  /\ gpc = "arm" /\ gpc' = "idle" /\ tasks' = Tail(tasks)
  /\ cooldown' = IF cooldown = NoTimer THEN ReadCooldown(Task.app) ELSE cooldown
  /\ UntimedBy(Task.app)
  /\ UNCHANGED <<apps, desk, heard, requests, faults>>

(* Mutant of Arm: the application is not asked whether it is on a cooldown. *)
ArmBlindly ==
  /\ gpc = "arm" /\ gpc' = "idle" /\ tasks' = Tail(tasks)
  /\ cooldown' = [app |-> Task.app, deadline |-> apps[Task.app].cooldownUntil]
  /\ UntimedBy(Task.app)
  /\ UNCHANGED <<apps, desk, heard, requests, faults>>

(* The task is done: the one timer is set, or cleared, for its application. *)
Arm ==
  /\ gpc = "arm" /\ gpc' = "idle" /\ tasks' = Tail(tasks)
  /\ cooldown' = ReadCooldown(Task.app)
  /\ UntimedBy(Task.app)
  /\ UNCHANGED <<apps, desk, heard, requests, faults>>

(* An activity failed for good: the run fails, its tasks and its timer with it. *)
GateFails ==
  /\ gpc # "idle" /\ faults < MaxFaults /\ faults' = faults + 1
  /\ gpc' = "idle" /\ tasks' = <<>> /\ cooldown' = NoTimer
  /\ untimed' = DOMAIN apps
  /\ UNCHANGED <<apps, desk, heard, requests>>

Gate == TimerFires \/ ElapseReads \/ ElapseWrites \/ TakeTask \/ Notify \/ Arm

-----------------------------------------------------------------------------
Sooner(date) == IF date > 1 THEN date - 1 ELSE date

Tick ==
  /\ \/ \E i \in DOMAIN apps : apps[i].cooldownUntil > 1
     \/ cooldown.deadline > 1
  /\ apps' = [i \in DOMAIN apps |-> [apps[i] EXCEPT !.cooldownUntil = Sooner(@)]]
  /\ cooldown' = [cooldown EXCEPT !.deadline = Sooner(@)]
  /\ UNCHANGED <<desk, tasks, gpc, heard, untimed, requests, faults>>

Serve(d) == Write(d) \/ Mail(d) \/ ResolveAppeal(d) \/ Dispatch(d)

Next ==
  \/ \E d \in Desks : Begin(d) \/ Serve(d) \/ RequestDies(d)
  \/ Gate \/ GateFails \/ Tick

Spec == Init /\ [][Next]_vars

(* A request that was begun is served, the worker serves the gate, time passes. *)
FairSpec ==
  Spec /\ (\A d \in Desks : WF_vars(Serve(d))) /\ WF_vars(Gate) /\ WF_vars(Tick)

-----------------------------------------------------------------------------
TypeOK ==
  /\ Len(apps) \in 1..MaxApps
  /\ \A i \in DOMAIN apps :
       apps[i] \in [status : {"SUBMITTED", "APPROVED", "DENIED"}, allowResubmit : BOOLEAN,
                    cooldownUntil : 0..OnCooldown,
                    appeal : {"none", "PENDING", "GRANTED", "RESUBMIT_ALLOWED", "REJECTED"}]
  /\ desk \in [Desks -> [op : Ops \cup {"none"}, app : 0..MaxApps,
                         at : {"idle", "write", "mail", "resolve", "dispatch"}]]
  /\ tasks \in Seq([kind : Decisions \cup {"refresh"}, app : 1..MaxApps])
  /\ cooldown \in [app : 1..MaxApps, deadline : 1..OnCooldown] \cup {NoTimer}
  /\ gpc \in {"idle", "elapse", "elapsing", "notify", "arm"}
  /\ told \in [1..MaxApps -> Decisions \cup Mails \cup {"nothing"}]
  /\ mistold \subseteq 1..MaxApps /\ untimed \subseteq 1..MaxApps
  /\ requests \in 0..MaxRequests /\ faults \in 0..MaxFaults

Quiet == (\A d \in Desks : desk[d] = NoRequest) /\ tasks = <<>> /\ gpc = "idle"

(* notify-decision.ts:29-31, the stale-decision guard: however requests overlap and *)
(* in whatever order their decisions are carried out, the last thing an applicant    *)
(* was told, by notification or by mail, is an approval if and only if the           *)
(* application stands approved.  Left out: the two mails of decide.ts (:313, :525)    *)
(* go out unchecked, and one sent of an application approved by then is its last word. *)
LastWordIsTrue ==
  Quiet /\ faults = 0 =>
    \A i \in DOMAIN apps \ mistold : apps[i].status = "APPROVED" <=> told[i] = "approved"

OnHold(i) == i \in DOMAIN apps /\ apps[i].status = "DENIED" /\ apps[i].cooldownUntil # 0

(* contributor-gate.ts:82-87, the durable cooldown: a denied application's        *)
(* cooldown is lifted in the end, over re-armed dates and timers that fire early,  *)
(* unless the timer went to another application, or none was asked for.            *)
CooldownEnds == \A i \in 1..MaxApps : OnHold(i) ~> ~OnHold(i) \/ i \in untimed
=============================================================================
