----------------------------- MODULE ProjectGate -----------------------------
(***************************************************************************)
(* projectGate, the entity of one project                                  *)
(* (src/src/worker/workflows/project-gate.ts), with the activities it      *)
(* calls (worker/activities/sweeps.ts), the schedule that keeps it alive   *)
(* and the re-gate slot of each prGate its fan-out signals.                *)
(*                                                                         *)
(* A PR is the id of its PrCheck row; ids grow.  An action is the code     *)
(* between two awaits, or one call an activity makes.                      *)
(***************************************************************************)
EXTENDS Naturals, Sequences, FiniteSets, FiniteSetsExt, Functions

CONSTANTS
  MaxRows,      \* bound: PrCheck rows ever written
  FirstRows,    \* rows there at the start
  Authored,     \* rows of the author that reGateAuthor names
  Watched,      \* the row whose prGate's slot is followed
  MaxNonces,    \* bound: re-gate requests, through this entity or past it
  MaxFlips,     \* bound: changes of the project's configuration
  MaxErased,    \* bound: rows erased
  MaxFaults,    \* bound: attempts and runs that fail
  PageSize,     \* REGATE_PAGE_SIZE
  TasksCap      \* TASKS_BEFORE_CONTINUE

ASSUME ProjectGateAssumption ==
  /\ MaxRows \in Nat /\ Watched \in 1..MaxRows /\ FirstRows \in 0..MaxRows /\ Authored \subseteq 1..MaxRows
  /\ MaxNonces \in Nat /\ MaxFlips \in Nat /\ MaxErased \in Nat /\ MaxFaults \in Nat
  /\ PageSize \in Nat \ {0} /\ TasksCap \in Nat \ {0}

VARIABLES
  \* the database
  written,     \* PrCheck rows ever written: 1..written
  erased,      \* rows an account erasure deleted
  active,      \* the project has an active App-mode repo
  cla,         \* claEnabled and claRequired
  \* the run
  pc,          \* "none", or the await it is suspended at
  tasks,
  recDue,      \* reconcileDeadlineMs <= now
  claTimer,    \* claDeadlineMs: "off", "armed" or "due"
  report,      \* what reconcileProject answers with
  cursor, next, page, todo,   \* fanOutReGate and the batch it is sending
  processed,
  \* outside
  zombie,      \* an attempt Temporal gave up on that still sends: its rest and nonce
  pend, last,  \* pendingReGate and lastNonce of Watched's prGate
  \* what an observer remembers
  asked,       \* re-gate requests made
  goal,        \* PRs of the running fan-out's request, tracked ever since
  reached,     \* PRs it signalled
  cursorLost,  \* the row of its cursor was erased
  seen,        \* nonces ever signalled to Watched's prGate
  due,         \* one that was new to it came since its last converge began
  displaced,   \* the nonce applied last came again and took its slot since
  flips, faults

db == <<written, erased, active, cla>>
fan == <<cursor, next, page, todo>>
run == <<pc, tasks, recDue, claTimer, report, processed>>
gates == <<zombie, pend, last, seen, due, displaced>>
ghosts == <<goal, reached, cursorLost>>
bounds == <<asked, flips, faults>>
vars == <<db, fan, run, gates, ghosts, bounds>>

Rows == 1..MaxRows
Tracked == (1..written) \ erased
Task == [kind : {"all", "author"}, nonce : 1..MaxNonces]
Points == {"none", "head", "wait", "count", "reported", "clasweep", "list", "batch"}

(* The where clause of listReGatePrTargets. *)
Selected(t) ==
  IF ~active THEN {} ELSE IF t.kind = "all" THEN Tracked ELSE Tracked \cap Authored

Init ==
  /\ written = FirstRows /\ erased = {} /\ active = TRUE /\ cla = FALSE
  /\ pc = "none" /\ tasks = <<>> /\ recDue = FALSE /\ claTimer = "off"
  /\ report = [active |-> FALSE, cla |-> FALSE] /\ processed = 0
  /\ cursor = 0 /\ next = 0 /\ page = {} /\ todo = {}
  /\ zombie = [todo |-> {}, nonce |-> 0]
  /\ pend = 0 /\ last = 0 /\ seen = {} /\ due = FALSE /\ displaced = FALSE
  /\ asked = 0 /\ goal = {} /\ reached = {} /\ cursorLost = FALSE
  /\ flips = 0 /\ faults = 0

-----------------------------------------------------------------------------
(* The world around the entity. *)

TrackPr ==
  /\ written < MaxRows /\ written' = written + 1
  /\ UNCHANGED <<erased, active, cla, fan, run, gates, ghosts, bounds>>

(* account-erasure.ts deletes the rows of a person's pull requests. *)
ErasePr(p) ==
  /\ p \in Tracked /\ Cardinality(erased) < MaxErased
  /\ erased' = erased \cup {p} /\ goal' = goal \ {p}
  /\ cursorLost' = (cursorLost \/ p = cursor \/ p = next)
  /\ UNCHANGED <<written, active, cla, fan, run, gates, reached, bounds>>

(* Repositories are linked, unlinked, suspended; CLA is switched on and off. *)
Configure ==
  /\ flips < MaxFlips /\ flips' = flips + 1
  /\ \/ active' = ~active /\ cla' = cla /\ goal' = {}
     \/ cla' = ~cla /\ UNCHANGED <<active, goal>>
  /\ UNCHANGED <<written, erased, fan, run, gates, reached, cursorLost, asked, faults>>

(* A fresh run: no deadline of the previous one survives. *)
Start(ts) ==
  /\ pc = "none" /\ pc' = "head" /\ tasks' = ts /\ processed' = 0
  /\ recDue' = FALSE /\ claTimer' = "off"
  /\ UNCHANGED report

(* signalProject: reGateAll, configChanged or reGateAuthor. *)
Request(kind) ==
  /\ asked < MaxNonces /\ asked' = asked + 1
  /\ LET t == [kind |-> kind, nonce |-> asked + 1]
     IN  \/ Start(<<t>>)
         \/ /\ pc # "none" /\ tasks' = Append(tasks, t)
            /\ UNCHANGED <<pc, recDue, claTimer, report, processed>>
  /\ UNCHANGED <<db, fan, gates, ghosts, flips, faults>>

(* Whether a nonce reaching a prGate is one it is to act on. *)
Told(n) ==
  /\ seen' = seen \cup {n} /\ due' = (due \/ n \notin seen)
  /\ displaced' = (due /\ n = last)
  /\ UNCHANGED last

(* Mutant of SignalPr: a request that finds another pending is taken for a duplicate. *)
SignalPrOnce(p, n) ==
  IF p = Watched THEN pend' = (IF pend = 0 THEN n ELSE pend) /\ Told(n)
                 ELSE UNCHANGED <<pend, last, seen, due, displaced>>

(* signalPrReGate: the prGate's handler takes whatever comes as pending. *)
SignalPr(p, n) ==
  IF p = Watched THEN pend' = n /\ Told(n) ELSE UNCHANGED <<pend, last, seen, due, displaced>>

(* reEvaluatePrs: an admin has PRs converged at once, past this entity, with a *)
(* nonce of its own; of them only Watched plays a part here.                    *)
ReEvaluate ==
  /\ Watched \in Tracked /\ asked < MaxNonces /\ asked' = asked + 1
  /\ SignalPr(Watched, asked + 1)
  /\ UNCHANGED <<db, fan, run, zombie, ghosts, flips, faults>>

(* ensureProjectGates; on an open run its sweepTick changes nothing. *)
Ensure ==
  /\ active /\ Start(<<>>)
  /\ UNCHANGED <<db, fan, gates, ghosts, bounds>>

(* A deadline elapses.  Intervals of an hour and more leave the loop the time to  *)
(* get from its head to what is due before another one does.                       *)
Elapse ==
  /\ pc \notin {"none", "head"} /\ ~recDue /\ claTimer # "due"
  /\ \/ recDue' = TRUE /\ UNCHANGED claTimer
     \/ claTimer = "armed" /\ claTimer' = "due" /\ UNCHANGED recDue
  /\ UNCHANGED <<db, fan, pc, tasks, report, processed, gates, ghosts, bounds>>

-----------------------------------------------------------------------------
(* The loop. *)

At(from, to) == pc = from /\ pc' = to

(* Mutant of ContinueAsNew: the tasks are not in the input. *)
ContinueAsNewBare ==
  /\ pc = "head" /\ processed = TasksCap /\ processed' = 0 /\ tasks' = <<>>
  /\ UNCHANGED <<db, fan, pc, recDue, claTimer, report, gates, ghosts, bounds>>

(* Tasks and deadlines are the input of the next run. *)
ContinueAsNew ==
  /\ pc = "head" /\ processed = TasksCap /\ processed' = 0
  /\ UNCHANGED <<db, fan, pc, tasks, recDue, claTimer, report, gates, ghosts, bounds>>

(* Mutant of Dispatch: the cap on tasks is not looked at. *)
DispatchUncapped ==
  /\ pc = "head" /\ ~recDue /\ claTimer # "due" /\ tasks # <<>> /\ pc' = "list"
  /\ cursor' = 0 /\ goal' = Selected(Head(tasks)) /\ reached' = {} /\ cursorLost' = FALSE
  /\ UNCHANGED <<db, next, page, todo, tasks, recDue, claTimer, report, processed, gates, bounds>>

(* Sweeps first, then a task, else wait. *)
Dispatch ==
  /\ pc = "head" /\ processed < TasksCap
  /\ \/ recDue /\ pc' = "count" /\ UNCHANGED <<cursor, goal, reached, cursorLost>>
     \/ ~recDue /\ claTimer = "due" /\ pc' = "clasweep" /\ UNCHANGED <<cursor, goal, reached, cursorLost>>
     \/ /\ ~recDue /\ claTimer # "due" /\ tasks # <<>> /\ pc' = "list"
        /\ cursor' = 0 /\ goal' = Selected(Head(tasks)) /\ reached' = {} /\ cursorLost' = FALSE
     \/ ~recDue /\ claTimer # "due" /\ tasks = <<>> /\ pc' = "wait"
        /\ UNCHANGED <<cursor, goal, reached, cursorLost>>
  /\ UNCHANGED <<db, next, page, todo, tasks, recDue, claTimer, report, processed, gates, bounds>>

Wake ==
  /\ At("wait", "head") /\ (recDue \/ claTimer = "due" \/ tasks # <<>>)
  /\ UNCHANGED <<db, fan, tasks, recDue, claTimer, report, processed, gates, ghosts, bounds>>

(* reconcileProject reads the repositories and the CLA settings when it is done. *)
ReconcileProject ==
  /\ At("count", "reported") /\ report' = [active |-> active, cla |-> cla]
  /\ UNCHANGED <<db, fan, tasks, recDue, claTimer, processed, gates, ghosts, bounds>>

(* The run is over and what its variables hold is gone. *)
Gone ==
  /\ pc' = "none" /\ tasks' = <<>> /\ recDue' = FALSE /\ claTimer' = "off" /\ processed' = 0
  /\ report' = [active |-> FALSE, cla |-> FALSE]
  /\ cursor' = 0 /\ next' = 0 /\ page' = {} /\ todo' = {}
  /\ goal' = {} /\ reached' = {} /\ cursorLost' = FALSE

Retire ==
  /\ pc = "reported" /\ ~report.active /\ Gone
  /\ UNCHANGED <<db, gates, bounds>>

(* Mutant of Rearm: the CLA timer is not armed from the report. *)
RearmOnly ==
  /\ At("reported", "head") /\ report.active
  /\ recDue' = FALSE
  /\ claTimer' = IF report.cla THEN claTimer ELSE "off"
  /\ UNCHANGED <<db, fan, tasks, report, processed, gates, ghosts, bounds>>

(* Re-arm; arm or clear the CLA timer from the same report. *)
Rearm ==
  /\ At("reported", "head") /\ report.active
  /\ recDue' = FALSE
  /\ claTimer' = IF ~report.cla THEN "off" ELSE IF claTimer = "off" THEN "armed" ELSE claTimer
  /\ UNCHANGED <<db, fan, tasks, report, processed, gates, ghosts, bounds>>

ClaSweep ==
  /\ At("clasweep", "head") /\ claTimer' = "armed"
  /\ UNCHANGED <<db, fan, tasks, recDue, report, processed, gates, ghosts, bounds>>

-----------------------------------------------------------------------------
(* fanOutReGate. *)

TaskDone ==
  /\ pc' = "head" /\ tasks' = Tail(tasks) /\ processed' = processed + 1

(* A page past the cursor; a cursor whose row is gone finds nothing. *)
PageAfter(c) ==
  LET rest == IF c = 0 \/ c \in Tracked THEN {p \in Selected(Head(tasks)) : p > c} ELSE {}
  IN  {p \in rest : Cardinality({q \in rest : q <= p}) <= PageSize}

ListReGatePrTargets ==
  /\ pc = "list" /\ page' = PageAfter(cursor) /\ todo' = page'
  /\ next' = IF Cardinality(page') = PageSize THEN Max(page') ELSE 0
  /\ IF page' = {} THEN TaskDone ELSE pc' = "batch" /\ UNCHANGED <<tasks, processed>>
  /\ UNCHANGED <<db, cursor, recDue, claTimer, report, gates, ghosts, bounds>>

(* signalReGateBatch: one signal of its loop. *)
SendOne ==
  /\ pc = "batch" /\ todo # {}
  /\ SignalPr(Min(todo), Head(tasks).nonce)
  /\ todo' = todo \ {Min(todo)} /\ reached' = reached \cup {Min(todo)}
  /\ UNCHANGED <<db, cursor, next, page, run, zombie, goal, cursorLost, bounds>>

PageSent ==
  /\ pc = "batch" /\ todo = {}
  /\ IF next = 0 THEN TaskDone /\ UNCHANGED cursor
                 ELSE pc' = "list" /\ cursor' = next /\ UNCHANGED <<tasks, processed>>
  /\ UNCHANGED <<db, next, page, todo, recDue, claTimer, report, gates, ghosts, bounds>>

-----------------------------------------------------------------------------
(* Failures. *)

(* The worker dies in mid-batch: the activity is attempted again, from its first target. *)
BatchRetried ==
  /\ pc = "batch" /\ todo # page /\ faults < MaxFaults /\ faults' = faults + 1
  /\ todo' = page
  /\ UNCHANGED <<db, cursor, next, page, run, gates, ghosts, asked, flips>>

(* The attempt outlives startToCloseTimeout and goes on beside its retry. *)
BatchTimesOut ==
  /\ pc = "batch" /\ todo # {} /\ zombie.todo = {}
  /\ faults < MaxFaults /\ faults' = faults + 1
  /\ zombie' = [todo |-> todo, nonce |-> Head(tasks).nonce] /\ todo' = page
  /\ UNCHANGED <<db, cursor, next, page, run, pend, last, seen, due, displaced, ghosts, asked, flips>>

ZombieSends ==
  /\ zombie.todo # {}
  /\ SignalPr(Min(zombie.todo), zombie.nonce)
  /\ zombie' = [zombie EXCEPT !.todo = @ \ {Min(@)}]
  /\ UNCHANGED <<db, fan, run, ghosts, bounds>>

(* An activity fails for good and the run with it. *)
Fail ==
  /\ pc \in {"count", "clasweep", "list", "batch"} /\ faults < MaxFaults /\ faults' = faults + 1
  /\ Gone
  /\ UNCHANGED <<db, gates, asked, flips>>

-----------------------------------------------------------------------------
(* prGate's turn for a pending re-gate (pr-gate.ts; PrGate has the whole). *)
Converge ==
  /\ pend # 0 /\ pend' = 0
  /\ IF pend = last THEN UNCHANGED <<last, due>> ELSE last' = pend /\ due' = FALSE
  /\ UNCHANGED <<db, fan, run, zombie, seen, displaced, ghosts, bounds>>

Reconcile == ReconcileProject \/ Retire \/ Rearm
FanOut == ListReGatePrTargets \/ SendOne \/ PageSent
Work == ContinueAsNew \/ Dispatch \/ Wake \/ Reconcile \/ ClaSweep \/ FanOut
World ==
  \/ TrackPr \/ Configure \/ ReEvaluate
  \/ \E p \in Rows : ErasePr(p)
  \/ \E k \in {"all", "author"} : Request(k)
Faults == BatchRetried \/ BatchTimesOut \/ Fail

Next ==
  \/ World \/ Ensure \/ Elapse \/ Work \/ Faults \/ ZombieSends
  \/ Converge

(* Temporal drives the run, the schedule and each prGate; clocks go on, whatever the *)
(* loop does between two of its heads.                                                *)
Spec ==
  /\ Init /\ [][Next]_vars
  /\ WF_vars(Work) /\ WF_vars(Ensure) /\ WF_vars(ZombieSends)
  /\ SF_vars(Elapse /\ recDue' # recDue) /\ SF_vars(Elapse /\ claTimer' # claTimer)
  /\ WF_vars(Converge)

-----------------------------------------------------------------------------
TypeOK ==
  /\ written \in 0..MaxRows /\ erased \subseteq Rows
  /\ active \in BOOLEAN /\ cla \in BOOLEAN /\ recDue \in BOOLEAN /\ cursorLost \in BOOLEAN
  /\ pc \in Points /\ tasks \in Seq(Task) /\ claTimer \in {"off", "armed", "due"}
  /\ report \in [active : BOOLEAN, cla : BOOLEAN]
  /\ cursor \in 0..MaxRows /\ next \in 0..MaxRows
  /\ page \subseteq Rows /\ todo \subseteq page
  /\ processed \in 0..TasksCap
  /\ zombie \in [todo : SUBSET Rows, nonce : 0..MaxNonces]
  /\ pend \in 0..MaxNonces /\ last \in 0..MaxNonces
  /\ seen \subseteq 1..MaxNonces /\ due \in BOOLEAN /\ displaced \in BOOLEAN
  /\ goal \subseteq Rows /\ reached \subseteq Rows
  /\ asked \in 0..MaxNonces /\ flips \in 0..MaxFlips /\ faults \in 0..MaxFaults

(* project-gate.ts:246-250: over pages, rolls, sweeps in between, rows written or  *)
(* erased meanwhile and batches attempted again, a request leaves a run that goes   *)
(* on only when every PR it was about has been signalled, unless the very row its   *)
(* cursor stood on was erased.                                                      *)
FanOutReachesAll ==
  [][\A t \in Range(tasks) \ Range(tasks') :
       \/ pc' = "none"
       \/ pc \in {"list", "batch"} /\ t = Head(tasks) /\ (cursorLost \/ goal \subseteq reached)]_vars

(* pr-gate.ts:109 "a newer request subsumes an older un-applied one", 59-60 "a       *)
(* re-gate nonce already applied is skipped": what overlapping fan-outs, retries,    *)
(* attempts past their time-out and admins send to one prGate leaves it converged    *)
(* after the newest request, unless the nonce it applied last was repeated over it.  *)
NewestReGateApplied ==
  pend = 0 /\ ~displaced => ~due

(* project-gate.ts:84-88: however runs retire, fail and roll, a project that stays *)
(* active is reconciled again and again; 166-174: its CLA sweep follows the         *)
(* setting, through the report of the other sweep: it recurs while CLA stays on and *)
(* ends when it stays off.                                                          *)
SweepsRecur ==
  /\ <>[]active => []<><<ReconcileProject>>_vars
  /\ <>[](active /\ cla) => []<><<ClaSweep>>_vars
  /\ <>[](active /\ ~cla) => <>[][~ClaSweep]_vars

=============================================================================
