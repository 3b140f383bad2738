------------------------------- MODULE ClaGate -------------------------------
(***************************************************************************)
(* The CLA gate of one open pull request of an approved author: its PrCheck *)
(* row, its two check runs on GitHub (contribution-checker / decision and   *)
(* / cla), and those who write them beside one another: prGate's converge   *)
(* (webhook.ts), what a request drives after it changed the author's        *)
(* coverage, and the daily sweep (cla/post-sign.ts).                        *)
(***************************************************************************)
EXTENDS Naturals, Sequences

CONSTANTS
  Drives,      \* requests and sweeps that may be under way at once
  MaxHead,     \* bound: commits the head points to, one after the other
  MaxTurns,    \* bound: changes of coverage
  MaxOthers,   \* bound: re-gates and faults (failed calls, lost workers,
               \* requests that die)
  MaxSteps     \* bound: of both in all

ASSUME ClaGateAssumption ==
  /\ "gate" \notin Drives
  /\ MaxHead \in Nat \ {0} /\ MaxTurns \in Nat /\ MaxOthers \in Nat /\ MaxSteps \in Nat

VARIABLES
  head,      \* GitHub: the commit the PR is at
  runs,      \* GitHub: runs[check][commit] lists what each such run says
  covered,   \* getClaStatus(...).satisfied
  row,       \* the PrCheck row
  heard,     \* pull_request events converged or being converged
  actor,     \* actor[a]: the call a is in, and what it holds
  turns,     \* the author's coverages so far, the first one too
  others,
  seen       \* what an observer noted since the head was recorded undisturbed

steps == <<turns, others>>
claGateVars == <<head, runs, covered, row, heard, actor, steps, seen>>

Actors == {"gate"} \cup Drives
Check == {"decision", "cla"}

(* The id of a run: its commit, and its place among the runs there. *)
NoRun == <<0, 0>>
NoRuns == [c \in Check |-> NoRun]

(* A call keeps, for the observer, which coverage its decision was made on: *)
(* 0 until there is one, or when it could not be read.                      *)
Idle == [at |-> "idle", as |-> "event", sha |-> 0, prior |-> 0, pass |-> FALSE,
         cla |-> FALSE, check |-> "decision", id |-> NoRun, asked |-> 0]

StatusOf(pass) == IF pass THEN "APPROVED" ELSE "CHECK_REQUIRED"

(* The PR has been opened and converged with nobody else about. *)
ClaGateInit ==
  /\ head = 1 /\ heard = 1 /\ covered \in BOOLEAN
  /\ runs = [c \in Check |-> [h \in 1..MaxHead |-> IF h = 1 THEN <<covered>> ELSE <<>>]]
  /\ row = [status |-> StatusOf(covered), sha |-> 1, id |-> [c \in Check |-> <<1, 1>>]]
  /\ actor = [a \in Actors |-> Idle] /\ turns = 1 /\ others = 0 /\ seen = {}

Turn ==
  /\ turns <= MaxTurns /\ turns + others <= MaxSteps
  /\ turns' = turns + 1 /\ UNCHANGED others

Other ==
  /\ others < MaxOthers /\ turns + others <= MaxSteps
  /\ others' = others + 1 /\ UNCHANGED turns

IsAt(a, step) == actor[a].at = step
Becomes(a, call) == actor' = [actor EXCEPT ![a] = call]

Verdict(call) == IF call.check = "decision" THEN call.pass ELSE call.cla

(* Of what a call was started as, only this outlives its decision. *)
Chained(as) == IF as \in {"both", "regate"} THEN as ELSE "event"

(* What an observer notes.  "stale": a verdict carried out after coverage     *)
(* changed, though it changed back, or without a coverage that could be read, *)
(* or a change nobody carries out.                                            *)
(* "displaced": a call to GitHub that failed, or an id written to a row that  *)
(* is at another commit.                                                      *)
Outdated(call) == IF call.asked = turns THEN {} ELSE {"stale"}

-----------------------------------------------------------------------------
(* Coverage changes in a request, which drives the author's rows after it:  *)
(* signing, a company's approval or roster; a company's revocation, a text  *)
(* published from the repository; publishing and setting what to re-sign    *)
(* (driveCoverage).                                                         *)
Gained == {"gain", "both"}
Lost == {"loss", "both"}

CoverageChanges(d) ==
  /\ IsAt(d, "idle") /\ Turn /\ covered' = ~covered
  /\ \E as \in (IF covered THEN Lost ELSE Gained) : Becomes(d, [Idle EXCEPT !.at = "list", !.as = as])
  /\ UNCHANGED <<head, runs, row, heard, seen>>

(* Waivers, a revoked signature or roster member: nobody drives anything. *)
CoverageChangesUntold ==
  /\ Turn /\ covered' = ~covered /\ seen' = seen \cup {"stale"}
  /\ UNCHANGED <<head, runs, row, heard, actor>>

Push ==
  /\ head < MaxHead /\ head' = head + 1
  /\ UNCHANGED <<runs, covered, row, heard, actor, steps, seen>>

-----------------------------------------------------------------------------
(* convergePr, of the next event or of the head a re-gate fetches. *)
TakeEvent ==
  /\ IsAt("gate", "idle") /\ heard < head /\ heard' = heard + 1
  /\ Becomes("gate", [Idle EXCEPT !.at = "decide", !.sha = heard + 1])
  /\ UNCHANGED <<head, runs, covered, row, steps, seen>>

ReGate ==
  /\ IsAt("gate", "idle") /\ Other
  /\ Becomes("gate", [Idle EXCEPT !.at = "decide", !.as = "regate", !.sha = head])
  /\ UNCHANGED <<head, runs, covered, row, heard, seen>>

(* What each drive selects, and on which decision it acts. *)
Selects(as) ==
  CASE as = "gain" -> {"CHECK_REQUIRED"}
    [] as \in Lost -> {"APPROVED"}

Acts(as) == covered = (as = "gain")

(* Mutant of Ends: the gains are left out. *)
EndsUnchained(a) == Becomes(a, Idle)

(* driveCoverage goes for the gains when it is through with the losses. *)
Ends(a) ==
  Becomes(a, IF actor[a].as = "both" THEN [Idle EXCEPT !.at = "list", !.as = "gain"] ELSE Idle)

(* Mutant of Sweep: it looks at rows that pass only. *)
SweepApproved(d) ==
  /\ IsAt(d, "idle") /\ row.status = "APPROVED"
  /\ Becomes(d, [Idle EXCEPT !.at = "decide", !.as = "sweep", !.sha = row.sha])
  /\ UNCHANGED <<head, runs, covered, row, heard, steps, seen>>

(* A sweep takes rows of either status, of those the app did not close; the *)
(* author is one of the 200 newest applicants, and approved.                *)
Sweep(d) ==
  /\ IsAt(d, "idle") /\ Becomes(d, [Idle EXCEPT !.at = "decide", !.as = "sweep", !.sha = row.sha])
  /\ UNCHANGED <<head, runs, covered, row, heard, steps, seen>>

ListRow(a) ==
  /\ IsAt(a, "list")
  /\ IF row.status \in Selects(actor[a].as)
     THEN Becomes(a, [actor[a] EXCEPT !.at = "decide", !.sha = row.sha])
     ELSE Ends(a)
  /\ UNCHANGED <<head, runs, covered, row, heard, steps, seen>>

decideForRepo(a) ==
  /\ IsAt(a, "decide")
  /\ LET decided == [actor[a] EXCEPT !.pass = covered, !.cla = covered, !.as = Chained(@),
                                  !.asked = turns]
     IN CASE a = "gate" -> Becomes(a, [decided EXCEPT !.at = IF covered THEN "cover" ELSE "prior"])
          [] a # "gate" /\ Acts(actor[a].as) -> Becomes(a, [decided EXCEPT !.at = "read"])
          [] OTHER -> Ends(a)
  /\ UNCHANGED <<head, runs, covered, row, heard, steps, seen>>

(* A decision that allows says nothing of the CLA check, which asks again; no *)
(* answer is "required".                                                      *)
resolveClaState ==
  /\ IsAt("gate", "cover")
  /\ \/ /\ Becomes("gate", [actor["gate"] EXCEPT !.at = "prior", !.cla = covered])
        /\ UNCHANGED steps
     \/ Other /\ Becomes("gate", [actor["gate"] EXCEPT !.at = "prior", !.cla = FALSE, !.asked = 0])
  /\ UNCHANGED <<head, runs, covered, row, heard, seen>>

ReadPrior ==
  /\ IsAt("gate", "prior")
  /\ Becomes("gate", [actor["gate"] EXCEPT !.at = "upsert", !.prior = row.sha])
  /\ UNCHANGED <<head, runs, covered, row, heard, steps, seen>>

Undisturbed == \A d \in Drives : IsAt(d, "idle")

(* Mutant of Upserted: the ids of the previous commit's runs are kept. *)
UpsertedKeeping(call) == [row EXCEPT !.status = StatusOf(call.pass), !.sha = call.sha]

(* The ids belong to the previous commit: once the sha advances they go. *)
Upserted(call) ==
  [row EXCEPT !.status = StatusOf(call.pass), !.sha = call.sha,
              !.id = IF call.prior # call.sha THEN NoRuns ELSE @]

(* A new commit recorded with no one else under way is a new beginning. *)
Upsert ==
  LET call == actor["gate"] IN
  /\ IsAt("gate", "upsert") /\ row' = Upserted(call)
  /\ Becomes("gate", [call EXCEPT !.at = "read", !.prior = 0])
  /\ seen' = Outdated(call) \cup (IF Undisturbed /\ call.prior # call.sha THEN {} ELSE seen)
  /\ UNCHANGED <<head, runs, covered, heard, steps>>

-----------------------------------------------------------------------------
(* publishDecisionCheck, then publishClaCheck: the row is read for the id of *)
(* a run of this commit, GitHub is called, the id is written to the row.     *)
Stored(call) == IF row.sha = call.sha THEN row.id[call.check] ELSE NoRun

ReadRun(a) ==
  /\ IsAt(a, "read") /\ Becomes(a, [actor[a] EXCEPT !.at = "send", !.id = Stored(actor[a])])
  /\ UNCHANGED <<head, runs, covered, row, heard, steps, seen>>

Posts(call) == call.id = NoRun
On(call) == runs[call.check][call.sha]

upsertCheckRun(call) ==
  runs' = IF Posts(call) THEN [runs EXCEPT ![call.check][call.sha] = Append(@, Verdict(call))]
          ELSE [runs EXCEPT ![call.check][call.id[1]][call.id[2]] = Verdict(call)]

Send(a) ==
  LET call == actor[a] IN
  /\ IsAt(a, "send") /\ upsertCheckRun(call) /\ seen' = seen \cup Outdated(call)
  /\ Becomes(a, [call EXCEPT !.at = "write",
                             !.id = IF Posts(call) THEN <<call.sha, Len(On(call)) + 1>> ELSE @])
  /\ UNCHANGED <<head, covered, row, heard, steps>>

(* The decision's check, then the CLA's, then a drive flips its row. *)
Published(a) ==
  CASE actor[a].check = "decision" ->
         Becomes(a, [actor[a] EXCEPT !.at = "read", !.check = "cla", !.id = NoRun,
                                     !.pass = a # "gate" /\ @])
    [] actor[a].check = "cla" /\ a = "gate" -> Becomes(a, Idle)
    [] OTHER -> Becomes(a, [Idle EXCEPT !.at = "flip", !.as = actor[a].as,
                                       !.pass = actor[a].pass, !.asked = actor[a].asked])

(* An error is logged and swallowed, whether or not GitHub did it. *)
SendFails(a) ==
  /\ IsAt(a, "send") /\ Other /\ Published(a)
  /\ runs' = runs \/ upsertCheckRun(actor[a])
  /\ seen' = seen \cup {"displaced"}
  /\ UNCHANGED <<head, covered, row, heard>>

WriteRun(a) ==
  LET call == actor[a] IN
  /\ IsAt(a, "write") /\ row' = [row EXCEPT !.id[call.check] = call.id, !.sha = call.sha]
  /\ Published(a)
  /\ seen' = seen \cup (IF row.sha = call.sha THEN {} ELSE {"displaced"})
  /\ UNCHANGED <<head, runs, covered, heard, steps>>

(* Mutant of Flip: the decision on a collaborator is stored as it is. *)
FlipVerbatim(a) ==
  /\ IsAt(a, "flip") /\ Ends(a)
  /\ row' = [row EXCEPT !.status = IF actor[a].pass THEN "BYPASSED" ELSE "CHECK_REQUIRED"]
  /\ seen' = seen \cup Outdated(actor[a])
  /\ UNCHANGED <<head, runs, covered, heard, steps>>

Flip(a) ==
  /\ IsAt(a, "flip") /\ row' = [row EXCEPT !.status = StatusOf(actor[a].pass)] /\ Ends(a)
  /\ seen' = seen \cup Outdated(actor[a])
  /\ UNCHANGED <<head, runs, covered, heard, steps>>

-----------------------------------------------------------------------------
(* Temporal repeats the activity from its start. *)
ConvergeRetried ==
  /\ ~IsAt("gate", "idle") /\ Other
  /\ LET call == actor["gate"]
     IN Becomes("gate", [Idle EXCEPT !.at = "decide", !.as = call.as,
                                     !.sha = IF call.as = "regate" THEN head ELSE call.sha])
  /\ UNCHANGED <<head, runs, covered, row, heard, seen>>

(* A request or a sweep that dies is not taken up where it was left. *)
DriveDies(d) ==
  /\ ~IsAt(d, "idle") /\ Other /\ Becomes(d, Idle)
  /\ seen' = seen \cup {"stale"}
  /\ UNCHANGED <<head, runs, covered, row, heard>>

Step(a) ==
  \/ ListRow(a) \/ decideForRepo(a)
  \/ ReadRun(a) \/ Send(a) \/ WriteRun(a) \/ Flip(a)

Gate == TakeEvent \/ resolveClaState \/ ReadPrior \/ Upsert \/ Step("gate")

ClaGateNext ==
  \/ CoverageChangesUntold \/ Push \/ ReGate \/ Gate \/ ConvergeRetried
  \/ \E d \in Drives : CoverageChanges(d) \/ Sweep(d) \/ Step(d) \/ DriveDies(d)
  \/ \E a \in Actors : SendFails(a)

(* What is running goes on, an event is converged, the sweep comes round. *)
ClaGateSpec ==
  /\ ClaGateInit /\ [][ClaGateNext]_claGateVars
  /\ WF_claGateVars(Gate) /\ \A d \in Drives : WF_claGateVars(Sweep(d) \/ Step(d))

-----------------------------------------------------------------------------
IsRun(c, id) == id = NoRun \/ (id[1] \in 1..MaxHead /\ id[2] \in DOMAIN runs[c][id[1]])

(* The type invariant. *)
ClaGateTypeOK ==
  /\ head \in 1..MaxHead /\ heard \in 0..head /\ covered \in BOOLEAN
  /\ runs \in [Check -> [1..MaxHead -> Seq(BOOLEAN)]]
  /\ row.status \in {"APPROVED", "CHECK_REQUIRED"} /\ row.sha \in 1..MaxHead
  /\ \A c \in Check : IsRun(c, row.id[c])
  /\ \A a \in Actors : /\ actor[a].at \in {"idle", "list", "decide", "cover", "prior", "upsert",
                                           "read", "send", "write", "flip"}
                       /\ actor[a].as \in {"event", "regate", "gain", "loss", "both", "sweep"}
                       /\ actor[a].sha \in 0..MaxHead /\ actor[a].prior \in 0..MaxHead
                       /\ actor[a].pass \in BOOLEAN /\ actor[a].cla \in BOOLEAN
                       /\ actor[a].check \in Check /\ IsRun(actor[a].check, actor[a].id)
  /\ turns \in 1..(MaxTurns + 1) /\ others \in 0..MaxOthers
  /\ seen \subseteq {"stale", "displaced"}

Quiet == heard = head /\ \A a \in Actors : IsAt(a, "idle")

(* When nothing is under way, both checks stand on the head ("both          *)
(* publishers must create fresh runs on the new SHA", webhook.ts:1165), so   *)
(* branch protection waits for none; save that GitHub refused, or that a     *)
(* drive listed before a push wrote its older commit back.                   *)
HeadHasItsChecks ==
  Quiet /\ "displaced" \notin seen => \A c \in Check : runs[c][head] # <<>>

(* When nothing is under way, the row and the checks on the head say what    *)
(* the author's coverage is ("we'll re-check automatically once signed",     *)
(* check-run.ts:137), whoever of converge, drives and sweep wrote last.      *)
(* Each note names a way in which they really do not, and so do two runs of  *)
(* one name, of which the row names either.                                  *)
ChecksTellTheCoverage ==
  Quiet /\ seen = {} =>
    /\ row.status = StatusOf(covered)
    /\ \A c \in Check : Len(runs[c][head]) = 1 => runs[c][head][1] = covered

Gated ==
  /\ row.status = "CHECK_REQUIRED"
  /\ \A c \in Check : row.id[c] # NoRun /\ ~runs[c][row.id[c][1]][row.id[c][2]]

(* An approved applicant, one of the newest 200, who stays uncovered ends up *)
(* gated, whatever overlapped, failed or was never told, with the runs the    *)
(* row knows of red: the daily sweep takes rows of either status and asks     *)
(* anew (notify.ts:187-250).                                                 *)
SweepRegates == <>[](~covered) => <>[]Gated
=============================================================================
