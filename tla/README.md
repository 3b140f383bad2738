# contribution-checker in TLA+

contribution-checker gates pull requests behind an application of their author
(and, where a project asks for it, a CLA or DCO). A PR of an author who is not
approved is closed and commented on, and reopened on approval. On top of the
gate sit a staging branch with a rolling release PR, a QA board, a path guard,
quality scoring and the administration around them. The program is a Next.js
application over PostgreSQL (Prisma) and a Temporal worker. What is hard to get
right is not any single handler but what handlers, workflows and people do
*between* each other's calls; that is what this directory models.

## 1. The system

### 1.1 Parts

| Part | Code (under `src/src`) | State it keeps | Operations | Here |
|---|---|---|---|---|
| prGate, one workflow per PR | `worker/workflows/pr-gate.ts` | queue of envelopes, pending re-gate, last nonce, converges of the run | `githubEvent`, `reGate`; converge an event or a re-gate; idle, terminal close, Continue-As-New | `PrGate`, `GateTreeProofs` |
| contributorGate, one per contributor and project | `worker/workflows/contributor-gate.ts` | task queue, live children, cooldown and staleness timers | route an event to its prGate; fan a decision out; arm, fire and clear timers | `GateTree`, `GateTreeProofs`, `EventMailbox`, `Applications` |
| projectGate, one per project | `worker/workflows/project-gate.ts`, `worker/activities/sweeps.ts` | task queue, sweep deadlines | paged re-gate of all PRs or of one author's, sweeps, backfill child, retirement | `ProjectGate`, `ProjectGateProofs` |
| convergence of a PR | `lib/github/webhook.ts` | the `PrCheck` row, the PR on GitHub | decide, upsert, close and mark, reopen and unmark | `PrConvergence`, `PrConvergenceProofs` |
| post-decision fan-out | `lib/github/post-decision.ts` | the same rows | reopen on approval, relabel on denial, close on revocation | the same |
| reconcile sweep | `lib/github/reconcile.ts` | the same rows | reopen what an approved author still has closed | the same |
| applications, decisions, appeals | `lib/applications`, the dashboard's `actions.ts` | `Application`, `ApplicationAppeal` | submit, appeal, approve, deny, revoke, allow resubmission, resolve an appeal | `Applications`, `ApplicationsProofs`, `PrConvergence` |
| staging entity, one per repository | `worker/workflows/staging-batch.ts` | dirty flag, deferred sync, passes of the run | request, debounce, pass, deferred wait, roll | `StagingBatch` |
| staging reconcile, aggregate PR | `lib/github/staging.ts` | branches, aggregate PR and its body, `stagingBatchPrNumber`, sync window | compare, sync, find or create, track, write the body; handle its close | `StagingRelease`, `StagingReleaseProofs` |
| QA batch record | `lib/qa/batch-record.ts` | `StagingBatch` items, verdicts | sync with the manifest, drop, freeze as shipped | `StagingRelease`, `StagingReleaseProofs` |
| QA board mirror, one per repository | `worker/workflows/qa-board-sync.ts`, `lib/qa/board` | cards on Notion or Trello, their ids and hashes on the items, `lastPulledAt` | pull verdicts, push cards, archive what shipped, link, unlink | `QaBoard`, `QaBoardProofs` |
| CLA: signatures, versions, rosters, waivers | `lib/cla` | rows, hash-chained event log | publish, sign, approve, revoke, dispute, waive; move to Legal | `ClaLedger`, `ClaProofs` |
| CLA gate of a PR | `lib/github/webhook.ts`, `lib/github/check-run.ts`, `lib/cla/post-sign.ts` | the `PrCheck` row with the ids of its check runs, the runs on GitHub | converge with CLA, re-check after a gain, re-gate after a loss, daily sweep | `ClaGate`, `ClaProofs` |
| webhook intake | `app/api/github/webhook/route.ts`, `lib/temporal/start.ts` | processed delivery ids | check, dispatch, mark, prune | `Deliveries`, `TrafficProofs` |
| outbound webhooks | `lib/notifications/webhooks.ts`, `worker/workflows/webhook-delivery.ts` | one execution per endpoint and event | start, attempt, back off | the same |
| request budget | `lib/github/budget.ts` | one window per installation and resource, in each process | reserve, observe an answer | `RequestBudget`, `TrafficProofs` |
| precedence of a decision | `lib/applications/decide-pr.ts` | none | manual decision, bot, collaborator, team, application, CLA | application in `PrConvergence`, CLA in `ClaGate`, the rest planned |
| rate limits, vault cache, lockdown, terms outbox | `lib/ratelimit*`, `lib/vault*` | windows, caches, outbox rows | | planned, small |
| path guard, quality scoring, AI tasks, CI mode | | run rows | | later or not: calls around a row |
| accounts, teams, UI, schema | | | | not modelled: sequential I/O and rendering |

`PROJECT.json` lists every part with its status.

### 1.2 How the parts interact

GitHub posts a delivery to the intake, which checks that it was not processed, hands it
to a workflow and marks it. A pull request's event is signalled to the author's
contributorGate, which passes it to the prGate of its PR, starting that as a child if
need be; an event without a known author, and every re-gate, goes straight to the
prGate. A change of a project's rules is a re-gate request to its projectGate, which
pages through the `PrCheck` rows and signals each prGate; an administrator who has one
PR re-evaluated signals its prGate directly, with a nonce of its own. A schedule starts
projectGate again whenever it is gone. prGate runs one converge at a time as an
activity. A decision is a database write in a web request, followed by a signal to the
contributorGate, which runs the fan-out between webhooks and tells the applicant; two
kinds of request mail the applicant themselves. The hourly sweep runs beside all of
them. Converge, fan-out and sweep share nothing but the `PrCheck` row and GitHub. A PR
that is blocked, reopened or merged is announced by the handler that did it, one
workflow per endpoint.

A merge into staging, a push, a release and a verdict signal the staging entity,
which runs reconcile passes; the `closed` webhook of the release is handled beside
the passes. The QA board's entity mirrors the items those passes record, and
signals the staging entity when it took a verdict off a card. CLA writes are
transactions that a move to Legal overtakes or waits for; the request that made one
then drives the author's open PRs itself, beside prGate and beside the daily sweep:
it decides, publishes both checks and flips the row. Before every request to
GitHub, any of them asks the budget of its process.

What Temporal contributes, and the models take as given:

* Workflow code runs atomically from one `await` to the next; signal handlers run
  before the main coroutine goes on. So one action is the code between two awaits
  and a signal is an action that may fall between any two.
* A run cannot complete over a signal it has not handled, but one that is handled
  during the last `await` before `return` goes down with the run.
* An activity is attempted up to eight times, from its start each time
  (`proxies.ts:12-20`); an error classified as permanent, or the eighth failure,
  fails the workflow, and what its variables hold is gone. An attempt that was
  given up on by its time-out may still be running beside the next.
* A crashed worker loses nothing: state is rebuilt from the history.
* `signalWithStart` signals the open run or starts one; an external signal to a
  workflow that is not running fails; a second start under an open id is refused.

### 1.3 What makes each part correct, and where it is hard

* **Entities** (prGate, contributorGate, projectGate, staging, QA board): nothing
  handed over is lost by rolling, idling or restarting, order is kept, runs end
  when nothing comes. Hard: signals in every gap, two routes into one workflow, a
  cache of live children.
* **projectGate**: a request reaches every PR it is about though the rows change
  between pages; what sweeps report governs the timers. Hard: attempts that are
  retried or outlive their time-out re-send old nonces, and administrators send
  nonces past it.
* **Convergence**: an unapproved PR is closed and stays so, a close by the bot is
  recorded so that an approval undoes it, nothing else is reopened. Hard: three
  writers, webhooks that describe a past state, activities that are retried half
  done, errors that are swallowed.
* **Applications**: requests check first and write later; the applicant is told
  what stands; a cooldown ends. Hard: overlapping requests, mails sent without
  another look, one timer for several applications, dates that move while a timer runs.
* **Staging**: the release PR lists what it ships with its verdicts, and verdicts
  outlive passes. Hard: a pass is a dozen calls long, the world moves between any two,
  items are read once and written one by one, and most errors are swallowed.
* **QA board**: two sides edit one verdict, the later wins, and the mirror comes to
  rest. Hard: the echo of its own writes, times on two clocks, a pass that reads,
  decides and writes one call after the other.
* **CLA**: rows and log commit together, the chain has one end, a project that moves
  takes everything along. Hard: overlapping transactions under READ COMMITTED, and a
  move that reads table by table while people sign.
* **CLA gate**: when all is quiet the row and both required checks tell the author's
  coverage, and they stand on the newest commit. Hard: nothing serialises converge,
  drive and sweep; each decides first, publishes two checks and writes the row in
  some six calls, on a commit it may have read long ago, and swallows errors.
* **Deliveries**: GitHub is told that a delivery was taken only when a workflow has
  it, every event is handled to its end or goes with a run, and is announced to all
  endpoints or to none. Hard: each call may be done and its answer lost.
* **Budget**: bulk work leaves three quarters of the quota to people, and nobody is
  refused while quota is left. Hard: overlapping calls, late answers, a second
  spender, two clocks of which either may be ahead.

`hazards` in `PROJECT.json` lists these places one by one, with the property that
watches each; a hazard without one says why.

## 2. Modules

```
 PrGate ------------------.                    one prGate
   |                       |
 GateTree ---------------- GateTreeProofs      contributorGate + prGate implement a mailbox
   |-- INSTANCE EventMailbox

 ProjectGate ------------- ProjectGateProofs   the fan-out, and the slot of one prGate

 PrConvergence ----------- PrConvergenceProofs one PR, its row, and the four who write them
 Applications ------------ ApplicationsProofs  requests, decisions, appeals, cooldown timer

 StagingBatch                                  the staging entity
   |
 StagingRelease ---------- StagingReleaseProofs  the pass, GitHub, people around it
 QaBoard ----------------- QaBoardProofs       the board's entity, its pass, both sides

 ClaLedger ---------------.                    CLA transactions and the move to Legal
 ClaGate ----------------- ClaProofs           one PR under CLA: row, checks, drives, sweep

 Deliveries --------------.                    webhooks in and out
 RequestBudget ----------- TrafficProofs       one window and its calls
```

Each `MC...` module is what TLC runs, with one `.cfg` per question.

**PrGate** (`pr-gate.ts`). `queue`, `pendingReGate`, `lastNonce` and `processed`
are the workflow's variables; `pc` says at which await it is suspended; `req` and
`terminal` are the results the main coroutine holds. `SignalEvent`,
`SignalReGate`, `StartChild` and `SignalWithStartEvent` are the ways in,
`ContinueAsNew`, `CapComplete`, `EnterLoop`, `TakeEvent`, `EventConverged`,
`TakeReGate`, `ReGateConverged`, `IdleTimeout`, `NotifyParent`, `Complete` and
`Fail` the loop. The converge itself is an activity that answers, or fails for
good. Envelopes and nonces are numbered in the order they are first sent; `owed`,
`lastConverged`, `asked`, `settled` and `displaced` are what an observer remembers and
no step reads them. Fan-outs are tried again and administrators send past them, so any
nonce may come again at any time (`ReGate`).

**GateTree** composes PrGate with the routing half of contributorGate: `tasks`,
`live` (whether the child is in `liveChildren`), and `cpc`. `startChild` and an
external signal are two steps each, the server's and the parent's, so that a
re-gate, a completion or the child's own report can fall between. Tasks that are
no PR event appear as `Other`: an activity that succeeds or fails the run.
**EventMailbox** is the promise: each envelope takes effect at most once, none
after a newer one. GateTree implements it under the mapping
`waiting <- InHand, last <- lastConverged`.

**ProjectGate** (`project-gate.ts`, `sweeps.ts`). A run sleeps (`wait`) until a
signal or a deadline (`Wake`, `Elapse`), reconciles and re-arms from what the sweep
reports (`ReconcileProject`, `Rearm`, `ClaSweep`, `Retire`), or takes a request
and lists its page (`ListReGatePrTargets`), sends the page one signal at a time
(`SendOne`), and asks for the next (`PageSent`). A batch that fails is sent again
from its start (`BatchRetried`); one that times out leaves a `zombie` attempt
that goes on sending (`BatchTimesOut`, `ZombieSends`). Rows are written and erased
meanwhile. Of the prGates on the other end one, `Watched`, is followed: `pend` and
`last` are its slot and nonce as in PrGate. `ReEvaluate` is the administrator who
signals it past projectGate. What an observer remembers of it is which nonces it was
ever sent (`seen`), whether one that was new came since its last converge began
(`due`), and whether the nonce applied last has come over it since (`displaced`).

**PrConvergence** follows one PR through `handlePullRequestEvent`,
`handlePrClosed`, `reGatePr` and `convergePr` (`gate`), the three fan-outs
(`fan`), the sweep (`sweep`) and people (`Act`, `Decide`, `Resubmit`), one await
at a time. `apps` is the list of the author's applications, of which the newest
decides. `lapses` records effects that failed and that the code does not try
again, so that a property can say which failures it does not cover.

**Applications**. A request on `desk` checks (`Begin`), writes (`Write`,
`ResolveAppeal`), mails (`Mail`) and signals (`Dispatch`), and another may come between
any two; it may also die (`RequestDies`). The gate side takes one task at a time, fans
it out, notifies and re-reads the cooldown (`Arm`); a due timer goes first. `told` is
the last thing each application's author was told, by a notification or by one of the
two mails, and `mistold` marks those told by a mail that was sent after an approval.
Dates are ticks left plus one, so time is unbounded and the state space is not. The
fan-outs themselves are PrConvergence's.

**StagingBatch** is the entity without its pass, **StagingRelease** the pass call
by call (`step`) with the branches as the PRs staging is ahead by and their merge
commits, the aggregate PR and its body as the manifest and verdicts it lists, the QA
record and the two webhooks of a release. The record is read once (`ReadItems`, into
`prior` and `moved`) and written item by item (`WriteItem`), then what is not listed is
dropped (`DropGone`) and the items are read again for the body (`LoadItems`). A
reviewer may say anything between any two of these, a PR may be merged again
(`MergeAgain`), and a release may freeze the very batch the pass writes to (`hold`,
`frozen`). The `closed` webhook of a release is three calls (`ReadClose`,
`ClearTracked`, `MarkBatchShipped`), any of which may fail (`CloseLapses`). An error the
code swallows lets the pass go on (`QaFails`, `Track`, `SyncStaging`), any other ends it
(`PassFails`). `failures` counts those that cost the manifest its truth, `lapses` the
others; `outdated` and `misfiled` are an observer's.

**QaBoard** (`qa-board-sync.ts`, `board/sync.ts`). The entity wakes by a signal or
its poll and runs passes; for each link a pass archives what shipped
(`ArchiveCard`), asks the provider what changed (`PullChanges`), reads the items
and decides which verdicts are newer (`ReadItems`), applies them one by one
(`ApplyVerdict`), reads again and pushes what differs (`PushRead`, `WriteCard`,
`WriteRow`), and sets the mark of the next pull (`MarkPulled`). Reviewers change
either side at any point, and so does the staging entity. Times are only ever
compared, so the model keeps the comparisons: `fresh` holds the items whose card was
edited after the row was written, `unseen` those edited after `lastPulledAt`.

**ClaLedger** (`mutations.ts`, `integrity.ts`, `move-to-legal.ts`). A transaction
reads and checks (`Begin`), writes its rows (`WriteRows`, still uncommitted), and
appends its ledger entry and commits (`appendClaEvent`), or is refused because the
project moved or the row it decided on is locked. An entry carries what it puts
into the rows, so the ledger can be replayed (`RowsAfter`). The move reads table
after table (`ReadTable`), then the log (`ReadEvents`), sends the history, takes
the project's row (`HoldProject`), sends what came since (`SendDelta`), compares
heads and switches (`SwitchOver`); it may fail at any of these and be tried again.

**ClaGate** (`webhook.ts`, `check-run.ts`, `post-sign.ts`). An `actor` is prGate's
converge (`"gate"`) or one of `Drives`, a request or a sweep, with the call it is in
and what it holds: the commit, the decision, the check, the id of the run. The gate
decides (`decideForRepo`), asks for the coverage again (`resolveClaState`), reads the
prior commit (`ReadPrior`) and writes the row (`Upsert`); a drive lists the row
(`ListRow`) and decides. Both then publish, for one check and then the other:
`ReadRun`, `Send`, `WriteRun`, of which `Send` may fail and be swallowed (`SendFails`);
a drive flips its row last (`Flip`). `runs[check][commit]` is the list of such runs
on GitHub, an id the place in it. A coverage that cannot be read counts as "required".
`asked` is which state of the coverage a call's decision is about, 0 if it could read
none, for the observer alone. `CoverageChanges` starts the drive of the request that
made the change, `CoverageChangesUntold` is what drives nothing. `seen` notes the
ways in which the checks really may end up wrong (4, "met before"), so that
properties can name what they exclude.

**Deliveries** (`route.ts`, `start.ts`, `webhooks.ts`, `webhook-delivery.ts`). In:
`Receive`, `Dispatch`, `DispatchFails`, `markProcessed`, `pruneProcessedDeliveries`;
GitHub may send again what it was not told is taken. A merge group's workflow has its
head in its id (`HeadOf`) and is never started twice, so deliveries of one head share it.
Between: `TakeEvent`, `ClosePr` or, for an attempt that decides otherwise, `LetThrough`,
`startOutboundWebhook` per endpoint, `Completes`, `WorkerLost`; and the ways in which
an event goes with a run, `RunEnds` and `RunFails`, kept in `perished`. Out:
`deliverOutboundAttempt`, `AttemptThrows`, `BackoffEnds`. A call that leaves the
process may be taken and its answer lost.

**RequestBudget** (`budget.ts`). `spent` and `left` are GitHub's side, `window` is
the process's, `calls` the requests under way. `reserveRequest` lets a call
through or refuses it, `Lands` is GitHub counting it, `observeResponse` the answer,
in any order; `OthersSpend`, `Breaks`, `Restart` and `Tick` are the rest of the
world. Times are ticks from now, so time has no end; `lag` is by how much the
process's clock is behind, or ahead where it is negative, and `NamedReset` the reset an
answer names, as that clock sees it.

## 3. Runs

| Run | Asks | Instance | States |
|---|---|---|---|
| `pr_gate` | No event or re-gate is forgotten while the run serves | 4 envelopes of which 2 closes, 3 nonces in any order, cap 3, roll suggested from 2 | 35 167 |
| `gate_tree` | The tree implements the mailbox, idling orphans no child, an envelope is lost only with a run, the tree drains | 3 envelopes, 1 close, 2 nonces, 1 other task, caps 2 | 238 226 |
| `project_gate` | A fan-out reaches every PR it is about, a prGate ends converged after the newest request, sweeps recur while they should | 3 rows of which 2 at the start, 2 requests, through it or past it, 2 changes of the settings, 1 erased row, 1 fault, page of 2, cap 1 | 614 853 |
| `pr_convergence` | A never approved author's PR does not stay open; a bot close is on record; sweeps heal | 2 acts, 3 decisions, 1 fault, 4 of these in all | 1 642 101 |
| `applications` | The applicant's last word is true; a cooldown with a timer ends | 2 overlapping requests, 4 in all, 3 applications, 1 fault, cooldown 2 ticks | 360 117 |
| `staging_release` | The manifest converges; passes take no verdict back, and leave none beside a later merge | 2 PRs, 2 merges of each, 2 releases, 1 push, repeated merge or fault, cap 2 | 4 602 874 |
| `qa_board` | Only a later verdict is taken off a card, the mirror comes to rest, what it took reaches the release | 1 item, 1 batch, 2 providers, 2 verdicts, 5 moves, 1 fault, cap 1 | 439 127 |
| `cla_ledger` | A moved project has one chain, Legal has every row it can have | 2 overlapping transactions, 2 in all, 2 attempts at the move | 394 237 |
| `cla_gate` | The head has both checks, row and checks tell the coverage, an uncovered author ends up gated | 1 drive or sweep beside the converge, 2 commits, 2 changes of coverage, 1 re-gate or fault, 2 of these in all | 2 519 051 |
| `deliveries` | What GitHub was told is taken a workflow has; an event is handled or goes with a run, and is announced whole | 2 requests, 2 sends, 1 PR event, 2 merge groups of one head, 2 endpoints, 1 back-off, 1 fault | 829 503 |
| `request_budget` | The bulk lane keeps to its share; nobody is refused while quota is left | 2 overlapping calls, quota 8, default 4, an hour of 2 ticks, a clock 1 behind, right or 1 ahead, 1 fault | 7 532 831 |
| `approved_reopened` | See Findings | the smallest that shows it | |

Why the bounds are enough. In `pr_gate` and `gate_tree` the counters are bounded
from outside only: caps of 2 or 3 make every run roll, twice over the envelopes
there are, and one envelope before, at and after each of loop head, wait, converge
and exit needs three. In `project_gate` three rows and a page of two make a fan-out
with a second page, to which a row may be added and from which one may be erased;
two requests overlap, and a cap of one rolls the run after each task. In
`pr_convergence` every pair of writers can overlap with two more steps by people
before or between; `MaxSteps` cuts the product of acts, decisions and faults, not
any one of them below what it is set to, and the same properties held with
`MaxActs = 1, MaxSteps = 4` and `MaxSteps = 3` (smaller) while the model was built.
In `applications` two requests suffice for every race of a check with a write, and
a third and fourth set the stage (a denial and its resubmission). In
`staging_release` two PRs distinguish "one shipped, one came too late", two
aggregate PRs a stale one from its successor, and one grade with its taking back is
every change of a verdict. `MaxReleases` also bounds people: they merge or close an
aggregate PR only while another one may be opened. `MaxExtras` counts pushes, repeated
merges and faults together; with one PR, two grades and one of each of the three (4.6
million states) the properties held as well. In `qa_board`
five moves allow a link, a record and three edits or a second link between any two
calls of a pass; items do not interact. In `cla_ledger` any two transactions
overlap with each other and with every step of the move; the properties also held
with three transactions and one attempt (3.9 million states). In `deliveries` one
request can overtake its own repetition or the second delivery of its head, and one of
the two endpoints can be started without the other. In `cla_gate` one
drive overlaps every step of a converge and of the next, two changes make the
coverage come back, and a second commit is pushed anywhere; with re-gate and fault
together (10.6 million states) the safety properties held as well. In
`request_budget` the quota is twice the default, so that a window's first answer
corrects it, and the bulk share is 2, so it is reached. A clock that is off by one
tick is off by half the hour.

Symmetry is used where the members are interchangeable and only safety is asked
(`staging_release`, `cla_ledger`, `request_budget`).

`CHECK_DEADLOCK FALSE` stands where the system may really fall silent once the steps
of people are spent: staging, convergence, applications, projectGate (retired), the
QA board, the ledger, the CLA gate, deliveries.

### Fairness

* prGate, contributorGate, the staging entity and their activities: weak fairness
  of the worker's steps (`Work`, `ParentWork`, `ChildWork`, `Gate`, `Fan`). Temporal
  re-dispatches a task until a worker completes it and fires timers; no step is
  preferred, so an activity may still fail every time its bound allows.
* projectGate: the same for its `Work`, for the keepalive schedule (`Ensure`), for
  the rest of a timed-out attempt and for the prGate's converge. The two deadlines
  elapse under strong fairness: the clock goes on whatever the loop is doing, but a
  deadline can elapse only while the run is open and its timer armed.
* QA board: weak fairness of its `Steps`, the poll among them.
* Deliveries: what is signalled is taken, and the handler goes on (`TakeEvent`,
  `ClosePr` or `LetThrough`, `startOutboundWebhook`, `Completes`). Neither GitHub nor
  the requests get any: a request may die at any point.
* CLA gate: what converges goes on (`Gate`); a drive goes on, and the daily sweep comes
  round when none is under way. Neither a re-gate nor a push is owed.
* `Sweep`: the schedule fires again whatever the last pass did.
* `Serve(d)` of `applications`: a web request that was begun runs to its end, or
  dies (`RequestDies`), and time passes (`Tick`).
* Handlers of webhooks in `staging_release`: what GitHub has sent is handled.
* People, GitHub and failures get none. ClaLedger and RequestBudget state safety only.

Liveness is stated with the senders falling silent (`<>[][Work]_vars => ...`), the
faults bounded or excluded by name, or a setting that stays as it is.

### What a mutant shows

Every property of a passing run is broken by a plausible bug in a mapped definition,
written beside it as "Mutant of ...": a queue left out of the Continue-As-New input, a
slot cleared after its await, a close without its mark, a terminal answer for every
close, a dirty flag cleared when the pass is over, a verdict written back as it was
read, one kept over a later merge, a timer not re-armed because one is armed, a request
for the next page that is not handed on, check runs of the commit before kept, a sweep
of passing rows only, an append without a look at the project's row, a dispatch that
fails quietly, a fan-out that ends before its last endpoint, an unknown remainder
counted down, and so on.

## 4. Findings

One is a run in which TLC refutes what the documentation says.

**A PR stays closed after its author's approval** (`approved_reopened`,
`webhook.ts:1179`). An approval between two converges of a closed PR leaves a row
that says APPROVED and closed by the app, which neither the fan-out nor the
sweep selects.

### Met before

Disagreements and gaps met while the modules were written, each seen in a TLC trace
or in the steps of a proof, for which no run is kept. Paths as in 1.1.

* **A new commit never gets its CLA check** (`check-run.ts:348`). A drive or sweep that
  listed the row before a push publishes on the old commit, between the converge's
  upsert, which cleared the ids, and its publishing, and writes the old commit and
  run back. The converge publishes its decision check and writes the new commit beside
  the old CLA run, then patches that run. "Both publishers must create fresh runs on the
  new SHA" (`webhook.ts:1165-1169`), or the required check stays "Expected"; only
  another push helps. `HeadHasItsChecks` excludes an id written to a row at another
  commit.
* **An author who signed stays blocked** (`webhook.ts:1143`). A converge that decided
  before the signature writes and publishes after the drive of the signature. "We'll
  re-check automatically once signed" (`check-run.ts:137`) has then been done already.
  The other way round an author who lost coverage is passed, until the sweep. And
  coverage that is lost and regained while a converge is between its two readings
  leaves a red CLA check beside an approved row: the decision, the CLA's answer and
  what is carried out may each be about another moment. So `ChecksTellTheCoverage`
  excludes every verdict carried out after the coverage it is about (`asked`) has
  changed, also when it has changed back. That case needs two changes around one
  converge; it was met when the argument of `CoverageIsTold` was checked at larger
  bounds.
* **A refused check is not tried again** (`check-run.ts:221`, `:353`). `upsertCheckRun`
  rethrows a rate limit "so the activity retries with backoff instead of dropping the
  check" (`pr-actions.ts:1046`); both publishers catch it, and the drive flips its row.
* **Two runs of one name** (`check-run.ts:195`). Two writers that both read no id both
  create a run, and the row names one of them.
* **Waivers drive nothing** (`[id]/cla/actions.ts:455`), nor does revoking a signature
  or a roster member, although `post-sign.ts:51` names a waiver among what calls it. A
  loss is found by the sweep, a gain by the next converge.
* **A verdict given on a card is never seen** (`board/sync.ts:153`). A pass sets
  `lastPulledAt` to the time it ends. A card edited after the pass asked for changes,
  and before that, is older than the mark: no poll asks for it again, though nothing
  failed and a late webhook "costs latency and never correctness"
  (`qa-board-sync.ts:48-50`).
* **An older re-gate subsumes a newer one** (`pr-gate.ts:112`). A batch signals a prGate,
  which converges, and is lost; an administrator has that PR re-evaluated
  (`prs/actions.ts:389-399`, a nonce of its own); the batch's next attempt signals its
  nonce again before the prGate gets to the administrator's. The handler keeps the latest
  signal, and the loop skips it as applied (`:169`). "An older un-applied request is
  subsumed by a newer one" (`:109-110`); here no converge follows the newer one. An
  attempt past its time-out does the same to the next fan-out.
* **A signal during the last await is dropped** (`pr-gate.ts:147`, and `:182` for the
  terminal exit). After the idle window the run awaits the notification of its
  parent and returns without looking at its queue again; "a later signal starts a
  fresh run" (`:145`) does not hold for one that arrives just then.
* **A child that ends by its cap or by failing stays "live"** (`pr-gate.ts:199`). It
  reports nothing, so its contributorGate does not idle out until another event
  for that PR finds the child gone.
* **The bot reopens what it did not close** (`webhook.ts:1389`). The author closes the
  PR, the converge of an older event closes it again, which succeeds, and marks it
  as the bot's.
* **A revoked contributor's PRs are reopened** (`[appId]/actions.ts:91`). A decision
  is written and signalled in two steps; a revocation that signals first is fanned
  out first, and the approval's fan-out does not ask whether it still stands.
* **A shipped batch is not recorded** (`staging.ts:1623`). The pass that the
  release's push triggers may clear the tracked PR number before the release's
  `closed` webhook needs it.
* **A release freezes verdicts on what it did not ship** (`batch-record.ts:324`).
  `markBatchShipped` takes whichever batch is open when the release's `closed` webhook
  gets there. A PR merged into staging after the release, recorded by a pass and passed
  by a reviewer before that, is in it: its verdict is history of a release that does not
  hold it, and the next batch has it as pending. "Who verified what, on the release that
  actually shipped" (`:315-316`) is then not what is frozen, and a manifest written
  before goes on showing the verdict.
* **A deferred sync is forgotten by Continue-As-New** (`staging-batch.ts:129`). The
  run rolls because of it and does not hand it on.
* **Rows and log of a moved project can differ** (`move-to-legal.ts:249`). The tables
  and the log are read one query after the other; a write between two of these
  queries is in the log that is sent and not in the rows. `RestIsInLegal` is about
  every other row. `:14-17` says that Legal then decides as this product did. A
  publication that asks for re-signing in the same window leaves the flags of the
  older texts behind as well.
* **A late answer lets bulk work exceed its share** (`budget.ts:247`). An answer of
  GitHub's last hour sets the window's reset back, the window is over at once, and the
  counts of both lanes go with it, though bulk is "capped" (`:18`). The same happens to
  a process whose clock is ahead, with every answer in the last stretch of the hour: each
  names a reset that is over (`:141-143`), so each call starts with nothing counted.
* **One event may be announced twice** (`webhooks.ts:80`). The key that should let a
  retried activity find its first execution hashes a body with the time in it
  (`:27-37`), so it never does; the comment at `:105-108` says it will.
* **An attempt that throws uses up no back-off** (`webhook-delivery.ts:23`): the
  activity's own retry policy governs it, and its time-outs add to the schedule.
* **Two overlapping submissions create two pending applications**
  (`lifecycle.ts:94`); an application that is approved while its appeal is pending may
  have the appeal rejected, whose mail says "your application remains denied"
  (`decide.ts:529`), though "the application stays DENIED" (`:441`) is not looked at
  (`:468`); the mail of an allowed resubmission is not checked either (`:313`); a
  resubmission allowed through an appeal
  arms no timer (`decide.ts:498`); one cooldown slot serves all applications of a
  contributor (`contributor-gate.ts:167`).
* **Two administrators decide about one company** (`mutations.ts:646`): each reads
  PENDING, the second waits for the first and writes over it. Both decisions are in
  the ledger, the later one in the row. Likewise a `DISPUTED` member is asked for
  consent again only while the row is there: revoked and added anew, the member is
  active at once; and `setVersionResign` that races a publication flags a text that
  is no longer the newest.
* **Inserts under one project deadlock** (`integrity.ts:116`): both hold a share of the
  project's row by their foreign key when each asks for it alone. PostgreSQL ends one
  of them, which rolls back.
* **An erased cursor row ends a fan-out early** (`sweeps.ts:103`), and a retirement
  drops the re-gates that are queued (`project-gate.ts:160`).
* **Two providers linked to one repository take turns at one pointer**
  (`board/sync.ts`): an item has one `externalId`, so each link's pass creates its own
  card and the other's is left behind. `MirrorSettles` asks for one link. A row
  touched by a pass of the staging entity is "newer" than an edit of its card that
  came first, which is then pushed over.

## 5. Proofs

Every theorem is about the module's specification with all its constants left open,
under the module's own named assumption (the constants are numbers, caps at least
1; in ClaLedger and RequestBudget the writers and the calls are finitely many). TLC
evaluates these assumptions on every run and has checked each inductive invariant on
the instance of its run before it was proved; those of ClaGate, StagingRelease and
QaBoard on larger ones as well.

| Module | Theorems | Inductive invariant |
|---|---|---|
| `GateTreeProofs` (PrGate) | `QueueInvariant`, `TypeCorrect`, `NothingForgotten`, `Ordered`, `ReGateKept` | `QueueInv`, `ReGateInv` |
| `GateTreeProofs` (GateTree) | `TreeImplements` (the refinement of EventMailbox), `LossExplained`, `NoOrphans`, `TreeTypes` | `TreeInv`, `ChildKnown`, `TasksCounted` |
| `ProjectGateProofs` | `NewestApplied`, `GateTypes`, `FanOutReaches` | `SlotInv`, `TypeInv`, `FanInv` |
| `PrConvergenceProofs` | `UnapprovedIsClosed`, `ClosesAreRecorded`, `ConvergenceTypes` | `NeverInv`, `RecordInv`, `ConvTypes` |
| `ApplicationsProofs` | `ApplicationTypes`, `LastWord` | `TypeInv`, `WordInv` |
| `StagingReleaseProofs` | `VerdictsKept`, `ReleaseTypes`, `Converges` | `ReleaseInv`, `ManifestInv` |
| `QaBoardProofs` | `QaTypes`, `NewerVerdict` | `TypeInv`, `ByAPerson` |
| `ClaProofs` (ClaLedger) | `OneChain`, `OneAccount`, `RowsRestOnRows`, `LegalHasTheRest` | `MovedForGood`, `RowsInv`, `LegalTypes`, `MoveInv` |
| `ClaProofs` (ClaGate) | `ClaGateTypes`, `HeadIsServed`, `CoverageIsTold` | `CallTypes`; `OnHead`, `Placed`; `Verdicts`, `Settles` |
| `TrafficProofs` (Deliveries) | `AckedWasTaken`, `AnnouncedToAll`, `DeliveryTypes` | `IntakeInv`, `FanInv`, `TypeInv` |
| `TrafficProofs` (RequestBudget) | `RefusalsAreDue`, `BudgetTypes`, `LaneKeepsItsShare` | `BudgetInv`, `ShareInv` |

With these, every safety property a passing run checks but `NoVerdictOutlivesItsMerge`,
and the refinement of the mailbox, is a theorem for every value of the constants.

**prGate.** `NoEventForgotten` says that an open run's queue holds exactly the
envelopes the entity accepted and has not converged (`QueueIsOwed` says so of a
closed run too). By itself that is not inductive: with a queue in which an envelope
occurs twice, shifting one leaves the other behind while `owed` loses it. So
`QueueInv` adds that the queue strictly grows (`EventsInOrder`), that all of it has
been delivered (`Delivered`: the next envelope is newer than everything), and where
the run can be with what in hand (`LoopShape`). Two lemmas on `Range` carry the
sequence reasoning. `QueueAccepts`, `QueueShifts`, `QueueKept` and `QueueLetGo` are
the four things that can happen to a queue, and each action is one of them.
`ReGateInv` adds that no nonce applied or being applied is newer than `settled`, that a
serving run with a request owed has one in the slot that will not be skipped, and that a
closed run owes none. Nonces come in any order, so there is an exception: the nonce
applied last, or being applied, is signalled again over a newer one, and takes its slot
(`displaced`). Without it TLC finds `NoReGateForgotten` violated; with it, any other
nonce in the slot, older or newer, is one the loop converges for.

**projectGate** has the senders. `NewestApplied` is about the prGate that is followed:
when nothing is pending, a converge began after each nonce that was new to it, and the
only exception is again `displaced`. `SlotInv` says that what is pending was sent, and
is not the nonce applied last while something is due; it asks nothing of who sent what
when, so batches that are repeated, attempts past their time-out and administrators'
re-evaluations need no assumption. For
`FanOutReaches`, what is true when a fan-out ends has to be true of each page: the
rows that were open when it was asked for are signalled up to the cursor while the
next page is listed, and signalled or in the batch up to the next cursor while one is
sent (`FanInv`). It says so of ids in order, so a row written behind the cursor does
not matter, and leaves out a walk whose cursor was erased (`cursorLost`), which the
code ends early.

**contributorGate.** The child's invariant is `QueueInv`; the parent adds that the
task in flight is still the queue's head (`TasksShape`) and that what the parent has
yet to hand over is newer than all the child got (`TasksInOrder`). `TreeImplements`
then maps every step to a send, a converge, a drop or a stutter of the mailbox: a
child the server started already holds the head (`Ahead`), so an envelope is never
counted twice. For `NoOrphans`, `ChildKnown` says that a child of its own that has not
reported is in the live set or about to be put there.

**Convergence.** `NeverApprovedStaysClosed` speaks of quiet states, and what makes
it true is in the queues: while the author was never approved, an open PR has an event
in line, in prGate's queue or among contributorGate's tasks, whose converge closes
it (`SomeoneCloses`). That event must not be dropped by a terminal close before it, so
until a close is on record every "closed" in a queue comes after such an event
(`NoneDropped`, `Headed`): a close that precedes it was made by a person, and a person
can close only what was open. Once a close is on record no close is terminal. Without
the second half the induction fails at the terminal answer. `RecordInv` is the
argument of the record, with no effect lost and one application approved at most: a
PR the bot closed is marked, or the converge that closed it is about to mark it
(`Recorded`); an approval's fan-out or the sweep may write over the row of a PR they
reopen, and if that PR is closed again it was closed by the converge that blocked it
(`ClosedAgain`), so no stale verdict is left to carry out when they mark.

**Applications.** The last thing an applicant was told is false while news are on their
way, and the news can be in three hands. Notifications are checked against what stands,
mails are not: one that goes out after an approval is the exception (`mistold`), until a
notification or a later mail is the last word. `WordInv` says: until something fails,
what was told is true of where the application stands, or the decision that stands is
carried by the request that wrote it (`Carried`) or is in line at the gate and not yet
told (`InLine`). A decision that no longer stands is skipped there, and by then the one
that replaced it is coming.

**Staging.** `VerdictsKept` is an action property: no step but the release's own
webhook changes a verdict, save a pass that records a later merge commit. A pass reads
items once and writes them one by one, and what it read of a verdict may be long false
by then; what makes the write right is that it carries no status except for an item
that was absent or whose merge commit moved. So `ReleaseInv` follows what a pass has
still to write (`Recorded`): such an item is there if and only if it was when it was
read, and one of the `moved` still has the older commit, because only passes write
items and there is one at a time; a batch frozen under a pass leaves nothing in the
open one. `Merged` says that merge commits reach the record last, `Numbered` that the
aggregate PRs are numbered as they are opened. `Converges` rests on `OnItsWay`: unless
another pass is asked for, by a notice or the dirty flag, what a pass holds at each of
its calls is what it would read now, and what the last one left behind is true.
Whatever people do between two calls asks for another pass, with one exception: the
`closed` webhook of a release signals nothing, and it takes the verdicts of the whole
open batch. Where those are of what is still on staging, the manifest is wrong until
something else asks for a pass; that is `misfiled` (4, "met before"). Where they are
not, an item that is gone and a pending one read the same in the body. A failure the
code swallows costs the manifest nothing unless it is of the record itself: a pass that
could not track its PR or sync the branches lists the same items.

**QA board.** A card is "newer" because of its time, whoever wrote it, and the mirror
writes cards too. `ByAPerson` says why it never takes its own write for a verdict: a
card that is newer than its row was last given a verdict by a person, but for the
one card between the mirror's write of it and of its row; and a pass does not pull in
between. Every write of a row makes the row the newer one. A fault between these
two writes breaks it, which is why `NewerVerdictStands` asks for none.

**CLA ledger.** `MovedForGood`: once enrolled, the two chains are equal and every step
that could append to the ledger here is refused under the project's row, which the
move holds when it compares heads. `RowsInv` carries the rest: rows are never erased,
each rests on one that is there, and the entry an open transaction is about to append
links to rows that are there and changes only these, or texts (`EntryInv`).
For `OneAccount` the rows must be the replay of a ledger of any length; `RowsAfter` is a
recursive function, and that a longer ledger's begins as the shorter one's does is
shown by taking the least length at which it would not (`LeastOf`, `Told`).
`MoveInv` says of each row where it is while a move runs: in what the move has read,
or in Legal, as it is here; or an entry that changes it came after its table was read.

**CLA gate.** `CallTypes`: ids held by the row and by calls under way are of runs that
there are, because no list of runs gets shorter. `HeadIsServed`: the gate gets to each
commit (`OnHead`), still awaits what it has not put there (`HeadServed`), and does
put it there, because neither it nor the row holds a run of another commit (`Placed`)
unless a drive wrote one back. `CoverageIsTold` follows the last writer: a row that is
wrong has someone after it who will write it (`RowComes`), a check that does not
agree with the row is awaited of the gate or of a drive that has not come to its row
(`ChecksCome`), and whoever comes to it has sent both checks (`SentSayIt`), which say
what it asked (`Verdicts`).

**Deliveries.** A request is past its dispatch only with a delivery a workflow has
taken, its own or its head's, so neither its answer nor its mark runs ahead. For
announcements, the executions that are there and the endpoints still to start make up
the whole, under the time of the attempt, unless an attempt at that event decided to
block nothing. `DeliveryTypes` bounds the clock of the fan-outs: each is accounted for
by a request that brought its event, or by a fault that had it run again
(`FanOutsCounted`).

**Budget.** `RefusalsAreDue` (with `lag = 0`): what the process believes is left is
never less than what is left, but for calls GitHub has not counted. For
`LaneKeepsItsShare`, a potential argument: what was let through in GitHub's hour is on
the window's count or was on one that is gone, and each count that goes is one thing
forgotten, or the one a clock behind carried over, or the one a clock ahead dropped
before its hour was over (`Charged`). After that each answer names a reset that is over,
and is one more thing forgotten: so long is the lane without a cap. `Dated` says which
resets a window and its answers can name.

`TypeCorrect` and `Ordered` are proved of prGate and not asked of `pr_gate`: TLC has the
one in `TreeTypeOK`, the other in `ImplementsMailbox`, of the child that
contributorGate drives. `OneAccount` is proved of the ledger, whose transactions carry
most of it, and asked of no run either.

*Only model-checked.* `NoVerdictOutlivesItsMerge`, and all liveness (`TreeDrains`,
`SweepHeals`, `CooldownEnds`, `SweepsRecur`, `MirrorSettles`, `VerdictReachesRelease`,
`SweepRegates`, `EachEventIsHandled`), which with fairness is beyond the proof system.
The induction theorems of the library, and RECURSIVE operators, are beyond it too; the
modules use recursive functions, and where an induction over data is needed (the ledger)
its principle is the least element of a set of numbers.

## 6. What is left out

* Histories recorded before a `patched` marker; queries and search attributes.
* In PrConvergence a webhook arrives once and in order; Deliveries has what the
  intake promises instead, and they are not composed. A signal to an entity is
  taken as delivered, although `signalStagingBatch` and others log and go on when
  Temporal is down (QaBoard lets such a signal fail).
* In PrConvergence: `CHECK_REQUIRED` (ClaGate has the CLA's), DCO, labels, comments
  and check runs; a decision's write and its signal are one step there (Applications has
  them apart).
* In ProjectGate: the backfill child. Of the re-evaluations of administrators only one
  of the PR that is followed plays a part.
* In Applications: review counts and the CLA check of an approval (they only
  refuse), the answers, the People dialog's overrides, the staleness timer, which
  nothing in the repository signals.
* In StagingRelease: routing of PRs onto staging and its reversal, conflicts of
  the sync (a failed pass stands for them), direct pushes to staging, aggregate
  PRs opened by people (and with them the answer that one exists already), verdicts given
  on items of a batch that has shipped, the labels and the check that follow a verdict. A
  PR that is created is tracked by two writes of one number, which are one step.
* In QaBoard: a second link to the same provider with another target,
  `toggleQaTask`, which edits the PR's body; removing a link and clearing its
  pointers are one step, and so are archiving a card and noting it. A pass archives the
  three batches that shipped last (`board/sync.ts:41`, `:334`); the instance has no more.
* In ClaLedger: texts that follow a repository (`repo-source.ts`), what Legal does
  after the switch (`store.ts`, `follow.ts`), mails. What `status.ts` reads off the rows
  is ClaGate's coverage; its cache is read when an application is approved and by no
  decision on a PR.
* In ClaGate: an author whom anything but the CLA holds up (PrConvergence), DCO, labels
  and comments, closing and reopening, merge groups, projects with checks off or
  without the permission, a run deleted on GitHub and created again (`pr-actions.ts:1006`),
  the first converge of a PR (`Init` is its end). The sweep visits authors with an approved
  application, of the newest 200 (`notify.ts:187-195`, `:245`): the author is one of them.
* In Deliveries: pushes, whose workflow starts again when it has closed (`start.ts:307-313`
  refuses no duplicate, as `:294-295` does for a merge group, however its run ended), and
  installations; signatures and lockdown, which refuse before anything is read.
* In RequestBudget: which request counts as large and goes into which lane, GraphQL
  calls that cost more than one (spending of others stands for them), dropping a
  window when there are too many (a restart stands for it).
* The parts marked as not modelled in 1.1.

## 7. Plan

1. `DecideForRepo` as an operator checked against a table of precedence; with it
   DCO, and the CLA of PRs that are closed, in PrConvergence.
2. `StagingRouting`: retargeting, its fuse and its reversal.
3. Rate limits, lockdown, terms outbox.
4. Proofs: the abstract specification of a PR under convergence (closed, or
   something will close it) and of the release, as refinements; the new parts' types.

The runs kept are those with most to say; a run for a new part replaces one.
