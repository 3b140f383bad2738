--------------------------- MODULE StagingRelease ---------------------------
(***************************************************************************)
(* The staging batch of one repository: reconcileStagingBatch and          *)
(* handleAggregatePrClosed (src/src/lib/github/staging.ts), the QA record  *)
(* (src/src/lib/qa/batch-record.ts), the stagingBatch entity that          *)
(* serialises the passes, and the people on GitHub whose merges, pushes    *)
(* and verdicts fall between any two calls a pass makes.                   *)
(*                                                                         *)
(* Branch contents are the pull requests on staging that the default       *)
(* branch lacks, and whether staging lacks commits of the default branch.  *)
(* A body is the manifest it lists with the verdicts it shows.             *)
(***************************************************************************)
EXTENDS StagingBatch, FiniteSets

CONSTANTS
  PRs,           \* pull requests that may be merged into staging
  Grades,        \* what a reviewer may say of an item, pending aside
  MaxMerges,     \* bound: merge commits of one pull request
  MaxReleases,   \* bound: aggregate PRs ever opened
  MaxExtras      \* bound: pushes to the default branch, merges repeated, calls that
                 \* fail and attempts lost to a worker crash, all together

ASSUME StagingReleaseAssumption ==
  /\ MaxMerges \in Nat \ {0} /\ MaxReleases \in Nat \ {0} /\ MaxExtras \in Nat
  /\ Grades \cap {"absent", "listed", "pending"} = {}

VARIABLES
  \* GitHub
  onStaging,   \* PRs merged into staging and not on the default branch
  merge,       \* merge[p]: p's merge commit, 0 before the first
  behind,      \* the default branch has commits staging lacks
  agg,         \* the open aggregate PR, 0 if none
  body,        \* body[n]: what aggregate PR n's description says
  opened,      \* aggregate PRs opened so far
  extras,      \* pushes to the default branch and merges repeated, so far
  \* the Repo row
  tracked,     \* stagingBatchPrNumber, 0 for null
  windowOpen,  \* now < stagingLastSyncAt + STAGING_SYNC_WINDOW_MS
  \* the QA record
  items,       \* the OPEN StagingBatch's items: absent, or their qaStatus
  itemMerge,   \* their mergeCommitSha, 0 where absent
  dropped,     \* items with droppedAt set
  shippedAs,   \* aggregate PRs whose batch was marked SHIPPED
  \* webhooks under way
  notice,      \* a change whose stagingReconcile signal has not been sent
  closes,      \* closes[n]: next call of aggregate PR n's `closed` webhook
  \* the running pass; a local is cleared after its last use
  step,        \* next call of reconcileStagingBatch, "idle" when none runs
  cmp,         \* compareBranches' answer
  wasTracked,  \* stagingBatchPrNumber as read at the start
  list,        \* the batch: the merge commits of the PRs in it, 0 for others
  prior,       \* the items as read
  moved,       \* those read with another merge commit than listed
  todo,        \* items still to be written
  hold,        \* the batch it writes to: open, or frozen since
  frozen,      \* that batch's items, once frozen
  found,       \* the aggregate PR found or created
  manifest,    \* the body to write, fixed when the QA record was read
  deferred,    \* syncDeferred of this pass
  failures,    \* calls whose failure cost the manifest its truth
  lapses,      \* other failures, and crashes
  \* What an observer outside remembers
  mergedAggs,  \* aggregate PRs that were merged
  shipped,     \* PRs they brought to the default branch
  declined,    \* the last aggregate PR was closed without merging
  outdated,    \* PRs merged again since somebody last spoke of them
  misfiled     \* a release froze a verdict on work it did not ship

github == <<onStaging, merge, behind, agg, body, opened, extras>>
row == <<tracked, windowOpen>>
qa == <<items, itemMerge, dropped, shippedAs>>
hooks == <<notice, closes>>
recording == <<list, prior, moved, todo, hold, frozen>>
pass == <<step, cmp, wasTracked, recording, found, manifest, deferred>>
faults == <<failures, lapses>>
ghosts == <<mergedAggs, shipped, declined, outdated, misfiled>>
releaseVars == <<entityVars, github, row, qa, hooks, pass, faults, ghosts>>

Steps == {"idle", "read", "compare", "sync", "untrack", "items", "upsert", "load", "find", "track", "write"}
CloseSteps == {"none", "read", "clear", "mark"}
Aggs == 1..MaxReleases
Merges == 0..MaxMerges
Statuses == {"absent", "pending"} \cup Grades
Bodies == [PRs -> Statuses \cup {"listed"}]
NoItems == [p \in PRs |-> "absent"]
NoMerges == [p \in PRs |-> 0]
NoCompare == [ahead |-> NoMerges, behind |-> FALSE]

Spent == extras + failures + lapses

ReleaseInit ==
  /\ EntityInit
  /\ onStaging = {} /\ merge = NoMerges /\ behind = FALSE
  /\ agg = 0 /\ body = [n \in Aggs |-> NoItems] /\ opened = 0 /\ extras = 0
  /\ tracked = 0 /\ windowOpen = FALSE
  /\ items = NoItems /\ itemMerge = NoMerges /\ dropped = {} /\ shippedAs = {}
  /\ notice = FALSE /\ closes = [n \in Aggs |-> "none"]
  /\ step = "idle" /\ cmp = NoCompare /\ wasTracked = 0
  /\ list = NoMerges /\ prior = NoItems /\ moved = {} /\ todo = {} /\ hold = "none" /\ frozen = NoItems
  /\ found = 0 /\ manifest = NoItems /\ deferred = FALSE
  /\ failures = 0 /\ lapses = 0
  /\ mergedAggs = {} /\ shipped = {} /\ declined = FALSE /\ outdated = {} /\ misfiled = FALSE

-----------------------------------------------------------------------------
(* People on GitHub and on the QA board. *)

(* A pull request is merged into staging; `closed` and `push` both signal. *)
MergeIntoStaging(p) ==
  /\ p \notin onStaging \cup shipped
  /\ onStaging' = onStaging \cup {p} /\ merge' = [merge EXCEPT ![p] = 1] /\ notice' = TRUE
  /\ UNCHANGED <<entityVars, behind, agg, body, opened, extras, row, qa, closes, pass, faults, ghosts>>

(* It is merged there again: a new merge commit, and a verdict on the old one. *)
MergeAgain(p) ==
  /\ p \in onStaging /\ merge[p] < MaxMerges
  /\ Spent < MaxExtras /\ extras' = extras + 1
  /\ merge' = [merge EXCEPT ![p] = @ + 1] /\ notice' = TRUE
  /\ outdated' = IF items[p] \in Grades THEN outdated \cup {p} ELSE outdated
  /\ UNCHANGED <<entityVars, onStaging, behind, agg, body, opened, row, qa, closes, pass, faults,
                 mergedAggs, shipped, declined, misfiled>>

PushDefault ==
  /\ Spent < MaxExtras /\ extras' = extras + 1
  /\ behind' = TRUE /\ notice' = TRUE
  /\ UNCHANGED <<entityVars, onStaging, merge, agg, body, opened, row, qa, closes, pass, faults, ghosts>>

(* The release: what is on staging reaches the default branch with a merge    *)
(* commit staging lacks.  The push signals; the close is a webhook of its own. *)
MergeAggregate ==
  /\ agg # 0 /\ onStaging # {} /\ opened < MaxReleases
  /\ onStaging' = {} /\ behind' = TRUE /\ agg' = 0
  /\ notice' = TRUE /\ closes' = [closes EXCEPT ![agg] = "read"]
  /\ mergedAggs' = mergedAggs \cup {agg} /\ shipped' = shipped \cup onStaging
  /\ UNCHANGED <<entityVars, merge, body, opened, extras, row, qa, pass, faults, declined, outdated, misfiled>>

CloseAggregate ==
  /\ agg # 0 /\ opened < MaxReleases
  /\ agg' = 0 /\ closes' = [closes EXCEPT ![agg] = "read"] /\ declined' = TRUE
  /\ UNCHANGED <<entityVars, onStaging, merge, behind, body, opened, extras, row, qa, notice,
                 pass, faults, mergedAggs, shipped, outdated, misfiled>>

(* A reviewer says anything of an item of the open batch, takes a verdict back  *)
(* included; the action signals qa_changed.                                      *)
Verdict(p, g) ==
  /\ items[p] # "absent" /\ g \in Grades \cup {"pending"} /\ g # items[p]
  /\ items' = [items EXCEPT ![p] = g] /\ notice' = TRUE /\ outdated' = outdated \ {p}
  /\ UNCHANGED <<entityVars, github, row, itemMerge, dropped, shippedAs, closes, pass, faults,
                 mergedAggs, shipped, declined, misfiled>>

WindowElapses ==
  /\ windowOpen /\ windowOpen' = FALSE
  /\ UNCHANGED <<entityVars, github, tracked, qa, hooks, pass, faults, ghosts>>

-----------------------------------------------------------------------------
(* Webhook handlers. *)

SendNotice ==
  /\ notice /\ notice' = FALSE
  /\ Request
  /\ UNCHANGED <<github, row, qa, closes, pass, faults, ghosts>>

CloseGoes(n, from, to) == closes[n] = from /\ closes' = [closes EXCEPT ![n] = to]

(* handleAggregatePrClosed: only the tracked PR is the aggregate PR. *)
ReadClose(n) ==
  /\ CloseGoes(n, "read", IF tracked = n THEN "clear" ELSE "none")
  /\ UNCHANGED <<entityVars, github, row, qa, notice, pass, faults, ghosts>>

ClearTracked(n) ==
  /\ CloseGoes(n, "clear", IF n \in mergedAggs THEN "mark" ELSE "none")
  /\ tracked' = 0
  /\ UNCHANGED <<entityVars, github, windowOpen, qa, notice, pass, faults, ghosts>>

(* markBatchShipped: freeze the open batch, if there is one, also under a pass *)
(* that is writing to it.                                                       *)
MarkBatchShipped(n) ==
  /\ CloseGoes(n, "mark", "none")
  /\ shippedAs' = IF items # NoItems \/ hold = "open" THEN shippedAs \cup {n} ELSE shippedAs
  /\ items' = NoItems /\ itemMerge' = NoMerges /\ dropped' = {}
  /\ IF hold = "open" THEN hold' = "frozen" /\ frozen' = items ELSE UNCHANGED <<hold, frozen>>
  /\ misfiled' = (misfiled \/ \E p \in onStaging : items[p] \in Grades)
  /\ UNCHANGED <<entityVars, github, row, notice, step, cmp, wasTracked, list, prior, moved, todo, found,
                 manifest, deferred, faults, mergedAggs, shipped, declined, outdated>>

(* A call of the handler fails, which is logged and is its end, or the worker *)
(* dies and the activity begins again.                                         *)
CloseLapses(n) ==
  /\ closes[n] # "none" /\ Spent < MaxExtras /\ lapses' = lapses + 1
  /\ \E to \in {"none", "read"} : closes' = [closes EXCEPT ![n] = to]
  /\ UNCHANGED <<entityVars, github, row, qa, notice, pass, failures, ghosts>>

-----------------------------------------------------------------------------
(* reconcileStagingBatch, from one call that others can observe to the next. *)

Goto(s) == spc = "pass" /\ step' = s /\ UNCHANGED <<entityVars, hooks>>

ForgetRecording ==
  /\ list' = NoMerges /\ prior' = NoItems /\ moved' = {} /\ todo' = {}
  /\ hold' = "none" /\ frozen' = NoItems

ForgetPass ==
  /\ cmp' = NoCompare /\ wasTracked' = 0 /\ found' = 0 /\ manifest' = NoItems /\ deferred' = FALSE
  /\ ForgetRecording

(* The pass returns; its locals are gone. *)
Answer(d) == PassAnswers(d) /\ step' = "idle" /\ ForgetPass

BeginReconcile ==
  /\ BeginPass /\ step' = "read"
  /\ UNCHANGED <<github, row, qa, hooks, cmp, wasTracked, recording, found, manifest, deferred, faults, ghosts>>

ReadRow ==
  /\ step = "read" /\ Goto("compare")
  /\ wasTracked' = tracked
  /\ UNCHANGED <<github, row, qa, cmp, recording, found, manifest, deferred, faults, ghosts>>

CompareBranches ==
  /\ step = "compare" /\ Goto("sync")
  /\ cmp' = [ahead |-> [p \in PRs |-> IF p \in onStaging THEN merge[p] ELSE 0], behind |-> behind]
  /\ UNCHANGED <<github, row, qa, wasTracked, recording, found, manifest, deferred, faults, ghosts>>

(* syncStagingWithDefault and recordStagingSync, paced by the window.  Both log *)
(* their failure: nothing is merged, or the merge is not on record.              *)
SyncStaging ==
  /\ step = "sync" /\ Goto(IF cmp.ahead = NoMerges THEN "untrack" ELSE "items")
  /\ deferred' = (cmp.behind /\ windowOpen)
  /\ \/ /\ cmp.behind /\ ~windowOpen
        /\ behind' = FALSE /\ windowOpen' = TRUE /\ UNCHANGED faults
     \/ /\ cmp.behind /\ ~windowOpen /\ Spent < MaxExtras
        /\ behind' \in {behind, FALSE} /\ UNCHANGED windowOpen
        /\ lapses' = lapses + 1 /\ UNCHANGED failures
     \/ ~(cmp.behind /\ ~windowOpen) /\ UNCHANGED <<behind, windowOpen, faults>>
  /\ UNCHANGED <<onStaging, merge, agg, body, opened, extras, tracked, qa,
                 cmp, wasTracked, recording, found, manifest, ghosts>>

(* trackAggregatePr, which logs its failure. *)
Track(n) ==
  \/ tracked' = n /\ UNCHANGED faults
  \/ tracked # n /\ Spent < MaxExtras /\ lapses' = lapses + 1 /\ UNCHANGED <<tracked, failures>>

(* Nothing to ship: forget a tracked PR that is closed by now. *)
Untrack ==
  /\ step = "untrack" /\ Answer(deferred)
  /\ IF wasTracked # 0 /\ agg # wasTracked THEN Track(0) ELSE UNCHANGED <<tracked, faults>>
  /\ UNCHANGED <<github, windowOpen, qa, hooks, ghosts>>

(* listPullRequests picks those whose merge commit was compared; then           *)
(* syncBatchRecord finds or opens the batch and reads its items.                 *)
ReadItems ==
  /\ step = "items" /\ Goto("upsert")
  /\ list' = [p \in PRs |-> IF cmp.ahead[p] = merge[p] THEN merge[p] ELSE 0]
  /\ todo' = {p \in PRs : list'[p] # 0} /\ moved' = {p \in todo' : list'[p] # itemMerge[p]}
  /\ prior' = items /\ hold' = "open"
  /\ cmp' = NoCompare
  /\ UNCHANGED <<github, row, qa, wasTracked, frozen, found, manifest, deferred, faults, ghosts>>

(* What an upsert leaves of item p's status: a new item is pending, a verdict  *)
(* as it was read is reset when the merge commit it was read with has changed.  *)
Upserted(p, now) ==
  IF prior[p] = "absent" \/ (prior[p] \in Grades /\ p \in moved) THEN "pending" ELSE now

(* The batch found takes p with a status; frozen since, it is history. *)
Held == IF hold = "open" THEN items ELSE frozen

Upsert(p, status) ==
  /\ step = "upsert" /\ p \in todo /\ Goto("upsert") /\ todo' = todo \ {p}
  /\ IF hold = "open"
     THEN /\ items' = [items EXCEPT ![p] = status]
          /\ itemMerge' = [itemMerge EXCEPT ![p] = list[p]] /\ dropped' = dropped \ {p}
          /\ UNCHANGED frozen
     ELSE frozen' = [frozen EXCEPT ![p] = status] /\ UNCHANGED <<items, itemMerge, dropped>>
  /\ UNCHANGED <<github, row, shippedAs, cmp, wasTracked, list, prior, moved, hold, found, manifest,
                 deferred, faults, ghosts>>

(* Mutant of WriteItem: the update carries the status that was read. *)
WriteItemAsRead(p) == Upsert(p, Upserted(p, prior[p]))

(* Mutant of WriteItem: an item that is there keeps its verdict, re-merged or not. *)
WriteItemKeeping(p) == Upsert(p, IF prior[p] = "absent" THEN "pending" ELSE Held[p])

(* syncBatchRecord creates or updates one item. *)
WriteItem(p) == Upsert(p, Upserted(p, Held[p]))

(* What was read and is not in the batch any more is marked. *)
DropGone ==
  /\ step = "upsert" /\ todo = {} /\ Goto("load")
  /\ dropped' = IF hold = "open" THEN dropped \cup {p \in PRs : prior[p] # "absent" /\ list[p] = 0} ELSE dropped
  /\ UNCHANGED <<github, row, items, itemMerge, shippedAs, cmp, wasTracked, recording, found, manifest,
                 deferred, faults, ghosts>>

(* loadBatchItemsForRender; the body lists the batch with what it read. *)
LoadItems ==
  /\ step = "load" /\ Goto("find")
  /\ manifest' = [p \in PRs |-> IF list[p] = 0 THEN "absent" ELSE Held[p]]
  /\ ForgetRecording
  /\ UNCHANGED <<github, row, qa, cmp, wasTracked, found, deferred, faults, ghosts>>

(* safeQa: any call of the record fails, and the body goes without it. *)
QaFails ==
  /\ step \in {"upsert", "load"} /\ Goto("find") /\ Spent < MaxExtras
  /\ failures' = failures + 1 /\ UNCHANGED lapses
  /\ manifest' = [p \in PRs |-> IF list[p] = 0 THEN "absent" ELSE "listed"]
  /\ ForgetRecording
  /\ UNCHANGED <<github, row, qa, cmp, wasTracked, found, deferred, ghosts>>

(* findAggregatePr, else createPullRequest, which GitHub refuses when there is *)
(* nothing between the branches.                                                *)
FindOrCreate ==
  /\ step = "find"
  /\ \/ /\ agg # 0 /\ Goto("track")
        /\ found' = agg
        /\ UNCHANGED <<agg, body, opened, cmp, wasTracked, recording, manifest, deferred, declined>>
     \/ /\ agg = 0 /\ onStaging # {} /\ Goto("track")
        /\ found' = opened + 1 /\ opened' = opened + 1 /\ agg' = opened + 1
        /\ body' = [body EXCEPT ![opened + 1] = manifest] /\ declined' = FALSE
        /\ UNCHANGED <<cmp, wasTracked, recording, manifest, deferred>>
     \/ /\ agg = 0 /\ onStaging = {} /\ Answer(deferred)
        /\ UNCHANGED <<hooks, agg, body, opened, declined>>
  /\ UNCHANGED <<onStaging, merge, behind, extras, row, qa, faults, mergedAggs, shipped, outdated, misfiled>>

TrackAggregate ==
  /\ step = "track" /\ Goto("write")
  /\ IF wasTracked # found THEN Track(found) ELSE UNCHANGED <<tracked, faults>>
  /\ UNCHANGED <<github, windowOpen, qa, cmp, wasTracked, recording, found, manifest, deferred, ghosts>>

WriteBody ==
  /\ step = "write" /\ Answer(deferred)
  /\ body' = [body EXCEPT ![found] = manifest]
  /\ UNCHANGED <<onStaging, merge, behind, agg, opened, extras, row, qa, hooks, faults, ghosts>>

(* Any other call failed: the error is logged and the answer is NOTHING_DONE. *)
PassFails ==
  /\ step \in {"read", "compare", "untrack", "items", "find", "write"} /\ Spent < MaxExtras
  /\ failures' = failures + 1 /\ UNCHANGED lapses
  /\ Answer(FALSE)
  /\ UNCHANGED <<github, row, qa, hooks, ghosts>>

(* The worker died in mid-pass: the activity is attempted again from its top. *)
PassCrashes ==
  /\ step \notin {"idle", "read"} /\ Spent < MaxExtras
  /\ lapses' = lapses + 1 /\ step' = "read" /\ ForgetPass
  /\ UNCHANGED <<entityVars, github, row, qa, hooks, failures, ghosts>>

-----------------------------------------------------------------------------
EntityAlone ==
  EntityStep /\ UNCHANGED <<github, row, qa, hooks, pass, faults, ghosts>>

Reconcile ==
  \/ BeginReconcile \/ ReadRow \/ CompareBranches \/ SyncStaging \/ Untrack
  \/ ReadItems \/ (\E p \in PRs : WriteItem(p)) \/ DropGone \/ LoadItems
  \/ FindOrCreate \/ TrackAggregate \/ WriteBody

People ==
  \/ \E p \in PRs : MergeIntoStaging(p) \/ MergeAgain(p) \/ \E g \in Grades \cup {"pending"} : Verdict(p, g)
  \/ PushDefault \/ MergeAggregate \/ CloseAggregate

Handlers == SendNotice \/ \E n \in Aggs : ReadClose(n) \/ ClearTracked(n) \/ MarkBatchShipped(n)

Faults == QaFails \/ PassFails \/ PassCrashes \/ \E n \in Aggs : CloseLapses(n)

Progress == EntityAlone \/ Reconcile \/ Handlers \/ WindowElapses

ReleaseNext == People \/ Progress \/ Faults

(* Temporal drives the entity and its activity, webhooks arrive, time passes. *)
ReleaseSpec ==
  /\ ReleaseInit /\ [][ReleaseNext]_releaseVars
  /\ WF_releaseVars(EntityAlone \/ Reconcile) /\ WF_releaseVars(Handlers)
  /\ WF_releaseVars(WindowElapses)

-----------------------------------------------------------------------------
ReleaseTypeOK ==
  /\ EntityTypeOK
  /\ onStaging \subseteq PRs /\ shipped \subseteq PRs /\ dropped \subseteq PRs /\ outdated \subseteq PRs
  /\ behind \in BOOLEAN /\ windowOpen \in BOOLEAN /\ notice \in BOOLEAN
  /\ deferred \in BOOLEAN /\ declined \in BOOLEAN /\ misfiled \in BOOLEAN
  /\ agg \in 0..MaxReleases /\ opened \in 0..MaxReleases /\ tracked \in 0..MaxReleases
  /\ wasTracked \in 0..MaxReleases /\ found \in 0..MaxReleases
  /\ body \in [Aggs -> Bodies] /\ manifest \in Bodies
  /\ items \in [PRs -> Statuses] /\ prior \in [PRs -> Statuses] /\ frozen \in [PRs -> Statuses]
  /\ merge \in [PRs -> Merges] /\ itemMerge \in [PRs -> Merges] /\ list \in [PRs -> Merges]
  /\ moved \subseteq PRs /\ todo \subseteq PRs /\ hold \in {"none", "open", "frozen"}
  /\ closes \in [Aggs -> CloseSteps] /\ shippedAs \subseteq Aggs /\ mergedAggs \subseteq Aggs
  /\ step \in Steps /\ cmp \in [ahead : [PRs -> Merges], behind : BOOLEAN]
  /\ extras \in 0..MaxExtras /\ failures \in 0..MaxExtras /\ lapses \in 0..MaxExtras

(* Every webhook has been handled and the entity has nothing to do. *)
Quiet == ~notice /\ (\A n \in Aggs : closes[n] = "none") /\ ~dirty /\ spc \in {"none", "wait"}

(* What the record says of a PR on staging; one without an item is pending. *)
Said == [p \in PRs |-> IF p \notin onStaging THEN "absent" ELSE IF items[p] = "absent" THEN "pending" ELSE items[p]]

(* staging-batch.ts:57-65: however merges, pushes, verdicts and a release fall   *)
(* between the calls of a pass, whatever crashes or is swallowed on the way, once *)
(* things are quiet the open aggregate PR lists what staging ships with its       *)
(* verdicts, and is there whenever staging is ahead and nobody closed it unmerged; *)
(* unless a call failed that the manifest is made from, or a release froze the     *)
(* verdicts of work it did not ship.                                               *)
ManifestConverges ==
  Quiet /\ failures = 0 /\ ~misfiled =>
    IF agg # 0 THEN body[agg] = Said ELSE onStaging = {} \/ declined

(* batch-record.ts:19-28: a reviewer may say anything at any point of a pass, and *)
(* the pass writes items it read before; what it does changes what stands there   *)
(* only where it records a later merge commit, or with the batch that is frozen.   *)
VerdictsSurvivePasses ==
  [][\A p \in PRs : pass' # pass /\ items[p] # "absent" /\ items'[p] # items[p] =>
        shippedAs' # shippedAs \/ itemMerge'[p] > itemMerge[p]]_releaseVars

(* batch-record.ts:25-28: once things are quiet, and the record did not fail, no  *)
(* verdict given before a PR was merged again stands beside its new merge commit.  *)
NoVerdictOutlivesItsMerge ==
  Quiet /\ failures = 0 => \A p \in onStaging \cap outdated : items[p] \notin Grades

=============================================================================
