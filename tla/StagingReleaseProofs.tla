------------------------ MODULE StagingReleaseProofs ------------------------
(***************************************************************************)
(* What holds of the staging release for any pull requests, verdicts,       *)
(* merges, pushes, releases, faults and caps: its types, that a verdict     *)
(* outlives every pass, and that the release PR says in the end what it     *)
(* ships.                                                                   *)
(***************************************************************************)
EXTENDS StagingRelease, TLAPS

(* Aggregate PRs are numbered as they are opened; one is open, has a `closed` *)
(* webhook under way, or was shipped, and never two of these.                 *)
Numbered ==
  /\ agg <= opened
  /\ agg = 0 => opened < MaxReleases
  /\ shippedAs \subseteq 1..opened /\ agg \notin shippedAs
  /\ \A n \in Aggs : closes[n] # "none" => n <= opened /\ n # agg /\ n \notin shippedAs

(* A run that waits, settles or passes may make one more pass. *)
PassBound == spc \in {"wait", "debounce", "pass"} => reconciles < ReconcilesCap

(* Merge commits only get newer, on GitHub first, and reach the record last. *)
Merged ==
  /\ \A p \in PRs : merge[p] # 0 <=> p \in onStaging \cup shipped
  /\ \A p \in PRs : itemMerge[p] <= merge[p] /\ list[p] <= merge[p]

(* What a pass read of an item it has still to write is true of it but for its *)
(* verdict, also of its merge commit while the batch is open; what it has       *)
(* written is there.                                                            *)
Recorded ==
  /\ step \in {"upsert", "load"} => hold # "none"
  /\ hold = "frozen" => \A p \in PRs : items[p] = "absent"
  /\ hold # "none" => \A p \in todo : Held[p] = "absent" <=> prior[p] = "absent"
  /\ hold = "open" => \A p \in todo \cap moved : itemMerge[p] < list[p]
  /\ hold # "none" => \A p \in PRs \ todo : list[p] # 0 => Held[p] # "absent"

ReleaseInv == ReleaseTypeOK /\ Numbered /\ PassBound /\ Merged /\ Recorded

(* A step of a pass changes what stands there only with a later merge, or with *)
(* a batch that is newly marked shipped.                                        *)
Kept ==
  \A p \in PRs : pass' # pass /\ items[p] # "absent" /\ items'[p] # items[p] =>
                   shippedAs' # shippedAs \/ itemMerge'[p] > itemMerge[p]

-----------------------------------------------------------------------------
(* What a pass that is over holds has its type. *)
LEMMA NothingInHand ==
  /\ NoItems \in [PRs -> Statuses] /\ NoItems \in Bodies
  /\ NoMerges \in [PRs -> Merges] /\ NoCompare \in [ahead : [PRs -> Merges], behind : BOOLEAN]
<1> NoMerges \in [PRs -> Merges]
  BY StagingReleaseAssumption DEF NoMerges, Merges
<1> QED
  BY DEF NoItems, Bodies, Statuses, NoCompare

(* Nothing is recorded or opened at the start. *)
LEMMA ReleaseStarts == ReleaseInit => ReleaseInv
<1> USE StagingBatchAssumption, StagingReleaseAssumption
<1> SUFFICES ASSUME ReleaseInit PROVE ReleaseInv
  OBVIOUS
<1>1. ReleaseTypeOK
  <2>1. dirty \in BOOLEAN /\ syncDeferred \in BOOLEAN
    BY DEF ReleaseInit, EntityInit
  <2>2. spc \in EntityPoints /\ reconciles \in 0..ReconcilesCap
    BY DEF ReleaseInit, EntityInit, EntityPoints
  <2>3. /\ behind \in BOOLEAN /\ windowOpen \in BOOLEAN /\ notice \in BOOLEAN
        /\ deferred \in BOOLEAN /\ declined \in BOOLEAN /\ misfiled \in BOOLEAN
    BY DEF ReleaseInit
  <2>4. body \in [Aggs -> Bodies] /\ closes \in [Aggs -> CloseSteps]
    BY NothingInHand DEF ReleaseInit, CloseSteps
  <2>5. /\ onStaging = {} /\ shipped = {} /\ dropped = {} /\ outdated = {} /\ agg = 0 /\ opened = 0
        /\ tracked = 0 /\ wasTracked = 0 /\ found = 0 /\ manifest = NoItems /\ items = NoItems
        /\ prior = NoItems /\ frozen = NoItems /\ merge = NoMerges /\ itemMerge = NoMerges
        /\ list = NoMerges /\ moved = {} /\ todo = {} /\ hold = "none" /\ shippedAs = {}
        /\ mergedAggs = {} /\ step = "idle" /\ cmp = NoCompare /\ extras = 0 /\ failures = 0 /\ lapses = 0
    BY DEF ReleaseInit
  <2> QED
    BY <2>1, <2>2, <2>3, <2>4, <2>5, NothingInHand DEF ReleaseTypeOK, EntityTypeOK, Steps
<1>2. Numbered /\ PassBound
  BY DEF ReleaseInit, EntityInit, Numbered, PassBound, Aggs
<1>3. Merged /\ Recorded
  BY DEF ReleaseInit, Merged, Recorded, NoMerges
<1> QED
  BY <1>1, <1>2, <1>3 DEF ReleaseInv

-----------------------------------------------------------------------------
(* What a step leaves alone stays right. *)

LEMMA EntityUntouched ==
  ASSUME ReleaseInv, UNCHANGED entityVars PROVE EntityTypeOK' /\ PassBound'
  BY DEF ReleaseInv, ReleaseTypeOK, EntityTypeOK, PassBound, entityVars

LEMMA NumbersUntouched ==
  ASSUME ReleaseInv, UNCHANGED <<agg, opened, closes, shippedAs>> PROVE Numbered'
  BY DEF ReleaseInv, Numbered

LEMMA RecordUntouched ==
  ASSUME ReleaseInv, UNCHANGED <<merge, onStaging, shipped, items, itemMerge, recording>>,
         step' \in {"upsert", "load"} => step \in {"upsert", "load"}
  PROVE  Merged' /\ Recorded' /\ Kept
  BY DEF ReleaseInv, Merged, Recorded, Held, Kept, recording

LEMMA RecordForgotten ==
  ASSUME ReleaseInv, UNCHANGED <<merge, onStaging, shipped, items, itemMerge>>, ForgetRecording,
         step' \notin {"upsert", "load"}
  PROVE  /\ Merged' /\ Recorded' /\ Kept
         /\ list' \in [PRs -> Merges] /\ prior' \in [PRs -> Statuses] /\ frozen' \in [PRs -> Statuses]
         /\ moved' \subseteq PRs /\ todo' \subseteq PRs /\ hold' \in {"none", "open", "frozen"}
<1>1. /\ list' = NoMerges /\ prior' = NoItems /\ moved' = {} /\ todo' = {}
      /\ hold' = "none" /\ frozen' = NoItems
  BY DEF ForgetRecording
<1>2. \A p \in PRs : merge'[p] \in Nat /\ list'[p] = 0
  BY <1>1 DEF ReleaseInv, ReleaseTypeOK, Merges, NoMerges
<1>3. Merged'
  BY <1>2 DEF ReleaseInv, Merged
<1>4. Recorded' /\ Kept
  BY <1>1 DEF Recorded, Kept
<1> QED
  BY <1>1, <1>3, <1>4, NothingInHand

(* The pass returns its answer and the run is back at its loop head. *)
LEMMA AnswerKeeps ==
  ASSUME ReleaseInv, NEW d \in BOOLEAN, Answer(d)
  PROVE  /\ EntityTypeOK' /\ PassBound'
         /\ step' = "idle" /\ cmp' = NoCompare /\ wasTracked' = 0 /\ found' = 0
         /\ manifest' = NoItems /\ deferred' \in BOOLEAN /\ ForgetRecording
<1>1. deferred' \in BOOLEAN
  BY DEF Answer, ForgetPass
<1>2. EntityTypeOK' /\ PassBound'
  BY StagingBatchAssumption
  DEF ReleaseInv, ReleaseTypeOK, EntityTypeOK, EntityPoints, PassBound, Answer, PassAnswers
<1> QED
  BY <1>1, <1>2 DEF Answer, ForgetPass

(* An extra leaves room for itself. *)
LEMMA OneExtra ==
  ASSUME ReleaseInv, Spent < MaxExtras
  PROVE  /\ failures + 1 \in 0..MaxExtras /\ lapses + 1 \in 0..MaxExtras
         /\ extras + 1 \in 0..MaxExtras
  BY StagingReleaseAssumption DEF ReleaseInv, ReleaseTypeOK, Spent

(* The entity's own steps touch neither the record nor GitHub. *)
LEMMA EntityKeeps == ASSUME ReleaseInv, EntityAlone PROVE ReleaseInv' /\ Kept
<1> USE StagingBatchAssumption, StagingReleaseAssumption
<1>1. EntityTypeOK' /\ PassBound'
  <2>0. EntityTypeOK /\ PassBound
    BY DEF ReleaseInv, ReleaseTypeOK
  <2>1. dirty' \in BOOLEAN /\ syncDeferred' \in BOOLEAN
    BY <2>0 DEF EntityTypeOK, EntityAlone, EntityStep, Roll, RollIdle, AwaitWork, Debounce, WaitExpires, EntityCloses
  <2>2. \/ spc = "head" /\ spc' \in {"head", "none"} /\ reconciles' = 0
        \/ spc = "head" /\ spc' = "wait" /\ reconciles < ReconcilesCap /\ reconciles' = reconciles
        \/ spc = "wait" /\ spc' = "debounce" /\ reconciles' = reconciles
        \/ spc = "wait" /\ spc' = "none" /\ reconciles' = 0
    BY DEF EntityAlone, EntityStep, Roll, RollIdle, AwaitWork, Debounce, WaitExpires, EntityCloses
  <2> QED
    BY <2>0, <2>1, <2>2 DEF EntityTypeOK, EntityPoints, PassBound
<1>2. UNCHANGED <<github, row, qa, hooks, pass, faults, ghosts>>
  BY DEF EntityAlone
<1>3. ReleaseTypeOK'
  BY <1>1, <1>2 DEF ReleaseInv, ReleaseTypeOK, github, row, qa, hooks, recording, pass, faults, ghosts
<1>4. Numbered' /\ Merged' /\ Recorded' /\ Kept
  BY <1>2, NumbersUntouched, RecordUntouched DEF github, qa, hooks, pass, ghosts
<1> QED
  BY <1>1, <1>3, <1>4 DEF ReleaseInv

-----------------------------------------------------------------------------
(* Merges, pushes, releases and verdicts. *)
LEMMA PeopleKeep == ASSUME ReleaseInv, People PROVE ReleaseInv' /\ Kept
<1> USE StagingReleaseAssumption
<1>0. ASSUME UNCHANGED <<entityVars, pass>>, ReleaseTypeOK', Numbered', Merged', Recorded'
      PROVE  ReleaseInv' /\ Kept
  BY <1>0, EntityUntouched DEF ReleaseInv, Kept
<1>1. ASSUME NEW p \in PRs, MergeIntoStaging(p) PROVE ReleaseInv' /\ Kept
  <2>1. UNCHANGED <<entityVars, pass>> /\ EntityTypeOK'
    BY <1>1, EntityUntouched DEF MergeIntoStaging
  <2>2. merge' \in [PRs -> Merges] /\ \A q \in PRs : merge'[q] = IF q = p THEN 1 ELSE merge[q]
    BY <1>1 DEF MergeIntoStaging, ReleaseInv, ReleaseTypeOK, Merges
  <2>3. ReleaseTypeOK' /\ Numbered'
    BY <1>1, <2>1, <2>2, NumbersUntouched
    DEF ReleaseInv, ReleaseTypeOK, MergeIntoStaging, row, qa, recording, pass, faults, ghosts
  <2>4. Merged'
    <3>1. merge[p] = 0
      BY <1>1 DEF MergeIntoStaging, ReleaseInv, Merged
    <3>2. UNCHANGED <<shipped, itemMerge, list>> /\ onStaging' = onStaging \cup {p}
      BY <1>1 DEF MergeIntoStaging, qa, recording, pass, ghosts
    <3> QED
      BY <2>2, <3>1, <3>2 DEF ReleaseInv, ReleaseTypeOK, Merges, Merged
  <2>5. Recorded'
    BY <1>1 DEF ReleaseInv, Recorded, Held, MergeIntoStaging, qa, recording, pass
  <2> QED
    BY <2>1, <2>3, <2>4, <2>5, <1>0
<1>2. ASSUME NEW p \in PRs, MergeAgain(p) PROVE ReleaseInv' /\ Kept
  <2>1. UNCHANGED <<entityVars, pass>> /\ EntityTypeOK'
    BY <1>2, EntityUntouched DEF MergeAgain
  <2>2. /\ merge[p] \in Nat /\ merge' \in [PRs -> Merges]
        /\ \A q \in PRs : merge'[q] = IF q = p THEN merge[p] + 1 ELSE merge[q]
    BY <1>2 DEF MergeAgain, ReleaseInv, ReleaseTypeOK, Merges
  <2>3. ReleaseTypeOK' /\ Numbered'
    BY <1>2, <2>1, <2>2, OneExtra, NumbersUntouched
    DEF ReleaseInv, ReleaseTypeOK, MergeAgain, row, qa, recording, pass, faults
  <2>4. Merged'
    <3>1. UNCHANGED <<onStaging, shipped, itemMerge, list>> /\ p \in onStaging
      BY <1>2 DEF MergeAgain, qa, recording, pass
    <3> QED
      BY <2>2, <3>1 DEF ReleaseInv, ReleaseTypeOK, Merges, Merged
  <2>5. Recorded'
    BY <1>2 DEF ReleaseInv, Recorded, Held, MergeAgain, qa, recording, pass
  <2> QED
    BY <2>1, <2>3, <2>4, <2>5, <1>0
<1>3. ASSUME NEW p \in PRs, NEW g \in Grades \cup {"pending"}, Verdict(p, g) PROVE ReleaseInv' /\ Kept
  <2>1. UNCHANGED <<entityVars, pass>> /\ EntityTypeOK'
    BY <1>3, EntityUntouched DEF Verdict
  <2>2. items' \in [PRs -> Statuses] /\ \A q \in PRs : items'[q] = IF q = p THEN g ELSE items[q]
    BY <1>3 DEF Verdict, ReleaseInv, ReleaseTypeOK, Statuses
  <2>3. ReleaseTypeOK' /\ Numbered'
    BY <1>3, <2>1, <2>2, NumbersUntouched
    DEF ReleaseInv, ReleaseTypeOK, Verdict, github, row, recording, pass, faults
  <2>4. Merged'
    BY <1>3 DEF ReleaseInv, Merged, Verdict, github, recording, pass
  <2>5. Recorded'
    <3>1. g # "absent" /\ items[p] # "absent" /\ UNCHANGED <<step, list, prior, moved, todo, hold, frozen, itemMerge>>
      BY <1>3 DEF Verdict, recording, pass
    <3> QED
      BY <2>2, <3>1 DEF ReleaseInv, ReleaseTypeOK, Recorded, Held
  <2> QED
    BY <2>1, <2>3, <2>4, <2>5, <1>0
<1>4. CASE PushDefault
  <2>1. UNCHANGED <<entityVars, pass>> /\ EntityTypeOK'
    BY <1>4, EntityUntouched DEF PushDefault
  <2>2. ReleaseTypeOK'
    BY <1>4, <2>1, OneExtra DEF ReleaseInv, ReleaseTypeOK, PushDefault, row, qa, recording, pass, faults, ghosts
  <2>3. Numbered' /\ Merged' /\ Recorded'
    BY <1>4, NumbersUntouched, RecordUntouched DEF PushDefault, qa, pass, ghosts
  <2> QED
    BY <2>1, <2>2, <2>3, <1>0
<1>5. CASE MergeAggregate \/ CloseAggregate
  <2>1. UNCHANGED <<entityVars, pass>> /\ EntityTypeOK'
    BY <1>5, EntityUntouched DEF MergeAggregate, CloseAggregate
  <2>2. agg \in Aggs /\ closes' \in [Aggs -> CloseSteps]
    BY <1>5 DEF MergeAggregate, CloseAggregate, ReleaseInv, ReleaseTypeOK, Aggs, CloseSteps
  <2>3. ReleaseTypeOK'
    <3>1. CASE MergeAggregate
      BY <3>1, <2>1, <2>2 DEF ReleaseInv, ReleaseTypeOK, MergeAggregate, row, qa, recording, pass, faults
    <3>2. CASE CloseAggregate
      BY <3>2, <2>1, <2>2 DEF ReleaseInv, ReleaseTypeOK, CloseAggregate, row, qa, recording, pass, faults
    <3> QED
      BY <1>5, <3>1, <3>2
  <2>4. Numbered'
    <3>1. /\ agg' = 0 /\ UNCHANGED <<opened, shippedAs>> /\ opened < MaxReleases
          /\ closes' = [closes EXCEPT ![agg] = "read"]
      BY <1>5 DEF MergeAggregate, CloseAggregate, qa
    <3>2. \A n \in Aggs : closes'[n] # "none" => n = agg \/ closes[n] # "none"
      BY <3>1, <2>2 DEF ReleaseInv, ReleaseTypeOK
    <3>3. shippedAs \subseteq Aggs /\ opened \in Nat
      BY DEF ReleaseInv, ReleaseTypeOK
    <3> QED
      BY <2>2, <3>1, <3>2, <3>3 DEF ReleaseInv, Numbered, Aggs
  <2>5. Merged'
    <3>1. /\ UNCHANGED <<merge, itemMerge, list>>
          /\ onStaging' \cup shipped' = onStaging \cup shipped
      BY <1>5 DEF MergeAggregate, CloseAggregate, qa, recording, pass
    <3> QED
      BY <3>1 DEF ReleaseInv, Merged
  <2>6. Recorded'
    BY <1>5 DEF ReleaseInv, Recorded, Held, MergeAggregate, CloseAggregate, qa, recording, pass
  <2> QED
    BY <2>1, <2>3, <2>4, <2>5, <2>6, <1>0
<1> QED
  BY <1>1, <1>2, <1>3, <1>4, <1>5 DEF People

(* The webhook of a release freezes the batch: its PR was not shipped before, *)
(* since it was waiting for this webhook.                                     *)
LEMMA HandlersKeep ==
  ASSUME ReleaseInv, Handlers \/ WindowElapses \/ (\E n \in Aggs : CloseLapses(n)) PROVE ReleaseInv' /\ Kept
<1> USE StagingReleaseAssumption
<1>0. ASSUME NEW n \in Aggs, NEW to \in {"none", "read", "clear", "mark"}, closes[n] # "none",
             closes' = [closes EXCEPT ![n] = to]
      PROVE  /\ closes' \in [Aggs -> CloseSteps]
             /\ \A m \in Aggs : closes'[m] # "none" => closes[m] # "none"
             /\ to = "none" => closes'[n] = "none"
  BY <1>0 DEF ReleaseInv, ReleaseTypeOK, CloseSteps
<1>1. CASE SendNotice
  <2>1. EntityTypeOK' /\ PassBound'
    BY <1>1 DEF ReleaseInv, ReleaseTypeOK, EntityTypeOK, EntityPoints, PassBound, SendNotice, Request
  <2>2. ReleaseTypeOK'
    BY <1>1, <2>1 DEF ReleaseInv, ReleaseTypeOK, SendNotice, github, row, qa, recording, pass, faults, ghosts
  <2>3. Numbered' /\ Merged' /\ Recorded' /\ Kept
    BY <1>1, NumbersUntouched, RecordUntouched DEF SendNotice, github, qa, pass, ghosts
  <2> QED
    BY <2>1, <2>2, <2>3 DEF ReleaseInv
<1>2. ASSUME NEW n \in Aggs, ReadClose(n) \/ ClearTracked(n) \/ CloseLapses(n) PROVE ReleaseInv' /\ Kept
  <2>1. UNCHANGED entityVars /\ EntityTypeOK' /\ PassBound'
    BY <1>2, EntityUntouched DEF ReadClose, ClearTracked, CloseLapses
  <2>2. \E to \in {"none", "read", "clear", "mark"} : closes[n] # "none" /\ closes' = [closes EXCEPT ![n] = to]
    <3>1. CASE CloseLapses(n)
      BY <3>1 DEF CloseLapses
    <3>2. CASE ReadClose(n)
      BY <3>2 DEF ReadClose, CloseGoes
    <3>3. CASE ClearTracked(n)
      BY <3>3 DEF ClearTracked, CloseGoes
    <3> QED
      BY <1>2, <3>1, <3>2, <3>3
  <2>3. /\ closes' \in [Aggs -> CloseSteps]
        /\ \A m \in Aggs : closes'[m] # "none" => closes[m] # "none"
    BY <2>2, <1>0
  <2>4. /\ UNCHANGED <<entityVars, github, windowOpen, qa, notice, pass, failures, ghosts>>
        /\ tracked' \in {0, tracked} /\ lapses' \in 0..MaxExtras
    BY <1>2, OneExtra DEF ReadClose, ClearTracked, CloseLapses, row, faults, ReleaseInv, ReleaseTypeOK
  <2>5. ReleaseTypeOK'
    BY <2>1, <2>3, <2>4 DEF ReleaseInv, ReleaseTypeOK, github, qa, recording, pass, ghosts
  <2>6. Numbered'
    BY <2>3, <2>4 DEF ReleaseInv, Numbered, github, qa
  <2>7. Merged' /\ Recorded' /\ Kept
    BY <2>4, RecordUntouched DEF github, qa, pass, ghosts
  <2> QED
    BY <2>1, <2>5, <2>6, <2>7 DEF ReleaseInv
<1>3. ASSUME NEW n \in Aggs, MarkBatchShipped(n) PROVE ReleaseInv' /\ Kept
  <2>1. UNCHANGED entityVars /\ EntityTypeOK' /\ PassBound'
    BY <1>3, EntityUntouched DEF MarkBatchShipped
  <2>2. /\ closes[n] # "none" /\ closes' \in [Aggs -> CloseSteps] /\ closes'[n] = "none"
        /\ \A m \in Aggs : closes'[m] # "none" => closes[m] # "none"
    BY <1>0, <1>3 DEF MarkBatchShipped, CloseGoes
  <2>3. n \notin shippedAs /\ n # agg /\ n <= opened
    BY <2>2 DEF ReleaseInv, Numbered
  <2>4. /\ items' = NoItems /\ itemMerge' = NoMerges /\ dropped' = {} /\ shippedAs' \in {shippedAs, shippedAs \cup {n}}
        /\ misfiled' \in BOOLEAN /\ hold' \in {"none", "open", "frozen"}
        /\ frozen' \in {items, frozen}
        /\ UNCHANGED <<github, row, notice, step, cmp, wasTracked, list, prior, moved, todo, found,
                       manifest, deferred, faults, mergedAggs, shipped, declined, outdated>>
    <3>1. hold' \in {"none", "open", "frozen"} /\ frozen' \in {items, frozen}
      BY <1>3 DEF MarkBatchShipped, ReleaseInv, ReleaseTypeOK
    <3> QED
      BY <1>3, <3>1 DEF MarkBatchShipped
  <2>5. ReleaseTypeOK'
    BY <2>1, <2>2, <2>4, NothingInHand DEF ReleaseInv, ReleaseTypeOK, github, row, faults
  <2>6. Numbered'
    BY <2>2, <2>3, <2>4 DEF ReleaseInv, ReleaseTypeOK, Numbered, github, Aggs
  <2>7. Merged'
    <3>1. \A p \in PRs : itemMerge'[p] = 0 /\ merge[p] \in Nat
      BY <2>4 DEF NoMerges, ReleaseInv, ReleaseTypeOK, Merges
    <3> QED
      BY <2>4, <3>1 DEF ReleaseInv, Merged, github
  <2>8. \A p \in PRs : items'[p] = "absent"
    BY <2>4 DEF NoItems
  <2>9. Recorded' /\ Kept
    <3>1. CASE hold = "open"
      <4>1. hold' = "frozen" /\ frozen' = items
        BY <1>3, <3>1 DEF MarkBatchShipped
      <4>2. shippedAs' # shippedAs
        BY <1>3, <2>3, <3>1 DEF MarkBatchShipped
      <4>3. Recorded'
        BY <2>4, <2>8, <3>1, <4>1 DEF ReleaseInv, Recorded, Held
      <4> QED
        BY <4>2, <4>3 DEF Kept
    <3>2. CASE hold # "open"
      <4>1. UNCHANGED <<hold, frozen>>
        BY <1>3, <3>2 DEF MarkBatchShipped
      <4>2. Recorded'
        BY <2>4, <2>8, <3>2, <4>1 DEF ReleaseInv, Recorded, Held
      <4>3. pass' = pass
        BY <2>4, <4>1 DEF pass, recording
      <4> QED
        BY <4>2, <4>3 DEF Kept
    <3> QED
      BY <3>1, <3>2
  <2> QED
    BY <2>1, <2>5, <2>6, <2>7, <2>9 DEF ReleaseInv
<1>4. CASE WindowElapses
  <2>1. EntityTypeOK' /\ PassBound'
    BY <1>4, EntityUntouched DEF WindowElapses
  <2>2. ReleaseTypeOK'
    BY <1>4, <2>1 DEF ReleaseInv, ReleaseTypeOK, WindowElapses, github, qa, hooks, recording, pass, faults, ghosts
  <2>3. Numbered' /\ Merged' /\ Recorded' /\ Kept
    BY <1>4, NumbersUntouched, RecordUntouched DEF WindowElapses, github, qa, hooks, pass, ghosts
  <2> QED
    BY <2>1, <2>2, <2>3 DEF ReleaseInv
<1> QED
  BY <1>1, <1>2, <1>3, <1>4 DEF Handlers

-----------------------------------------------------------------------------
(* A pass up to its record. *)
LEMMA PassBegins ==
  ASSUME ReleaseInv, BeginReconcile \/ ReadRow \/ CompareBranches \/ SyncStaging
  PROVE  ReleaseInv' /\ Kept
<1> USE StagingReleaseAssumption
<1>1. EntityTypeOK' /\ PassBound'
  <2>1. CASE BeginReconcile
    BY <2>1 DEF BeginReconcile, BeginPass, ReleaseInv, ReleaseTypeOK, EntityTypeOK, EntityPoints, PassBound
  <2>2. CASE ReadRow \/ CompareBranches \/ SyncStaging
    BY <2>2, EntityUntouched DEF ReadRow, CompareBranches, SyncStaging, Goto
  <2> QED
    BY <2>1, <2>2
<1>2. /\ step' \in Steps /\ step' \notin {"upsert", "load"}
      /\ UNCHANGED <<merge, onStaging, agg, opened, shipped, qa, hooks, recording>>
  <2>1. CASE BeginReconcile \/ ReadRow
    BY <2>1 DEF BeginReconcile, ReadRow, Goto, Steps, github, ghosts
  <2>2. CASE CompareBranches
    BY <2>2 DEF CompareBranches, Goto, Steps, github, ghosts
  <2>3. CASE SyncStaging
    BY <2>3 DEF SyncStaging, Goto, Steps, ghosts
  <2> QED
    BY <2>1, <2>2, <2>3
<1>3. Numbered' /\ Merged' /\ Recorded' /\ Kept
  BY <1>2, NumbersUntouched, RecordUntouched DEF qa, hooks
<1>4. ReleaseTypeOK'
  <2>1. CASE BeginReconcile
    BY <2>1, <1>1, <1>2 DEF BeginReconcile, ReleaseInv, ReleaseTypeOK, github, row, qa, hooks, recording, faults, ghosts
  <2>2. CASE ReadRow
    BY <2>2, <1>1, <1>2 DEF ReadRow, ReleaseInv, ReleaseTypeOK, github, row, qa, hooks, recording, faults, ghosts
  <2>3. CASE CompareBranches
    <3>1. cmp' \in [ahead : [PRs -> Merges], behind : BOOLEAN]
      BY <2>3 DEF CompareBranches, ReleaseInv, ReleaseTypeOK, Merges
    <3> QED
      BY <2>3, <3>1, <1>1, <1>2 DEF CompareBranches, ReleaseInv, ReleaseTypeOK, github, row, qa, hooks, recording, faults, ghosts
  <2>4. CASE SyncStaging
    <3>1. /\ behind' \in BOOLEAN /\ windowOpen' \in BOOLEAN /\ deferred' \in BOOLEAN
          /\ lapses' \in 0..MaxExtras /\ failures' = failures
      BY <2>4, OneExtra DEF SyncStaging, ReleaseInv, ReleaseTypeOK, faults
    <3> QED
      BY <2>4, <3>1, <1>1, <1>2 DEF SyncStaging, ReleaseInv, ReleaseTypeOK, qa, hooks, recording, ghosts
  <2> QED
    BY <2>1, <2>2, <2>3, <2>4
<1> QED
  BY <1>1, <1>3, <1>4 DEF ReleaseInv

(* Its record, item by item. *)
LEMMA PassRecords ==
  ASSUME ReleaseInv, ReadItems \/ (\E p \in PRs : WriteItem(p)) \/ DropGone \/ LoadItems
  PROVE  ReleaseInv' /\ Kept
<1> USE StagingReleaseAssumption
<1>0. ASSUME UNCHANGED entityVars, ReleaseTypeOK', Numbered', Merged', Recorded', Kept
      PROVE  ReleaseInv' /\ Kept
  BY <1>0, EntityUntouched DEF ReleaseInv
<1>1. CASE ReadItems
  <2>1. UNCHANGED entityVars /\ EntityTypeOK'
    BY <1>1, EntityUntouched DEF ReadItems, Goto
  <2>2. /\ list' = [p \in PRs |-> IF cmp.ahead[p] = merge[p] THEN merge[p] ELSE 0]
        /\ todo' = {p \in PRs : list'[p] # 0} /\ moved' = {p \in todo' : list'[p] # itemMerge[p]}
        /\ prior' = items /\ hold' = "open" /\ cmp' = NoCompare /\ step' = "upsert"
        /\ UNCHANGED <<github, row, qa, hooks, wasTracked, frozen, found, manifest, deferred, faults, ghosts>>
    BY <1>1 DEF ReadItems, Goto
  <2>3. list' \in [PRs -> Merges] /\ \A p \in PRs : list'[p] \in {0, merge[p]}
    BY <2>2 DEF ReleaseInv, ReleaseTypeOK, Merges
  <2>4. ReleaseTypeOK'
    BY <2>1, <2>2, <2>3, NothingInHand DEF ReleaseInv, ReleaseTypeOK, Steps, github, row, qa, hooks, faults, ghosts
  <2>5. Numbered'
    BY <2>2, NumbersUntouched DEF github, qa, hooks
  <2>6. Merged'
    BY <2>2, <2>3 DEF ReleaseInv, ReleaseTypeOK, Merges, Merged, github, qa, ghosts
  <2>7. Recorded'
    <3>1. \A p \in moved' : itemMerge[p] < list'[p]
      BY <2>2, <2>3 DEF ReleaseInv, ReleaseTypeOK, Merged, Merges
    <3> QED
      BY <2>2, <3>1 DEF Recorded, Held, qa
  <2>8. Kept
    BY <2>2 DEF Kept, qa
  <2> QED
    BY <2>1, <2>4, <2>5, <2>6, <2>7, <2>8, <1>0
<1>2. ASSUME NEW p \in PRs, WriteItem(p) PROVE ReleaseInv' /\ Kept
  <2> DEFINE s == Upserted(p, Held[p])
  <2>1. UNCHANGED entityVars /\ EntityTypeOK'
    BY <1>2, EntityUntouched DEF WriteItem, Upsert, Goto
  <2>2. /\ step = "upsert" /\ step' = "upsert" /\ p \in todo /\ todo' = todo \ {p} /\ UNCHANGED hooks
        /\ UNCHANGED <<github, row, shippedAs, cmp, wasTracked, list, prior, moved, hold, found, manifest,
                       deferred, faults, ghosts>>
    BY <1>2 DEF WriteItem, Upsert, Goto
  <2>3. /\ hold = "open" => /\ items' = [items EXCEPT ![p] = s] /\ itemMerge' = [itemMerge EXCEPT ![p] = list[p]]
                            /\ dropped' = dropped \ {p} /\ frozen' = frozen
        /\ hold # "open" => frozen' = [frozen EXCEPT ![p] = s] /\ UNCHANGED <<items, itemMerge, dropped>>
    BY <1>2 DEF WriteItem, Upsert
  <2>4. hold \in {"open", "frozen"} /\ Held \in [PRs -> Statuses] /\ s \in Statuses
    BY <2>2 DEF ReleaseInv, ReleaseTypeOK, Recorded, Held, Upserted, Statuses
  <2>5. /\ items' \in [PRs -> Statuses] /\ frozen' \in [PRs -> Statuses] /\ itemMerge' \in [PRs -> Merges]
        /\ dropped' \subseteq PRs
    BY <2>3, <2>4 DEF ReleaseInv, ReleaseTypeOK
  <2>6. ReleaseTypeOK'
    BY <2>1, <2>2, <2>5 DEF ReleaseInv, ReleaseTypeOK, Steps, github, row, hooks, faults, ghosts
  <2>7. Numbered'
    BY <2>2, NumbersUntouched DEF github, hooks
  <2>8. Merged'
    BY <2>2, <2>3 DEF ReleaseInv, ReleaseTypeOK, Merged, github, ghosts
  <2>9. CASE hold = "open"
    <3>1. s # "absent" /\ (s = items[p] \/ s = "pending")
      BY <2>2, <2>9 DEF ReleaseInv, Recorded, Held, Upserted
    <3>2. \A q \in PRs : q # p => items'[q] = items[q] /\ itemMerge'[q] = itemMerge[q]
      BY <2>3, <2>9 DEF ReleaseInv, ReleaseTypeOK
    <3>3. items'[p] = s /\ itemMerge'[p] = list[p]
      BY <2>3, <2>9 DEF ReleaseInv, ReleaseTypeOK
    <3>4. Recorded'
      BY <2>2, <2>9, <3>1, <3>2, <3>3 DEF ReleaseInv, ReleaseTypeOK, Recorded, Held
    <3>5. items[p] # "absent" /\ s # items[p] => itemMerge[p] < list[p]
      BY <2>2, <2>9 DEF ReleaseInv, Recorded, Held, Upserted
    <3>6. Kept
      BY <3>2, <3>3, <3>5 DEF Kept, ReleaseInv, ReleaseTypeOK, Merges
    <3> QED
      BY <2>1, <2>6, <2>7, <2>8, <3>4, <3>6, <1>0
  <2>10. CASE hold = "frozen"
    <3>1. \A q \in PRs : frozen'[q] = IF q = p THEN s ELSE frozen[q]
      BY <2>3, <2>10 DEF ReleaseInv, ReleaseTypeOK
    <3>2. UNCHANGED <<items, itemMerge>>
      BY <2>3, <2>10
    <3>3. s \notin {"absent"}
      BY <2>2, <2>10 DEF ReleaseInv, Recorded, Upserted
    <3>4. Recorded' /\ Kept
      <4>1. hold' = "frozen" /\ \A q \in PRs : items'[q] = "absent"
        BY <2>2, <2>10, <3>2 DEF ReleaseInv, Recorded
      <4>2. \A q \in todo' : Held'[q] = "absent" <=> prior'[q] = "absent"
        BY <2>2, <2>10, <3>1, <4>1 DEF ReleaseInv, ReleaseTypeOK, Recorded, Held
      <4>3. \A q \in PRs \ todo' : list'[q] # 0 => Held'[q] # "absent"
        BY <2>2, <2>10, <3>1, <3>3, <4>1 DEF ReleaseInv, Recorded, Held
      <4> QED
        BY <3>2, <4>1, <4>2, <4>3 DEF Recorded, Kept
    <3> QED
      BY <2>1, <2>6, <2>7, <2>8, <3>4, <1>0
  <2> QED
    BY <2>4, <2>9, <2>10
<1>3. CASE DropGone
  <2>1. UNCHANGED entityVars /\ EntityTypeOK'
    BY <1>3, EntityUntouched DEF DropGone, Goto
  <2>2. /\ step' = "load" /\ step = "upsert" /\ dropped' \subseteq PRs
        /\ UNCHANGED <<github, row, hooks, items, itemMerge, shippedAs, cmp, wasTracked, recording, found,
                       manifest, deferred, faults, ghosts>>
    BY <1>3 DEF DropGone, Goto, ReleaseInv, ReleaseTypeOK
  <2>3. ReleaseTypeOK'
    BY <2>1, <2>2 DEF ReleaseInv, ReleaseTypeOK, Steps, github, row, hooks, recording, faults, ghosts
  <2>4. Numbered' /\ Merged' /\ Recorded' /\ Kept
    BY <2>2, NumbersUntouched, RecordUntouched DEF github, hooks, ghosts
  <2> QED
    BY <2>1, <2>3, <2>4, <1>0
<1>4. CASE LoadItems
  <2>1. UNCHANGED entityVars /\ EntityTypeOK'
    BY <1>4, EntityUntouched DEF LoadItems, Goto
  <2>2. /\ step' = "find" /\ ForgetRecording
        /\ manifest' = [p \in PRs |-> IF list[p] = 0 THEN "absent" ELSE Held[p]]
        /\ UNCHANGED <<github, row, qa, hooks, cmp, wasTracked, found, deferred, faults, ghosts>>
    BY <1>4 DEF LoadItems, Goto
  <2>3. manifest' \in Bodies
    BY <2>2 DEF ReleaseInv, ReleaseTypeOK, Held, Bodies, Statuses
  <2>4. /\ list' \in [PRs -> Merges] /\ prior' \in [PRs -> Statuses] /\ frozen' \in [PRs -> Statuses]
        /\ moved' \subseteq PRs /\ todo' \subseteq PRs /\ hold' \in {"none", "open", "frozen"}
        /\ Merged' /\ Recorded' /\ Kept
    BY <2>2, RecordForgotten DEF github, qa, ghosts
  <2>5. ReleaseTypeOK'
    BY <2>1, <2>2, <2>3, <2>4 DEF ReleaseInv, ReleaseTypeOK, Steps, github, row, qa, hooks, faults, ghosts
  <2>6. Numbered'
    BY <2>2, NumbersUntouched DEF github, qa, hooks
  <2> QED
    BY <2>1, <2>4, <2>5, <2>6, <1>0
<1> QED
  BY <1>1, <1>2, <1>3, <1>4

(* The rest of a pass, and what ends one early, leave the record as it is. *)
LEMMA PassEnds ==
  ASSUME ReleaseInv,
         Untrack \/ FindOrCreate \/ TrackAggregate \/ WriteBody \/ QaFails \/ PassFails \/ PassCrashes
  PROVE  ReleaseInv' /\ Kept
<1> USE StagingReleaseAssumption
<1> DEFINE Faulted == failures' \in 0..MaxExtras /\ lapses' \in 0..MaxExtras
<1>0. ASSUME NEW n \in 0..MaxReleases, Track(n) PROVE tracked' \in 0..MaxReleases /\ Faulted
  BY <1>0, OneExtra DEF Track, ReleaseInv, ReleaseTypeOK, faults
<1>1. ASSUME /\ EntityTypeOK' /\ PassBound' /\ Faulted /\ tracked' \in 0..MaxReleases
             /\ step' = "idle" \/ (step' = "read" /\ UNCHANGED entityVars)
             /\ cmp' = NoCompare /\ wasTracked' = 0 /\ found' = 0 /\ manifest' = NoItems
             /\ deferred' \in BOOLEAN /\ ForgetRecording
             /\ body' \in [Aggs -> Bodies]
             /\ UNCHANGED <<onStaging, merge, behind, agg, opened, extras, windowOpen, qa, hooks, ghosts>>
      PROVE  ReleaseInv' /\ Kept
  <2>1. /\ list' \in [PRs -> Merges] /\ prior' \in [PRs -> Statuses] /\ frozen' \in [PRs -> Statuses]
        /\ moved' \subseteq PRs /\ todo' \subseteq PRs /\ hold' \in {"none", "open", "frozen"}
        /\ Merged' /\ Recorded' /\ Kept
    BY <1>1, RecordForgotten DEF qa, ghosts
  <2>2. ReleaseTypeOK'
    BY <1>1, <2>1, NothingInHand DEF ReleaseInv, ReleaseTypeOK, Steps, qa, hooks, ghosts
  <2>3. Numbered'
    BY <1>1, NumbersUntouched DEF qa, hooks
  <2> QED
    BY <1>1, <2>1, <2>2, <2>3 DEF ReleaseInv
<1>2. CASE Untrack
  <2>1. Answer(deferred) /\ UNCHANGED <<github, windowOpen, qa, hooks, ghosts>>
    BY <1>2 DEF Untrack
  <2>2. tracked' \in 0..MaxReleases /\ Faulted
    BY <1>2, <1>0 DEF Untrack, ReleaseInv, ReleaseTypeOK, faults
  <2>3. body' \in [Aggs -> Bodies] /\ deferred \in BOOLEAN
    BY <2>1 DEF ReleaseInv, ReleaseTypeOK, github
  <2> QED
    BY <2>1, <2>2, <2>3, <1>1, AnswerKeeps DEF github
<1>3. CASE WriteBody \/ (FindOrCreate /\ agg = 0 /\ onStaging = {})
  <2>1. /\ Answer(deferred)
        /\ UNCHANGED <<onStaging, merge, behind, agg, opened, extras, row, qa, hooks, faults, ghosts>>
    BY <1>3 DEF WriteBody, FindOrCreate, ghosts
  <2>2. tracked' \in 0..MaxReleases /\ Faulted /\ windowOpen' = windowOpen /\ deferred \in BOOLEAN
    BY <2>1 DEF ReleaseInv, ReleaseTypeOK, row, faults
  <2>3. body' \in [Aggs -> Bodies]
    BY <1>3 DEF WriteBody, FindOrCreate, ReleaseInv, ReleaseTypeOK
  <2> QED
    BY <2>1, <2>2, <2>3, <1>1, AnswerKeeps
<1>4. CASE PassFails
  <2>1. Answer(FALSE) /\ UNCHANGED <<github, row, qa, hooks, ghosts>>
    BY <1>4 DEF PassFails
  <2>2. tracked' \in 0..MaxReleases /\ Faulted /\ windowOpen' = windowOpen /\ body' \in [Aggs -> Bodies]
    BY <1>4, <2>1, OneExtra DEF PassFails, ReleaseInv, ReleaseTypeOK, row, github
  <2> QED
    BY <2>1, <2>2, <1>1, AnswerKeeps DEF github
<1>5. CASE PassCrashes
  <2>1. /\ step' = "read" /\ ForgetPass
        /\ UNCHANGED <<entityVars, github, row, qa, hooks, failures, ghosts>>
    BY <1>5 DEF PassCrashes
  <2>2. EntityTypeOK' /\ PassBound'
    BY <2>1, EntityUntouched
  <2>3. tracked' \in 0..MaxReleases /\ Faulted /\ windowOpen' = windowOpen /\ body' \in [Aggs -> Bodies]
    BY <1>5, <2>1, OneExtra DEF PassCrashes, ReleaseInv, ReleaseTypeOK, row, github
  <2> QED
    BY <2>1, <2>2, <2>3, <1>1 DEF ForgetPass, github
<1>6. CASE QaFails
  <2>1. /\ UNCHANGED <<entityVars, github, row, qa, hooks, cmp, wasTracked, found, deferred, ghosts>>
        /\ step' = "find" /\ ForgetRecording
        /\ manifest' = [p \in PRs |-> IF list[p] = 0 THEN "absent" ELSE "listed"]
    BY <1>6 DEF QaFails, Goto
  <2>2. EntityTypeOK' /\ PassBound' /\ Faulted
    BY <1>6, <2>1, OneExtra, EntityUntouched DEF QaFails, ReleaseInv, ReleaseTypeOK
  <2>3. manifest' \in Bodies
    BY <2>1 DEF Bodies, Statuses
  <2>4. /\ list' \in [PRs -> Merges] /\ prior' \in [PRs -> Statuses] /\ frozen' \in [PRs -> Statuses]
        /\ moved' \subseteq PRs /\ todo' \subseteq PRs /\ hold' \in {"none", "open", "frozen"}
        /\ Merged' /\ Recorded' /\ Kept
    BY <2>1, RecordForgotten DEF github, qa, ghosts
  <2>5. ReleaseTypeOK'
    BY <2>1, <2>2, <2>3, <2>4 DEF ReleaseInv, ReleaseTypeOK, Steps, github, row, qa, hooks, ghosts
  <2>6. Numbered'
    BY <2>1, NumbersUntouched DEF github, qa, hooks
  <2> QED
    BY <2>2, <2>4, <2>5, <2>6 DEF ReleaseInv
<1>7. CASE TrackAggregate
  <2>1. /\ UNCHANGED <<entityVars, github, windowOpen, qa, hooks, cmp, wasTracked, recording, found,
                       manifest, deferred, ghosts>>
        /\ step' = "write"
    BY <1>7 DEF TrackAggregate, Goto
  <2>2. EntityTypeOK' /\ PassBound' /\ tracked' \in 0..MaxReleases /\ Faulted
    BY <1>7, <1>0, <2>1, EntityUntouched DEF TrackAggregate, ReleaseInv, ReleaseTypeOK, faults
  <2>3. ReleaseTypeOK'
    BY <2>1, <2>2 DEF ReleaseInv, ReleaseTypeOK, Steps, github, qa, hooks, recording, ghosts
  <2>4. Numbered' /\ Merged' /\ Recorded' /\ Kept
    BY <2>1, NumbersUntouched, RecordUntouched DEF github, qa, hooks, ghosts
  <2> QED
    BY <2>2, <2>3, <2>4 DEF ReleaseInv
<1>8. CASE FindOrCreate /\ ~(agg = 0 /\ onStaging = {})
  <2>1. /\ UNCHANGED <<entityVars, onStaging, merge, behind, extras, row, qa, hooks, cmp, wasTracked, recording,
                       manifest, deferred, faults, mergedAggs, shipped, outdated, misfiled>>
        /\ step' = "track"
    BY <1>8 DEF FindOrCreate, Goto
  <2>2. EntityTypeOK' /\ PassBound'
    BY <2>1, EntityUntouched
  <2>3. Merged' /\ Recorded' /\ Kept
    BY <2>1, RecordUntouched DEF qa
  <2>4. CASE agg # 0
    <3>1. found' = agg /\ UNCHANGED <<agg, body, opened, declined>>
      BY <1>8, <2>4 DEF FindOrCreate
    <3>2. ReleaseTypeOK'
      BY <2>1, <2>2, <3>1 DEF ReleaseInv, ReleaseTypeOK, Steps, row, qa, hooks, recording, faults
    <3>3. Numbered'
      BY <2>1, <3>1, NumbersUntouched DEF qa, hooks
    <3> QED
      BY <2>2, <2>3, <3>2, <3>3 DEF ReleaseInv
  <2>5. CASE agg = 0
    <3>1. /\ found' = opened + 1 /\ opened' = opened + 1 /\ agg' = opened + 1
          /\ body' = [body EXCEPT ![opened + 1] = manifest] /\ declined' = FALSE
      BY <1>8, <2>5 DEF FindOrCreate
    <3>2. opened \in Nat /\ opened + 1 \in 0..MaxReleases /\ opened + 1 \in Aggs /\ body' \in [Aggs -> Bodies]
      BY <2>5, <3>1 DEF ReleaseInv, ReleaseTypeOK, Numbered, Aggs
    <3>3. ReleaseTypeOK'
      BY <2>1, <2>2, <3>1, <3>2 DEF ReleaseInv, ReleaseTypeOK, Steps, row, qa, hooks, recording, faults
    <3>4. Numbered'
      BY <2>1, <3>1, <3>2 DEF ReleaseInv, ReleaseTypeOK, Numbered, Aggs, qa, hooks
    <3> QED
      BY <2>2, <2>3, <3>3, <3>4 DEF ReleaseInv
  <2> QED
    BY <2>4, <2>5
<1> QED
  BY <1>2, <1>3, <1>4, <1>5, <1>6, <1>7, <1>8

-----------------------------------------------------------------------------
(* Every step keeps the invariant, and what stands in the record. *)
LEMMA ReleaseStep == ASSUME ReleaseInv, [ReleaseNext]_releaseVars PROVE ReleaseInv' /\ Kept
<1>1. CASE ReleaseNext
  BY <1>1, EntityKeeps, PeopleKeep, HandlersKeep, PassBegins, PassRecords, PassEnds
  DEF ReleaseNext, Progress, Reconcile, Faults
<1>2. CASE UNCHANGED releaseVars
  <2>1. UNCHANGED <<entityVars, github, row, qa, hooks, pass, faults, ghosts>>
    BY <1>2 DEF releaseVars
  <2>2. Merged' /\ Recorded' /\ Kept /\ Numbered' /\ EntityTypeOK' /\ PassBound'
    BY <2>1, EntityUntouched, NumbersUntouched, RecordUntouched DEF github, qa, hooks, pass, ghosts
  <2>3. ReleaseTypeOK'
    BY <2>1, <2>2 DEF ReleaseInv, ReleaseTypeOK, github, row, qa, hooks, recording, pass, faults, ghosts
  <2> QED
    BY <2>2, <2>3 DEF ReleaseInv
<1> QED
  BY <1>1, <1>2

(* Every variable keeps its type: in particular a run of the entity makes no *)
(* more passes than its cap, and two aggregate PRs are never opened at once. *)
THEOREM ReleaseTypes == ReleaseSpec => []ReleaseTypeOK
<1>1. ReleaseInv => ReleaseTypeOK
  BY DEF ReleaseInv
<1> QED
  BY <1>1, ReleaseStarts, ReleaseStep, PTL DEF ReleaseSpec

(* batch-record.ts:19-28, for any reviewers, passes and faults: what a reviewer says  *)
(* between a pass's reading of the items and its writing them stands; a pass changes  *)
(* it only where it records a later merge commit, or the release that freezes it does. *)
THEOREM VerdictsKept == ReleaseSpec => VerdictsSurvivePasses
<1>1. ReleaseInv /\ [ReleaseNext]_releaseVars => [Kept]_releaseVars
  BY ReleaseStep
<1>2. ReleaseSpec => [][Kept]_releaseVars
  BY <1>1, ReleaseStarts, ReleaseStep, PTL DEF ReleaseSpec
<1> QED
  BY <1>2, PTL DEF VerdictsSurvivePasses, Kept

-----------------------------------------------------------------------------
(* The release PR.  A pass is asked for, or what the open one says is true. *)
Asked == notice \/ dirty
Ahead == [p \in PRs |-> IF p \in onStaging THEN merge[p] ELSE 0]
Settled == IF agg # 0 THEN body[agg] = Said ELSE onStaging = {} \/ declined

(* The open PR has something to ship; only a run that passes holds a pass. *)
Stands == (agg # 0 => onStaging # {}) /\ (step = "idle" <=> spc # "pass")

(* Histories the manifest is promised for, with no other pass on its way. *)
Promised == failures = 0 /\ ~misfiled /\ ~Asked

(* Then what a pass holds is the truth, and what it leaves behind; a batch frozen *)
(* under it had no verdict on what it lists.                                       *)
OnItsWay ==
  Promised =>
    /\ step = "idle" => Settled
    /\ step \in {"sync", "untrack", "items"} => cmp.ahead = Ahead
    /\ step = "untrack" => onStaging = {}
    /\ step \in {"upsert", "load"} => list = Ahead
    /\ step = "load" => todo = {}
    /\ step \in {"upsert", "load"} /\ hold = "frozen" => \A p \in onStaging : frozen[p] \notin Grades
    /\ step \in {"find", "track", "write"} => manifest = Said
    /\ step \in {"track", "write"} => (agg # 0 /\ agg = found) \/ (agg = 0 /\ declined)

ManifestInv == Stands /\ OnItsWay

(* A PR is opened with something to ship, and a release takes everything along. *)
LEMMA StandsHolds == ASSUME ReleaseInv, Stands, [ReleaseNext]_releaseVars PROVE Stands'
<1> USE DEF Stands
<1>1. ASSUME UNCHANGED <<onStaging, agg, step, spc>> PROVE Stands'
  BY <1>1
<1>2. CASE People
  <2>1. UNCHANGED <<step, spc>>
    BY <1>2 DEF People, MergeIntoStaging, MergeAgain, Verdict, PushDefault, MergeAggregate, CloseAggregate, entityVars, pass
  <2>2. agg' # 0 => onStaging' # {}
    BY <1>2 DEF People, MergeIntoStaging, MergeAgain, Verdict, PushDefault, MergeAggregate, CloseAggregate, github
  <2> QED BY <2>1, <2>2
<1>3. CASE EntityAlone
  <2>1. spc # "pass" /\ spc' # "pass"
    BY <1>3 DEF EntityAlone, EntityStep, Roll, RollIdle, AwaitWork, Debounce, WaitExpires, EntityCloses
  <2> QED BY <1>3, <2>1 DEF EntityAlone, github, pass
<1>4. CASE SendNotice
  <2>1. spc # "pass" <=> spc' # "pass"
    BY <1>4 DEF SendNotice, Request
  <2> QED BY <1>4, <2>1 DEF SendNotice, github, pass
<1>5. CASE (\E n \in Aggs : ReadClose(n) \/ ClearTracked(n) \/ MarkBatchShipped(n) \/ CloseLapses(n)) \/ WindowElapses
  BY <1>1, <1>5 DEF ReadClose, ClearTracked, MarkBatchShipped, CloseLapses, WindowElapses, entityVars, github, pass
<1>6. CASE BeginReconcile \/ PassCrashes
  <2>1. step' = "read" /\ spc' = "pass" /\ UNCHANGED <<agg, onStaging>>
    BY <1>6 DEF BeginReconcile, BeginPass, PassCrashes, entityVars, github
  <2> QED BY <2>1
<1>7. CASE Untrack \/ WriteBody \/ PassFails
  <2>1. step' = "idle" /\ spc' = "head" /\ UNCHANGED <<agg, onStaging>>
    BY <1>7 DEF Untrack, WriteBody, PassFails, Answer, PassAnswers, github
  <2> QED BY <2>1
<1>8. CASE ReadRow \/ CompareBranches \/ SyncStaging \/ ReadItems \/ DropGone \/ LoadItems \/ QaFails \/ TrackAggregate
           \/ (\E p \in PRs : WriteItem(p))
  <2>1. /\ spc = "pass" /\ spc' = "pass" /\ UNCHANGED <<agg, onStaging>>
        /\ step' \in {"compare", "sync", "untrack", "items", "upsert", "load", "find", "write"}
    BY <1>8
    DEF ReadRow, CompareBranches, SyncStaging, ReadItems, DropGone, LoadItems, QaFails, TrackAggregate, WriteItem, Upsert,
        Goto, entityVars, github
  <2> QED BY <2>1
<1>9. CASE FindOrCreate
  <2>1. CASE agg = 0 /\ onStaging = {}
    BY <1>9, <2>1 DEF FindOrCreate, Answer, PassAnswers
  <2>2. CASE ~(agg = 0 /\ onStaging = {})
    <3>1. /\ spc = "pass" /\ spc' = "pass" /\ step' = "track" /\ onStaging' = onStaging /\ onStaging # {}
      BY <1>9, <2>2 DEF FindOrCreate, Goto, entityVars
    <3> QED BY <3>1
  <2> QED BY <2>1, <2>2
<1>10. CASE UNCHANGED releaseVars
  BY <1>1, <1>10 DEF releaseVars, entityVars, github, pass
<1> QED
  BY <1>2, <1>3, <1>4, <1>5, <1>6, <1>7, <1>8, <1>9, <1>10
  DEF ReleaseNext, Progress, Handlers, Reconcile, Faults

(* Whatever people do asks for a pass, but for the close of a PR. *)
LEMMA PeopleOnItsWay == ASSUME ReleaseInv, OnItsWay, People PROVE OnItsWay'
<1> USE DEF OnItsWay, Promised
<1>1. CASE notice' = TRUE
  BY <1>1 DEF Asked
<1>2. CASE CloseAggregate
  <2>1. /\ UNCHANGED <<notice, dirty, failures, misfiled, step, cmp, list, todo, hold, frozen, manifest, found,
                       onStaging, merge, items>>
        /\ agg' = 0 /\ declined' = TRUE
    BY <1>2 DEF CloseAggregate, entityVars, qa, recording, pass, faults
  <2> QED BY <2>1 DEF Asked, Ahead, Said, Settled
<1> QED BY <1>1, <1>2 DEF People, MergeIntoStaging, MergeAgain, Verdict, PushDefault, MergeAggregate

(* A release that freezes no verdict on what is still on staging leaves the *)
(* manifest what it says.                                                    *)
LEMMA FreezingOnItsWay ==
  ASSUME ReleaseInv, OnItsWay, NEW n \in Aggs, MarkBatchShipped(n) PROVE OnItsWay'
<1>1. /\ UNCHANGED <<notice, dirty, failures, step, cmp, list, todo, manifest, found, onStaging, merge, agg, body, declined>>
      /\ items' = NoItems /\ misfiled' = (misfiled \/ \E p \in onStaging : items[p] \in Grades)
  BY DEF MarkBatchShipped, entityVars, github, faults
<1>2. CASE ~Promised'
  BY <1>2 DEF OnItsWay
<1>3. CASE Promised'
  <2>1. Promised /\ \A p \in onStaging : items[p] \notin Grades
    BY <1>1, <1>3 DEF Promised, Asked
  <2>2. Said' = Said
    <3>1. \A p \in PRs : items'[p] = "absent" /\ (p \in onStaging => items[p] \in {"absent", "pending"})
      BY <1>1, <2>1 DEF NoItems, ReleaseInv, ReleaseTypeOK, Statuses
    <3> QED BY <1>1, <3>1 DEF Said
  <2>3. hold' = "frozen" => frozen' = items \/ (hold = "frozen" /\ frozen' = frozen)
    BY DEF MarkBatchShipped
  <2>4. Ahead' = Ahead /\ (Settled <=> Settled')
    BY <1>1, <2>2 DEF Ahead, Settled
  <2>5. step \in {"upsert", "load"} /\ hold' = "frozen" => \A p \in onStaging : frozen'[p] \notin Grades
    BY <2>1, <2>3 DEF OnItsWay
  <2> QED BY <1>1, <2>1, <2>2, <2>4, <2>5 DEF OnItsWay
<1> QED BY <1>2, <1>3

(* A pass up to its record compares what is there. *)
LEMMA BeginningOnItsWay ==
  ASSUME ReleaseInv, Stands, OnItsWay, BeginReconcile \/ ReadRow \/ CompareBranches \/ SyncStaging \/ Untrack
  PROVE  OnItsWay'
<1>1. CASE BeginReconcile \/ ReadRow
  BY <1>1 DEF BeginReconcile, ReadRow, Goto, OnItsWay
<1>2. CASE CompareBranches
  <2>1. step' = "sync" /\ cmp'.ahead = Ahead'
    BY <1>2 DEF CompareBranches, Goto, Ahead, github
  <2> QED BY <2>1 DEF OnItsWay
<1>3. CASE SyncStaging
  <2>1. /\ UNCHANGED <<notice, dirty, failures, misfiled, cmp, onStaging, merge>> /\ step = "sync"
        /\ step' = IF cmp.ahead = NoMerges THEN "untrack" ELSE "items"
    BY <1>3 DEF SyncStaging, Goto, entityVars, hooks, faults, ghosts
  <2>2. Promised' => cmp.ahead = Ahead /\ Ahead' = Ahead
    BY <2>1 DEF OnItsWay, Promised, Asked, Ahead
  <2>3. Ahead = NoMerges => onStaging = {}
    <3>1. \A p \in onStaging : p \in PRs /\ merge[p] # 0
      BY DEF ReleaseInv, ReleaseTypeOK, Merged
    <3>2. ASSUME NEW p \in onStaging, Ahead = NoMerges PROVE FALSE
      <4>1. Ahead[p] = merge[p] /\ NoMerges[p] = 0
        BY <3>1 DEF Ahead, NoMerges
      <4> QED BY <3>1, <3>2, <4>1
    <3> QED BY <3>2
  <2> QED BY <2>1, <2>2, <2>3 DEF OnItsWay
<1>4. CASE Untrack
  <2>1. UNCHANGED <<notice, dirty, failures, misfiled, onStaging, agg>> /\ step = "untrack" /\ step' = "idle"
    BY <1>4 DEF Untrack, Track, Answer, PassAnswers, github, hooks, faults, ghosts
  <2> QED BY <2>1 DEF OnItsWay, Promised, Asked, Settled, Stands
<1> QED BY <1>1, <1>2, <1>3, <1>4

(* The record is read and written for the PRs there are, and read again last. *)
LEMMA RecordingOnItsWay ==
  ASSUME ReleaseInv, OnItsWay, ReadItems \/ (\E p \in PRs : WriteItem(p)) \/ DropGone \/ LoadItems PROVE OnItsWay'
<1>1. CASE ReadItems
  <2>1. /\ UNCHANGED <<notice, dirty, failures, misfiled, onStaging, merge>> /\ step = "items" /\ step' = "upsert"
        /\ list' = [p \in PRs |-> IF cmp.ahead[p] = merge[p] THEN merge[p] ELSE 0] /\ hold' = "open"
    BY <1>1 DEF ReadItems, Goto, entityVars, github, hooks, faults, ghosts
  <2>2. Promised' => cmp.ahead = Ahead
    BY <2>1 DEF OnItsWay, Promised, Asked
  <2>3. cmp.ahead = Ahead => list' = Ahead'
    <3>1. \A p \in PRs : p \notin onStaging => Ahead[p] = 0
      BY DEF Ahead
    <3> QED BY <2>1, <3>1 DEF Ahead
  <2> QED BY <2>1, <2>2, <2>3 DEF OnItsWay
<1>2. ASSUME NEW p \in PRs, WriteItem(p) PROVE OnItsWay'
  <2>1. /\ UNCHANGED <<notice, dirty, failures, misfiled, onStaging, merge, list, hold>>
        /\ step = "upsert" /\ step' = "upsert"
    BY <1>2 DEF WriteItem, Upsert, Goto, entityVars, github, hooks, faults, ghosts
  <2>2. ASSUME hold = "frozen", \A q \in onStaging : frozen[q] \notin Grades
        PROVE  \A q \in onStaging : frozen'[q] \notin Grades
    <3>1. frozen' = [frozen EXCEPT ![p] = Upserted(p, frozen[p])]
      BY <1>2, <2>2 DEF WriteItem, Upsert, Held
    <3>2. Upserted(p, frozen[p]) \in {"pending", frozen[p]}
      BY DEF Upserted
    <3>3. "pending" \notin Grades
      BY StagingReleaseAssumption
    <3> QED BY <2>2, <3>1, <3>2, <3>3 DEF ReleaseInv, ReleaseTypeOK
  <2>3. Ahead' = Ahead /\ (Promised' <=> Promised)
    BY <2>1 DEF Ahead, Promised, Asked
  <2> QED BY <2>1, <2>2, <2>3 DEF OnItsWay
<1>3. CASE DropGone
  <2>1. /\ UNCHANGED <<notice, dirty, failures, misfiled, onStaging, merge, list, hold, frozen, todo>>
        /\ step = "upsert" /\ step' = "load" /\ todo = {}
    BY <1>3 DEF DropGone, Goto, entityVars, github, hooks, recording, faults, ghosts
  <2>2. Ahead' = Ahead /\ (Promised' <=> Promised)
    BY <2>1 DEF Ahead, Promised, Asked
  <2> QED BY <2>1, <2>2 DEF OnItsWay
<1>4. CASE LoadItems
  <2>1. /\ UNCHANGED <<notice, dirty, failures, misfiled, onStaging, merge, items>> /\ step = "load" /\ step' = "find"
        /\ manifest' = [p \in PRs |-> IF list[p] = 0 THEN "absent" ELSE Held[p]]
    BY <1>4 DEF LoadItems, Goto, entityVars, github, qa, hooks, faults, ghosts
  <2>2. Promised' => Promised
    BY <2>1 DEF Promised, Asked
  <2>3. ASSUME Promised PROVE manifest' = Said'
    <3>1. list = Ahead /\ todo = {} /\ (hold = "frozen" => \A p \in onStaging : frozen[p] \notin Grades)
      BY <2>1, <2>3 DEF OnItsWay
    <3>2. \A p \in PRs : list[p] # 0 <=> p \in onStaging
      BY <3>1 DEF Ahead, ReleaseInv, Merged
    <3>3. hold \in {"open", "frozen"} /\ \A p \in onStaging : p \in PRs /\ Held[p] # "absent"
      BY <2>1, <3>1, <3>2 DEF ReleaseInv, ReleaseTypeOK, Recorded
    <3>4. \A p \in onStaging : Held[p] = IF items[p] = "absent" THEN "pending" ELSE items[p]
      <4>1. CASE hold = "open"
        BY <3>3, <4>1 DEF Held
      <4>2. CASE hold = "frozen"
        BY <3>1, <3>3, <4>2 DEF Held, ReleaseInv, ReleaseTypeOK, Recorded, Statuses
      <4> QED BY <3>3, <4>1, <4>2
    <3> QED BY <2>1, <3>2, <3>4 DEF Said
  <2> QED BY <2>1, <2>2, <2>3 DEF OnItsWay
<1> QED BY <1>1, <1>2, <1>3, <1>4

(* The aggregate PR is the open one, and is written what the pass holds. *)
LEMMA EndingOnItsWay ==
  ASSUME ReleaseInv, OnItsWay, FindOrCreate \/ TrackAggregate \/ WriteBody PROVE OnItsWay'
<1>1. CASE FindOrCreate
  <2>1. UNCHANGED <<notice, dirty, failures, misfiled, onStaging, items>> /\ step = "find"
    BY <1>1 DEF FindOrCreate, Goto, Answer, PassAnswers, entityVars, qa, hooks, faults
  <2>2. (Promised' <=> Promised) /\ Said' = Said
    BY <2>1 DEF Promised, Asked, Said
  <2>3. CASE agg # 0 \/ onStaging # {}
    <3>1. step' = "track" /\ found' = agg' /\ agg' # 0 /\ manifest' = manifest
      BY <1>1, <2>3 DEF FindOrCreate, Goto, ReleaseInv, ReleaseTypeOK
    <3> QED BY <2>1, <2>2, <3>1 DEF OnItsWay
  <2>4. CASE agg = 0 /\ onStaging = {}
    <3>1. step' = "idle" /\ agg' = 0 /\ onStaging' = {}
      BY <1>1, <2>4 DEF FindOrCreate, Answer
    <3> QED BY <3>1 DEF OnItsWay, Settled
  <2> QED BY <2>3, <2>4
<1>2. CASE TrackAggregate
  <2>1. /\ UNCHANGED <<notice, dirty, failures, misfiled, manifest, found, onStaging, items, agg, declined>>
        /\ step = "track" /\ step' = "write"
    BY <1>2 DEF TrackAggregate, Track, Goto, entityVars, github, qa, hooks, faults, ghosts
  <2>2. (Promised' <=> Promised) /\ Said' = Said
    BY <2>1 DEF Promised, Asked, Said
  <2> QED BY <2>1, <2>2 DEF OnItsWay
<1>3. CASE WriteBody
  <2>1. /\ UNCHANGED <<notice, dirty, failures, misfiled, onStaging, items, agg, declined>>
        /\ step = "write" /\ step' = "idle" /\ body' = [body EXCEPT ![found] = manifest]
    BY <1>3 DEF WriteBody, Answer, PassAnswers, qa, hooks, faults, ghosts
  <2>2. agg # 0 /\ agg = found => body'[agg] = manifest
    BY <2>1 DEF ReleaseInv, ReleaseTypeOK, Aggs
  <2>3. (Promised' <=> Promised) /\ Said' = Said
    BY <2>1 DEF Promised, Asked, Said
  <2>4. Promised => manifest = Said /\ ((agg # 0 /\ agg = found) \/ (agg = 0 /\ declined))
    BY <2>1 DEF OnItsWay
  <2>5. Promised => Settled'
    BY <2>1, <2>2, <2>3, <2>4 DEF Settled
  <2> QED BY <2>1, <2>3, <2>5 DEF OnItsWay
<1> QED BY <1>1, <1>2, <1>3

(* Whatever makes the pass's answer untrue asks for another pass. *)
LEMMA OnItsWayHolds == ASSUME ReleaseInv, ManifestInv, [ReleaseNext]_releaseVars PROVE OnItsWay'
<1>0. Stands /\ OnItsWay
  BY DEF ManifestInv
<1>1. ASSUME UNCHANGED <<step, cmp, list, todo, hold, frozen, manifest, found, onStaging, merge, items, agg, body,
                         declined, failures, misfiled>>,
             Asked => Asked'
      PROVE  OnItsWay'
  <2>1. Ahead' = Ahead /\ Said' = Said /\ (Settled' <=> Settled) /\ (Promised' => Promised)
    BY <1>1 DEF Ahead, Said, Settled, Promised
  <2> QED BY <1>0, <1>1, <2>1 DEF OnItsWay
<1>2. CASE SendNotice
  BY <1>2 DEF SendNotice, Request, Asked, Promised, OnItsWay
<1>3. CASE EntityAlone
  <2>1. dirty => dirty'
    BY <1>3 DEF EntityAlone, EntityStep, Roll, RollIdle, AwaitWork, Debounce, WaitExpires, EntityCloses
  <2> QED BY <1>1, <1>3, <2>1 DEF EntityAlone, Asked, github, qa, hooks, recording, pass, faults, ghosts
<1>4. CASE WindowElapses
  BY <1>1, <1>4 DEF WindowElapses, Asked, entityVars, github, qa, hooks, recording, pass, faults, ghosts
<1>5. ASSUME NEW n \in Aggs, ReadClose(n) \/ ClearTracked(n) \/ CloseLapses(n) PROVE OnItsWay'
  <2>1. UNCHANGED <<entityVars, github, qa, notice, pass, failures, ghosts>>
    BY <1>5 DEF ReadClose, ClearTracked, CloseLapses, faults
  <2> QED BY <1>1, <2>1 DEF Asked, entityVars, github, qa, recording, pass, ghosts
<1>6. CASE QaFails \/ PassFails
  <2>1. failures' # 0
    <3>1. failures' = failures + 1
      BY <1>6 DEF QaFails, PassFails
    <3>2. failures \in Nat
      BY DEF ReleaseInv, ReleaseTypeOK
    <3> QED BY <3>1, <3>2
  <2> QED BY <2>1 DEF OnItsWay, Promised
<1>7. CASE PassCrashes
  BY <1>7 DEF PassCrashes, OnItsWay
<1>8. CASE UNCHANGED releaseVars
  BY <1>1, <1>8 DEF releaseVars, Asked, entityVars, github, qa, hooks, recording, pass, faults, ghosts
<1> QED
  BY <1>0, <1>2, <1>3, <1>4, <1>5, <1>6, <1>7, <1>8,
     PeopleOnItsWay, FreezingOnItsWay, BeginningOnItsWay, RecordingOnItsWay, EndingOnItsWay
  DEF ReleaseNext, Progress, Handlers, Reconcile, Faults

(* Nothing is open and nothing to ship at the start. *)
LEMMA ManifestStarts == ReleaseInit => ManifestInv
  BY DEF ReleaseInit, EntityInit, ManifestInv, Stands, OnItsWay, Settled

(* staging-batch.ts:57-65, for any pull requests, verdicts, merges, pushes, releases,  *)
(* crashes and swallowed errors: once things are quiet, and neither a call failed that  *)
(* the manifest is made from nor a release froze verdicts on what it did not ship, the   *)
(* open aggregate PR lists what staging ships with its verdicts, and is there unless     *)
(* nothing is to ship or people closed the last one unmerged.                            *)
THEOREM Converges == ReleaseSpec => []ManifestConverges
<1>1. ReleaseInv /\ ManifestInv /\ [ReleaseNext]_releaseVars => ReleaseInv' /\ ManifestInv'
  BY StandsHolds, OnItsWayHolds, ReleaseStep DEF ManifestInv
<1>2. ManifestInv => ManifestConverges
  <2> SUFFICES ASSUME ManifestInv, Quiet, failures = 0, ~misfiled
               PROVE  IF agg # 0 THEN body[agg] = Said ELSE onStaging = {} \/ declined
    BY DEF ManifestConverges
  <2>1. Promised /\ step = "idle"
    BY DEF Quiet, Asked, Promised, ManifestInv, Stands
  <2> QED BY <2>1 DEF ManifestInv, OnItsWay, Settled
<1> QED
  BY <1>1, <1>2, ReleaseStarts, ManifestStarts, PTL DEF ReleaseSpec
=============================================================================
