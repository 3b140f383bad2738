---------------------------- MODULE StagingBatch ----------------------------
(***************************************************************************)
(* The per-repository entity workflow `stagingBatch`                       *)
(* (src/src/worker/workflows/staging-batch.ts): a dirty flag instead of a  *)
(* queue, a debounce, one reconcile pass at a time, and a deferred sync    *)
(* the entity stays open for.  The pass itself is an activity; here it     *)
(* starts and answers, StagingRelease says what it does.                   *)
(***************************************************************************)
EXTENDS Naturals

CONSTANTS
  ReconcilesCap,   \* RECONCILES_BEFORE_CONTINUE
  SuggestFrom      \* the server may set continueAsNewSuggested from here on

ASSUME StagingBatchAssumption == ReconcilesCap \in Nat \ {0} /\ SuggestFrom \in Nat \ {0}

VARIABLES
  spc,           \* where the run is suspended; "none": no run is open
  dirty,         \* dirty: a pass is requested and has not begun
  syncDeferred,  \* syncDeferred: the last pass held a sync back
  reconciles     \* passes of this run, reset by Continue-As-New

entityVars == <<spc, dirty, syncDeferred, reconciles>>

EntityPoints == {"none", "head", "wait", "debounce", "pass"}

EntityInit == spc = "none" /\ dirty = FALSE /\ syncDeferred = FALSE /\ reconciles = 0

(* signalStagingBatch: set the flag of the open run, or start one. *)
Request ==
  /\ dirty' = TRUE
  /\ spc' = IF spc = "none" THEN "head" ELSE spc
  /\ UNCHANGED <<syncDeferred, reconciles>>

MayRoll == reconciles >= SuggestFrom \/ reconciles >= ReconcilesCap

(* The loop test fails with something to do: the next run gets `dirty` (and a *)
(* reason); whether a sync was deferred is not part of its input.              *)
Roll ==
  /\ spc = "head" /\ MayRoll /\ (dirty \/ syncDeferred)
  /\ reconciles' = 0 /\ syncDeferred' = FALSE
  /\ UNCHANGED <<spc, dirty>>

EntityCloses == spc' = "none" /\ dirty' = FALSE /\ syncDeferred' = FALSE /\ reconciles' = 0

(* The loop test fails with nothing to do. *)
RollIdle == spc = "head" /\ MayRoll /\ ~dirty /\ ~syncDeferred /\ EntityCloses

(* Mutant of AwaitWork: the loop has no cap. *)
AwaitWorkUncapped ==
  /\ spc = "head"
  /\ spc' = "wait"
  /\ UNCHANGED <<dirty, syncDeferred, reconciles>>

AwaitWork ==
  /\ spc = "head" /\ reconciles < ReconcilesCap
  /\ spc' = "wait"
  /\ UNCHANGED <<dirty, syncDeferred, reconciles>>

(* A request is there: let the burst settle. *)
Debounce ==
  /\ spc = "wait" /\ dirty
  /\ spc' = "debounce"
  /\ UNCHANGED <<dirty, syncDeferred, reconciles>>

(* No request within the wait: run the held-back sync, or complete. The       *)
(* deferred wait ends on the workflow's clock, so the window may still be open. *)
WaitExpires ==
  /\ spc = "wait" /\ ~dirty
  /\ \/ syncDeferred /\ dirty' = TRUE /\ spc' = "debounce" /\ UNCHANGED <<syncDeferred, reconciles>>
     \/ ~syncDeferred /\ EntityCloses

(* The debounce is over: clear the flag, then read GitHub. *)
BeginPass ==
  /\ spc = "debounce"
  /\ spc' = "pass" /\ dirty' = FALSE
  /\ UNCHANGED <<syncDeferred, reconciles>>

(* Mutant of PassAnswers: the flag is cleared when the pass is over. *)
PassAnswersClearing(deferred) ==
  /\ spc = "pass"
  /\ spc' = "head" /\ reconciles' = reconciles + 1 /\ syncDeferred' = deferred
  /\ dirty' = FALSE

(* The pass answers whether it held a sync back. *)
PassAnswers(deferred) ==
  /\ spc = "pass"
  /\ spc' = "head" /\ reconciles' = reconciles + 1 /\ syncDeferred' = deferred
  /\ UNCHANGED dirty

EntityStep == Roll \/ RollIdle \/ AwaitWork \/ Debounce \/ WaitExpires

EntityTypeOK ==
  /\ spc \in EntityPoints
  /\ dirty \in BOOLEAN /\ syncDeferred \in BOOLEAN
  /\ reconciles \in 0..ReconcilesCap
=============================================================================
