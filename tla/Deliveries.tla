----------------------------- MODULE Deliveries -----------------------------
(***************************************************************************)
(* Webhooks in and out: a GitHub delivery from its request to the workflow  *)
(* it reaches (src/src/app/api/github/webhook/route.ts, lib/temporal/       *)
(* start.ts), and a pr.blocked event from the handler that closes the pull  *)
(* request to the project's endpoints (lib/notifications/webhooks.ts,       *)
(* worker/workflows/webhook-delivery.ts and its activity).                  *)
(*                                                                         *)
(* Each call that leaves the process may be taken and its answer lost.      *)
(***************************************************************************)
EXTENDS Naturals, Sequences

CONSTANTS
  Requests,     \* webhook requests that may be in flight at once
  PrEvents,     \* deliveries of one pull request, each of which blocks it
  MergeGroups,  \* deliveries of merge groups
  Heads,        \* the head commits of those groups
  HeadOf,       \* HeadOf[g]: the head that delivery names
  Endpoints,    \* the project's enabled webhooks
  Backoffs,     \* length of OUTBOUND_RETRY_BACKOFFS_MS
  MaxSends,     \* bound: requests GitHub ever makes, redeliveries included
  MaxFaults     \* bound: calls that fail or whose answer is lost, workers lost

ASSUME DeliveriesAssumption ==
  /\ {Backoffs, MaxSends, MaxFaults} \subseteq Nat
  /\ PrEvents \cap MergeGroups = {} /\ HeadOf \in [MergeGroups -> Heads]

VARIABLES
  http,      \* http[r]: the request in flight there
  marked,    \* the ids in ProcessedWebhookDelivery
  mailbox,   \* signals the pull request's entity has not handled, oldest first
  groups,    \* groups[h]: the workflow of the merge group with head h
  handler,   \* the entity's activity in progress: its event and the endpoints left
  runs,      \* outboundWebhookDelivery executions, by workflow id
  clock,     \* the time: no two fan-outs happen at the same millisecond
  \* What an observer remembers; no step reads these
  acked,     \* deliveries GitHub has been told are taken
  taken,     \* deliveries the workflow service has taken
  perished,  \* events that went with a run that ended or failed
  spared,    \* events an attempt at which decided to block nothing
  silent,    \* events one of whose fan-outs stopped at an endpoint
  announced, \* events whose handler ended
  sends, faults   \* spent of the bounds

inbound == <<http, marked, groups, acked, taken, sends>>
outbound == <<runs, clock>>
observed == <<perished, spared, silent, announced>>
vars == <<inbound, mailbox, handler, outbound, observed, faults>>

Ids == PrEvents \cup MergeGroups
Nobody == [at |-> "idle", d |-> "none"]
Resting == [at |-> "idle", d |-> "none", left |-> {}, time |-> 0]
MaxAttempts == Backoffs + 1

Init ==
  /\ http = [r \in Requests |-> Nobody] /\ marked = {} /\ mailbox = <<>>
  /\ groups = [h \in Heads |-> "none"]
  /\ handler = Resting
  /\ runs = [k \in {} |-> "none"] /\ clock = 0
  /\ acked = {} /\ taken = {} /\ perished = {} /\ spared = {} /\ silent = {} /\ announced = {}
  /\ sends = 0 /\ faults = 0

Faults == faults < MaxFaults /\ faults' = faults + 1
Ends(r) == http' = [http EXCEPT ![r] = Nobody]

-----------------------------------------------------------------------------
(* GitHub sends a delivery, again after a failure or when someone asks it to. *)
(* alreadyProcessed answers a marked one at once.                             *)
Receive(r, d) ==
  /\ http[r] = Nobody /\ sends < MaxSends /\ sends' = sends + 1
  /\ IF d \in marked
     THEN acked' = acked \cup {d} /\ UNCHANGED http
     ELSE http' = [http EXCEPT ![r] = [at |-> "new", d |-> d]] /\ UNCHANGED acked
  /\ UNCHANGED <<marked, mailbox, groups, taken, handler, outbound, observed, faults>>

(* A pull request's event is a signal, taken as often as it is sent; a merge  *)
(* group's is a start under an id of its head, and refused, which counts as    *)
(* taken, once there has been one for that head.                              *)
Takes(d) ==
  /\ taken' = taken \cup {d}
  /\ IF d \in PrEvents
     THEN mailbox' = Append(mailbox, d) /\ UNCHANGED groups
     ELSE /\ groups' = [groups EXCEPT ![HeadOf[d]] = IF @ = "none" THEN "running" ELSE @]
          /\ UNCHANGED mailbox

Dispatch(r) ==
  /\ http[r].at = "new" /\ Takes(http[r].d)
  /\ http' = [http EXCEPT ![r].at = "dispatched"]
  /\ UNCHANGED <<marked, acked, sends, handler, outbound, observed, faults>>

(* A mutant: the error is logged and the delivery marked all the same. *)
DispatchFailsQuietly(r) ==
  /\ http[r].at = "new" /\ Faults
  /\ Takes(http[r].d) \/ UNCHANGED <<taken, mailbox, groups>>
  /\ http' = [http EXCEPT ![r].at = "dispatched"]
  /\ UNCHANGED <<marked, acked, sends, handler, outbound, observed>>

(* 500, or no answer at all: the service has it or has not. *)
DispatchFails(r) ==
  /\ http[r].at = "new" /\ Faults
  /\ Takes(http[r].d) \/ UNCHANGED <<taken, mailbox, groups>>
  /\ Ends(r)
  /\ UNCHANGED <<marked, acked, sends, handler, outbound, observed>>

(* The answer does not wait on the mark: a row that cannot be written is let go. *)
markProcessed(r) ==
  /\ http[r].at = "dispatched"
  /\ \/ marked' = marked \cup {http[r].d} /\ UNCHANGED faults
     \/ Faults /\ UNCHANGED marked
  /\ acked' = acked \cup {http[r].d} /\ Ends(r)
  /\ UNCHANGED <<mailbox, groups, taken, sends, handler, outbound, observed>>

pruneProcessedDeliveries ==
  /\ \E kept \in SUBSET marked : kept # marked /\ marked' = kept
  /\ UNCHANGED <<http, mailbox, groups, acked, taken, sends, handler, outbound, observed, faults>>

GroupEnds(h) ==
  /\ groups[h] = "running" /\ groups' = [groups EXCEPT ![h] = "closed"]
  /\ UNCHANGED <<http, marked, mailbox, acked, taken, sends, handler, outbound, observed, faults>>

-----------------------------------------------------------------------------
(* The handler of an event decides on it, and one that blocks closes the pull *)
(* request and fans out.  A close or a start that fails is logged and ends the *)
(* fan-out; a worker lost midway has the whole activity run again, and decide  *)
(* again.                                                                     *)
TakeEvent ==
  /\ handler = Resting /\ mailbox # <<>>
  /\ handler' = [Resting EXCEPT !.at = "close", !.d = Head(mailbox)]
  /\ mailbox' = Tail(mailbox)
  /\ UNCHANGED <<inbound, outbound, observed, faults>>

ClosePr ==
  /\ handler.at = "close"
  /\ \/ /\ clock' = clock + 1
        /\ handler' = [handler EXCEPT !.at = "start", !.left = Endpoints, !.time = clock + 1]
        /\ UNCHANGED <<silent, faults>>
     \/ /\ Faults /\ silent' = silent \cup {handler.d}
        /\ handler' = [handler EXCEPT !.at = "start"] /\ UNCHANGED clock
  /\ UNCHANGED <<inbound, mailbox, runs, perished, spared, announced>>

(* The author is, by now, one whose pull requests are let through. *)
LetThrough ==
  /\ handler.at = "close" /\ handler' = [handler EXCEPT !.at = "start"]
  /\ spared' = spared \cup {handler.d}
  /\ UNCHANGED <<inbound, mailbox, outbound, perished, silent, announced, faults>>

(* The key hashes the endpoint, the event and a body that tells the time. *)
deliveryKey(ep, time) == [endpoint |-> ep, event |-> handler.d, time |-> time]
Started(k) ==
  runs' = IF k \in DOMAIN runs THEN runs
          ELSE [j \in DOMAIN runs \cup {k} |->
                  IF j \in DOMAIN runs THEN runs[j] ELSE [at |-> "post", attempt |-> 1]]

startOutboundWebhook(ep) ==
  /\ handler.at = "start" /\ ep \in handler.left
  /\ \/ /\ Started(deliveryKey(ep, handler.time))
        /\ handler' = [handler EXCEPT !.left = @ \ {ep}]
        /\ UNCHANGED <<silent, faults>>
     \/ /\ Faults /\ silent' = silent \cup {handler.d}
        /\ handler' = [handler EXCEPT !.left = {}]
        /\ Started(deliveryKey(ep, handler.time)) \/ UNCHANGED runs
  /\ UNCHANGED <<inbound, mailbox, clock, perished, spared, announced>>

(* A mutant: the starts are not awaited. *)
CompletesEarly ==
  /\ handler.at = "start"
  /\ handler' = Resting /\ announced' = announced \cup {handler.d}
  /\ UNCHANGED <<inbound, mailbox, outbound, perished, spared, silent, faults>>

Completes ==
  /\ handler.at = "start" /\ handler.left = {}
  /\ handler' = Resting /\ announced' = announced \cup {handler.d}
  /\ UNCHANGED <<inbound, mailbox, outbound, perished, spared, silent, faults>>

(* A mutant: the loop is told of the lost worker, and goes on with the next event. *)
WorkerLostForGood ==
  /\ handler # Resting /\ Faults
  /\ handler' = Resting
  /\ UNCHANGED <<inbound, mailbox, outbound, observed>>

WorkerLost ==
  /\ handler # Resting /\ Faults
  /\ handler' = [Resting EXCEPT !.at = "close", !.d = handler.d]
  /\ UNCHANGED <<inbound, mailbox, outbound, observed>>

(* What is queued goes with the run that holds it: the older events with prGate's, *)
(* the newer with contributorGate's.                                               *)
QueueGoes ==
  \E i \in 1..Len(mailbox) + 1, j \in 0..Len(mailbox) :
    /\ mailbox' = SubSeq(mailbox, i, j)
    /\ perished' = perished \cup {mailbox[n] : n \in 1..Len(mailbox) \ i..j}

(* A run ends with signals it has not read, or the one of a child that is gone is *)
(* given up.                                                                      *)
RunEnds ==
  /\ handler = Resting /\ mailbox # <<>> /\ QueueGoes
  /\ UNCHANGED <<inbound, handler, outbound, spared, silent, announced, faults>>

(* The activity failed for good, by a permanent error or on its last attempt: the *)
(* run fails, its event with it.                                                  *)
RunFails ==
  /\ handler # Resting /\ Faults /\ handler' = Resting
  /\ \E i \in 1..Len(mailbox) + 1 :
       /\ mailbox' = SubSeq(mailbox, i, Len(mailbox))
       /\ perished' = perished \cup {handler.d} \cup {mailbox[n] : n \in 1..(i - 1)}
  /\ UNCHANGED <<inbound, outbound, spared, silent, announced>>

-----------------------------------------------------------------------------
(* outboundWebhookDelivery: an attempt, and another after each backoff.  The  *)
(* endpoint may have taken a POST it did not answer in time.                  *)
Becomes(k, run) == runs' = [runs EXCEPT ![k] = run]
Delivered == [at |-> "delivered", attempt |-> 0]
Failed == [at |-> "failed", attempt |-> 0]

(* A mutant: one backoff too many. *)
deliverOnceMore(k) ==
  /\ runs[k].at = "post"
  /\ \/ Becomes(k, Delivered)
     \/ Becomes(k, IF runs[k].attempt <= MaxAttempts THEN [runs[k] EXCEPT !.at = "sleep"]
                   ELSE Failed)
  /\ UNCHANGED <<inbound, mailbox, handler, clock, observed, faults>>

deliverOutboundAttempt(k) ==
  /\ runs[k].at = "post"
  /\ \/ Becomes(k, Delivered)
     \/ Becomes(k, IF runs[k].attempt < MaxAttempts THEN [runs[k] EXCEPT !.at = "sleep"]
                   ELSE Failed)
     \/ Becomes(k, Failed)   \* an unsafe URL is blocked
  /\ UNCHANGED <<inbound, mailbox, handler, clock, observed, faults>>

(* The activity is not retried: a lost worker, a secret that cannot be       *)
(* decrypted or a name that does not resolve fails the execution.            *)
AttemptThrows(k) ==
  /\ runs[k].at = "post" /\ Faults /\ Becomes(k, Failed)
  /\ UNCHANGED <<inbound, mailbox, handler, clock, observed>>

BackoffEnds(k) ==
  /\ runs[k].at = "sleep"
  /\ Becomes(k, [at |-> "post", attempt |-> runs[k].attempt + 1])
  /\ UNCHANGED <<inbound, mailbox, handler, clock, observed, faults>>

-----------------------------------------------------------------------------
RunSteps(k) == deliverOutboundAttempt(k) \/ AttemptThrows(k) \/ BackoffEnds(k)

Next ==
  \/ \E r \in Requests :
       \/ \E d \in Ids : Receive(r, d)
       \/ Dispatch(r) \/ DispatchFails(r) \/ markProcessed(r)
  \/ pruneProcessedDeliveries
  \/ \E h \in Heads : GroupEnds(h)
  \/ TakeEvent \/ ClosePr \/ LetThrough \/ Completes
  \/ WorkerLost \/ RunEnds \/ RunFails
  \/ \E ep \in Endpoints : startOutboundWebhook(ep)
  \/ \E k \in DOMAIN runs : RunSteps(k)

(* Workers take what is ready; GitHub, faults, endpoints and the pruning      *)
(* promise nothing.                                                          *)
Fairness ==
  /\ WF_vars(TakeEvent) /\ WF_vars(ClosePr \/ LetThrough) /\ WF_vars(Completes)
  /\ \A ep \in Endpoints : WF_vars(startOutboundWebhook(ep))

Spec == Init /\ [][Next]_vars /\ Fairness

-----------------------------------------------------------------------------
(* There is a fan-out for each signal taken, and again for each worker lost. *)
Times == 1..(MaxSends + MaxFaults)
Keys == [endpoint : Endpoints, event : PrEvents, time : Times]

DeliveriesTypeOK ==
  /\ \A r \in Requests : http[r] \in {Nobody} \cup [at : {"new", "dispatched"}, d : Ids]
  /\ marked \cup acked \cup taken \subseteq Ids
  /\ handler.left \subseteq Endpoints /\ handler.time <= clock
  /\ DOMAIN runs \subseteq Keys
  /\ \A k \in DOMAIN runs : runs[k].attempt \in 0..MaxAttempts
  /\ sends <= MaxSends /\ faults <= MaxFaults

(* GitHub is never told that a delivery was taken which no workflow got, its own *)
(* or its head's: not by a request whose dispatch failed, nor by one that found   *)
(* it marked.                                                                     *)
AckedIsTaken == acked \cup marked \subseteq taken

(* An event is announced whole: unless a call of its own fan-out failed, or an    *)
(* attempt at it found nothing to block any more (webhook.ts:1048), some one       *)
(* fan-out of it reached every endpoint, however often a worker was lost between    *)
(* two of them.                                                                    *)
AnnouncedWhole ==
  \A d \in announced \ (silent \cup spared) :
    \E t \in 1..clock :
      \A ep \in Endpoints : [endpoint |-> ep, event |-> d, time |-> t] \in DOMAIN runs

(* An event a workflow took is handled to its end over lost workers and repeated   *)
(* signals, or went with a run: one that ended with it unread (pr-gate.ts:147,      *)
(* :182), failed at it (:155), or did not reach its child (contributor-gate.ts:281). *)
EachEventIsHandled ==
  \A d \in PrEvents : d \in taken ~> d \in announced \cup perished
=============================================================================
