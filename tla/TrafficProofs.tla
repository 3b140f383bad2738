----------------------------- MODULE TrafficProofs -----------------------------
(***************************************************************************)
(* What the outside can rely on, for any number of requests, deliveries,    *)
(* endpoints, calls and faults.  First Deliveries: GitHub and a project's   *)
(* endpoints.  Then RequestBudget: a window that refuses everyone is right  *)
(* to, since what the process believes is left is never less than what is   *)
(* left, but for the calls GitHub has not counted; and bulk work keeps to   *)
(* its share.                                                              *)
(***************************************************************************)
EXTENDS Deliveries, RequestBudget, FiniteSetTheorems, SequenceTheorems, TLAPS

-----------------------------------------------------------------------------
(* Requests in.  A request is past its dispatch only with a delivery taken.  *)
HttpOK == http \in [Requests -> {Nobody} \cup [at : {"new", "dispatched"}, d : Ids]]
PastDispatch == \A r \in Requests : http[r].at = "dispatched" => http[r].d \in taken
IntakeInv == HttpOK /\ PastDispatch /\ AckedIsTaken

(* What is taken stays taken, by any dispatch or none. *)
LEMMA TakenGrows ==
  ASSUME NEW d, Takes(d) \/ UNCHANGED <<taken, mailbox, groups>>
  PROVE  taken \subseteq taken'
  BY DEF Takes

LEMMA IntakeInit == Init => IntakeInv
  BY DEF Init, IntakeInv, HttpOK, PastDispatch, AckedIsTaken, Nobody

LEMMA IntakeReceive ==
  ASSUME IntakeInv, NEW r \in Requests, NEW d \in Ids, Receive(r, d) PROVE IntakeInv'
<1>1. taken' = taken /\ marked' = marked
  BY DEF Receive
<1>2. CASE d \in marked
  BY <1>1, <1>2 DEF Receive, IntakeInv, HttpOK, PastDispatch, AckedIsTaken
<1>3. CASE d \notin marked
  <2>1. http' = [http EXCEPT ![r] = [at |-> "new", d |-> d]] /\ acked' = acked
    BY <1>3 DEF Receive
  <2>2. HttpOK'
    BY <2>1 DEF IntakeInv, HttpOK
  <2>3. PastDispatch'
    BY <1>1, <2>1 DEF IntakeInv, HttpOK, PastDispatch
  <2> QED BY <1>1, <2>1, <2>2, <2>3 DEF IntakeInv, AckedIsTaken
<1> QED BY <1>2, <1>3

LEMMA IntakeDispatch ==
  ASSUME IntakeInv, NEW r \in Requests, Dispatch(r) PROVE IntakeInv'
<1>1. /\ http[r].at = "new" /\ taken' = taken \cup {http[r].d}
      /\ http' = [http EXCEPT ![r].at = "dispatched"]
      /\ acked' = acked /\ marked' = marked
  BY DEF Dispatch, Takes
<1>2. http[r] \in [at : {"new", "dispatched"}, d : Ids]
  BY <1>1 DEF IntakeInv, HttpOK, Nobody
<1>3. HttpOK'
  BY <1>1, <1>2 DEF IntakeInv, HttpOK
<1>4. PastDispatch'
  BY <1>1, <1>2 DEF IntakeInv, HttpOK, PastDispatch
<1> QED BY <1>1, <1>3, <1>4 DEF IntakeInv, AckedIsTaken

LEMMA IntakeFails ==
  ASSUME IntakeInv, NEW r \in Requests, DispatchFails(r) PROVE IntakeInv'
<1>1. http' = [http EXCEPT ![r] = Nobody] /\ acked' = acked /\ marked' = marked
  BY DEF DispatchFails, Ends
<1>2. taken \subseteq taken'
  BY TakenGrows DEF DispatchFails
<1>3. HttpOK' /\ PastDispatch'
  BY <1>1, <1>2 DEF IntakeInv, HttpOK, PastDispatch, Nobody
<1> QED BY <1>1, <1>2, <1>3 DEF IntakeInv, AckedIsTaken

LEMMA IntakeMark ==
  ASSUME IntakeInv, NEW r \in Requests, markProcessed(r) PROVE IntakeInv'
<1>1. /\ http[r].d \in taken /\ taken' = taken
      /\ http' = [http EXCEPT ![r] = Nobody]
      /\ acked' = acked \cup {http[r].d} /\ marked' \subseteq marked \cup {http[r].d}
  BY DEF markProcessed, Ends, IntakeInv, PastDispatch
<1>2. HttpOK' /\ PastDispatch'
  BY <1>1 DEF IntakeInv, HttpOK, PastDispatch, Nobody
<1> QED BY <1>1, <1>2 DEF IntakeInv, AckedIsTaken

(* Every other step leaves the requests alone, or marks less. *)
LEMMA IntakeKept ==
  ASSUME IntakeInv, UNCHANGED <<http, acked, taken>>, marked' \subseteq marked
  PROVE  IntakeInv'
  BY DEF IntakeInv, HttpOK, PastDispatch, AckedIsTaken

LEMMA IntakeStep == IntakeInv /\ [Next]_vars => IntakeInv'
<1> SUFFICES ASSUME IntakeInv, [Next]_vars PROVE IntakeInv'
  OBVIOUS
<1>1. CASE UNCHANGED vars
  BY <1>1, IntakeKept DEF vars, inbound
<1>2. CASE \E r \in Requests : \/ \E d \in Ids : Receive(r, d)
                               \/ Dispatch(r) \/ DispatchFails(r) \/ markProcessed(r)
  BY <1>2, IntakeReceive, IntakeDispatch, IntakeFails, IntakeMark
<1>3. CASE pruneProcessedDeliveries
  <2>1. UNCHANGED <<http, acked, taken>> /\ marked' \subseteq marked
    BY <1>3 DEF pruneProcessedDeliveries
  <2> QED BY <2>1, IntakeKept
<1>4. CASE \E h \in Heads : GroupEnds(h)
  <2>1. UNCHANGED <<http, marked, acked, taken>>
    BY <1>4 DEF GroupEnds
  <2> QED BY <2>1, IntakeKept
<1>5. CASE \/ TakeEvent \/ ClosePr \/ LetThrough \/ Completes
           \/ WorkerLost \/ RunEnds \/ RunFails
  <2>1. UNCHANGED <<http, marked, acked, taken>>
    BY <1>5 DEF TakeEvent, ClosePr, LetThrough, Completes, WorkerLost, RunEnds, RunFails, inbound
  <2> QED BY <2>1, IntakeKept
<1>6. CASE \E ep \in Endpoints : startOutboundWebhook(ep)
  <2>1. UNCHANGED <<http, marked, acked, taken>>
    BY <1>6 DEF startOutboundWebhook, inbound
  <2> QED BY <2>1, IntakeKept
<1>7. CASE \E k \in DOMAIN runs : RunSteps(k)
  <2>1. UNCHANGED <<http, marked, acked, taken>>
    BY <1>7 DEF RunSteps, deliverOutboundAttempt, AttemptThrows, BackoffEnds, inbound
  <2> QED BY <2>1, IntakeKept
<1> QED BY <1>1, <1>2, <1>3, <1>4, <1>5, <1>6, <1>7 DEF Next

(* route.ts:27-31: however requests overlap, fail, are repeated, marked and      *)
(* pruned, a delivery is answered 200, or skipped as done, only if it was taken.  *)
THEOREM AckedWasTaken == Spec => []AckedIsTaken
<1>1. IntakeInv => AckedIsTaken
  BY DEF IntakeInv
<1> QED BY <1>1, IntakeInit, IntakeStep, PTL DEF Spec

-----------------------------------------------------------------------------
(* Webhooks out.  While a fan-out goes on, the endpoints it is done with have *)
(* their execution, under the time of this fan-out.                           *)
Key(ep, d, t) == [endpoint |-> ep, event |-> d, time |-> t]
Shaped ==
  /\ handler = [at |-> handler.at, d |-> handler.d, left |-> handler.left, time |-> handler.time]
  /\ runs = [k \in DOMAIN runs |-> runs[k]] /\ clock \in Nat
Underway ==
  handler.at = "start" /\ handler.d \notin silent \cup spared =>
    /\ handler.time \in 1..clock
    /\ \A ep \in Endpoints \ handler.left : Key(ep, handler.d, handler.time) \in DOMAIN runs
FanInv == Shaped /\ Underway /\ AnnouncedWhole

LEMMA FanInit == Init => FanInv
  BY DEF Init, Resting, FanInv, Shaped, Underway, AnnouncedWhole

(* Executions and time only grow, and so do the exceptions: what was whole stays whole. *)
LEMMA WholeStays ==
  ASSUME Shaped, AnnouncedWhole, DOMAIN runs \subseteq DOMAIN runs', clock' \in Nat, clock <= clock',
         announced' = announced, silent \subseteq silent', spared \subseteq spared'
  PROVE  AnnouncedWhole'
<1> SUFFICES ASSUME NEW d \in announced \ (silent \cup spared)
             PROVE  \E t \in 1..clock' : \A ep \in Endpoints : Key(ep, d, t) \in DOMAIN runs'
  BY DEF AnnouncedWhole, Key
<1>1. PICK t \in 1..clock : \A ep \in Endpoints : Key(ep, d, t) \in DOMAIN runs
  BY DEF AnnouncedWhole, Key
<1>2. t \in 1..clock'
  BY <1>1 DEF Shaped
<1> QED BY <1>1, <1>2

(* Starting an execution adds its key, and no other, if it is not there. *)
LEMMA StartedAdds ==
  ASSUME Shaped, NEW k, Started(k)
  PROVE  DOMAIN runs' = DOMAIN runs \cup {k} /\ runs' = [j \in DOMAIN runs' |-> runs'[j]]
<1>1. CASE k \in DOMAIN runs
  BY <1>1 DEF Started, Shaped
<1>2. CASE k \notin DOMAIN runs
  BY <1>2 DEF Started
<1> QED BY <1>1, <1>2

LEMMA FanKept ==
  ASSUME FanInv, UNCHANGED <<handler, runs, clock, silent, spared, announced>>
  PROVE  FanInv'
  BY DEF FanInv, Shaped, Underway, AnnouncedWhole, Key

LEMMA FanClose == ASSUME FanInv, ClosePr PROVE FanInv'
<1> USE DEF FanInv
<1>1. handler.at = "close" /\ UNCHANGED <<runs, spared, announced>>
  BY DEF ClosePr
<1>2. CASE /\ clock' = clock + 1 /\ silent' = silent
           /\ handler' = [handler EXCEPT !.at = "start", !.left = Endpoints, !.time = clock + 1]
  <2>1. clock' \in Nat /\ clock <= clock' /\ clock + 1 \in 1..clock'
    BY <1>2 DEF Shaped
  <2>2. handler' = [at |-> "start", d |-> handler.d, left |-> Endpoints, time |-> clock + 1]
    BY <1>2 DEF Shaped
  <2>3. Shaped' /\ Underway'
    BY <1>1, <2>1, <2>2 DEF Shaped, Underway
  <2> QED BY <1>1, <1>2, <2>1, <2>3, WholeStays
<1>3. CASE /\ silent' = silent \cup {handler.d} /\ clock' = clock
           /\ handler' = [handler EXCEPT !.at = "start"]
  <2>1. handler' = [at |-> "start", d |-> handler.d, left |-> handler.left, time |-> handler.time]
    BY <1>3 DEF Shaped
  <2>2. Shaped' /\ Underway'
    BY <1>1, <1>3, <2>1 DEF Shaped, Underway
  <2> QED BY <1>1, <1>3, <2>2, WholeStays DEF Shaped
<1> QED BY <1>2, <1>3 DEF ClosePr

LEMMA FanSpares == ASSUME FanInv, LetThrough PROVE FanInv'
<1> USE DEF FanInv
<1>1. /\ handler' = [at |-> "start", d |-> handler.d, left |-> handler.left, time |-> handler.time]
      /\ spared' = spared \cup {handler.d} /\ UNCHANGED <<runs, clock, silent, announced>>
  BY DEF LetThrough, outbound, Shaped
<1>2. Shaped' /\ Underway'
  BY <1>1 DEF Shaped, Underway
<1> QED BY <1>1, <1>2, WholeStays DEF Shaped

LEMMA FanStart ==
  ASSUME FanInv, NEW ep \in Endpoints, startOutboundWebhook(ep) PROVE FanInv'
<1> USE DEF FanInv
<1> DEFINE k == deliveryKey(ep, handler.time)
<1>1. handler.at = "start" /\ UNCHANGED <<clock, spared, announced>>
  BY DEF startOutboundWebhook
<1>2. CASE Started(k) /\ handler' = [handler EXCEPT !.left = @ \ {ep}] /\ silent' = silent
  <2>1. DOMAIN runs' = DOMAIN runs \cup {k} /\ runs' = [j \in DOMAIN runs' |-> runs'[j]]
    BY <1>2, StartedAdds
  <2>2. handler' = [at |-> "start", d |-> handler.d, left |-> handler.left \ {ep}, time |-> handler.time]
    BY <1>1, <1>2 DEF Shaped
  <2>3. k = Key(ep, handler.d, handler.time)
    BY DEF deliveryKey, Key
  <2>4. Underway'
    BY <1>1, <1>2, <2>1, <2>2, <2>3 DEF Underway
  <2>5. Shaped'
    BY <1>1, <2>1, <2>2 DEF Shaped
  <2> QED BY <1>1, <1>2, <2>1, <2>4, <2>5, WholeStays DEF Shaped
<1>3. CASE /\ silent' = silent \cup {handler.d} /\ handler' = [handler EXCEPT !.left = {}]
           /\ Started(k) \/ UNCHANGED runs
  <2>1. DOMAIN runs \subseteq DOMAIN runs' /\ runs' = [j \in DOMAIN runs' |-> runs'[j]]
    BY <1>3, StartedAdds DEF Shaped
  <2>2. handler' = [at |-> "start", d |-> handler.d, left |-> {}, time |-> handler.time]
    BY <1>1, <1>3 DEF Shaped
  <2>3. Shaped' /\ Underway'
    BY <1>1, <1>3, <2>1, <2>2 DEF Shaped, Underway
  <2> QED BY <1>1, <1>3, <2>1, <2>3, WholeStays DEF Shaped
<1> QED BY <1>2, <1>3 DEF startOutboundWebhook

LEMMA FanCompletes == ASSUME FanInv, Completes PROVE FanInv'
<1> USE DEF FanInv
<1>1. /\ handler.at = "start" /\ handler.left = {} /\ handler' = Resting
      /\ announced' = announced \cup {handler.d} /\ UNCHANGED <<runs, clock, silent, spared>>
  BY DEF Completes, outbound
<1>2. Shaped' /\ Underway'
  BY <1>1 DEF Shaped, Underway, Resting
<1>3. handler.d \notin silent \cup spared =>
        /\ handler.time \in 1..clock
        /\ \A ep \in Endpoints : Key(ep, handler.d, handler.time) \in DOMAIN runs
  BY <1>1 DEF Underway
<1>4. AnnouncedWhole'
  BY <1>1, <1>3 DEF AnnouncedWhole, Key
<1> QED BY <1>2, <1>4

LEMMA FanRuns == ASSUME FanInv, NEW k \in DOMAIN runs, RunSteps(k) PROVE FanInv'
<1>1. UNCHANGED <<handler, clock, silent, spared, announced>> /\ \E run : Becomes(k, run)
  BY DEF RunSteps, deliverOutboundAttempt, AttemptThrows, BackoffEnds, observed
<1>2. DOMAIN runs' = DOMAIN runs /\ runs' = [j \in DOMAIN runs' |-> runs'[j]]
  BY <1>1 DEF Becomes
<1>3. Shaped' /\ Underway'
  BY <1>1, <1>2 DEF FanInv, Shaped, Underway
<1> QED BY <1>1, <1>2, <1>3, WholeStays DEF FanInv, Shaped

LEMMA FanStep == FanInv /\ [Next]_vars => FanInv'
<1> SUFFICES ASSUME FanInv, [Next]_vars PROVE FanInv'
  OBVIOUS
<1>1. CASE UNCHANGED vars
  BY <1>1, FanKept DEF vars, outbound, observed
<1>2. ASSUME NEW r \in Requests, \/ \E d \in Ids : Receive(r, d)
                                 \/ Dispatch(r) \/ DispatchFails(r) \/ markProcessed(r)
      PROVE  FanInv'
  <2>1. UNCHANGED <<handler, runs, clock, silent, spared, announced>>
    BY <1>2 DEF Receive, Dispatch, DispatchFails, markProcessed, outbound, observed
  <2> QED BY <2>1, FanKept
<1>3. CASE pruneProcessedDeliveries \/ \E h \in Heads : GroupEnds(h)
  <2>1. UNCHANGED <<handler, runs, clock, silent, spared, announced>>
    BY <1>3 DEF pruneProcessedDeliveries, GroupEnds, outbound, observed
  <2> QED BY <2>1, FanKept
<1>4. CASE TakeEvent \/ WorkerLost
  <2>1. /\ UNCHANGED <<runs, clock, silent, spared, announced>>
        /\ \E d : handler' = [Resting EXCEPT !.at = "close", !.d = d]
    BY <1>4 DEF TakeEvent, WorkerLost, outbound, observed
  <2>2. Shaped' /\ Underway'
    BY <2>1 DEF FanInv, Shaped, Underway, Resting
  <2> QED BY <2>1, <2>2, WholeStays DEF FanInv, Shaped
<1>11. CASE RunFails
  <2>1. UNCHANGED <<runs, clock, silent, spared, announced>> /\ handler' = Resting
    BY <1>11 DEF RunFails, outbound
  <2>2. Shaped' /\ Underway'
    BY <2>1 DEF FanInv, Shaped, Underway, Resting
  <2> QED BY <2>1, <2>2, WholeStays DEF FanInv, Shaped
<1>5. CASE ClosePr
  BY <1>5, FanClose
<1>6. CASE Completes
  BY <1>6, FanCompletes
<1>7. ASSUME NEW ep \in Endpoints, startOutboundWebhook(ep) PROVE FanInv'
  BY <1>7, FanStart
<1>8. ASSUME NEW k \in DOMAIN runs, RunSteps(k) PROVE FanInv'
  BY <1>8, FanRuns
<1>9. CASE LetThrough
  BY <1>9, FanSpares
<1>10. CASE RunEnds
  BY <1>10, FanKept DEF RunEnds, outbound
<1> QED BY <1>1, <1>2, <1>3, <1>4, <1>5, <1>6, <1>7, <1>8, <1>9, <1>10, <1>11 DEF Next

(* webhook.ts:1397, webhooks.ts:80: however often the worker is lost between two  *)
(* starts, and however many fan-outs of it there were, an event whose handling     *)
(* ended without a failed call, and whose every attempt blocked, has reached every  *)
(* endpoint by one of them.                                                       *)
THEOREM AnnouncedToAll == Spec => []AnnouncedWhole
<1>1. FanInv => AnnouncedWhole
  BY DEF FanInv
<1> QED BY <1>1, FanInit, FanStep, PTL DEF Spec

-----------------------------------------------------------------------------
(* The types.  A key is one of finitely many because time is: a fan-out rests *)
(* on a request that brought its event, or on a fault that had it run again.   *)
New == {r \in Requests : http[r].at = "new"}
Closing == IF handler.at = "close" THEN 1 ELSE 0
Owed(n) == clock + Len(mailbox) + n + Closing
FanOutsCounted ==
  /\ IsFiniteSet(New) /\ Owed(Cardinality(New)) <= sends + faults
  /\ sends \in 0..MaxSends /\ faults \in 0..MaxFaults /\ clock \in Nat

HandlerOK ==
  /\ handler \in [at : {"idle", "close", "start"}, d : PrEvents \cup {"none"},
                  left : SUBSET Endpoints, time : Nat]
  /\ handler.time <= clock
  /\ IF handler.at = "idle" THEN handler = Resting ELSE handler.d \in PrEvents
  /\ handler.left # {} => handler.at = "start" /\ handler.time > 0

MailOK == mailbox \in Seq(PrEvents) /\ marked \cup acked \cup taken \subseteq Ids

Run == [at : {"post", "sleep", "delivered", "failed"}, attempt : 0..MaxAttempts]
RunsOK ==
  /\ DOMAIN runs \subseteq [endpoint : Endpoints, event : PrEvents, time : 1..clock]
  /\ \A k \in DOMAIN runs :
       runs[k] \in Run /\ (runs[k].at = "sleep" => runs[k].attempt < MaxAttempts)

TypeInv == IntakeInv /\ MailOK /\ HandlerOK /\ RunsOK /\ FanOutsCounted

LEMMA TypeInit == Init => TypeInv
<1> SUFFICES ASSUME Init PROVE TypeInv
  OBVIOUS
<1>1. IntakeInv
  BY IntakeInit
<1>2. New = {}
  BY DEF New, Init, Nobody
<1>3. IsFiniteSet(New) /\ Cardinality(New) = 0
  BY <1>2, FS_EmptySet
<1>4. FanOutsCounted
  BY <1>3, DeliveriesAssumption DEF Init, Resting, FanOutsCounted, Owed, Closing
<1>5. MailOK /\ HandlerOK /\ RunsOK
  BY DEF Init, Resting, MailOK, HandlerOK, RunsOK
<1> QED BY <1>1, <1>4, <1>5 DEF TypeInv

(* A stretch of the queue is a queue, and no longer. *)
LEMMA Stretch ==
  ASSUME MailOK, NEW i \in 1..Len(mailbox) + 1, NEW j \in 0..Len(mailbox),
         mailbox' = SubSeq(mailbox, i, j)
  PROVE  mailbox' \in Seq(PrEvents) /\ Len(mailbox') \in Nat /\ Len(mailbox') <= Len(mailbox)
<1>1. mailbox \in Seq(PrEvents) /\ Len(mailbox) \in Nat
  BY DEF MailOK
<1>2. i \in Int /\ j \in Int /\ \A n \in i..j : mailbox[n] \in PrEvents
  <2>1. \A n \in i..j : n \in 1..Len(mailbox)
    BY <1>1
  <2> QED BY <1>1, <2>1
<1>3. /\ SubSeq(mailbox, i, j) \in Seq(PrEvents)
      /\ Len(SubSeq(mailbox, i, j)) = IF i <= j THEN j - i + 1 ELSE 0
  BY <1>2, SubSeqProperties
<1> QED BY <1>1, <1>2, <1>3

LEMMA QueueShrinks ==
  ASSUME TypeInv, RunEnds \/ RunFails
  PROVE  mailbox' \in Seq(PrEvents) /\ Len(mailbox') \in Nat /\ Len(mailbox') <= Len(mailbox)
<1>1. Len(mailbox) \in 0..Len(mailbox)
  BY DEF TypeInv, MailOK
<1> QED BY <1>1, Stretch DEF TypeInv, RunEnds, QueueGoes, RunFails

LEMMA MailStep ==
  ASSUME TypeInv, Next PROVE MailOK'
<1> USE DEF TypeInv, MailOK
<1>1. ASSUME NEW r \in Requests, NEW d \in Ids, Receive(r, d) PROVE MailOK'
  BY <1>1 DEF Receive
<1>2. ASSUME NEW r \in Requests, Dispatch(r) \/ DispatchFails(r) PROVE MailOK'
  <2>1. http[r].d \in Ids
    BY <1>2 DEF Dispatch, DispatchFails, IntakeInv, HttpOK, Nobody
  <2>2. Takes(http[r].d) \/ UNCHANGED <<taken, mailbox, groups>>
    BY <1>2 DEF Dispatch, DispatchFails
  <2>3. mailbox' \in Seq(PrEvents) /\ taken' \subseteq Ids
    BY <2>1, <2>2 DEF Takes
  <2> QED BY <1>2, <2>3 DEF Dispatch, DispatchFails
<1>3. ASSUME NEW r \in Requests, markProcessed(r) PROVE MailOK'
  <2>1. http[r].d \in Ids
    BY <1>3 DEF markProcessed, IntakeInv, HttpOK, Nobody
  <2> QED BY <1>3, <2>1 DEF markProcessed
<1>4. CASE pruneProcessedDeliveries
  BY <1>4 DEF pruneProcessedDeliveries
<1>5. ASSUME NEW h \in Heads, GroupEnds(h) PROVE MailOK'
  BY <1>5 DEF GroupEnds
<1>6. CASE TakeEvent
  BY <1>6 DEF TakeEvent, inbound
<1>7. CASE ClosePr \/ LetThrough \/ Completes \/ WorkerLost
  BY <1>7 DEF ClosePr, LetThrough, Completes, WorkerLost, inbound
<1>8. ASSUME NEW ep \in Endpoints, startOutboundWebhook(ep) PROVE MailOK'
  BY <1>8 DEF startOutboundWebhook, inbound
<1>9. ASSUME NEW k \in DOMAIN runs, RunSteps(k) PROVE MailOK'
  BY <1>9 DEF RunSteps, deliverOutboundAttempt, AttemptThrows, BackoffEnds, inbound
<1>10. CASE RunEnds \/ RunFails
  BY <1>10, QueueShrinks DEF RunEnds, RunFails, inbound
<1> QED BY <1>1, <1>2, <1>3, <1>4, <1>5, <1>6, <1>7, <1>8, <1>9, <1>10 DEF Next

(* What a request does to the number of requests that owe a dispatch. *)
LEMMA NewGone ==
  ASSUME TypeInv, NEW r \in Requests, http[r].at = "new", NEW to, to.at # "new",
         http' = [http EXCEPT ![r] = to]
  PROVE  IsFiniteSet(New') /\ Cardinality(New') = Cardinality(New) - 1 /\ Cardinality(New) \in Nat
<1>1. New' = New \ {r} /\ r \in New
  BY DEF New, TypeInv, IntakeInv, HttpOK
<1> QED BY <1>1, FS_RemoveElement, FS_CardinalityType DEF TypeInv, FanOutsCounted

LEMMA NewKept ==
  ASSUME TypeInv, UNCHANGED http
  PROVE  IsFiniteSet(New') /\ Cardinality(New') = Cardinality(New) /\ Cardinality(New) \in Nat
<1>1. New' = New
  BY DEF New
<1> QED BY <1>1, FS_CardinalityType DEF TypeInv, FanOutsCounted

(* A dispatch moves one from the requests to the mailbox, or drops it. *)
LEMMA CountDispatch ==
  ASSUME TypeInv, NEW r \in Requests, Dispatch(r) \/ DispatchFails(r)
  PROVE  FanOutsCounted'
<1> USE DEF TypeInv
<1>1. http[r].at = "new" /\ UNCHANGED <<clock, sends, handler>>
  BY DEF Dispatch, DispatchFails, outbound
<1>2. http[r] \in [at : {"new", "dispatched"}, d : Ids]
  BY <1>1 DEF IntakeInv, HttpOK, Nobody
<1>3. \E to : to.at # "new" /\ http' = [http EXCEPT ![r] = to]
  <2>1. CASE Dispatch(r)
    <3>1. http' = [http EXCEPT ![r] = [http[r] EXCEPT !.at = "dispatched"]]
      BY <2>1 DEF Dispatch
    <3>2. [http[r] EXCEPT !.at = "dispatched"].at # "new"
      BY <1>2
    <3> QED BY <3>1, <3>2
  <2>2. CASE DispatchFails(r)
    BY <2>2 DEF DispatchFails, Ends, Nobody
  <2> QED BY <2>1, <2>2
<1>4. IsFiniteSet(New') /\ Cardinality(New') = Cardinality(New) - 1 /\ Cardinality(New) \in Nat
  BY <1>1, <1>3, NewGone
<1>5. Len(mailbox') \in Nat /\ Len(mailbox) \in Nat /\ Len(mailbox') <= Len(mailbox) + 1
  BY DEF Dispatch, DispatchFails, Takes, MailOK
<1>6. Closing' = Closing /\ Closing \in Nat
  BY <1>1 DEF Closing
<1>7. faults' \in 0..MaxFaults /\ faults <= faults'
  <2>1. faults' = faults \/ (faults < MaxFaults /\ faults' = faults + 1)
    BY DEF Dispatch, DispatchFails, Faults
  <2> QED BY <2>1, DeliveriesAssumption DEF FanOutsCounted
<1> QED BY <1>1, <1>4, <1>5, <1>6, <1>7 DEF FanOutsCounted, Owed

LEMMA CountStep ==
  ASSUME TypeInv, Next PROVE FanOutsCounted'
<1> USE DEF TypeInv
<1> DEFINE n == Cardinality(New)
<1>0. /\ n \in Nat /\ Len(mailbox) \in Nat /\ Closing \in {0, 1}
      /\ clock \in Nat /\ sends \in 0..MaxSends /\ faults \in 0..MaxFaults
      /\ clock + Len(mailbox) + n + Closing <= sends + faults
  BY FS_CardinalityType DEF FanOutsCounted, Owed, MailOK, Closing
<1>1. ASSUME NEW r \in Requests, NEW d \in Ids, Receive(r, d) PROVE FanOutsCounted'
  <2>1. http[r] = Nobody /\ sends < MaxSends /\ sends' = sends + 1
        /\ UNCHANGED <<mailbox, handler, clock, faults>>
    BY <1>1 DEF Receive, outbound
  <2>2. New' = New \/ New' = New \cup {r}
    BY <1>1 DEF Receive, New, IntakeInv, HttpOK
  <2>3. r \notin New
    BY <2>1 DEF New, Nobody
  <2>4. IsFiniteSet(New') /\ (Cardinality(New') = n \/ Cardinality(New') = n + 1)
    BY <2>2, <2>3, FS_AddElement DEF FanOutsCounted
  <2>5. Closing' = Closing
    BY <2>1 DEF Closing
  <2> QED BY <1>0, <2>1, <2>4, <2>5, DeliveriesAssumption DEF FanOutsCounted, Owed
<1>2. ASSUME NEW r \in Requests, Dispatch(r) \/ DispatchFails(r) PROVE FanOutsCounted'
  BY <1>2, CountDispatch
<1>3. ASSUME NEW r \in Requests, markProcessed(r) PROVE FanOutsCounted'
  <2>1. /\ http[r].at = "dispatched" /\ http' = [http EXCEPT ![r] = Nobody]
        /\ UNCHANGED <<mailbox, handler, clock, sends>>
        /\ faults' = faults \/ (faults < MaxFaults /\ faults' = faults + 1)
    BY <1>3 DEF markProcessed, Ends, Faults, outbound
  <2>2. New' = New
    BY <2>1 DEF New, IntakeInv, HttpOK, Nobody
  <2>3. Closing' = Closing
    BY <2>1 DEF Closing
  <2> QED BY <1>0, <2>1, <2>2, <2>3, DeliveriesAssumption DEF FanOutsCounted, Owed
<1>4. ASSUME UNCHANGED <<http, mailbox, handler, clock, sends>>,
             faults' = faults \/ (faults < MaxFaults /\ faults' = faults + 1)
      PROVE  FanOutsCounted'
  BY <1>0, <1>4, NewKept, DeliveriesAssumption DEF FanOutsCounted, Owed, Closing
<1>5. CASE pruneProcessedDeliveries \/ \E h \in Heads : GroupEnds(h)
  BY <1>4, <1>5 DEF pruneProcessedDeliveries, GroupEnds, outbound
<1>6. CASE TakeEvent
  <2>1. /\ handler.at = "idle" /\ handler'.at = "close" /\ Len(mailbox') = Len(mailbox) - 1
        /\ UNCHANGED <<http, clock, sends, faults>>
    BY <1>6 DEF TakeEvent, Resting, inbound, outbound, MailOK
  <2> QED BY <1>0, <2>1, NewKept DEF FanOutsCounted, Owed, Closing
<1>7. CASE ClosePr
  <2>1. /\ handler.at = "close" /\ handler'.at = "start" /\ UNCHANGED <<http, mailbox, sends>>
        /\ \/ clock' = clock + 1 /\ faults' = faults
           \/ clock' = clock /\ faults < MaxFaults /\ faults' = faults + 1
    BY <1>7 DEF ClosePr, Faults, inbound, HandlerOK
  <2> QED BY <1>0, <2>1, NewKept, DeliveriesAssumption DEF FanOutsCounted, Owed, Closing
<1>8. CASE Completes
  <2>1. handler'.at = "idle" /\ UNCHANGED <<http, mailbox, clock, sends, faults>>
    BY <1>8 DEF Completes, Resting, inbound, outbound
  <2> QED BY <1>0, <2>1, NewKept DEF FanOutsCounted, Owed, Closing
<1>9. CASE WorkerLost
  <2>1. /\ UNCHANGED <<http, mailbox, clock, sends>>
        /\ faults < MaxFaults /\ faults' = faults + 1
    BY <1>9 DEF WorkerLost, Faults, inbound, outbound
  <2> QED BY <1>0, <2>1, NewKept, DeliveriesAssumption DEF FanOutsCounted, Owed, Closing
<1>10. ASSUME NEW ep \in Endpoints, startOutboundWebhook(ep) PROVE FanOutsCounted'
  <2>1. /\ handler'.at = handler.at /\ UNCHANGED <<http, mailbox, clock, sends>>
        /\ faults' = faults \/ (faults < MaxFaults /\ faults' = faults + 1)
    BY <1>10 DEF startOutboundWebhook, Faults, inbound, HandlerOK
  <2> QED BY <1>0, <2>1, NewKept, DeliveriesAssumption DEF FanOutsCounted, Owed, Closing
<1>11. ASSUME NEW k \in DOMAIN runs, RunSteps(k) PROVE FanOutsCounted'
  BY <1>4, <1>11 DEF RunSteps, deliverOutboundAttempt, AttemptThrows, BackoffEnds, Faults, inbound
<1>12. CASE LetThrough
  <2>1. handler'.at = "start" /\ UNCHANGED <<http, mailbox, clock, sends, faults>>
    BY <1>12 DEF LetThrough, inbound, outbound, HandlerOK
  <2> QED BY <1>0, <2>1, NewKept DEF FanOutsCounted, Owed, Closing
<1>13. CASE RunEnds
  <2>1. handler' = handler /\ UNCHANGED <<http, clock, sends, faults>>
    BY <1>13 DEF RunEnds, inbound, outbound
  <2>2. Len(mailbox') \in Nat /\ Len(mailbox') <= Len(mailbox)
    BY <1>13, QueueShrinks
  <2> QED BY <1>0, <2>1, <2>2, NewKept DEF FanOutsCounted, Owed, Closing
<1>14. CASE RunFails
  <2>1. /\ handler'.at = "idle" /\ UNCHANGED <<http, clock, sends>>
        /\ faults < MaxFaults /\ faults' = faults + 1
    BY <1>14 DEF RunFails, Faults, Resting, inbound, outbound
  <2>2. Len(mailbox') \in Nat /\ Len(mailbox') <= Len(mailbox)
    BY <1>14, QueueShrinks
  <2> QED BY <1>0, <2>1, <2>2, NewKept, DeliveriesAssumption DEF FanOutsCounted, Owed, Closing
<1> QED BY <1>1, <1>2, <1>3, <1>5, <1>6, <1>7, <1>8, <1>9, <1>10, <1>11, <1>12, <1>13, <1>14 DEF Next

(* The handler is at its event, and has endpoints left only once it has a time. *)
LEMMA HandlerStep ==
  ASSUME TypeInv, Next PROVE HandlerOK'
<1> USE DEF TypeInv
<1>1. ASSUME UNCHANGED <<handler, clock>> PROVE HandlerOK'
  BY <1>1 DEF HandlerOK
<1>2. ASSUME NEW r \in Requests, \/ \E d \in Ids : Receive(r, d)
                                 \/ Dispatch(r) \/ DispatchFails(r) \/ markProcessed(r)
      PROVE  HandlerOK'
  BY <1>1, <1>2 DEF Receive, Dispatch, DispatchFails, markProcessed, outbound
<1>3. CASE pruneProcessedDeliveries \/ \E h \in Heads : GroupEnds(h)
  BY <1>1, <1>3 DEF pruneProcessedDeliveries, GroupEnds, outbound
<1>4. CASE TakeEvent
  <2>1. Head(mailbox) \in PrEvents /\ clock \in Nat
    BY <1>4 DEF TakeEvent, MailOK, FanOutsCounted
  <2> QED BY <1>4, <2>1 DEF TakeEvent, Resting, HandlerOK, outbound
<1>5. CASE ClosePr
  <2>1. /\ handler.at = "close" /\ handler.left = {} /\ handler.d \in PrEvents
        /\ handler.time \in Nat /\ clock \in Nat /\ handler.time <= clock
        /\ handler = [at |-> handler.at, d |-> handler.d, left |-> handler.left, time |-> handler.time]
    BY <1>5 DEF ClosePr, HandlerOK, FanOutsCounted
  <2>2. CASE /\ clock' = clock + 1
             /\ handler' = [handler EXCEPT !.at = "start", !.left = Endpoints, !.time = clock + 1]
    <3>1. handler' = [at |-> "start", d |-> handler.d, left |-> Endpoints, time |-> clock + 1]
      BY <2>1, <2>2
    <3> QED BY <2>1, <2>2, <3>1 DEF HandlerOK
  <2>3. CASE clock' = clock /\ handler' = [handler EXCEPT !.at = "start"]
    <3>1. handler' = [at |-> "start", d |-> handler.d, left |-> {}, time |-> handler.time]
      BY <2>1, <2>3
    <3> QED BY <2>1, <2>3, <3>1 DEF HandlerOK
  <2> QED BY <1>5, <2>2, <2>3 DEF ClosePr
<1>6. ASSUME NEW ep \in Endpoints, startOutboundWebhook(ep) PROVE HandlerOK'
  BY <1>6 DEF startOutboundWebhook, HandlerOK
<1>7. CASE Completes \/ RunFails
  BY <1>7 DEF Completes, RunFails, Resting, HandlerOK, outbound, FanOutsCounted
<1>8. CASE WorkerLost
  <2>1. handler.d \in PrEvents /\ clock \in Nat /\ clock' = clock
    BY <1>8 DEF WorkerLost, HandlerOK, outbound, FanOutsCounted
  <2>2. handler' = [at |-> "close", d |-> handler.d, left |-> {}, time |-> 0]
    BY <1>8 DEF WorkerLost, Resting
  <2> QED BY <2>1, <2>2 DEF Resting, HandlerOK
<1>9. ASSUME NEW k \in DOMAIN runs, RunSteps(k) PROVE HandlerOK'
  BY <1>1, <1>9 DEF RunSteps, deliverOutboundAttempt, AttemptThrows, BackoffEnds
<1>10. CASE LetThrough
  <2>1. /\ handler' = [at |-> "start", d |-> handler.d, left |-> {}, time |-> handler.time]
        /\ handler.d \in PrEvents /\ handler.time \in Nat /\ handler.time <= clock /\ clock' = clock
    BY <1>10 DEF LetThrough, HandlerOK, outbound
  <2> QED BY <2>1 DEF HandlerOK
<1>11. CASE RunEnds
  BY <1>1, <1>11 DEF RunEnds, outbound
<1> QED BY <1>2, <1>3, <1>4, <1>5, <1>6, <1>7, <1>8, <1>9, <1>10, <1>11 DEF Next

(* An execution is started under the fan-out's key, and counts its attempts. *)
LEMMA RunsStart ==
  ASSUME TypeInv, NEW ep \in Endpoints, startOutboundWebhook(ep) PROVE RunsOK'
<1> USE DEF TypeInv
<1> DEFINE k == deliveryKey(ep, handler.time)
<1>1. k \in [endpoint : Endpoints, event : PrEvents, time : 1..clock] /\ clock' = clock
  BY DEF startOutboundWebhook, HandlerOK, deliveryKey, FanOutsCounted
<1>2. Started(k) \/ UNCHANGED runs
  BY DEF startOutboundWebhook
<1>3. MaxAttempts \in Nat /\ 1 \in 0..MaxAttempts
  BY DeliveriesAssumption DEF MaxAttempts
<1> HIDE DEF k
<1>4. CASE k \notin DOMAIN runs /\ Started(k)
  BY <1>1, <1>3, <1>4 DEF Started, RunsOK, Run
<1>5. CASE UNCHANGED runs
  BY <1>1, <1>5 DEF RunsOK
<1> QED BY <1>2, <1>4, <1>5 DEF Started

LEMMA RunsStepOn ==
  ASSUME TypeInv, NEW k \in DOMAIN runs, RunSteps(k) PROVE RunsOK'
<1> USE DEF TypeInv
<1>1. MaxAttempts \in Nat /\ runs[k] \in Run /\ runs[k].attempt \in 0..MaxAttempts
  BY DeliveriesAssumption DEF MaxAttempts, RunsOK, Run
<1>2. \E run \in Run : Becomes(k, run) /\ (run.at = "sleep" => run.attempt < MaxAttempts)
  BY <1>1 DEF RunSteps, deliverOutboundAttempt, AttemptThrows, BackoffEnds, Delivered, Failed,
              RunsOK, Run
<1>3. clock' = clock
  BY DEF RunSteps, deliverOutboundAttempt, AttemptThrows, BackoffEnds
<1> QED BY <1>2, <1>3 DEF Becomes, RunsOK

LEMMA RunsStep ==
  ASSUME TypeInv, Next PROVE RunsOK'
<1> USE DEF TypeInv
<1>1. ASSUME UNCHANGED runs, clock' = clock PROVE RunsOK'
  BY <1>1 DEF RunsOK
<1>2. ASSUME NEW r \in Requests, \/ \E d \in Ids : Receive(r, d)
                                 \/ Dispatch(r) \/ DispatchFails(r) \/ markProcessed(r)
      PROVE  RunsOK'
  BY <1>1, <1>2 DEF Receive, Dispatch, DispatchFails, markProcessed, outbound
<1>3. CASE pruneProcessedDeliveries \/ \E h \in Heads : GroupEnds(h)
  BY <1>1, <1>3 DEF pruneProcessedDeliveries, GroupEnds, outbound
<1>4. CASE TakeEvent \/ LetThrough \/ Completes \/ WorkerLost \/ RunEnds \/ RunFails
  BY <1>1, <1>4 DEF TakeEvent, LetThrough, Completes, WorkerLost, RunEnds, RunFails, outbound
<1>5. CASE ClosePr
  <2>1. UNCHANGED runs /\ clock \in Nat /\ clock' \in Nat /\ clock <= clock'
    BY <1>5 DEF ClosePr, FanOutsCounted
  <2>2. \A t \in 1..clock : t \in 1..clock'
    BY <2>1
  <2> QED BY <2>1, <2>2 DEF RunsOK
<1>6. ASSUME NEW ep \in Endpoints, startOutboundWebhook(ep) PROVE RunsOK'
  BY <1>6, RunsStart
<1>7. ASSUME NEW k \in DOMAIN runs, RunSteps(k) PROVE RunsOK'
  BY <1>7, RunsStepOn
<1> QED BY <1>2, <1>3, <1>4, <1>5, <1>6, <1>7 DEF Next

LEMMA TypeStep == TypeInv /\ [Next]_vars => TypeInv'
<1> SUFFICES ASSUME TypeInv, [Next]_vars PROVE TypeInv'
  OBVIOUS
<1>1. IntakeInv'
  BY IntakeStep DEF TypeInv
<1>2. CASE Next
  BY <1>1, <1>2, MailStep, HandlerStep, RunsStep, CountStep DEF TypeInv
<1>3. CASE UNCHANGED vars
  <2>1. UNCHANGED <<http, mailbox, marked, acked, taken, handler, runs, clock, sends, faults>>
    BY <1>3 DEF vars, inbound, outbound
  <2>2. New' = New /\ Closing' = Closing
    BY <2>1 DEF New, Closing
  <2>3. MailOK' /\ HandlerOK' /\ RunsOK'
    BY <2>1 DEF TypeInv, MailOK, HandlerOK, RunsOK
  <2>4. FanOutsCounted'
    BY <2>1, <2>2 DEF TypeInv, FanOutsCounted, Owed
  <2> QED BY <1>1, <2>3, <2>4 DEF TypeInv
<1> QED BY <1>2, <1>3

(* The sends, faults and attempts keep within their numbers: a delivery is tried  *)
(* once more than it has backoffs (webhook-delivery.ts), and there is never an     *)
(* execution of a fan-out that no request and no fault accounts for.               *)
THEOREM DeliveryTypes == Spec => []DeliveriesTypeOK
<1>1. TypeInv => DeliveriesTypeOK
  <2> SUFFICES ASSUME TypeInv PROVE DeliveriesTypeOK
    OBVIOUS
  <2>1. clock \in Nat /\ clock <= MaxSends + MaxFaults /\ sends <= MaxSends /\ faults <= MaxFaults
    BY FS_CardinalityType, DeliveriesAssumption
       DEF TypeInv, FanOutsCounted, Owed, MailOK, Closing
  <2>2. \A t \in 1..clock : t \in Times
    BY <2>1, DeliveriesAssumption DEF Times
  <2>3. DOMAIN runs \subseteq Keys /\ \A k \in DOMAIN runs : runs[k].attempt \in 0..MaxAttempts
    BY <2>2 DEF TypeInv, RunsOK, Run, Keys
  <2>4. \A r \in Requests : http[r] \in {Nobody} \cup [at : {"new", "dispatched"}, d : Ids]
    BY DEF TypeInv, IntakeInv, HttpOK
  <2> QED BY <2>1, <2>3, <2>4 DEF DeliveriesTypeOK, TypeInv, MailOK, HandlerOK
<1> QED BY <1>1, TypeInit, TypeStep, PTL DEF Spec

-----------------------------------------------------------------------------
(* The budget.  The calls that are on their way to GitHub. *)
OnTheWay == {c \in Calls : calls[c].at = "sent"}

(* What an answer says is true of its hour, and never too low. *)
AnswersTrue ==
  \A c \in Calls : calls[c].at = "answered" =>
    IF calls[c].old THEN calls[c].reset = 0
    ELSE calls[c].reset = left /\ calls[c].remaining >= Limit - spent

(* A reset GitHub named is that of the current hour, or over. *)
EndTrue == window.known /\ window.end > 0 => window.end = left

(* A remainder is known by an answer of this hour only, and never too low. *)
RemainingTrue ==
  window.end > 0 /\ window.remaining # Unknown =>
    window.known /\ window.remaining + Cardinality(OnTheWay) + lost >= Limit - spent

BudgetInv == BudgetTypeOK /\ (lag = 0 => AnswersTrue /\ EndTrue /\ RemainingTrue)

-----------------------------------------------------------------------------
LEMMA UnderwayFinite == IsFiniteSet(OnTheWay) /\ Cardinality(OnTheWay) \in Nat
<1>1. IsFiniteSet(Calls) /\ OnTheWay \subseteq Calls
  BY BudgetAssumption DEF OnTheWay
<1>2. IsFiniteSet(OnTheWay)
  BY <1>1, FS_Subset
<1> QED BY <1>2, FS_CardinalityType

(* A call that is sent, or is no longer, counts one. *)
LEMMA UnderwayGrows ==
  ASSUME BudgetTypeOK, NEW c \in Calls, calls[c].at # "sent",
         NEW call, call.at = "sent", Answers(c, call)
  PROVE  Cardinality(OnTheWay') = Cardinality(OnTheWay) + 1
<1>1. OnTheWay' = OnTheWay \cup {c} /\ c \notin OnTheWay
  BY DEF OnTheWay, Answers, BudgetTypeOK
<1> QED BY <1>1, UnderwayFinite, FS_AddElement

LEMMA UnderwayShrinks ==
  ASSUME BudgetTypeOK, NEW c \in Calls, calls[c].at = "sent",
         NEW call, call.at # "sent", Answers(c, call)
  PROVE  Cardinality(OnTheWay') = Cardinality(OnTheWay) - 1
<1>1. OnTheWay' = OnTheWay \ {c} /\ c \in OnTheWay
  BY DEF OnTheWay, Answers, BudgetTypeOK
<1> QED BY <1>1, UnderwayFinite, FS_RemoveElement

LEMMA UnderwayKept ==
  ASSUME BudgetTypeOK, NEW c \in Calls, calls[c].at # "sent",
         NEW call, call.at # "sent", Answers(c, call)
  PROVE  OnTheWay' = OnTheWay
  BY DEF OnTheWay, Answers, BudgetTypeOK

-----------------------------------------------------------------------------
(* What a window becomes, by each of the operators a step is made of. *)
LEMMA WindowTypes ==
  ASSUME BudgetTypeOK
  PROVE  /\ NoWindow \in Window
         /\ getWindow \in Window /\ getWindow.end > 0
         /\ \A lane \in Lane : ~Refuses(getWindow, lane) => Counted(getWindow, lane) \in Window
         /\ \A reset \in Nat, remaining \in 0..Limit :
              Lower(Reset([getWindow EXCEPT !.limit = Limit], reset), remaining) \in Window
<1>1. \A l \in {DEFAULT_LIMIT, Limit} : freshWindow(l) \in Window /\ freshWindow(l).end > 0
  BY BudgetAssumption DEF freshWindow, Window, Unknown
<1>2. NoWindow \in Window
  BY <1>1, BudgetAssumption DEF NoWindow, Window
<1>3. getWindow \in Window /\ getWindow.end > 0
  BY <1>1 DEF getWindow, BudgetTypeOK, Window
<1>4. ASSUME NEW lane \in Lane, ~Refuses(getWindow, lane)
      PROVE  Counted(getWindow, lane) \in Window
  <2> DEFINE w == getWindow
             left1 == IF w.remaining = Unknown THEN w.remaining ELSE w.remaining - 1
             used1 == [w.used EXCEPT ![lane] = @ + 1]
  <2>1. w.remaining # 0
    BY <1>4 DEF Refuses
  <2>2. left1 \in {Unknown} \cup 0..Limit
    BY <1>3, <2>1, BudgetAssumption DEF Window, Unknown
  <2>3. used1 \in [Lane -> Nat]
    BY <1>3 DEF Window
  <2>4. Counted(w, lane) = [w EXCEPT !.used = used1, !.remaining = left1]
    BY <1>3 DEF Counted, Window
  <2> QED BY <1>3, <2>2, <2>3, <2>4 DEF Window
<1>5. ASSUME NEW reset \in Nat, NEW remaining \in 0..Limit
      PROVE  Lower(Reset([getWindow EXCEPT !.limit = Limit], reset), remaining) \in Window
  <2> DEFINE w == [getWindow EXCEPT !.limit = Limit]
  <2>1. w \in Window
    BY <1>3 DEF Window
  <2>2. Reset(w, reset) \in Window
    BY <2>1, <1>1 DEF Reset, Window
  <2> QED BY <2>2, BudgetAssumption DEF Lower, Window
<1> QED BY <1>2, <1>3, <1>4, <1>5

LEMMA Shapes ==
  /\ Idle \in Call /\ Idle.at = "idle" /\ Sent \in Call /\ Sent.at = "sent"
  /\ NoWindow.end = 0
<1>1. 0 \in 0..Limit
  BY BudgetAssumption
<1>2. Idle \in Call /\ Idle.at = "idle"
  BY <1>1 DEF Idle, Call
<1>3. Sent \in Call /\ Sent.at = "sent"
  BY <1>2 DEF Sent, Call
<1>4. NoWindow.end = 0
  BY DEF NoWindow, freshWindow
<1> QED BY <1>2, <1>3, <1>4

LEMMA BudgetStarts == BudgetInit => BudgetInv
<1> SUFFICES ASSUME BudgetInit PROVE BudgetInv
  OBVIOUS
<1>1. freshWindow(DEFAULT_LIMIT) \in Window
  BY BudgetAssumption DEF freshWindow, Window, Unknown
<1>2. NoWindow \in Window
  BY <1>1 DEF NoWindow, Window
<1>3. BudgetTypeOK
  BY <1>2, Shapes, BudgetAssumption DEF BudgetInit, BudgetTypeOK
<1>4. AnswersTrue /\ EndTrue /\ RemainingTrue
  BY Shapes DEF BudgetInit, AnswersTrue, EndTrue, RemainingTrue
<1> QED BY <1>3, <1>4 DEF BudgetInv

LEMMA BudgetReserve ==
  ASSUME BudgetInv, NEW c \in Calls, NEW lane \in Lane, reserveRequest(c, lane)
  PROVE  BudgetInv'
<1> USE DEF BudgetInv
<1>1. Sent \in Call /\ Sent.at = "sent" /\ calls[c].at = "idle"
  BY Shapes DEF reserveRequest
<1>2. CASE Refuses(getWindow, lane)
  <2>1. window' = getWindow /\ UNCHANGED <<github, calls, lag, tally, mishaps>>
    BY <1>2 DEF reserveRequest, tally
  <2>2. BudgetTypeOK'
    BY <2>1, WindowTypes DEF BudgetTypeOK, github, tally
  <2>3. OnTheWay' = OnTheWay
    BY <2>1 DEF OnTheWay
  <2>4. lag = 0 => AnswersTrue' /\ EndTrue' /\ RemainingTrue'
    BY <2>1, <2>3 DEF AnswersTrue, EndTrue, RemainingTrue, getWindow, freshWindow, github, tally
  <2> QED BY <2>1, <2>2, <2>4
<1>3. CASE ~Refuses(getWindow, lane)
  <2>1. /\ window' = Counted(getWindow, lane) /\ Answers(c, Sent)
        /\ UNCHANGED <<github, lag, lost>>
    BY <1>3 DEF reserveRequest
  <2>2. BudgetTypeOK'
    BY <1>1, <1>3, <2>1, WindowTypes DEF BudgetTypeOK, reserveRequest, Answers, github
  <2>3. Cardinality(OnTheWay') = Cardinality(OnTheWay) + 1
    BY <1>1, <2>1, UnderwayGrows
  <2>4. lag = 0 => AnswersTrue' /\ EndTrue'
    BY <1>1, <2>1 DEF AnswersTrue, EndTrue, BudgetTypeOK, Answers, Counted, getWindow, freshWindow, Window, github
  <2>5. lag = 0 => RemainingTrue'
    BY <2>1, <2>3, UnderwayFinite DEF RemainingTrue, BudgetTypeOK, Counted, getWindow, freshWindow, Window, github, Unknown
  <2> QED BY <2>1, <2>2, <2>4, <2>5
<1> QED BY <1>2, <1>3

LEMMA BudgetObserve ==
  ASSUME BudgetInv, NEW c \in Calls, observeResponse(c)
  PROVE  BudgetInv'
<1> USE DEF BudgetInv
<1> DEFINE w == [getWindow EXCEPT !.limit = Limit]
           r == Reset(w, calls[c].reset)
<1>1. /\ calls[c].at = "answered" /\ Answers(c, Idle)
      /\ window' = Lower(r, calls[c].remaining)
      /\ UNCHANGED <<github, lag, lost>>
  BY DEF observeResponse
<1>2. calls[c] \in Call /\ Idle \in Call /\ Idle.at = "idle"
  BY Shapes DEF BudgetTypeOK
<1>3. BudgetTypeOK'
  BY <1>1, <1>2, WindowTypes, BudgetAssumption
     DEF BudgetTypeOK, observeResponse, Mishap, Answers, github, Call
<1>4. OnTheWay' = OnTheWay
  BY <1>1, <1>2, UnderwayKept
<1>5. ASSUME lag = 0 PROVE AnswersTrue' /\ EndTrue' /\ RemainingTrue'
  <2>1. AnswersTrue'
    BY <1>1, <1>2, <1>5 DEF AnswersTrue, BudgetTypeOK, Answers, github
  <2>2. w \in Window /\ w.end > 0 /\ w.known = getWindow.known /\ w.end = getWindow.end
        /\ w.remaining = getWindow.remaining
    BY WindowTypes DEF Window
  <2>3. \/ getWindow = window /\ window.end > 0
        \/ ~getWindow.known /\ getWindow.remaining = Unknown
    BY DEF getWindow, freshWindow, BudgetTypeOK, Window
  <2>4. w.known => w.end = left
    BY <1>5, <2>2, <2>3 DEF EndTrue
  <2>5. w.remaining # Unknown => w.remaining + Cardinality(OnTheWay) + lost >= Limit - spent
    BY <1>5, <2>2, <2>3 DEF RemainingTrue
  <2>6. CASE calls[c].old
    <3>1. calls[c].reset = 0
      BY <1>1, <1>5, <2>6 DEF AnswersTrue
    <3>2. r.end = 0
      BY <2>2, <3>1 DEF Reset, Window
    <3>3. window'.end = 0
      BY <1>1, <2>2, <3>1, <3>2 DEF Lower, Reset, Window
    <3> QED BY <2>1, <3>3 DEF EndTrue, RemainingTrue
  <2>7. CASE ~calls[c].old
    <3>1. calls[c].reset = left /\ calls[c].remaining >= Limit - spent
      BY <1>1, <1>5, <2>7 DEF AnswersTrue
    <3>2. r = [w EXCEPT !.known = TRUE, !.end = left]
      BY <2>2, <2>4, <3>1 DEF Reset, BudgetTypeOK, Window
    <3>3. window'.known /\ window'.end = left
          /\ window'.remaining \in {w.remaining, calls[c].remaining}
          /\ (w.remaining = Unknown => window'.remaining = calls[c].remaining)
      BY <1>1, <2>2, <3>2 DEF Lower, Window
    <3>4. calls[c].remaining + Cardinality(OnTheWay) + lost >= Limit - spent
      BY <1>2, <3>1, UnderwayFinite, BudgetAssumption DEF Call, BudgetTypeOK
    <3>5. window'.remaining # Unknown =>
            window'.remaining + Cardinality(OnTheWay) + lost >= Limit - spent
      BY <2>5, <3>3, <3>4
    <3>6. RemainingTrue'
      BY <1>1, <1>4, <3>3, <3>5 DEF RemainingTrue, github
    <3> QED BY <1>1, <2>1, <3>3, <3>6 DEF EndTrue, github
  <2> QED BY <2>6, <2>7
<1> QED BY <1>1, <1>3, <1>5

LEMMA BudgetLands ==
  ASSUME BudgetInv, NEW c \in Calls, Lands(c)
  PROVE  BudgetInv'
<1> USE DEF BudgetInv
<1> DEFINE a == [at |-> "answered", remaining |-> Limit - spent', reset |-> NamedReset, old |-> FALSE]
<1>1. /\ calls[c].at = "sent" /\ Answers(c, a) /\ UNCHANGED <<left, window, lag, tally, mishaps>>
      /\ spent' = IF spent < Limit THEN spent + 1 ELSE spent
  BY DEF Lands
<1>2. spent' \in 0..Limit /\ Limit - spent' <= Limit - spent
      /\ (spent' = spent + 1 \/ Limit - spent' = 0)
  BY <1>1, BudgetAssumption DEF BudgetTypeOK
<1>3. a \in Call
  <2>1. NamedReset \in Nat /\ Limit - spent' \in 0..Limit
    <3>1. left \in Nat /\ lag \in Int /\ Limit \in Nat
      BY BudgetAssumption DEF BudgetTypeOK
    <3>2. \A m, n \in Nat : m + n \in Nat /\ (n \in 0..m => m - n \in 0..m)
      OBVIOUS
    <3>3. spent' \in Nat
      BY <1>2
    <3>4. NamedReset \in Nat
      BY <3>1 DEF NamedReset
    <3> QED BY <1>2, <3>1, <3>2, <3>3, <3>4
  <2> QED BY <2>1 DEF Call
<1>4. BudgetTypeOK'
  BY <1>1, <1>2, <1>3 DEF BudgetTypeOK, Answers, tally
<1>5. Cardinality(OnTheWay') = Cardinality(OnTheWay) - 1
  BY <1>1, UnderwayShrinks
<1>6. ASSUME lag = 0 PROVE AnswersTrue'
  <2> SUFFICES ASSUME NEW d \in Calls, calls'[d].at = "answered", ~calls'[d].old
               PROVE  calls'[d].reset = left' /\ calls'[d].remaining >= Limit - spent'
    BY <1>1, <1>6 DEF AnswersTrue, Answers, BudgetTypeOK
  <2>1. CASE d = c
    <3>1. calls'[d] = a /\ NamedReset = left
      BY <1>1, <1>6, <2>1 DEF Answers, BudgetTypeOK, NamedReset
    <3> QED BY <1>1, <1>2, <1>6, <3>1, BudgetAssumption DEF BudgetTypeOK
  <2>2. CASE d # c
    <3>1. calls'[d] = calls[d] /\ calls[d] \in Call
      BY <1>1, <2>2 DEF Answers, BudgetTypeOK
    <3>2. calls[d].reset = left /\ calls[d].remaining >= Limit - spent
      BY <1>6, <3>1 DEF AnswersTrue
    <3> QED BY <1>1, <1>2, <3>1, <3>2, BudgetAssumption DEF BudgetTypeOK, Call
  <2> QED BY <2>1, <2>2
<1>7. ASSUME lag = 0, window.end > 0, window.remaining # Unknown
      PROVE  window.remaining + Cardinality(OnTheWay') + lost >= Limit - spent'
  <2>1. window.remaining \in Nat /\ Cardinality(OnTheWay') \in Nat /\ lost \in Nat
    BY <1>1, <1>4, <1>7, UnderwayFinite, FS_CardinalityType, BudgetAssumption, FS_Subset
       DEF BudgetTypeOK, Window, OnTheWay
  <2>2. window.remaining + Cardinality(OnTheWay) + lost >= Limit - spent
    BY <1>7 DEF RemainingTrue
  <2>3. CASE spent' = spent + 1
    BY <1>5, <2>1, <2>2, <2>3, UnderwayFinite, BudgetAssumption DEF BudgetTypeOK
  <2>4. CASE Limit - spent' = 0
    BY <2>1, <2>4
  <2> QED BY <1>2, <2>3, <2>4
<1> QED BY <1>1, <1>4, <1>6, <1>7 DEF EndTrue, RemainingTrue, tally

LEMMA BudgetBreaks ==
  ASSUME BudgetInv, NEW c \in Calls, Breaks(c)
  PROVE  BudgetInv'
<1> USE DEF BudgetInv
<1>1. /\ Answers(c, Idle) /\ UNCHANGED <<github, window, lag, bulkSent, forgotten>>
      /\ lost' = IF calls[c].at = "sent" THEN lost + 1 ELSE lost
  BY DEF Breaks
<1>2. BudgetTypeOK'
  BY <1>1, Shapes, BudgetAssumption DEF BudgetTypeOK, Breaks, Mishap, Answers, github
<1>3. lag = 0 => AnswersTrue' /\ EndTrue'
  BY <1>1, Shapes DEF AnswersTrue, EndTrue, BudgetTypeOK, Answers, github
<1>4. Cardinality(OnTheWay') + lost' = Cardinality(OnTheWay) + lost
  <2>1. CASE calls[c].at = "sent"
    <3>1. Cardinality(OnTheWay') = Cardinality(OnTheWay) - 1
      BY <1>1, <2>1, Shapes, UnderwayShrinks
    <3> QED BY <1>1, <2>1, <3>1, UnderwayFinite DEF BudgetTypeOK
  <2>2. CASE calls[c].at # "sent"
    BY <1>1, <2>2, Shapes, UnderwayKept
  <2> QED BY <2>1, <2>2
<1>5. Cardinality(OnTheWay') \in Nat /\ lost' \in Nat
  BY <1>2, UnderwayFinite, FS_Subset, FS_CardinalityType, BudgetAssumption DEF OnTheWay, BudgetTypeOK
<1>6. ASSUME lag = 0, window.end > 0, window.remaining # Unknown
      PROVE  window.remaining + Cardinality(OnTheWay') + lost' >= Limit - spent
  <2>1. window.remaining + Cardinality(OnTheWay) + lost >= Limit - spent /\ window.remaining \in Nat
    BY <1>6, BudgetAssumption DEF RemainingTrue, BudgetTypeOK, Window
  <2> QED BY <1>4, <1>5, <2>1, UnderwayFinite, BudgetAssumption DEF BudgetTypeOK
<1> QED BY <1>1, <1>2, <1>3, <1>6 DEF RemainingTrue, github

LEMMA BudgetOthers ==
  ASSUME BudgetInv, OthersSpend
  PROVE  BudgetInv'
<1> USE DEF BudgetInv
<1>1. spent' = spent + 1 /\ spent < Limit /\ UNCHANGED <<left, window, calls, lag, tally, mishaps>>
  BY DEF OthersSpend
<1>2. BudgetTypeOK' /\ OnTheWay' = OnTheWay
  BY <1>1, BudgetAssumption DEF BudgetTypeOK, OnTheWay, tally
<1>3. lag = 0 => AnswersTrue'
  BY <1>1, BudgetAssumption DEF AnswersTrue, BudgetTypeOK, Call
<1>4. ASSUME lag = 0, window.end > 0, window.remaining # Unknown
      PROVE  window.remaining + Cardinality(OnTheWay) + lost >= Limit - spent'
  <2>1. window.remaining + Cardinality(OnTheWay) + lost >= Limit - spent /\ window.remaining \in Nat
    BY <1>4, BudgetAssumption DEF RemainingTrue, BudgetTypeOK, Window
  <2> QED BY <1>1, <2>1, UnderwayFinite, BudgetAssumption DEF BudgetTypeOK
<1> QED BY <1>1, <1>2, <1>3, <1>4 DEF EndTrue, RemainingTrue, tally

LEMMA BudgetRestart ==
  ASSUME BudgetInv, Restart
  PROVE  BudgetInv'
<1> USE DEF BudgetInv
<1>1. window' = NoWindow /\ calls' = [c \in Calls |-> Idle] /\ UNCHANGED <<left, lag, bulkSent, lost>>
      /\ forgotten' = forgotten + 1 /\ mishaps < MaxMishaps /\ mishaps' = mishaps + 1
  BY DEF Restart, Mishap
<1>2. spent' \in 0..Limit
  <2>1. PICK arrive \in 0..Cardinality(OnTheWay) :
          spent' = IF spent + arrive < Limit THEN spent + arrive ELSE Limit
    BY DEF Restart, OnTheWay
  <2> QED BY <2>1, UnderwayFinite, BudgetAssumption DEF BudgetTypeOK
<1>3. BudgetTypeOK'
  BY <1>1, <1>2, Shapes, WindowTypes, BudgetAssumption DEF BudgetTypeOK
<1> QED BY <1>1, <1>3, Shapes DEF AnswersTrue, EndTrue, RemainingTrue

LEMMA BudgetTick ==
  ASSUME BudgetInv, Tick
  PROVE  BudgetInv'
<1> USE DEF BudgetInv
<1> DEFINE Aged(call) == [call EXCEPT !.reset = Earlier(@), !.old = @ \/ (left = 1 /\ call.at = "answered")]
<1>1. /\ window' = [window EXCEPT !.end = Earlier(@)] /\ calls' = [c \in Calls |-> Aged(calls[c])]
      /\ UNCHANGED <<lag, mishaps>>
  BY DEF Tick
<1>2. \A n \in Nat : Earlier(n) \in Nat
  BY DEF Earlier
<1>3. window' \in Window /\ window'.remaining = window.remaining /\ window'.known = window.known
      /\ window'.end = Earlier(window.end) /\ window.end \in Nat
  BY <1>1, <1>2 DEF BudgetTypeOK, Window
<1>4. \A c \in Calls : calls'[c] \in Call /\ calls'[c].at = calls[c].at
                       /\ calls'[c].reset = Earlier(calls[c].reset) /\ calls[c].reset \in Nat
                       /\ calls'[c].remaining = calls[c].remaining
                       /\ calls'[c].old = (calls[c].old \/ (left = 1 /\ calls[c].at = "answered"))
  BY <1>1, <1>2 DEF BudgetTypeOK, Call
<1>5. OnTheWay' = OnTheWay /\ calls' \in [Calls -> Call]
  BY <1>1, <1>4 DEF OnTheWay
<1>6. lag' = lag /\ mishaps' = mishaps
  BY <1>1
<1>7. CASE left = 1
  <2>1. left' = Hour /\ spent' = 0 /\ bulkSent' = 0 /\ forgotten' = 0 /\ lost' = 0
    BY <1>7 DEF Tick
  <2>2. BudgetTypeOK'
    BY <1>3, <1>5, <1>6, <2>1, BudgetAssumption DEF BudgetTypeOK
  <2>3. ASSUME lag = 0, NEW c \in Calls, calls'[c].at = "answered"
        PROVE  calls'[c].old /\ calls'[c].reset = 0
    <3>1. calls[c].reset \in {0, left}
      BY <1>4, <2>3 DEF AnswersTrue
    <3>2. Earlier(0) = 0 /\ Earlier(left) = 0
      BY <1>7 DEF Earlier
    <3>3. calls[c].at = "answered"
      BY <1>4, <2>3
    <3> QED BY <1>4, <1>7, <3>1, <3>2, <3>3
  <2>4. lag = 0 => EndTrue' /\ RemainingTrue'
    BY <1>3, <1>7 DEF EndTrue, RemainingTrue, Earlier
  <2> QED BY <1>6, <2>2, <2>3, <2>4 DEF AnswersTrue
<1>8. CASE left # 1
  <2>1. left' = left - 1 /\ UNCHANGED <<spent, bulkSent, lost>> /\ forgotten' \in {forgotten, forgotten + 1}
    BY <1>8 DEF Tick
  <2>2. left > 1
    BY <1>8, BudgetAssumption DEF BudgetTypeOK
  <2>3. BudgetTypeOK'
    BY <1>3, <1>5, <1>6, <2>1, <2>2, BudgetAssumption DEF BudgetTypeOK
  <2>4. ASSUME lag = 0, NEW c \in Calls, calls'[c].at = "answered"
        PROVE  IF calls'[c].old THEN calls'[c].reset = 0
               ELSE calls'[c].reset = left' /\ calls'[c].remaining >= Limit - spent'
    <3>1. IF calls[c].old THEN calls[c].reset = 0
          ELSE calls[c].reset = left /\ calls[c].remaining >= Limit - spent
      BY <1>4, <2>4 DEF AnswersTrue
    <3>2. calls'[c].old = calls[c].old
      BY <1>4, <1>8 DEF BudgetTypeOK, Call
    <3>3. Earlier(left) = left - 1 /\ Earlier(0) = 0
      BY <2>2 DEF Earlier
    <3> QED BY <1>4, <2>1, <3>1, <3>2, <3>3
  <2>5. lag = 0 => EndTrue' /\ RemainingTrue'
    BY <1>3, <1>5, <2>1, <2>2 DEF EndTrue, RemainingTrue, Earlier
  <2> QED BY <1>6, <2>3, <2>4, <2>5 DEF AnswersTrue
<1> QED BY <1>7, <1>8

LEMMA BudgetStep == BudgetInv /\ [BudgetNext]_budgetVars => BudgetInv'
<1> SUFFICES ASSUME BudgetInv, [BudgetNext]_budgetVars PROVE BudgetInv'
  OBVIOUS
<1>1. CASE UNCHANGED budgetVars
  BY <1>1 DEF BudgetInv, BudgetTypeOK, AnswersTrue, EndTrue, RemainingTrue, OnTheWay, budgetVars, github, tally
<1>2. ASSUME NEW c \in Calls,
             \/ \E lane \in Lane : reserveRequest(c, lane)
             \/ observeResponse(c) \/ Lands(c) \/ Breaks(c)
      PROVE  BudgetInv'
  BY <1>2, BudgetReserve, BudgetObserve, BudgetLands, BudgetBreaks
<1>3. CASE OthersSpend
  BY <1>3, BudgetOthers
<1>4. CASE Restart
  BY <1>4, BudgetRestart
<1>5. CASE Tick
  BY <1>5, BudgetTick
<1> QED BY <1>1, <1>2, <1>3, <1>4, <1>5 DEF BudgetNext

(* budget.ts:22-23: however calls overlap and however late, lost or out of order     *)
(* their answers are, the process refuses the interactive lane only for a quota that  *)
(* is taken, by what GitHub has counted and what is still on its way or was lost.      *)
THEOREM RefusalsAreDue == BudgetSpec => []StopsOnlyWhenSpent
<1>1. BudgetInv => StopsOnlyWhenSpent
  <2> SUFFICES ASSUME BudgetInv, lag = 0, window.end > 0, window.remaining = 0
               PROVE  Limit - spent <= Cardinality(OnTheWay) + lost
    BY DEF StopsOnlyWhenSpent, OnTheWay
  <2>1. 0 + Cardinality(OnTheWay) + lost >= Limit - spent
    BY DEF BudgetInv, RemainingTrue, Unknown
  <2> QED BY <2>1, UnderwayFinite, BudgetAssumption DEF BudgetInv, BudgetTypeOK
<1> QED BY <1>1, BudgetStarts, BudgetStep, PTL DEF BudgetSpec

(* The types, of which the proof above is made: no remainder below nothing. *)
THEOREM BudgetTypes == BudgetSpec => []BudgetTypeOK
<1>1. BudgetInv => BudgetTypeOK
  BY DEF BudgetInv
<1> QED BY <1>1, BudgetStarts, BudgetStep, PTL DEF BudgetSpec
-----------------------------------------------------------------------------
(* The lane's share.  What is let through in one of GitHub's hours is on the      *)
(* window's count, or was on a count that is gone; each count that goes is one     *)
(* thing the process forgot, or one its clock kept from the hour before or dropped  *)
(* before the hour was over.                                                      *)
Share == bulkCap(Limit)
Allow(n) == Share * n
Forgiven == forgotten + (IF lag > 0 \/ left + lag <= 0 THEN 1 ELSE 0)

(* No reset is beyond the end of this hour, and an earlier hour's is before it. *)
Dated ==
  /\ window.known => window.end <= NamedReset
  /\ \A c \in Calls : calls[c].at = "answered" =>
       IF calls[c].old THEN calls[c].reset = 0 \/ calls[c].reset < NamedReset
       ELSE calls[c].reset = NamedReset

(* A window that is over, one that will be before the hour is, and one that will not. *)
Charged ==
  /\ window.used["bulk"] <= Share
  /\ window.end = 0 => bulkSent <= Allow(Forgiven)
  /\ window.end > 0 /\ window.known /\ window.end # NamedReset =>
       bulkSent + Share <= Allow(Forgiven) + window.used["bulk"]
  /\ bulkSent <= Allow(Forgiven) + window.used["bulk"]

ShareInv == BudgetTypeOK /\ Dated /\ Charged

LEMMA ShareNumbers ==
  /\ Share \in Nat /\ Allow(0) = 0
  /\ \A n \in Nat : Allow(n) \in Nat /\ Allow(n + 1) = Allow(n) + Share
  /\ \A l \in {DEFAULT_LIMIT, Limit} : bulkCap(l) <= Share
<1>1. Share \in Nat /\ \A l \in {DEFAULT_LIMIT, Limit} : bulkCap(l) <= Share
  BY BudgetAssumption DEF Share, bulkCap
<1>2. ASSUME NEW n \in Nat PROVE Allow(n) \in Nat /\ Allow(n + 1) = Allow(n) + Share
  BY <1>1 DEF Allow
<1> QED BY <1>1, <1>2 DEF Allow

LEMMA ShareTypes ==
  ASSUME BudgetTypeOK
  PROVE  /\ window \in Window /\ window.end \in Nat /\ window.used["bulk"] \in Nat /\ window.known \in BOOLEAN
         /\ bulkSent \in Nat /\ forgotten \in Nat /\ lag \in Int /\ left \in Nat /\ left > 0
         /\ NamedReset \in Nat /\ Forgiven \in Nat /\ Allow(Forgiven) \in Nat
<1>1. /\ window \in Window /\ window.end \in Nat /\ window.used["bulk"] \in Nat /\ window.known \in BOOLEAN
      /\ bulkSent \in Nat /\ forgotten \in Nat /\ lag \in Int /\ left \in Nat /\ left > 0
  BY BudgetAssumption DEF BudgetTypeOK, Window, Lane
<1>2. NamedReset \in Nat /\ Forgiven \in Nat
  BY <1>1 DEF NamedReset, Forgiven
<1> QED BY <1>1, <1>2, ShareNumbers

(* The window a call or an answer finds is one of an hour that is not over. *)
LEMMA ShareFound ==
  ASSUME ShareInv
  PROVE  /\ getWindow \in Window /\ getWindow.end > 0
         /\ getWindow.known => getWindow.end <= NamedReset
         /\ getWindow.used["bulk"] \in Nat /\ getWindow.used["bulk"] <= Share
         /\ getWindow.known /\ getWindow.end # NamedReset =>
              bulkSent + Share <= Allow(Forgiven) + getWindow.used["bulk"]
         /\ bulkSent <= Allow(Forgiven) + getWindow.used["bulk"]
<1>1. getWindow \in Window /\ getWindow.end > 0
  BY WindowTypes DEF ShareInv
<1>2. CASE window.end = 0
  <2>1. ~getWindow.known /\ getWindow.used["bulk"] = 0
    BY <1>2 DEF getWindow, freshWindow, Lane
  <2> QED BY <1>1, <1>2, <2>1, ShareTypes, ShareNumbers DEF ShareInv, Charged
<1>3. CASE window.end # 0
  <2>1. getWindow = window
    BY <1>3 DEF getWindow
  <2> QED BY <1>1, <1>3, <2>1, ShareTypes DEF ShareInv, Charged, Dated
<1> QED BY <1>2, <1>3

LEMMA ShareStarts == BudgetInit => ShareInv
<1> SUFFICES ASSUME BudgetInit PROVE ShareInv
  OBVIOUS
<1>1. BudgetTypeOK
  BY BudgetStarts DEF BudgetInv
<1>2. Dated
  BY Shapes DEF BudgetInit, Dated, NoWindow, freshWindow
<1>3. window.used["bulk"] = 0 /\ bulkSent = 0
  BY DEF BudgetInit, NoWindow, freshWindow, Lane
<1> QED BY <1>1, <1>2, <1>3, ShareTypes, ShareNumbers, Shapes DEF ShareInv, Charged, BudgetInit

LEMMA ShareReserve ==
  ASSUME ShareInv, BudgetTypeOK', NEW c \in Calls, NEW lane \in Lane, reserveRequest(c, lane)
  PROVE  ShareInv'
<1>1. /\ UNCHANGED <<left, lag, forgotten>> /\ calls[c] = Idle
      /\ Forgiven' = Forgiven /\ Allow(Forgiven)' = Allow(Forgiven)
  BY DEF reserveRequest, github, Forgiven, Allow
<1> USE DEF NamedReset
<1>2. window'.end = getWindow.end /\ window'.known = getWindow.known
  BY ShareFound DEF reserveRequest, Counted, Window
<1>3. Dated'
  <2>1. calls' = calls \/ calls' = [calls EXCEPT ![c] = Sent]
    BY DEF reserveRequest, Answers
  <2> QED BY <1>1, <1>2, <2>1, ShareFound, Shapes DEF Dated, ShareInv, BudgetTypeOK
<1>4. CASE Refuses(getWindow, lane)
  BY <1>1, <1>3, <1>4, ShareFound DEF ShareInv, Charged, reserveRequest
<1>5. CASE ~Refuses(getWindow, lane)
  <2>1. window' = Counted(getWindow, lane) /\ bulkSent' = IF lane = "bulk" THEN bulkSent + 1 ELSE bulkSent
    BY <1>5 DEF reserveRequest
  <2>2. window'.used["bulk"] = IF lane = "bulk" THEN getWindow.used["bulk"] + 1 ELSE getWindow.used["bulk"]
    BY <2>1, ShareFound DEF Counted, Window, Lane
  <2>3. lane = "bulk" => getWindow.used["bulk"] < bulkCap(getWindow.limit) /\ bulkCap(getWindow.limit) <= Share
                         /\ bulkCap(getWindow.limit) \in Nat
    <3>1. getWindow.limit \in {DEFAULT_LIMIT, Limit} /\ getWindow.limit \in Nat
      BY ShareFound, BudgetAssumption DEF Window
    <3>2. bulkCap(getWindow.limit) <= Share /\ bulkCap(getWindow.limit) \in Nat
      BY <3>1, ShareNumbers DEF bulkCap
    <3> QED BY <1>5, <3>2, ShareFound DEF Refuses
  <2>4. Share \in Nat /\ Allow(Forgiven) \in Nat /\ bulkSent \in Nat
    BY ShareNumbers, ShareTypes DEF ShareInv
  <2> QED BY <1>1, <1>2, <1>3, <2>1, <2>2, <2>3, <2>4, ShareFound DEF ShareInv, Charged
<1> QED BY <1>4, <1>5

(* An answer of this hour keeps the count or drops one of an earlier hour, which is  *)
(* charged already; an answer of an earlier hour is forgiven before the count goes.  *)
LEMMA ShareObserve ==
  ASSUME ShareInv, BudgetTypeOK', NEW c \in Calls, observeResponse(c)
  PROVE  ShareInv'
<1> DEFINE w == getWindow
           reset == calls[c].reset
<1>1. /\ calls[c].at = "answered" /\ calls' = [calls EXCEPT ![c] = Idle]
      /\ UNCHANGED <<left, lag, bulkSent>>
      /\ forgotten' = IF calls[c].old \/ reset = 0 THEN forgotten + 1 ELSE forgotten
  BY DEF observeResponse, Answers, github
<1>2. /\ calls[c] \in Call /\ reset \in Nat
      /\ IF calls[c].old THEN reset = 0 \/ reset < NamedReset ELSE reset = NamedReset
  BY <1>1 DEF ShareInv, BudgetTypeOK, Dated, Call
<1>3. /\ window'.known /\ window'.end = reset
      /\ window'.used["bulk"] = IF w.known /\ reset > w.end THEN 0 ELSE w.used["bulk"]
  <2>1. window' = Lower(Reset([w EXCEPT !.limit = Limit], reset), calls[c].remaining)
    BY DEF observeResponse
  <2> DEFINE v == [w EXCEPT !.limit = Limit]
  <2>2. v.known = w.known /\ v.end = w.end /\ v.used = w.used /\ v \in Window
    BY ShareFound DEF Window
  <2>3. /\ Reset(v, reset).known /\ Reset(v, reset).end = reset
        /\ Reset(v, reset).used["bulk"] = IF w.known /\ reset > w.end THEN 0 ELSE w.used["bulk"]
    BY <2>2 DEF Reset, freshWindow, Window, Lane
  <2>4. /\ window'.known = Reset(v, reset).known /\ window'.end = Reset(v, reset).end
        /\ window'.used = Reset(v, reset).used
    BY <2>1, <2>2 DEF Lower, Reset, freshWindow, Window
  <2> QED BY <2>3, <2>4
<1>4. Dated'
  <2>1. NamedReset' = NamedReset
    BY <1>1 DEF NamedReset
  <2> QED BY <1>1, <1>2, <1>3, <2>1, Shapes, ShareTypes DEF Dated, ShareInv, BudgetTypeOK
<1>5. /\ Share \in Nat /\ Allow(Forgiven) \in Nat /\ bulkSent \in Nat /\ w.used["bulk"] \in Nat
      /\ NamedReset \in Nat /\ NamedReset' = NamedReset /\ w.end \in Nat
  BY <1>1, ShareNumbers, ShareTypes, ShareFound DEF ShareInv, Window, NamedReset
<1>6. CASE calls[c].old \/ reset = 0
  <2>1. Allow(Forgiven)' = Allow(Forgiven) + Share
    <3>1. Forgiven' = Forgiven + 1
      BY <1>1, <1>6, ShareTypes DEF Forgiven, ShareInv
    <3>2. Allow(Forgiven + 1) = Allow(Forgiven) + Share
      BY ShareNumbers, ShareTypes DEF ShareInv
    <3>3. Allow(Forgiven)' = Allow(Forgiven')
      BY DEF Allow, Share
    <3> QED BY <3>1, <3>2, <3>3
  <2>2. CASE w.known /\ reset > w.end
    <3>1. w.end # NamedReset
      BY <1>2, <1>5, <1>6, <2>2
    <3> QED BY <1>1, <1>3, <1>4, <1>5, <2>1, <2>2, <3>1, ShareFound DEF ShareInv, Charged, Share
  <2>3. CASE ~(w.known /\ reset > w.end)
    BY <1>1, <1>3, <1>4, <1>5, <2>1, <2>3, ShareFound DEF ShareInv, Charged, Share
  <2> QED BY <2>2, <2>3
<1>7. CASE ~calls[c].old /\ reset # 0
  <2>1. Allow(Forgiven)' = Allow(Forgiven) /\ reset = NamedReset /\ window'.end > 0
    BY <1>1, <1>2, <1>3, <1>7, ShareTypes DEF Forgiven, Allow, ShareInv
  <2>2. CASE w.known /\ reset > w.end
    BY <1>1, <1>3, <1>4, <1>5, <2>1, <2>2, ShareFound DEF ShareInv, Charged, Share
  <2>3. CASE ~(w.known /\ reset > w.end)
    BY <1>1, <1>3, <1>4, <1>5, <2>1, <2>3, ShareFound DEF ShareInv, Charged, Share
  <2> QED BY <2>2, <2>3
<1> QED BY <1>6, <1>7

LEMMA ShareApart ==
  ASSUME ShareInv, BudgetTypeOK', UNCHANGED <<left, window, lag, bulkSent, forgotten>>,
         \/ UNCHANGED calls
         \/ \E c \in Calls : Lands(c) \/ Breaks(c)
  PROVE  ShareInv'
<1> USE DEF NamedReset
<1>1. Charged'
  BY DEF ShareInv, Charged, Forgiven, Allow
<1>2. Dated'
  <2>1. CASE UNCHANGED calls
    BY <2>1 DEF ShareInv, Dated
  <2>2. ASSUME NEW c \in Calls, Lands(c) PROVE Dated'
    <3>1. calls' = [calls EXCEPT ![c] =
            [at |-> "answered", remaining |-> Limit - spent', reset |-> NamedReset, old |-> FALSE]]
      BY <2>2 DEF Lands, Answers
    <3> QED BY <3>1 DEF ShareInv, Dated, BudgetTypeOK, NamedReset
  <2>3. ASSUME NEW c \in Calls, Breaks(c) PROVE Dated'
    <3>1. calls' = [calls EXCEPT ![c] = Idle]
      BY <2>3 DEF Breaks, Answers
    <3> QED BY <3>1, Shapes DEF ShareInv, Dated, BudgetTypeOK
  <2> QED BY <2>1, <2>2, <2>3
<1> QED BY <1>1, <1>2 DEF ShareInv

LEMMA ShareRestart ==
  ASSUME ShareInv, BudgetTypeOK', Restart PROVE ShareInv'
<1>1. /\ window' = NoWindow /\ calls' = [c \in Calls |-> Idle] /\ UNCHANGED <<left, lag, bulkSent>>
      /\ forgotten' = forgotten + 1
  BY DEF Restart
<1>2. window'.end = 0 /\ ~window'.known /\ window'.used["bulk"] = 0
  BY <1>1, Shapes DEF NoWindow, freshWindow, Lane
<1>3. Allow(Forgiven)' = Allow(Forgiven) + Share
  <2>1. Forgiven' = Forgiven + 1
    BY <1>1, ShareTypes DEF Forgiven, ShareInv
  <2>2. Allow(Forgiven + 1) = Allow(Forgiven) + Share
    BY ShareNumbers, ShareTypes DEF ShareInv
  <2>3. Allow(Forgiven)' = Allow(Forgiven')
    BY DEF Allow, Share
  <2> QED BY <2>1, <2>2, <2>3
<1>4. bulkSent <= Allow(Forgiven) + Share
  BY ShareTypes, ShareNumbers DEF ShareInv, Charged
<1>5. Dated'
  BY <1>1, <1>2, Shapes DEF Dated
<1> QED BY <1>1, <1>2, <1>3, <1>4, <1>5, ShareNumbers, ShareTypes DEF ShareInv, Charged, Share

LEMMA ShareTick ==
  ASSUME ShareInv, BudgetTypeOK', Tick PROVE ShareInv'
<1> DEFINE Aged(call) == [call EXCEPT !.reset = Earlier(@), !.old = @ \/ (left = 1 /\ call.at = "answered")]
           Expired == window.end = 1 /\ ~window.known
<1>0. window' = [window EXCEPT !.end = Earlier(@)] /\ calls' = [c \in Calls |-> Aged(calls[c])]
  BY DEF Tick
<1>1. /\ lag' = lag
      /\ left = 1 => left' = Hour /\ bulkSent' = 0 /\ forgotten' = 0
      /\ left # 1 => left' = left - 1 /\ bulkSent' = bulkSent
      /\ left # 1 /\ Expired => forgotten' = forgotten + 1
      /\ left # 1 /\ ~Expired => forgotten' = forgotten
  BY Zenon DEF Tick
<1>2. ASSUME NEW n \in Nat
      PROVE  Earlier(n) \in Nat /\ (n = 0 => Earlier(n) = 0) /\ (n > 0 => Earlier(n) = n - 1)
  BY DEF Earlier
<1>3. /\ window \in Window /\ window.end \in Nat /\ window.used["bulk"] \in Nat
      /\ bulkSent \in Nat /\ forgotten \in Nat /\ lag \in Int /\ left \in Nat /\ left > 0
      /\ NamedReset \in Nat /\ Forgiven \in Nat /\ Allow(Forgiven) \in Nat
      /\ Share \in Nat /\ Hour \in Nat /\ Hour > 0
  BY ShareTypes, ShareNumbers, BudgetAssumption DEF ShareInv
<1>4. /\ window'.end = Earlier(window.end) /\ window'.known = window.known
      /\ window'.used["bulk"] = window.used["bulk"]
  BY <1>0, <1>3 DEF Window
<1>5. /\ window'.end \in Nat
      /\ window.end = 0 => window'.end = 0
      /\ window.end > 0 => window'.end = window.end - 1
  BY <1>2, <1>3, <1>4
<1>6. ASSUME NEW c \in Calls
      PROVE  /\ calls'[c].at = calls[c].at /\ calls[c].reset \in Nat /\ calls'[c].reset \in Nat
             /\ calls[c].reset = 0 => calls'[c].reset = 0
             /\ calls[c].reset > 0 => calls'[c].reset = calls[c].reset - 1
             /\ calls'[c].old = (calls[c].old \/ (left = 1 /\ calls[c].at = "answered"))
  <2>1. /\ calls'[c].at = calls[c].at /\ calls'[c].reset = Earlier(calls[c].reset) /\ calls[c].reset \in Nat
        /\ calls'[c].old = (calls[c].old \/ (left = 1 /\ calls[c].at = "answered"))
    BY <1>0 DEF ShareInv, BudgetTypeOK, Call
  <2>2. /\ Earlier(calls[c].reset) \in Nat
        /\ calls[c].reset = 0 => Earlier(calls[c].reset) = 0
        /\ calls[c].reset > 0 => Earlier(calls[c].reset) = calls[c].reset - 1
    BY <1>2, <2>1
  <2> QED BY <2>1, <2>2
<1>7. /\ window.used["bulk"] <= Share
      /\ window.end = 0 => bulkSent <= Allow(Forgiven)
      /\ window.end > 0 /\ window.known /\ window.end # NamedReset =>
           bulkSent + Share <= Allow(Forgiven) + window.used["bulk"]
      /\ bulkSent <= Allow(Forgiven) + window.used["bulk"]
      /\ window.known => window.end <= NamedReset
  BY DEF ShareInv, Charged, Dated
<1>8. Allow(Forgiven)' = Allow(Forgiven') /\ Share' = Share
  BY DEF Allow, Share
<1>9. CASE left = 1
  <2>1. left' = Hour /\ bulkSent' = 0 /\ forgotten' = 0
    BY <1>1, <1>9
  <2>2. /\ NamedReset = IF lag >= 0 THEN 1 + lag ELSE 0
        /\ NamedReset' = IF Hour + lag > 0 THEN Hour + lag ELSE 0
    BY <1>1, <1>3, <1>9, <2>1 DEF NamedReset
  <2>3. window'.known => window'.end <= NamedReset' /\ (window'.end > 0 => lag > 0)
    BY <1>3, <1>4, <1>5, <1>7, <2>2
  <2>4. ASSUME NEW c \in Calls, calls'[c].at = "answered"
        PROVE  calls'[c].old /\ (calls'[c].reset = 0 \/ calls'[c].reset < NamedReset')
    <3>1. calls[c].reset <= NamedReset
      BY <1>3, <1>6, <2>4 DEF ShareInv, Dated
    <3>2. calls'[c].reset = 0 \/ calls'[c].reset < NamedReset'
      BY <1>3, <1>6, <2>2, <3>1
    <3> QED BY <1>6, <1>9, <2>4, <3>2
  <2>5. Dated'
    BY <2>3, <2>4 DEF Dated
  <2>6. Forgiven' \in {0, 1} /\ (lag > 0 => Forgiven' = 1)
    BY <1>1, <2>1 DEF Forgiven
  <2>7. Allow(0) = 0 /\ Allow(1) = Share
    BY <1>3, ShareNumbers DEF Allow
  <2>8. Allow(Forgiven)' \in Nat /\ (lag > 0 => Allow(Forgiven)' = Share)
    BY <1>3, <1>8, <2>6, <2>7
  <2> QED BY <1>3, <1>4, <1>7, <1>8, <2>1, <2>3, <2>5, <2>8 DEF ShareInv, Charged
<1>10. CASE left # 1
  <2>1. left' = left - 1 /\ left > 1 /\ bulkSent' = bulkSent
    <3>1. left' = left - 1 /\ bulkSent' = bulkSent
      BY <1>1, <1>10
    <3> QED BY <1>3, <1>10, <3>1
  <2>2. /\ NamedReset' \in Nat
        /\ NamedReset = 0 => NamedReset' = 0
        /\ NamedReset > 0 => NamedReset' = NamedReset - 1
    BY <1>1, <1>3, <2>1 DEF NamedReset
  <2>3. window.known => window'.end <= NamedReset'
    BY <1>3, <1>5, <1>7, <2>2
  <2>4. window'.end > 0 /\ window'.end # NamedReset' => window.end # NamedReset
    BY <1>3, <1>5, <2>2
  <2>5. ASSUME NEW c \in Calls, calls'[c].at = "answered"
        PROVE  IF calls'[c].old THEN calls'[c].reset = 0 \/ calls'[c].reset < NamedReset'
               ELSE calls'[c].reset = NamedReset'
    <3>1. IF calls[c].old THEN calls[c].reset = 0 \/ calls[c].reset < NamedReset
          ELSE calls[c].reset = NamedReset
      BY <1>6, <2>5 DEF ShareInv, Dated
    <3>2. calls'[c].old = calls[c].old
      BY <1>6, <1>10 DEF ShareInv, BudgetTypeOK, Call
    <3>3. /\ calls[c].reset < NamedReset => calls'[c].reset = 0 \/ calls'[c].reset < NamedReset'
          /\ calls[c].reset = NamedReset => calls'[c].reset = NamedReset'
      BY <1>3, <1>6, <2>2
    <3> QED BY <1>6, <3>1, <3>2, <3>3
  <2>6. Dated'
    BY <1>4, <2>3, <2>5 DEF Dated
  <2>7. /\ Forgiven' \in {Forgiven, Forgiven + 1, Forgiven + 2}
        /\ Expired \/ NamedReset = 1 => Forgiven' # Forgiven
    <3>1. forgotten' = IF Expired THEN forgotten + 1 ELSE forgotten
      BY <1>1, <1>10
    <3>2. lag > 0 \/ left + lag <= 0 => lag' > 0 \/ left' + lag' <= 0
      BY <1>1, <1>3, <2>1
    <3>3. NamedReset = 1 => ~(lag > 0 \/ left + lag <= 0) /\ left' + lag' <= 0
      BY <1>1, <1>3, <2>1 DEF NamedReset
    <3> QED BY <1>3, <3>1, <3>2, <3>3 DEF Forgiven
  <2>8. CASE Forgiven' # Forgiven
    <3>1. Allow(Forgiven + 1) = Allow(Forgiven) + Share
      BY <1>3, ShareNumbers
    <3>2. Allow(Forgiven + 2) = Allow(Forgiven) + Share + Share
      <4>1. Allow(Forgiven + 1 + 1) = Allow(Forgiven + 1) + Share
        BY <1>3, ShareNumbers
      <4>2. Forgiven + 1 + 1 = Forgiven + 2
        BY <1>3
      <4> QED BY <3>1, <4>1, <4>2
    <3>3. Allow(Forgiven)' \in Nat /\ Allow(Forgiven)' >= Allow(Forgiven) + Share
      BY <1>3, <1>8, <2>7, <2>8, <3>1, <3>2
    <3> QED BY <1>3, <1>4, <1>7, <1>8, <2>1, <2>6, <3>3 DEF ShareInv, Charged
  <2>9. CASE Forgiven' = Forgiven
    <3>1. Allow(Forgiven)' = Allow(Forgiven)
      BY <1>8, <2>9
    <3>2. window'.end = 0 => bulkSent' <= Allow(Forgiven)'
      <4>1. CASE window.end = 0
        BY <1>7, <2>1, <3>1, <4>1
      <4>2. CASE window.end = 1
        <5>1. window.known /\ window.end # NamedReset
          BY <2>7, <2>9, <4>2
        <5>2. bulkSent + Share <= Allow(Forgiven) + window.used["bulk"]
          BY <1>3, <1>7, <4>2, <5>1
        <5> QED BY <1>3, <1>7, <2>1, <3>1, <5>2
      <4>3. CASE window.end > 1
        BY <1>3, <1>5, <4>3
      <4> QED BY <1>3, <4>1, <4>2, <4>3
    <3>3. window'.end > 0 /\ window'.known /\ window'.end # NamedReset' =>
            bulkSent' + Share' <= Allow(Forgiven)' + window'.used["bulk"]
      <4>1. window'.end > 0 => window.end > 0
        BY <1>3, <1>5
      <4> QED BY <1>4, <1>7, <1>8, <2>1, <2>4, <3>1, <4>1
    <3> QED BY <1>4, <1>7, <1>8, <2>1, <2>6, <3>1, <3>2, <3>3 DEF ShareInv, Charged
  <2> QED BY <2>8, <2>9
<1> QED BY <1>9, <1>10

LEMMA ShareStep == BudgetInv /\ ShareInv /\ [BudgetNext]_budgetVars => ShareInv'
<1> SUFFICES ASSUME BudgetInv, ShareInv, [BudgetNext]_budgetVars PROVE ShareInv'
  OBVIOUS
<1>0. BudgetTypeOK'
  BY BudgetStep DEF BudgetInv
<1>1. CASE UNCHANGED budgetVars
  BY <1>0, <1>1, ShareApart DEF budgetVars, github, tally
<1>2. ASSUME NEW c \in Calls, \/ \E lane \in Lane : reserveRequest(c, lane)
                              \/ observeResponse(c) \/ Lands(c) \/ Breaks(c)
      PROVE  ShareInv'
  <2>1. ASSUME NEW lane \in Lane, reserveRequest(c, lane) PROVE ShareInv'
    BY <1>0, <2>1, ShareReserve
  <2>2. CASE observeResponse(c)
    BY <1>0, <2>2, ShareObserve
  <2>3. CASE Lands(c) \/ Breaks(c)
    <3>1. UNCHANGED <<left, window, lag, bulkSent, forgotten>>
      BY <2>3 DEF Lands, Breaks, github, tally
    <3> QED BY <1>0, <2>3, <3>1, ShareApart
  <2> QED BY <1>2, <2>1, <2>2, <2>3
<1>3. CASE OthersSpend
  BY <1>0, <1>3, ShareApart DEF OthersSpend, tally
<1>4. CASE Restart
  BY <1>0, <1>4, ShareRestart
<1>5. CASE Tick
  BY <1>0, <1>5, ShareTick
<1> QED BY <1>1, <1>2, <1>3, <1>4, <1>5 DEF BudgetNext

(* budget.ts:18: in one hour of GitHub's the bulk lane sends its quarter of the quota, *)
(* and one more for each count the process lost or dropped as over, and for a clock    *)
(* that is off.                                                                       *)
THEOREM LaneKeepsItsShare == BudgetSpec => []BulkWithinItsShare
<1>1. ShareInv => BulkWithinItsShare
  <2> SUFFICES ASSUME ShareInv PROVE bulkSent <= Share * (1 + forgotten + (IF lag = 0 THEN 0 ELSE 1))
    BY DEF BulkWithinItsShare, Share
  <2> DEFINE n == 1 + forgotten + (IF lag = 0 THEN 0 ELSE 1)
  <2>1. bulkSent \in Nat /\ bulkSent <= Allow(Forgiven) + Share
    BY ShareTypes, ShareNumbers DEF ShareInv, Charged
  <2>2. Forgiven \in Nat /\ n \in {Forgiven + 1, Forgiven + 2}
    BY ShareTypes DEF ShareInv, Forgiven
  <2>3. /\ Allow(Forgiven) \in Nat /\ Share \in Nat
        /\ Allow(Forgiven + 1) = Allow(Forgiven) + Share
        /\ Allow(Forgiven + 2) = Allow(Forgiven) + Share + Share
    <3>1. /\ Allow(Forgiven + 1) = Allow(Forgiven) + Share
          /\ Allow(Forgiven + 1 + 1) = Allow(Forgiven + 1) + Share
      BY <2>2, ShareNumbers
    <3>2. Forgiven + 1 + 1 = Forgiven + 2
      BY <2>2
    <3> QED BY <2>2, <3>1, <3>2, ShareNumbers
  <2> HIDE DEF n
  <2>4. bulkSent <= Allow(n)
    BY <2>1, <2>2, <2>3
  <2> QED BY <2>4 DEF Allow, n
<1> QED BY <1>1, BudgetStarts, BudgetStep, ShareStarts, ShareStep, PTL DEF BudgetSpec

=============================================================================
