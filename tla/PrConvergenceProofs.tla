------------------------- MODULE PrConvergenceProofs -------------------------
(***************************************************************************)
(* One pull request under any number of acts, decisions and faults: what    *)
(* keeps the PR of an author who was never approved from staying open.      *)
(***************************************************************************)
EXTENDS PrConvergence, SequenceTheorems, TLAPS

(* An event whose converge closes the PR of an author who is not approved. *)
Closes(e) == e.kind \in {"gate", "evaluate"} /\ ~e.closed

Has(s, n) == \E k \in 1..Len(s) : n <= k /\ Closes(s[k])

(* Each close in the queue comes after such an event. *)
Headed(s) == \A k \in 1..Len(s) : s[k].kind = "closed" => \E j \in 1..Len(s) : j < k /\ Closes(s[j])

(* The head of prGate's queue has done its work already. *)
Spent == gate.event /\ gate.at = "mark"
First == IF Spent THEN 2 ELSE 1

(* Who is in hand, where. *)
Shape ==
  /\ fan # "idle" => tasks # <<>> /\ Head(tasks).kind \in DecisionKinds
  /\ gate.event => /\ inbox # <<>> /\ Head(inbox).kind \in {"gate", "evaluate"}
                   /\ gate.closed = Head(inbox).closed /\ gate.at \notin {"idle", "fetch"}
  /\ gate.at \in {"close", "mark"} => gate.closed = FALSE
  /\ \A k \in 1..Len(inbox) : inbox[k].kind \notin DecisionKinds
  /\ Len(apps) <= decisions + 1

(* No approval, and nothing that only an approval starts. *)
Unapproved ==
  /\ past \subseteq {"denied"} /\ \A i \in 1..Len(apps) : apps[i] # "APPROVED"
  /\ \A k \in 1..Len(tasks) : tasks[k].kind \notin {"approved", "revoked"}
  /\ row.status # "APPROVED" /\ gate.verdict # "APPROVED"
  /\ gate.at \notin {"check", "reopen", "unmark"} /\ sweep \notin {"reopen", "mark"}

(* An open PR has an event coming that closes it; *)
SomeoneCloses == pr = "open" => Has(inbox, First) \/ Has(tasks, 1)

(* and until a close is on record no close is terminal before that event. *)
NoneDropped == row.closedByApp = FALSE => Headed(inbox) /\ (Has(inbox, 1) \/ Headed(tasks))

Kept == Unapproved /\ SomeoneCloses /\ NoneDropped

NeverInv == "approved" \notin past /\ lapses \subseteq {"cut"} => Kept

(* A verdict reached before an approval and not carried out yet. *)
Blocks == gate.at \in {"upsert", "close"} /\ gate.verdict \in Blocking

(* With one application that is approved at most, *)
OnlyApproved ==
  /\ Len(apps) = 1 /\ apps[1] \in {"SUBMITTED", "APPROVED"}
  /\ \A k \in 1..Len(tasks) : tasks[k].kind \in DecisionKinds =>
       tasks[k].kind = "approved" /\ apps[1] = "APPROVED"
  /\ sweep \in {"reopen", "mark"} => apps[1] = "APPROVED"

(* a reopened PR that is closed again was closed by the converge that blocked it, *)
ClosedAgain ==
  /\ gate.at = "upsert" => gate.verdict # "none"
  /\ gate.at = "unmark" => pr # "botClosed"
  /\ (fan = "mark" \/ sweep = "mark") /\ pr = "botClosed" => ~Blocks

(* which is about to say so, or whose mark was written over by an approval. *)
Recorded ==
  pr = "botClosed" /\ row.closedByApp = FALSE =>
    gate.at = "mark" \/ (row.status = "APPROVED" /\ apps[1] = "APPROVED" /\ ~Blocks)

OnRecord == OnlyApproved /\ ClosedAgain /\ Recorded

RecordInv == lapses = {} /\ past \subseteq {"approved"} => OnRecord

-----------------------------------------------------------------------------
LEMMA AtTheBack ==
  ASSUME NEW S, NEW s \in Seq(S), NEW e \in S
  PROVE  /\ Append(s, e) \in Seq(S) /\ Append(s, e) # <<>>
         /\ Len(s) \in Nat /\ Len(Append(s, e)) = Len(s) + 1
         /\ \A k \in 1..Len(s) : Append(s, e)[k] = s[k]
         /\ Append(s, e)[Len(s) + 1] = e
         /\ s # <<>> => Head(Append(s, e)) = Head(s)
<1>1. /\ Append(s, e) \in Seq(S) /\ Append(s, e) # <<>>
      /\ Len(s) \in Nat /\ Len(Append(s, e)) = Len(s) + 1
      /\ \A k \in 1..Len(s) : Append(s, e)[k] = s[k]
      /\ Append(s, e)[Len(s) + 1] = e
  BY AppendProperties
<1>2. s # <<>> => Head(Append(s, e)) = Head(s)
  BY HeadTailAppend
<1> QED BY <1>1, <1>2

LEMMA AtTheFront ==
  ASSUME NEW S, NEW s \in Seq(S), s # <<>>
  PROVE  /\ Tail(s) \in Seq(S) /\ Len(s) \in Nat \ {0} /\ Len(Tail(s)) = Len(s) - 1
         /\ \A k \in 1..(Len(s) - 1) : Tail(s)[k] = s[k + 1]
         /\ Head(s) = s[1] /\ Head(s) \in S
  BY HeadTailProperties, EmptySeq

(* What an envelope at the back adds, and what it keeps. *)
LEMMA Pushed ==
  ASSUME NEW S, NEW s \in Seq(S), NEW e \in S, NEW n \in 1..(Len(s) + 1)
  PROVE  /\ Has(s, n) \/ Closes(e) => Has(Append(s, e), n)
         /\ Headed(s) /\ (e.kind = "closed" => Has(s, 1)) => Headed(Append(s, e))
<1> DEFINE t == Append(s, e)
<1>1. /\ Len(s) \in Nat /\ Len(t) = Len(s) + 1
      /\ \A k \in 1..Len(s) : t[k] = s[k]
      /\ t[Len(s) + 1] = e
  BY AtTheBack
<1> HIDE DEF t
<1>2. Has(s, n) => Has(t, n)
  BY <1>1 DEF Has
<1>3. Closes(e) => Has(t, n)
  BY <1>1 DEF Has
<1>4. ASSUME Headed(s), e.kind = "closed" => Has(s, 1) PROVE Headed(t)
  <2> SUFFICES ASSUME NEW k \in 1..Len(t), t[k].kind = "closed"
               PROVE  \E j \in 1..Len(t) : j < k /\ Closes(t[j])
    BY DEF Headed
  <2>1. CASE k \in 1..Len(s)
    BY <1>1, <1>4, <2>1 DEF Headed
  <2>2. CASE k = Len(s) + 1
    BY <1>1, <1>4, <2>2 DEF Has
  <2> QED BY <1>1, <2>1, <2>2
<1> QED BY <1>2, <1>3, <1>4 DEF t

(* What is kept when the head goes. *)
LEMMA Popped ==
  ASSUME NEW S, NEW s \in Seq(S), s # <<>>
  PROVE  /\ Has(s, 2) => Has(Tail(s), 1)
         /\ Has(s, 1) /\ ~Closes(Head(s)) => Has(s, 2)
         /\ Headed(s) => Head(s).kind # "closed"
         /\ Headed(s) /\ ~Closes(Head(s)) => Headed(Tail(s))
<1> DEFINE t == Tail(s)
<1>1. /\ Len(s) \in Nat \ {0} /\ Len(t) = Len(s) - 1
      /\ \A k \in 1..(Len(s) - 1) : t[k] = s[k + 1]
      /\ Head(s) = s[1]
  BY AtTheFront
<1> HIDE DEF t
<1>2. ASSUME Has(s, 2) PROVE Has(t, 1)
  <2>1. PICK k \in 1..Len(s) : 2 <= k /\ Closes(s[k])
    BY <1>2 DEF Has
  <2>2. k - 1 \in 1..Len(t) /\ t[k - 1] = s[k]
    BY <1>1, <2>1
  <2> QED BY <2>1, <2>2 DEF Has
<1>3. Has(s, 1) /\ ~Closes(Head(s)) => Has(s, 2)
  BY <1>1 DEF Has
<1>4. Headed(s) => Head(s).kind # "closed"
  BY <1>1 DEF Headed
<1>5. ASSUME Headed(s), ~Closes(Head(s)) PROVE Headed(t)
  <2> SUFFICES ASSUME NEW k \in 1..Len(t), t[k].kind = "closed"
               PROVE  \E j \in 1..Len(t) : j < k /\ Closes(t[j])
    BY DEF Headed
  <2>1. k + 1 \in 1..Len(s) /\ s[k + 1].kind = "closed"
    BY <1>1
  <2>2. PICK j \in 1..Len(s) : j < k + 1 /\ Closes(s[j])
    BY <1>5, <2>1 DEF Headed
  <2>3. j # 1
    BY <1>1, <1>5, <2>2
  <2>4. j - 1 \in 1..Len(t) /\ j - 1 < k /\ t[j - 1] = s[j]
    BY <1>1, <2>2, <2>3
  <2> QED BY <2>2, <2>4
<1> QED BY <1>2, <1>3, <1>4, <1>5 DEF t

-----------------------------------------------------------------------------
ConvTypes == TypeOK /\ Shape

Bounds == MaxActs \in Nat /\ MaxDecisions \in Nat /\ MaxFaults \in Nat /\ MaxSteps \in Nat

LEMMA BoundsOK == Bounds
BY ConvergenceAssumption DEF Bounds, ConvergenceAssumption

LEMMA ConvInit == Init => ConvTypes /\ NeverInv /\ RecordInv
<1> SUFFICES ASSUME Init PROVE ConvTypes /\ NeverInv /\ RecordInv
  OBVIOUS
<1>1. Event("gate", FALSE) \in Envelopes
  BY BoundsOK DEF Event, Envelopes, TaskKinds, Bounds
<1>2. TypeOK
  <2>1. tasks \in Seq(Envelopes) /\ inbox \in Seq(Envelopes)
    <3>1. tasks = <<Event("gate", FALSE)>> /\ inbox = <<>>
      BY DEF Init
    <3>2. \A e \in Envelopes : <<e>> \in Seq(Envelopes)
      OBVIOUS
    <3>3. <<>> \in Seq(Envelopes)
      BY EmptySeq
    <3> QED BY <1>1, <3>1, <3>2, <3>3
  <2>2. apps \in Seq({"SUBMITTED", "APPROVED", "DENIED"}) /\ Len(apps) \in 1..(MaxDecisions + 1)
    BY BoundsOK DEF Init, Bounds
  <2>3. /\ acts \in 0..MaxActs /\ decisions \in 0..MaxDecisions /\ faults \in 0..MaxFaults
        /\ past \subseteq DecisionKinds /\ lapses \subseteq {"closeRefused", "markLost", "cut"}
    BY BoundsOK DEF Init, Bounds
  <2> QED BY <2>1, <2>2, <2>3 DEF Init, TypeOK, NoConverge
<1>3. Shape
  BY <1>1 DEF Init, Shape, NoConverge
<1>4. NeverInv
  <2>1. Has(tasks, 1)
    BY DEF Init, Has, Closes, Event
  <2>2. Headed(inbox) /\ Headed(tasks)
    BY DEF Init, Headed, Event
  <2>3. Unapproved
    BY DEF Init, Unapproved, NoConverge, Event
  <2> QED BY <2>1, <2>2, <2>3 DEF NeverInv, Kept, SomeoneCloses, NoneDropped
<1>5. RecordInv
  BY DEF Init, RecordInv, OnRecord, OnlyApproved, ClosedAgain, Recorded, NoConverge, Event, DecisionKinds
<1> QED BY <1>2, <1>3, <1>4, <1>5 DEF ConvTypes

PrStates == {"open", "botClosed", "humanClosed", "merged"}
Row == [status : {"none", "PENDING", "DENIED", "APPROVED"}, closedByApp : BOOLEAN]
Lapses == {"closeRefused", "markLost", "cut"}
GateSlot == [at : {"idle", "fetch", "decide", "upsert", "check", "reopen", "unmark", "close", "mark"},
             event : BOOLEAN, closed : BOOLEAN, reEval : BOOLEAN,
             verdict : {"none", "PENDING", "DENIED", "APPROVED"}]

(* Nothing is taken from the tasks, and at most one is added. *)
TasksGrow == tasks' = tasks \/ \E e \in Envelopes : tasks' = Append(tasks, e)

(* Where an event's converge is, the event is at the head. *)
InHand(g, queue) ==
  /\ g.event => /\ queue # <<>> /\ Head(queue).kind \in {"gate", "evaluate"}
                /\ g.closed = Head(queue).closed /\ g.at \notin {"idle", "fetch"}
  /\ g.at \in {"close", "mark"} => g.closed = FALSE

(* What a step of the gate may change. *)
GateEffect ==
  /\ UNCHANGED <<apps, fan, sweep, acts, decisions, past>>
  /\ reGate' \in BOOLEAN /\ pr' \in PrStates /\ row' \in Row /\ gate' \in GateSlot
  /\ faults' \in 0..MaxFaults /\ lapses' \subseteq Lapses
  /\ TasksGrow
  /\ inbox' \in {inbox, <<>>} \/ (inbox # <<>> /\ inbox' = Tail(inbox))
  /\ InHand(gate', inbox')

LEMMA Grown ==
  ASSUME tasks \in Seq(Envelopes), TasksGrow
  PROVE  /\ tasks' \in Seq(Envelopes) /\ Len(tasks') \in Nat
         /\ tasks # <<>> => tasks' # <<>> /\ Head(tasks') = Head(tasks)
<1>1. CASE tasks' = tasks
  BY <1>1, LenProperties
<1>2. ASSUME NEW e \in Envelopes, tasks' = Append(tasks, e)
      PROVE  /\ tasks' \in Seq(Envelopes) /\ Len(tasks') \in Nat
             /\ tasks # <<>> => tasks' # <<>> /\ Head(tasks') = Head(tasks)
  <2>1. /\ Append(tasks, e) \in Seq(Envelopes) /\ Append(tasks, e) # <<>>
        /\ tasks # <<>> => Head(Append(tasks, e)) = Head(tasks)
    BY AtTheBack
  <2> QED BY <1>2, <2>1, LenProperties
<1> QED BY <1>1, <1>2 DEF TasksGrow

LEMMA GateEffectTypes ==
  ASSUME ConvTypes, GateEffect PROVE ConvTypes'
<1>1. tasks \in Seq(Envelopes) /\ inbox \in Seq(Envelopes)
  BY DEF ConvTypes, TypeOK
<1>2. /\ tasks' \in Seq(Envelopes) /\ Len(tasks') \in Nat
      /\ tasks # <<>> => tasks' # <<>> /\ Head(tasks') = Head(tasks)
  BY <1>1, Grown DEF GateEffect
<1>3. inbox' \in Seq(Envelopes)
  <2>1. <<>> \in Seq(Envelopes) /\ (inbox # <<>> => Tail(inbox) \in Seq(Envelopes))
    BY <1>1, AtTheFront, EmptySeq
  <2> QED BY <1>1, <2>1 DEF GateEffect
<1>4. \A k \in 1..Len(inbox') : inbox'[k].kind \notin DecisionKinds
  <2>1. \A k \in 1..Len(inbox) : inbox[k].kind \notin DecisionKinds
    BY DEF ConvTypes, Shape
  <2>2. CASE inbox' = inbox
    BY <2>1, <2>2
  <2>3. CASE inbox' = <<>>
    BY <2>3
  <2>4. CASE inbox # <<>> /\ inbox' = Tail(inbox)
    BY <1>1, <2>1, <2>4, AtTheFront
  <2> QED BY <2>2, <2>3, <2>4 DEF GateEffect
<1>5. TypeOK'
  BY <1>2, <1>3 DEF GateEffect, ConvTypes, TypeOK, PrStates, Row, GateSlot, Lapses
<1>6. Shape'
  BY <1>2, <1>4 DEF GateEffect, ConvTypes, Shape, InHand
<1> QED BY <1>5, <1>6 DEF ConvTypes

(* The pull request is closed or reopened, and GitHub says so. *)
LEMMA OnGitHub ==
  ASSUME ConvTypes, closePullRequest \/ reopenPullRequest
  PROVE  pr' \in PrStates /\ TasksGrow
<1>1. \A closed \in BOOLEAN : Event("closed", closed) \in Envelopes /\ Event("gate", closed) \in Envelopes
  BY BoundsOK DEF Event, Envelopes, TaskKinds, Bounds
<1> QED BY <1>1 DEF ConvTypes, TypeOK, PrStates, closePullRequest, reopenPullRequest, TasksGrow

LEMMA GateTypes ==
  ASSUME ConvTypes, Gate \/ GateRetry PROVE GateEffect
<1> USE BoundsOK DEF Bounds
<1>1. /\ pr \in PrStates /\ row \in Row /\ gate \in GateSlot /\ faults \in 0..MaxFaults /\ lapses \subseteq Lapses
      /\ reGate \in BOOLEAN
  BY DEF ConvTypes, TypeOK, PrStates, Row, GateSlot, Lapses
<1>2. tasks \in Seq(Envelopes) /\ inbox \in Seq(Envelopes)
  BY DEF ConvTypes, TypeOK
<1>3. inbox # <<>> => Head(inbox) \in Envelopes /\ Head(inbox).kind \notin DecisionKinds
  BY <1>2, AtTheFront DEF ConvTypes, Shape
<1>4. InHand(gate, inbox)
  BY DEF ConvTypes, Shape, InHand
<1>5. NoConverge \in GateSlot /\ \A q : InHand(NoConverge, q)
  BY DEF NoConverge, GateSlot, InHand
<1>6. Fault => faults' \in 0..MaxFaults
  BY <1>1 DEF Fault
<1>7. Converged => gate' = NoConverge /\ (inbox' = inbox \/ (inbox # <<>> /\ inbox' = Tail(inbox)))
  BY <1>4 DEF Converged, InHand
<1>8. CASE TakeEvent
  <2>1. gate' = [at |-> "decide", event |-> TRUE, closed |-> Head(inbox).closed,
                 reEval |-> Head(inbox).kind = "evaluate", verdict |-> "none"]
    BY <1>8 DEF TakeEvent
  <2>2. gate' \in GateSlot
    BY <1>3, <1>8, <2>1 DEF TakeEvent, GateSlot, Envelopes
  <2>3. InHand(gate', inbox)
    BY <1>3, <1>8, <2>1 DEF TakeEvent, InHand, Envelopes, TaskKinds
  <2> QED BY <1>1, <1>8, <2>2, <2>3 DEF TakeEvent, GateStep, GateEffect, TasksGrow
<1>9. CASE handlePrClosed
  <2>1. gate' = gate /\ gate.at = "idle" /\ inbox # <<>>
    BY <1>9 DEF handlePrClosed
  <2>2. \A q : InHand(gate', q)
    BY <1>4, <2>1 DEF InHand
  <2> QED BY <1>1, <1>9, <2>2 DEF handlePrClosed, spent, ghosts, GateEffect, TasksGrow
<1>10. CASE TakeReGate
  <2>1. gate' = [NoConverge EXCEPT !.at = "fetch", !.reEval = TRUE]
    BY <1>10 DEF TakeReGate
  <2>2. gate' \in GateSlot /\ InHand(gate', inbox)
    BY <2>1 DEF NoConverge, GateSlot, InHand
  <2> QED BY <1>1, <1>10, <2>2 DEF TakeReGate, spent, ghosts, GateEffect, TasksGrow
<1>11. CASE Fetch
  <2>1. gate.event = FALSE
    BY <1>1, <1>4, <1>11 DEF Fetch, InHand, GateSlot
  <2>2. gate' \in GateSlot
    BY <1>1, <1>5, <1>11 DEF Fetch, GateSlot
  <2>3. gate'.event = FALSE /\ gate'.at \in {"decide", "idle"}
    <3>1. CASE gate' = NoConverge
      BY <3>1 DEF NoConverge
    <3>2. CASE gate' = [gate EXCEPT !.at = "decide", !.closed = pr # "open"]
      <4>1. gate'.at = "decide"
        BY <1>1, <3>2 DEF GateSlot
      <4>2. gate'.event = gate.event
        BY <1>1, <3>2 DEF GateSlot
      <4> QED BY <2>1, <4>1, <4>2
    <3> QED BY <1>11, <3>1, <3>2 DEF Fetch
  <2>4. InHand(gate', inbox)
    BY <2>3 DEF InHand
  <2> QED BY <1>1, <1>6, <1>11, <2>2, <2>4 DEF Fetch, GateStep, GateEffect, TasksGrow
<1>12. CASE DecideForPR
  <2>1. PICK v \in Verdicts : gate' = [gate EXCEPT !.at = "upsert", !.verdict = v]
    BY <1>12 DEF DecideForPR
  <2>2. v \in {"none", "PENDING", "DENIED", "APPROVED"}
    BY DEF Verdicts, Blocking
  <2>3. gate' \in GateSlot /\ InHand(gate', inbox)
    BY <1>1, <1>4, <2>1, <2>2 DEF GateSlot, InHand
  <2> QED BY <1>1, <1>12, <2>3 DEF DecideForPR, GateStep, GateEffect, TasksGrow
<1>13. CASE Upsert
  <2>1. row' \in Row
    BY <1>1, <1>13 DEF Upsert, Row, GateSlot
  <2>2. CASE gate' = [gate EXCEPT !.at = "check"] /\ inbox' = inbox
    <3>1. gate' \in GateSlot /\ InHand(gate', inbox)
      BY <1>1, <1>4, <2>2 DEF GateSlot, InHand
    <3> QED BY <1>1, <1>13, <2>1, <2>2, <3>1 DEF Upsert, GateStep, GateEffect, TasksGrow
  <2>3. CASE gate.closed = FALSE /\ gate' = [gate EXCEPT !.at = "close"] /\ inbox' = inbox
    <3>1. gate' \in GateSlot /\ InHand(gate', inbox)
      BY <1>1, <1>4, <2>3 DEF GateSlot, InHand
    <3> QED BY <1>1, <1>13, <2>1, <2>3, <3>1 DEF Upsert, GateStep, GateEffect, TasksGrow
  <2>4. CASE Converged
    BY <1>1, <1>5, <1>7, <1>13, <2>1, <2>4 DEF Upsert, GateStep, GateEffect, TasksGrow
  <2>5. gate.closed \in BOOLEAN
    BY <1>1 DEF GateSlot
  <2> QED BY <1>13, <2>2, <2>3, <2>4, <2>5 DEF Upsert
<1>14. CASE CheckClosedByApp
  <2>1. CASE gate' = [gate EXCEPT !.at = "reopen"] /\ inbox' = inbox
    <3>1. gate' \in GateSlot /\ InHand(gate', inbox)
      BY <1>1, <1>4, <1>14, <2>1 DEF GateSlot, InHand, CheckClosedByApp
    <3> QED BY <1>1, <1>14, <2>1, <3>1 DEF CheckClosedByApp, GateStep, GateEffect, TasksGrow
  <2>2. CASE Converged
    BY <1>1, <1>5, <1>7, <1>14, <2>2 DEF CheckClosedByApp, GateStep, GateEffect, TasksGrow
  <2> QED BY <1>14, <2>1, <2>2 DEF CheckClosedByApp
<1>15. CASE GateReopens
  <2>1. CASE reopenPullRequest /\ gate' = [gate EXCEPT !.at = "unmark"] /\ inbox' = inbox /\ faults' = faults
    <3>1. gate' \in GateSlot /\ InHand(gate', inbox)
      BY <1>1, <1>4, <1>15, <2>1 DEF GateSlot, InHand, GateReopens
    <3> QED BY <1>1, <1>15, <2>1, <3>1, OnGitHub DEF GateReopens, GateStep, GateEffect
  <2>2. CASE Converged /\ pr' = pr /\ tasks' = tasks /\ (faults' = faults \/ Fault)
    BY <1>1, <1>5, <1>6, <1>7, <1>15, <2>2 DEF GateReopens, GateStep, GateEffect, TasksGrow
  <2> QED BY <1>15, <2>1, <2>2 DEF GateReopens
<1>16. CASE GateCloses
  <2>1. CASE closePullRequest /\ gate' = [gate EXCEPT !.at = "mark"] /\ inbox' = inbox /\ faults' = faults /\ lapses' = lapses
    <3>1. gate' \in GateSlot /\ InHand(gate', inbox)
      BY <1>1, <1>4, <1>16, <2>1 DEF GateSlot, InHand, GateCloses
    <3> QED BY <1>1, <1>16, <2>1, <3>1, OnGitHub DEF GateCloses, GateStep, GateEffect
  <2>2. CASE Converged /\ pr' = pr /\ tasks' = tasks /\ Fault /\ lapses' = lapses \cup {"closeRefused"}
    <3>1. lapses' \subseteq Lapses
      BY <1>1, <2>2 DEF Lapses
    <3> QED BY <1>1, <1>5, <1>6, <1>7, <1>16, <2>2, <3>1 DEF GateCloses, GateStep, GateEffect, TasksGrow
  <2> QED BY <1>16, <2>1, <2>2 DEF GateCloses
<1>17. CASE GateMarks
  <2>1. row' \in Row
    BY <1>1, <1>17 DEF GateMarks, Row
  <2>2. lapses' \subseteq Lapses /\ faults' \in 0..MaxFaults
    BY <1>1, <1>6, <1>17 DEF GateMarks, Lapses
  <2> QED BY <1>1, <1>5, <1>7, <1>17, <2>1, <2>2 DEF GateMarks, GateStep, GateEffect, TasksGrow
<1>18. CASE GateRetry
  <2>1. lapses' \subseteq Lapses /\ faults' \in 0..MaxFaults
    BY <1>1, <1>6, <1>18 DEF GateRetry, Lapses
  <2>2. CASE gate.event /\ gate' = [gate EXCEPT !.at = "decide", !.verdict = "none"]
    <3>1. gate' \in GateSlot /\ InHand(gate', inbox)
      BY <1>1, <1>4, <2>2 DEF GateSlot, InHand
    <3> QED BY <1>1, <1>18, <2>1, <3>1 DEF GateRetry, GateStep, GateEffect, TasksGrow
  <2>3. CASE gate' = [NoConverge EXCEPT !.at = "fetch", !.reEval = TRUE]
    <3>1. gate' \in GateSlot /\ InHand(gate', inbox)
      BY <2>3 DEF NoConverge, GateSlot, InHand
    <3> QED BY <1>1, <1>18, <2>1, <3>1 DEF GateRetry, GateStep, GateEffect, TasksGrow
  <2> QED BY <1>18, <2>2, <2>3 DEF GateRetry
<1> QED BY <1>8, <1>9, <1>10, <1>11, <1>12, <1>13, <1>14, <1>15, <1>16, <1>17, <1>18 DEF Gate

(* What the fan-out may change: it takes the head, perhaps for prGate's queue. *)
FanEffect ==
  /\ UNCHANGED <<apps, reGate, gate, sweep, acts, decisions, past>>
  /\ pr' \in PrStates /\ row' \in Row /\ faults' \in 0..MaxFaults /\ lapses' \subseteq Lapses
  /\ fan' \in {"idle", "select", "act", "mark"}
  /\ \/ TasksGrow /\ inbox' = inbox /\ (fan' # "idle" => tasks # <<>> /\ Kind \in DecisionKinds)
     \/ fan' = "idle" /\ tasks # <<>> /\ tasks' = Tail(tasks) /\ inbox' = inbox
     \/ /\ fan' = "idle" /\ tasks # <<>> /\ tasks' = Tail(tasks)
        /\ Kind \notin DecisionKinds /\ inbox' = Append(inbox, Head(tasks))

LEMMA FanEffectTypes ==
  ASSUME ConvTypes, FanEffect PROVE ConvTypes'
<1>1. /\ tasks \in Seq(Envelopes) /\ inbox \in Seq(Envelopes) /\ InHand(gate, inbox)
      /\ \A k \in 1..Len(inbox) : inbox[k].kind \notin DecisionKinds
  BY DEF ConvTypes, TypeOK, Shape, InHand
<1>2. tasks # <<>> => Head(tasks) \in Envelopes /\ Tail(tasks) \in Seq(Envelopes)
  BY <1>1, AtTheFront
<1>3. TasksGrow => /\ tasks' \in Seq(Envelopes)
                   /\ tasks # <<>> => tasks' # <<>> /\ Head(tasks') = Head(tasks)
  BY <1>1, Grown
<1>4. tasks' \in Seq(Envelopes) /\ (fan' # "idle" => tasks' # <<>> /\ Head(tasks').kind \in DecisionKinds)
  BY <1>2, <1>3 DEF FanEffect, Kind
<1>5. /\ inbox' \in Seq(Envelopes)
      /\ \A k \in 1..Len(inbox') : inbox'[k].kind \notin DecisionKinds
      /\ InHand(gate, inbox')
  <2>1. CASE inbox' = inbox
    BY <1>1, <2>1
  <2>2. CASE tasks # <<>> /\ Kind \notin DecisionKinds /\ inbox' = Append(inbox, Head(tasks))
    <3>1. /\ inbox' \in Seq(Envelopes) /\ inbox' # <<>>
          /\ Len(inbox) \in Nat /\ Len(inbox') = Len(inbox) + 1
          /\ \A k \in 1..Len(inbox) : inbox'[k] = inbox[k]
          /\ inbox'[Len(inbox) + 1] = Head(tasks)
          /\ inbox # <<>> => Head(inbox') = Head(inbox)
      BY <1>1, <1>2, <2>2, AtTheBack
    <3>2. \A k \in 1..Len(inbox') : inbox'[k].kind \notin DecisionKinds
      BY <1>1, <2>2, <3>1 DEF Kind
    <3> QED BY <1>1, <3>1, <3>2 DEF InHand
  <2> QED BY <2>1, <2>2 DEF FanEffect
<1>6. TypeOK'
  BY <1>4, <1>5 DEF FanEffect, ConvTypes, TypeOK, PrStates, Row, Lapses
<1>7. Shape'
  BY <1>4, <1>5 DEF FanEffect, ConvTypes, Shape, InHand
<1> QED BY <1>6, <1>7 DEF ConvTypes

LEMMA FanTypes ==
  ASSUME ConvTypes, Fan \/ FanRetry PROVE FanEffect
<1>1. /\ pr \in PrStates /\ row \in Row /\ faults \in 0..MaxFaults /\ lapses \subseteq Lapses
      /\ fan \in {"idle", "select", "act", "mark"}
      /\ fan # "idle" => tasks # <<>> /\ Kind \in DecisionKinds
  BY DEF ConvTypes, TypeOK, PrStates, Row, Lapses, Shape, Kind
<1>2. Fault => faults' \in 0..MaxFaults
  BY <1>1, BoundsOK DEF Fault, Bounds
<1>3. CASE deliverPrEvent
  BY <1>1, <1>3 DEF deliverPrEvent, TaskDone, FanStep, FanEffect
<1>4. CASE LoadApplication
  BY <1>1, <1>4 DEF LoadApplication, TaskDone, FanStep, FanEffect, TasksGrow
<1>5. CASE SelectChecks
  BY <1>1, <1>5 DEF SelectChecks, TaskDone, FanStep, FanEffect, TasksGrow
<1>6. CASE FanActs
  <2>1. CASE fan' = "mark"
    <3>1. pr' \in PrStates /\ TasksGrow
      <4>1. CASE UNCHANGED <<pr, tasks>>
        BY <1>1, <4>1 DEF TasksGrow
      <4> QED BY <1>1, <1>6, <2>1, <4>1, OnGitHub DEF FanActs, DecisionKinds, TaskDone
    <3> QED BY <1>1, <1>6, <2>1, <3>1 DEF FanActs, TaskDone, FanStep, FanEffect
  <2>2. CASE fan' # "mark"
    <3>1. TaskDone /\ pr' = pr /\ faults' \in 0..MaxFaults /\ lapses' \subseteq Lapses
      BY <1>1, <1>2, <1>6, <2>2 DEF FanActs, Lapses
    <3> QED BY <1>1, <1>6, <3>1 DEF FanActs, TaskDone, FanStep, FanEffect
  <2> QED BY <2>1, <2>2
<1>7. CASE FanMarks
  <2>1. row' \in Row
    <3>1. CASE row' = row
      BY <1>1, <3>1
    <3>2. CASE Kind = "approved" /\ row' = [status |-> "APPROVED", closedByApp |-> FALSE]
      BY <3>2 DEF Row
    <3>3. CASE Kind = "denied" /\ row' = [row EXCEPT !.status = "DENIED"]
      BY <1>1, <3>3 DEF Row
    <3>4. CASE Kind = "revoked" /\ row' = [status |-> "PENDING", closedByApp |-> TRUE]
      BY <3>4 DEF Row
    <3>5. Kind \in {"approved", "denied", "revoked"}
      BY <1>1, <1>7 DEF FanMarks, DecisionKinds
    <3> QED BY <1>7, <3>1, <3>2, <3>3, <3>4, <3>5 DEF FanMarks
  <2>2. faults' \in 0..MaxFaults /\ lapses' \subseteq Lapses
    BY <1>1, <1>2, <1>7 DEF FanMarks, Lapses
  <2> QED BY <1>1, <1>7, <2>1, <2>2 DEF FanMarks, TaskDone, FanStep, FanEffect
<1>8. CASE FanRetry
  <2>1. faults' \in 0..MaxFaults /\ lapses' \subseteq Lapses
    BY <1>1, <1>2, <1>8 DEF FanRetry, Lapses
  <2> QED BY <1>1, <1>8, <2>1 DEF FanRetry, FanStep, FanEffect, TasksGrow
<1> QED BY <1>3, <1>4, <1>5, <1>6, <1>7, <1>8 DEF Fan

(* What people, and the sweep, may change. *)
OutsideEffect ==
  /\ UNCHANGED <<inbox, gate, fan>> /\ TasksGrow
  /\ apps' \in Seq({"SUBMITTED", "APPROVED", "DENIED"}) /\ Len(apps') >= 1 /\ Len(apps') <= decisions' + 1
  /\ pr' \in PrStates /\ row' \in Row /\ reGate' \in BOOLEAN
  /\ sweep' \in {"idle", "decide", "reopen", "mark"}
  /\ acts' \in 0..MaxActs /\ decisions' \in 0..MaxDecisions /\ faults' \in 0..MaxFaults
  /\ past' \subseteq DecisionKinds /\ lapses' = lapses

LEMMA OutsideEffectTypes ==
  ASSUME ConvTypes, OutsideEffect PROVE ConvTypes'
<1>1. tasks \in Seq(Envelopes)
  BY DEF ConvTypes, TypeOK
<1>2. tasks' \in Seq(Envelopes) /\ (tasks # <<>> => tasks' # <<>> /\ Head(tasks') = Head(tasks))
  BY <1>1, Grown DEF OutsideEffect
<1>3. Len(apps') \in 1..(MaxDecisions + 1)
  <2>1. Len(apps') \in Nat
    BY LenProperties DEF OutsideEffect
  <2> QED BY <2>1, BoundsOK DEF OutsideEffect, Bounds
<1>4. TypeOK'
  BY <1>2, <1>3 DEF OutsideEffect, ConvTypes, TypeOK, PrStates, Row
<1>5. Shape'
  BY <1>2 DEF OutsideEffect, ConvTypes, Shape
<1> QED BY <1>4, <1>5 DEF ConvTypes

LEMMA PeopleTypes ==
  ASSUME ConvTypes, People PROVE OutsideEffect
<1>1. /\ apps \in Seq({"SUBMITTED", "APPROVED", "DENIED"}) /\ Len(apps) >= 1 /\ Len(apps) <= decisions + 1
      /\ pr \in PrStates /\ row \in Row /\ reGate \in BOOLEAN /\ sweep \in {"idle", "decide", "reopen", "mark"}
      /\ acts \in 0..MaxActs /\ decisions \in 0..MaxDecisions /\ faults \in 0..MaxFaults
      /\ past \subseteq DecisionKinds
  BY DEF ConvTypes, TypeOK, PrStates, Row, Shape
<1>2. ASSUME NEW state \in PrStates, NEW kind \in {"gate", "evaluate", "closed"}, NEW closed \in BOOLEAN,
             Act(state, Event(kind, closed))
      PROVE  OutsideEffect
  <2>1. Event(kind, closed) \in Envelopes
    BY BoundsOK DEF Event, Envelopes, TaskKinds, Bounds
  <2>2. acts' \in 0..MaxActs
    BY <1>1, <1>2, BoundsOK DEF Act, Bounds
  <2> QED BY <1>1, <1>2, <2>1, <2>2 DEF Act, ghosts, OutsideEffect, TasksGrow
<1>3. ASSUME NEW from, NEW to \in {"APPROVED", "DENIED", "SUBMITTED"}, NEW kind \in DecisionKinds,
             Decide(from, to, kind)
      PROVE  OutsideEffect
  <2>1. PICK i \in DOMAIN apps : apps' = [apps EXCEPT ![i] = to] /\ tasks' = Append(tasks, Decision(kind, i))
    BY <1>3 DEF Decide
  <2>2. i \in 1..Len(apps) /\ Len(apps) \in 1..(MaxDecisions + 1)
    BY <1>1, <2>1 DEF ConvTypes, TypeOK
  <2>3. apps' \in Seq({"SUBMITTED", "APPROVED", "DENIED"}) /\ Len(apps') = Len(apps)
    BY <1>1, <2>1, <2>2, ExceptSeq
  <2>4. Decision(kind, i) \in Envelopes
    BY <2>2, BoundsOK DEF Decision, Envelopes, TaskKinds, DecisionKinds, Bounds
  <2>5. decisions' \in 0..MaxDecisions /\ Len(apps') >= 1 /\ Len(apps') <= decisions' + 1
    BY <1>1, <1>3, <2>2, <2>3, BoundsOK DEF Decide, Bounds
  <2>6. past' \subseteq DecisionKinds
    BY <1>1, <1>3 DEF Decide
  <2> QED BY <1>1, <1>3, <2>1, <2>3, <2>4, <2>5, <2>6 DEF Decide, OutsideEffect, TasksGrow
<1>4. CASE AskReGate
  <2>1. acts' \in 0..MaxActs
    BY <1>1, <1>4, BoundsOK DEF AskReGate, Bounds
  <2> QED BY <1>1, <1>4, <2>1 DEF AskReGate, ghosts, OutsideEffect, TasksGrow
<1>5. CASE Resubmit
  <2>1. /\ apps' \in Seq({"SUBMITTED", "APPROVED", "DENIED"}) /\ Len(apps') = Len(apps) + 1
        /\ Len(apps) \in Nat
    BY <1>1, <1>5, AtTheBack DEF Resubmit
  <2>2. decisions' \in 0..MaxDecisions /\ Len(apps') >= 1 /\ Len(apps') <= decisions' + 1
    BY <1>1, <1>5, <2>1, BoundsOK DEF Resubmit, Bounds
  <2> QED BY <1>1, <1>5, <2>1, <2>2 DEF Resubmit, work, ghosts, OutsideEffect, TasksGrow
<1>6. CASE Push \/ HumanCloses \/ Merge \/ HumanReopens
  BY <1>2, <1>6 DEF Push, HumanCloses, Merge, HumanReopens, PrStates
<1>7. CASE Label
  <2>1. (pr # "open") \in BOOLEAN
    OBVIOUS
  <2> QED BY <1>1, <1>2, <1>7, <2>1 DEF Label
<1>8. CASE approveAction \/ denyAction \/ revokeAction
  BY <1>3, <1>8 DEF approveAction, denyAction, revokeAction, DecisionKinds
<1> QED BY <1>4, <1>5, <1>6, <1>7, <1>8 DEF People

LEMMA SweepTypes ==
  ASSUME ConvTypes, Sweep PROVE OutsideEffect
<1>1. /\ apps \in Seq({"SUBMITTED", "APPROVED", "DENIED"}) /\ Len(apps) >= 1 /\ Len(apps) <= decisions + 1
      /\ pr \in PrStates /\ row \in Row /\ reGate \in BOOLEAN /\ sweep \in {"idle", "decide", "reopen", "mark"}
      /\ acts \in 0..MaxActs /\ decisions \in 0..MaxDecisions /\ faults \in 0..MaxFaults
      /\ past \subseteq DecisionKinds
  BY DEF ConvTypes, TypeOK, PrStates, Row, Shape
<1>2. Fault => faults' \in 0..MaxFaults
  BY <1>1, BoundsOK DEF Fault, Bounds
<1>3. SweepStep => UNCHANGED <<apps, inbox, reGate, gate, fan, acts, decisions, past, lapses>>
  BY DEF SweepStep, ghosts
<1>4. CASE SweepSelects
  BY <1>1, <1>3, <1>4 DEF SweepSelects, OutsideEffect, TasksGrow
<1>5. CASE SweepDecides
  BY <1>1, <1>3, <1>5 DEF SweepDecides, OutsideEffect, TasksGrow
<1>6. CASE SweepReopens
  <2>1. /\ pr' \in PrStates /\ TasksGrow /\ faults' \in 0..MaxFaults
        /\ sweep' \in {"idle", "decide", "reopen", "mark"}
    <3>1. CASE reopenPullRequest /\ sweep' = "mark" /\ UNCHANGED faults
      BY <1>1, <3>1, OnGitHub
    <3>2. CASE sweep' = "idle" /\ UNCHANGED <<pr, tasks>> /\ (Fault \/ UNCHANGED faults)
      BY <1>1, <1>2, <3>2 DEF TasksGrow
    <3> QED BY <1>6, <3>1, <3>2 DEF SweepReopens
  <2> QED BY <1>1, <1>3, <1>6, <2>1 DEF SweepReopens, OutsideEffect
<1>7. CASE SweepMarks
  <2>1. row' \in Row /\ faults' \in 0..MaxFaults
    <3>1. [status |-> "APPROVED", closedByApp |-> FALSE] \in Row
      BY DEF Row
    <3> QED BY <1>1, <1>2, <1>7, <3>1 DEF SweepMarks
  <2> QED BY <1>1, <1>3, <1>7, <2>1 DEF SweepMarks, OutsideEffect, TasksGrow
<1> QED BY <1>4, <1>5, <1>6, <1>7 DEF Sweep

LEMMA ConvTypesStep == ConvTypes /\ [Next]_vars => ConvTypes'
<1> SUFFICES ASSUME ConvTypes, [Next]_vars PROVE ConvTypes'
  OBVIOUS
<1>1. CASE UNCHANGED vars
  BY <1>1 DEF vars, ConvTypes, TypeOK, Shape
<1>2. CASE People \/ Sweep
  BY <1>2, PeopleTypes, SweepTypes, OutsideEffectTypes
<1>3. CASE Gate \/ GateRetry
  BY <1>3, GateTypes, GateEffectTypes
<1>4. CASE Fan \/ FanRetry
  BY <1>4, FanTypes, FanEffectTypes
<1> QED BY <1>1, <1>2, <1>3, <1>4 DEF Next
-----------------------------------------------------------------------------
(* An author who was never approved: what each move of the queues keeps. *)
LEMMA Lined ==
  ASSUME ConvTypes
  PROVE  /\ tasks \in Seq(Envelopes) /\ inbox \in Seq(Envelopes)
         /\ Len(tasks) \in Nat /\ Len(inbox) \in Nat
         /\ First \in {1, 2} /\ (First = 2 => inbox # <<>>)
         /\ Has(inbox, First) => Has(inbox, 1)
         /\ tasks # <<>> => Kind = tasks[1].kind /\ 1 \in 1..Len(tasks) /\ Head(tasks) \in Envelopes
         /\ inbox # <<>> => Head(inbox) \in Envelopes
<1>1. tasks \in Seq(Envelopes) /\ inbox \in Seq(Envelopes)
  BY DEF ConvTypes, TypeOK
<1>2. First \in {1, 2} /\ (First = 2 => inbox # <<>>)
  BY DEF First, Spent, ConvTypes, Shape
<1>3. Has(inbox, First) => Has(inbox, 1)
  BY <1>2 DEF Has
<1>4. tasks # <<>> => Kind = tasks[1].kind /\ 1 \in 1..Len(tasks) /\ Head(tasks) \in Envelopes
  BY <1>1, AtTheFront DEF Kind
<1>5. inbox # <<>> => Head(inbox) \in Envelopes
  BY <1>1, AtTheFront
<1> QED BY <1>1, <1>2, <1>3, <1>4, <1>5, LenProperties

(* A close is only ever added to what closes an open PR. *)
LEMMA TaskPushed ==
  ASSUME ConvTypes, Kept, NEW e \in Envelopes, tasks' = Append(tasks, e), inbox' = inbox,
         row'.closedByApp = row.closedByApp, e.kind = "closed" => pr = "open"
  PROVE  /\ NoneDropped'
         /\ Has(tasks, 1) \/ Closes(e) => Has(tasks, 1)'
         /\ e.kind \notin {"approved", "revoked"} => \A k \in 1..Len(tasks') : tasks'[k].kind \notin {"approved", "revoked"}
<1>1. /\ Has(tasks, 1) \/ Closes(e) => Has(Append(tasks, e), 1)
      /\ Headed(tasks) /\ (e.kind = "closed" => Has(tasks, 1)) => Headed(Append(tasks, e))
  BY Lined, Pushed
<1>2. Has(tasks, 1)' = Has(Append(tasks, e), 1) /\ Headed(tasks)' = Headed(Append(tasks, e))
      /\ Has(inbox, 1)' = Has(inbox, 1) /\ Headed(inbox)' = Headed(inbox)
  BY DEF Has, Headed, Closes
<1>3. NoneDropped'
  <2> SUFFICES ASSUME row.closedByApp = FALSE PROVE Headed(inbox) /\ (Has(inbox, 1) \/ Headed(Append(tasks, e)))
    BY <1>2 DEF NoneDropped
  <2>1. Headed(inbox) /\ (Has(inbox, 1) \/ Headed(tasks))
    BY DEF Kept, NoneDropped
  <2>2. e.kind = "closed" => Has(inbox, 1) \/ Has(tasks, 1)
    BY Lined DEF Kept, SomeoneCloses
  <2> QED BY <1>1, <2>1, <2>2
<1>4. e.kind \notin {"approved", "revoked"} => \A k \in 1..Len(tasks') : tasks'[k].kind \notin {"approved", "revoked"}
  <2>1. /\ Len(tasks) \in Nat /\ Len(tasks') = Len(tasks) + 1
        /\ \A k \in 1..Len(tasks) : tasks'[k] = tasks[k]
        /\ tasks'[Len(tasks) + 1] = e
    BY Lined, AtTheBack
  <2>2. \A k \in 1..Len(tasks) : tasks[k].kind \notin {"approved", "revoked"}
    BY DEF Kept, Unapproved
  <2> QED BY <2>1, <2>2
<1> QED BY <1>1, <1>2, <1>3, <1>4

LEMMA TaskPopped ==
  ASSUME ConvTypes, Kept, tasks # <<>>, tasks' = Tail(tasks), inbox' = inbox,
         row'.closedByApp = row.closedByApp, ~Closes(Head(tasks))
  PROVE  /\ NoneDropped'
         /\ Has(tasks, 1) => Has(tasks, 1)'
         /\ \A k \in 1..Len(tasks') : tasks'[k].kind \notin {"approved", "revoked"}
<1>1. /\ Has(tasks, 1) => Has(Tail(tasks), 1)
      /\ Headed(tasks) => Headed(Tail(tasks))
  BY Lined, Popped
<1>2. Has(tasks, 1)' = Has(Tail(tasks), 1) /\ Headed(tasks)' = Headed(Tail(tasks))
      /\ Has(inbox, 1)' = Has(inbox, 1) /\ Headed(inbox)' = Headed(inbox)
  BY DEF Has, Headed, Closes
<1>3. NoneDropped'
  BY <1>1, <1>2 DEF Kept, NoneDropped
<1>4. \A k \in 1..Len(tasks') : tasks'[k].kind \notin {"approved", "revoked"}
  <2>1. /\ Len(tasks) \in Nat \ {0} /\ Len(tasks') = Len(tasks) - 1
        /\ \A k \in 1..(Len(tasks) - 1) : tasks'[k] = tasks[k + 1]
    BY Lined, AtTheFront
  <2>2. \A k \in 1..Len(tasks) : tasks[k].kind \notin {"approved", "revoked"}
    BY DEF Kept, Unapproved
  <2> QED BY <2>1, <2>2
<1> QED BY <1>1, <1>2, <1>3, <1>4

LEMMA InboxPopped ==
  ASSUME ConvTypes, Kept, inbox # <<>>, inbox' = Tail(inbox), tasks' = tasks,
         row'.closedByApp = row.closedByApp, ~Closes(Head(inbox))
  PROVE  NoneDropped' /\ (Has(inbox, 1) => Has(inbox, 1)') /\ (Has(tasks, 1) => Has(tasks, 1)')
<1>1. /\ Has(inbox, 1) => Has(Tail(inbox), 1)
      /\ Headed(inbox) => Headed(Tail(inbox))
  BY Lined, Popped
<1>2. Has(inbox, 1)' = Has(Tail(inbox), 1) /\ Headed(inbox)' = Headed(Tail(inbox))
      /\ Has(tasks, 1)' = Has(tasks, 1) /\ Headed(tasks)' = Headed(tasks)
  BY DEF Has, Headed, Closes
<1> QED BY <1>1, <1>2 DEF Kept, NoneDropped

(* A step that leaves the queues, the PR and the mark alone. *)
LEMMA QueuesApart ==
  ASSUME ConvTypes, Kept, UNCHANGED <<pr, tasks, inbox>>, row'.closedByApp = row.closedByApp,
         First' \in {1, First}
  PROVE  SomeoneCloses' /\ NoneDropped'
<1>1. /\ Has(tasks, 1)' = Has(tasks, 1) /\ Headed(tasks)' = Headed(tasks)
      /\ Has(inbox, 1)' = Has(inbox, 1) /\ Headed(inbox)' = Headed(inbox)
      /\ Has(inbox, First)' = Has(inbox, First')
  BY DEF Has, Headed, Closes
<1> QED BY <1>1, Lined DEF Kept, NoneDropped, SomeoneCloses

LEMMA NeverPeople ==
  ASSUME ConvTypes, Kept, People, "approved" \notin past' PROVE Kept'
<1>1. /\ past \subseteq {"denied"} /\ \A i \in 1..Len(apps) : apps[i] # "APPROVED"
      /\ apps \in Seq({"SUBMITTED", "APPROVED", "DENIED"}) /\ Len(apps) \in Nat
      /\ DOMAIN apps = 1..Len(apps)
  BY LenProperties DEF Kept, Unapproved, ConvTypes, TypeOK
<1>2. ASSUME NEW state, NEW kind \in {"gate", "evaluate", "closed"}, NEW closed \in BOOLEAN,
             Act(state, Event(kind, closed)), kind = "closed" => pr = "open",
             state = "open" => pr = "open" \/ (kind = "gate" /\ closed = FALSE)
      PROVE  Kept'
  <2> DEFINE e == Event(kind, closed)
  <2>1. e \in Envelopes /\ e.kind = kind /\ e.closed = closed
    BY BoundsOK DEF Event, Envelopes, TaskKinds, Bounds
  <2>2. /\ tasks' = Append(tasks, e) /\ pr' = state
        /\ UNCHANGED <<apps, row, inbox, gate, sweep, past>>
    BY <1>2 DEF Act, ghosts
  <2>3. /\ NoneDropped' /\ (Has(tasks, 1) \/ Closes(e) => Has(tasks, 1)')
        /\ \A k \in 1..Len(tasks') : tasks'[k].kind \notin {"approved", "revoked"}
    BY <1>2, <2>1, <2>2, TaskPushed
  <2>4. Has(inbox, First)' = Has(inbox, First)
    BY <2>2 DEF Has, First, Spent
  <2>5. SomeoneCloses'
    BY <1>2, <2>1, <2>2, <2>3, <2>4 DEF SomeoneCloses, Kept, Closes
  <2>6. Unapproved'
    BY <2>2, <2>3 DEF Unapproved, Kept
  <2> QED BY <2>3, <2>5, <2>6 DEF Kept
<1>3. ASSUME NEW from, NEW to \in {"APPROVED", "DENIED", "SUBMITTED"}, NEW kind \in DecisionKinds,
             Decide(from, to, kind), kind = "denied" => to # "APPROVED",
             kind = "revoked" => from = {"APPROVED"}
      PROVE  Kept'
  <2>1. PICK i \in DOMAIN apps : apps[i] \in from /\ apps' = [apps EXCEPT ![i] = to] /\ tasks' = Append(tasks, Decision(kind, i))
    BY <1>3 DEF Decide
  <2>2. kind = "denied"
    BY <1>1, <1>3, <2>1 DEF Decide, DecisionKinds
  <2> DEFINE e == Decision(kind, i)
  <2>3. e \in Envelopes /\ e.kind = "denied"
    <3>1. i \in 1..(MaxDecisions + 1)
      BY <1>1, <2>1, BoundsOK DEF ConvTypes, TypeOK, Bounds
    <3> QED BY <2>2, <3>1, BoundsOK DEF Decision, Envelopes, TaskKinds, DecisionKinds, Bounds
  <2>4. UNCHANGED <<pr, row, inbox, gate, sweep>> /\ past' = past \cup {"denied"}
    BY <1>3, <2>2 DEF Decide
  <2>5. /\ NoneDropped' /\ (Has(tasks, 1) => Has(tasks, 1)')
        /\ \A k \in 1..Len(tasks') : tasks'[k].kind \notin {"approved", "revoked"}
    BY <2>1, <2>3, <2>4, TaskPushed
  <2>6. Has(inbox, First)' = Has(inbox, First)
    BY <2>4 DEF Has, First, Spent
  <2>7. SomeoneCloses'
    BY <2>4, <2>5, <2>6 DEF SomeoneCloses, Kept
  <2>8. Len(apps') = Len(apps) /\ \A j \in 1..Len(apps) : apps'[j] # "APPROVED"
    BY <1>1, <1>3, <2>1, <2>2, ExceptSeq
  <2>9. past' \subseteq {"denied"}
    BY <1>1, <2>4
  <2>10. Unapproved'
    BY <2>4, <2>5, <2>8, <2>9 DEF Unapproved, Kept
  <2> QED BY <2>5, <2>7, <2>10 DEF Kept
<1>4. CASE AskReGate
  <2>1. UNCHANGED <<apps, pr, row, tasks, inbox, gate, sweep, past>>
    BY <1>4 DEF AskReGate, ghosts
  <2>2. First' = First
    BY <2>1 DEF First, Spent
  <2> QED BY <2>1, <2>2, QueuesApart DEF Kept, Unapproved
<1>5. CASE Resubmit
  <2>1. UNCHANGED <<pr, row, tasks, inbox, gate, sweep, past>> /\ apps' = Append(apps, "SUBMITTED")
    BY <1>5 DEF Resubmit, work, ghosts
  <2>2. First' = First
    BY <2>1 DEF First, Spent
  <2>3. \A i \in 1..Len(apps') : apps'[i] # "APPROVED"
    <3>1. /\ Len(apps') = Len(apps) + 1 /\ apps'[Len(apps) + 1] = "SUBMITTED"
          /\ \A i \in 1..Len(apps) : apps'[i] = apps[i]
      BY <1>1, <2>1, AtTheBack
    <3> QED BY <1>1, <3>1
  <2>4. Unapproved'
    BY <2>1, <2>3 DEF Kept, Unapproved
  <2> QED BY <2>1, <2>2, <2>4, QueuesApart DEF Kept
<1>6. CASE Push \/ HumanCloses \/ Merge \/ HumanReopens
  BY <1>2, <1>6 DEF Push, HumanCloses, Merge, HumanReopens
<1>7. CASE Label
  <2>1. (pr # "open") \in BOOLEAN
    OBVIOUS
  <2> QED BY <1>2, <1>7, <2>1 DEF Label
<1>8. CASE approveAction \/ denyAction \/ revokeAction
  BY <1>3, <1>8 DEF approveAction, denyAction, revokeAction, DecisionKinds
<1> QED BY <1>4, <1>5, <1>6, <1>7, <1>8 DEF People

LEMMA NeverGate ==
  ASSUME ConvTypes, Kept, Gate \/ GateRetry, lapses' \subseteq {"cut"} PROVE Kept'
<1>1. /\ gate \in GateSlot /\ gate.event \in BOOLEAN /\ gate.closed \in BOOLEAN
      /\ row \in Row /\ row.closedByApp \in BOOLEAN
      /\ InHand(gate, inbox)
  BY DEF ConvTypes, TypeOK, Shape, InHand, GateSlot, Row
<1>2. /\ gate.verdict # "APPROVED" /\ gate.at \notin {"check", "reopen", "unmark"} /\ row.status # "APPROVED"
      /\ Newest # "APPROVED"
  BY DEF Kept, Unapproved, Newest, ConvTypes, TypeOK
<1>3. UNCHANGED <<apps, fan, sweep, past>>
  BY GateTypes DEF GateEffect
<1>4. gate'.at # "mark" => First' = 1
  BY DEF First, Spent
<1>5. gate.at # "mark" => First = 1
  BY DEF First, Spent
<1>6. NoConverge.at = "idle" /\ NoConverge.verdict = "none" /\ NoConverge.event = FALSE
  BY DEF NoConverge
<1>7. ASSUME UNCHANGED tasks, row'.status # "APPROVED", gate'.verdict # "APPROVED",
             gate'.at \notin {"check", "reopen", "unmark"}
      PROVE  Unapproved'
  BY <1>3, <1>7 DEF Kept, Unapproved
<1>8. CASE TakeEvent \/ TakeReGate \/ Fetch \/ GateRetry
  <2>1. UNCHANGED <<pr, row, tasks, inbox>>
    BY <1>8 DEF TakeEvent, TakeReGate, Fetch, GateRetry
  <2>2. gate'.at \in {"idle", "decide", "fetch"} /\ gate'.verdict # "APPROVED"
    <3>1. CASE TakeEvent
      BY <3>1 DEF TakeEvent
    <3>2. CASE TakeReGate
      BY <3>2 DEF TakeReGate, NoConverge
    <3>3. CASE Fetch
      <4>1. CASE gate' = NoConverge
        BY <4>1, <1>6
      <4>2. CASE gate' = [gate EXCEPT !.at = "decide", !.closed = pr # "open"]
        <5>1. gate'.at = "decide" /\ gate'.verdict = gate.verdict
          BY <1>1, <4>2 DEF GateSlot
        <5> QED BY <1>2, <5>1
      <4> QED BY <3>3, <4>1, <4>2 DEF Fetch
    <3>4. CASE GateRetry
      <4>1. CASE gate' = [gate EXCEPT !.at = "decide", !.verdict = "none"]
        BY <1>1, <4>1 DEF GateSlot
      <4>2. CASE gate' = [NoConverge EXCEPT !.at = "fetch", !.reEval = TRUE]
        BY <4>2 DEF NoConverge
      <4> QED BY <3>4, <4>1, <4>2 DEF GateRetry
    <3> QED BY <1>8, <3>1, <3>2, <3>3, <3>4
  <2> QED BY <1>2, <1>4, <1>7, <2>1, <2>2, QueuesApart DEF Kept
<1>9. CASE handlePrClosed
  <2>1. /\ inbox # <<>> /\ Head(inbox).kind = "closed" /\ gate.at = "idle"
        /\ UNCHANGED <<pr, row, tasks, gate>>
        /\ row.closedByApp => inbox' = Tail(inbox)
    BY <1>9 DEF handlePrClosed
  <2>2. row.closedByApp
    BY <1>1, <2>1, Lined, Popped DEF Kept, NoneDropped
  <2>3. ~Closes(Head(inbox))
    BY <2>1 DEF Closes
  <2>4. NoneDropped' /\ (Has(inbox, 1) => Has(inbox, 1)') /\ (Has(tasks, 1) => Has(tasks, 1)')
    BY <2>1, <2>2, <2>3, InboxPopped
  <2>5. Has(inbox, First)' = Has(inbox, 1)'
    BY <1>4, <2>1 DEF Has
  <2>6. SomeoneCloses'
    BY <1>5, <2>1, <2>4, <2>5 DEF Kept, SomeoneCloses
  <2> QED BY <1>2, <1>7, <2>1, <2>4, <2>6 DEF Kept
<1>10. CASE DecideForPR
  <2>1. PICK v \in Verdicts : gate' = [gate EXCEPT !.at = "upsert", !.verdict = v]
    BY <1>10 DEF DecideForPR
  <2>2. v # "APPROVED"
    BY <1>2 DEF Verdicts, Blocking
  <2>3. gate'.at = "upsert" /\ gate'.verdict # "APPROVED"
    BY <1>1, <2>1, <2>2 DEF GateSlot
  <2>4. UNCHANGED <<pr, row, tasks, inbox>>
    BY <1>10 DEF DecideForPR
  <2> QED BY <1>2, <1>4, <1>7, <2>3, <2>4, QueuesApart DEF Kept
<1>11. CASE Upsert
  <2>1. /\ UNCHANGED <<pr, tasks>> /\ row' = [row EXCEPT !.status = gate.verdict] /\ gate.at = "upsert"
    BY <1>11 DEF Upsert
  <2>2. row'.closedByApp = row.closedByApp /\ row'.status = gate.verdict
    BY <1>1, <2>1 DEF Row
  <2>3. CASE gate' = [gate EXCEPT !.at = "close"] /\ inbox' = inbox
    <3>1. gate'.at = "close" /\ gate'.verdict = gate.verdict
      BY <1>1, <2>3 DEF GateSlot
    <3> QED BY <1>2, <1>4, <1>7, <2>1, <2>2, <2>3, <3>1, QueuesApart DEF Kept
  <2>4. CASE gate.closed /\ Converged
    <3>1. gate' = NoConverge /\ inbox' = IF gate.event THEN Tail(inbox) ELSE inbox
      BY <2>4 DEF Converged
    <3>2. Unapproved'
      BY <1>2, <1>6, <1>7, <2>1, <2>2, <3>1
    <3>3. CASE gate.event
      <4>1. inbox # <<>> /\ ~Closes(Head(inbox))
        BY <1>1, <2>4, <3>3 DEF InHand, Closes
      <4>2. NoneDropped' /\ (Has(inbox, 1) => Has(inbox, 1)') /\ (Has(tasks, 1) => Has(tasks, 1)')
        BY <2>1, <2>2, <3>1, <3>3, <4>1, InboxPopped
      <4>3. Has(inbox, First)' = Has(inbox, 1)'
        BY <1>4, <1>6, <3>1 DEF Has
      <4>4. SomeoneCloses'
        BY <1>5, <2>1, <4>2, <4>3 DEF Kept, SomeoneCloses
      <4> QED BY <3>2, <4>2, <4>4 DEF Kept
    <3>4. CASE ~gate.event
      BY <1>4, <1>6, <2>1, <2>2, <3>1, <3>2, <3>4, QueuesApart DEF Kept
    <3> QED BY <3>3, <3>4
  <2> QED BY <1>2, <1>11, <2>3, <2>4 DEF Upsert
<1>12. CASE GateCloses
  <2>1. closePullRequest /\ gate' = [gate EXCEPT !.at = "mark"] /\ UNCHANGED <<row, inbox>>
    BY <1>12 DEF GateCloses
  <2>2. gate'.at = "mark" /\ gate'.verdict = gate.verdict
    BY <1>1, <2>1 DEF GateSlot
  <2>3. CASE pr = "open"
    <3>1. pr' = "botClosed" /\ tasks' = Append(tasks, Event("closed", TRUE))
      BY <2>1, <2>3 DEF closePullRequest
    <3>2. Event("closed", TRUE) \in Envelopes /\ Event("closed", TRUE).kind = "closed"
      BY BoundsOK DEF Event, Envelopes, TaskKinds, Bounds
    <3>3. NoneDropped' /\ \A k \in 1..Len(tasks') : tasks'[k].kind \notin {"approved", "revoked"}
      BY <2>1, <2>3, <3>1, <3>2, TaskPushed
    <3>4. SomeoneCloses'
      BY <3>1 DEF SomeoneCloses
    <3>5. Unapproved'
      BY <1>2, <1>3, <2>1, <2>2, <3>3 DEF Kept, Unapproved
    <3> QED BY <3>3, <3>4, <3>5 DEF Kept
  <2>4. CASE pr # "open"
    <3>1. UNCHANGED <<pr, tasks>>
      BY <2>1, <2>4 DEF closePullRequest
    <3>2. NoneDropped' /\ SomeoneCloses'
      BY <2>1, <2>4, <3>1 DEF Kept, NoneDropped, SomeoneCloses, Headed, Has, Closes
    <3> QED BY <1>2, <1>7, <2>1, <2>2, <3>1, <3>2 DEF Kept
  <2> QED BY <2>3, <2>4
<1>13. CASE GateMarks
  <2>1. /\ gate.at = "mark" /\ Converged /\ UNCHANGED <<pr, tasks>>
        /\ row' = [row EXCEPT !.closedByApp = (gate.at = "mark")]
    BY <1>2, <1>13 DEF GateMarks
  <2>2. row'.closedByApp = TRUE /\ row'.status = row.status
    BY <1>1, <2>1 DEF Row
  <2>3. gate' = NoConverge /\ inbox' = IF gate.event THEN Tail(inbox) ELSE inbox
    BY <2>1 DEF Converged
  <2>4. Unapproved'
    BY <1>2, <1>6, <1>7, <2>1, <2>2, <2>3
  <2>5. NoneDropped'
    BY <2>2 DEF NoneDropped
  <2>6. Has(inbox, First) => Has(inbox', 1)
    <3>1. CASE gate.event
      <4>1. First = 2 /\ inbox # <<>> /\ inbox' = Tail(inbox)
        BY <1>1, <2>1, <2>3, <3>1 DEF First, Spent, InHand
      <4>2. Has(inbox, 2) => Has(Tail(inbox), 1)
        BY <4>1, Lined, Popped
      <4> QED BY <4>1, <4>2
    <3>2. CASE ~gate.event
      BY <2>3, <3>2, Lined
    <3> QED BY <3>1, <3>2
  <2>7. Has(inbox, First)' = Has(inbox', 1) /\ Has(tasks, 1)' = Has(tasks, 1)
    BY <1>4, <1>6, <2>1, <2>3 DEF Has, Closes
  <2>8. SomeoneCloses'
    BY <2>1, <2>6, <2>7 DEF Kept, SomeoneCloses
  <2> QED BY <2>4, <2>5, <2>8 DEF Kept
<1>14. CASE CheckClosedByApp \/ GateReopens
  BY <1>2, <1>14 DEF CheckClosedByApp, GateReopens
<1> QED BY <1>8, <1>9, <1>10, <1>11, <1>12, <1>13, <1>14 DEF Gate

LEMMA NeverFan ==
  ASSUME ConvTypes, Kept, Fan \/ FanRetry, lapses' \subseteq {"cut"} PROVE Kept'
<1>1. UNCHANGED <<apps, gate, sweep, past>>
  BY FanTypes DEF FanEffect
<1>2. row \in Row /\ row.status # "APPROVED"
  BY DEF Kept, Unapproved, ConvTypes, TypeOK, Row
<1>3. /\ fan # "idle" => tasks # <<>> /\ Kind \in DecisionKinds
      /\ tasks # <<>> => Kind \notin {"approved", "revoked"} /\ Head(tasks).kind = Kind
  <2>1. \A k \in 1..Len(tasks) : tasks[k].kind \notin {"approved", "revoked"}
    BY DEF Kept, Unapproved
  <2> QED BY <2>1, Lined DEF ConvTypes, Shape, Kind
<1>4. First' = First
  BY <1>1 DEF First, Spent
<1>5. ASSUME UNCHANGED <<pr, tasks, inbox>>, row'.closedByApp = row.closedByApp, row'.status # "APPROVED"
      PROVE  Kept'
  <2>1. Unapproved'
    BY <1>1, <1>5 DEF Kept, Unapproved
  <2> QED BY <1>4, <1>5, <2>1, QueuesApart DEF Kept
<1>6. ASSUME UNCHANGED <<pr, inbox>>, row'.closedByApp = row.closedByApp, row'.status # "APPROVED",
             tasks # <<>>, tasks' = Tail(tasks), Kind \in DecisionKinds
      PROVE  Kept'
  <2>1. ~Closes(Head(tasks))
    BY <1>3, <1>6 DEF Closes, DecisionKinds
  <2>2. /\ NoneDropped' /\ (Has(tasks, 1) => Has(tasks, 1)')
        /\ \A k \in 1..Len(tasks') : tasks'[k].kind \notin {"approved", "revoked"}
    BY <1>6, <2>1, TaskPopped
  <2>3. Has(inbox, First)' = Has(inbox, First)
    BY <1>4, <1>6 DEF Has
  <2>4. SomeoneCloses'
    BY <1>6, <2>2, <2>3 DEF Kept, SomeoneCloses
  <2>5. Unapproved'
    BY <1>1, <1>6, <2>2 DEF Kept, Unapproved
  <2> QED BY <2>2, <2>4, <2>5 DEF Kept
<1>7. CASE deliverPrEvent
  <2> DEFINE e == Head(tasks)
  <2>1. /\ tasks # <<>> /\ tasks' = Tail(tasks) /\ inbox' = Append(inbox, e) /\ UNCHANGED <<pr, row>>
    BY <1>7 DEF deliverPrEvent, TaskDone
  <2>2. e \in Envelopes /\ First \in 1..(Len(inbox) + 1) /\ 1 \in 1..(Len(inbox) + 1)
    <3>1. inbox # <<>> => Len(inbox) \in Nat \ {0}
      BY Lined, EmptySeq
    <3> QED BY <2>1, <3>1, Lined
  <2>3. /\ Has(inbox, First) \/ Closes(e) => Has(Append(inbox, e), First)
        /\ Has(inbox, 1) \/ Closes(e) => Has(Append(inbox, e), 1)
        /\ Headed(inbox) /\ (e.kind = "closed" => Has(inbox, 1)) => Headed(Append(inbox, e))
    BY <2>2, Lined, Pushed
  <2>4. /\ Has(tasks, 2) => Has(Tail(tasks), 1)
        /\ Has(tasks, 1) /\ ~Closes(e) => Has(tasks, 2)
        /\ Headed(tasks) => e.kind # "closed"
        /\ Headed(tasks) /\ ~Closes(e) => Headed(Tail(tasks))
    BY <2>1, Lined, Popped
  <2>5. /\ Has(inbox, First)' = Has(Append(inbox, e), First) /\ Has(inbox, 1)' = Has(Append(inbox, e), 1)
        /\ Headed(inbox)' = Headed(Append(inbox, e))
        /\ Has(tasks, 1)' = Has(Tail(tasks), 1) /\ Headed(tasks)' = Headed(Tail(tasks))
    BY <1>4, <2>1 DEF Has, Headed, Closes
  <2>6. SomeoneCloses'
    BY <2>1, <2>3, <2>4, <2>5 DEF Kept, SomeoneCloses
  <2>7. NoneDropped'
    <3> SUFFICES ASSUME row.closedByApp = FALSE
                 PROVE  Headed(Append(inbox, e)) /\ (Has(Append(inbox, e), 1) \/ Headed(Tail(tasks)))
      BY <2>1, <2>5 DEF NoneDropped
    <3>1. Headed(inbox) /\ (Has(inbox, 1) \/ Headed(tasks))
      BY DEF Kept, NoneDropped
    <3> QED BY <2>3, <2>4, <3>1
  <2>8. \A k \in 1..Len(tasks') : tasks'[k].kind \notin {"approved", "revoked"}
    <3>1. /\ Len(tasks) \in Nat \ {0} /\ Len(tasks') = Len(tasks) - 1
          /\ \A k \in 1..(Len(tasks) - 1) : tasks'[k] = tasks[k + 1]
      BY <2>1, Lined, AtTheFront
    <3>2. \A k \in 1..Len(tasks) : tasks[k].kind \notin {"approved", "revoked"}
      BY DEF Kept, Unapproved
    <3> QED BY <3>1, <3>2
  <2>9. Unapproved'
    BY <1>1, <1>2, <2>1, <2>8 DEF Kept, Unapproved
  <2> QED BY <2>6, <2>7, <2>9 DEF Kept
<1>8. CASE LoadApplication
  <2>1. UNCHANGED <<pr, row, inbox>> /\ Kind \in DecisionKinds /\ tasks # <<>>
    BY <1>8 DEF LoadApplication
  <2>2. tasks' = tasks \/ tasks' = Tail(tasks)
    BY <1>8 DEF LoadApplication, TaskDone
  <2> QED BY <1>2, <1>5, <1>6, <2>1, <2>2
<1>9. CASE SelectChecks
  <2>1. UNCHANGED <<pr, row, inbox>> /\ fan # "idle"
    BY <1>9 DEF SelectChecks
  <2>2. tasks' = tasks \/ tasks' = Tail(tasks)
    BY <1>9 DEF SelectChecks, TaskDone
  <2> QED BY <1>2, <1>3, <1>5, <1>6, <2>1, <2>2
<1>10. CASE FanActs
  <2>1. fan # "idle" /\ UNCHANGED <<row, inbox>>
    BY <1>10 DEF FanActs
  <2>2. Kind = "denied"
    BY <1>3, <2>1 DEF DecisionKinds
  <2>3. UNCHANGED pr /\ (tasks' = tasks \/ tasks' = Tail(tasks))
    BY <1>10, <2>2 DEF FanActs, TaskDone
  <2> QED BY <1>2, <1>3, <1>5, <1>6, <2>1, <2>3
<1>11. CASE FanMarks
  <2>1. fan # "idle" /\ tasks' = Tail(tasks) /\ UNCHANGED <<pr, inbox>>
    BY <1>11 DEF FanMarks, TaskDone
  <2>2. Kind = "denied"
    BY <1>3, <2>1 DEF DecisionKinds
  <2>3. row' = [row EXCEPT !.status = "DENIED"] \/ row' = row
    BY <1>11, <2>2 DEF FanMarks
  <2>4. row'.closedByApp = row.closedByApp /\ row'.status # "APPROVED"
    BY <1>2, <2>3 DEF Row
  <2> QED BY <1>3, <1>6, <2>1, <2>4
<1>12. CASE FanRetry
  BY <1>2, <1>5, <1>12 DEF FanRetry
<1> QED BY <1>7, <1>8, <1>9, <1>10, <1>11, <1>12 DEF Fan

LEMMA NeverSweep ==
  ASSUME ConvTypes, Kept, Sweep PROVE Kept'
<1>1. sweep \notin {"reopen", "mark"} /\ Newest # "APPROVED"
  BY DEF Kept, Unapproved, Newest, ConvTypes, TypeOK
<1>2. UNCHANGED <<apps, pr, row, tasks, inbox, gate, past>> /\ sweep' \in {"idle", "decide"}
  BY <1>1 DEF Sweep, SweepSelects, SweepDecides, SweepReopens, SweepMarks, SweepStep, ghosts
<1>3. First' = First
  BY <1>2 DEF First, Spent
<1>4. Unapproved'
  BY <1>2 DEF Kept, Unapproved
<1> QED BY <1>2, <1>3, <1>4, QueuesApart DEF Kept

(* Decisions and lapses are never forgotten. *)
LEMMA Remembered ==
  ASSUME Next PROVE past \subseteq past' /\ lapses \subseteq lapses'
<1>1. CASE People
  BY <1>1 DEF People, Push, HumanCloses, Merge, HumanReopens, Label, Act, AskReGate, approveAction,
              denyAction, revokeAction, Decide, Resubmit, ghosts
<1>2. CASE Sweep
  BY <1>2 DEF Sweep, SweepSelects, SweepDecides, SweepReopens, SweepMarks, SweepStep, ghosts
<1>3. CASE Gate
  BY <1>3 DEF Gate, TakeEvent, handlePrClosed, TakeReGate, Fetch, DecideForPR, Upsert, CheckClosedByApp,
              GateReopens, GateCloses, GateMarks, GateStep, ghosts
<1>4. CASE GateRetry
  BY <1>4 DEF GateRetry, GateStep
<1>5. CASE Fan \/ FanRetry
  BY <1>5 DEF Fan, FanRetry, deliverPrEvent, LoadApplication, SelectChecks, FanActs, FanMarks, FanStep
<1> QED BY <1>1, <1>2, <1>3, <1>4, <1>5 DEF Next

LEMMA NeverStep == ConvTypes /\ NeverInv /\ [Next]_vars => NeverInv'
<1> SUFFICES ASSUME ConvTypes, NeverInv, [Next]_vars, "approved" \notin past', lapses' \subseteq {"cut"}
             PROVE  Kept'
  BY DEF NeverInv
<1>1. CASE UNCHANGED vars
  <2>1. Kept
    BY <1>1 DEF NeverInv, vars
  <2>2. UNCHANGED <<apps, pr, row, tasks, inbox, gate, sweep, past>>
    BY <1>1 DEF vars
  <2>3. First' = First
    BY <2>2 DEF First, Spent
  <2>4. Unapproved'
    BY <2>1, <2>2 DEF Kept, Unapproved
  <2> QED BY <2>1, <2>2, <2>3, <2>4, QueuesApart DEF Kept
<1>2. CASE Next
  <2>1. Kept
    BY <1>2, Remembered DEF NeverInv
  <2> QED BY <1>2, <2>1, NeverPeople, NeverGate, NeverFan, NeverSweep DEF Next
<1> QED BY <1>1, <1>2

(* Every state and step of the four writers is one the model's types describe. *)
THEOREM ConvergenceTypes == Spec => []TypeOK
<1>1. ConvTypes => TypeOK
  BY DEF ConvTypes
<1> QED BY <1>1, ConvInit, ConvTypesStep, PTL DEF Spec

(* src/README.md:3: in whatever order an author who was never approved, reviewers who *)
(* deny, prGate, fan-outs and sweeps act, and however often workers die, once all is  *)
(* dealt with the PR is not open, unless GitHub refused a close or a mark was lost.    *)
THEOREM UnapprovedIsClosed == Spec => []NeverApprovedStaysClosed
<1>1. ConvTypes /\ NeverInv => NeverApprovedStaysClosed
  <2> SUFFICES ASSUME Quiet, Kept PROVE pr # "open"
    BY DEF NeverInv, NeverApprovedStaysClosed
  <2>1. ~Has(tasks, 1) /\ ~Has(inbox, First)
    BY DEF Quiet, Has
  <2> QED BY <2>1 DEF Kept, SomeoneCloses
<1> QED BY <1>1, ConvInit, ConvTypesStep, NeverStep, PTL DEF Spec
-----------------------------------------------------------------------------
(* Decisions that are only approvals: what the tasks keep. *)
LEMMA StillApproved ==
  ASSUME ConvTypes, OnlyApproved, apps' = apps, sweep' \in {"reopen", "mark"} => apps[1] = "APPROVED",
         \/ tasks' = tasks
         \/ tasks # <<>> /\ tasks' = Tail(tasks)
         \/ \E e \in Envelopes : e.kind \notin DecisionKinds /\ tasks' = Append(tasks, e)
  PROVE  OnlyApproved'
<1>1. \A k \in 1..Len(tasks) : tasks[k].kind \in DecisionKinds => tasks[k].kind = "approved" /\ apps[1] = "APPROVED"
  BY DEF OnlyApproved
<1>2. \A k \in 1..Len(tasks') : tasks'[k].kind \in DecisionKinds => tasks'[k].kind = "approved" /\ apps[1] = "APPROVED"
  <2>1. CASE tasks' = tasks
    BY <1>1, <2>1
  <2>2. CASE tasks # <<>> /\ tasks' = Tail(tasks)
    <3>1. /\ Len(tasks) \in Nat \ {0} /\ Len(tasks') = Len(tasks) - 1
          /\ \A k \in 1..(Len(tasks) - 1) : tasks'[k] = tasks[k + 1]
      BY <2>2, Lined, AtTheFront
    <3> QED BY <1>1, <3>1
  <2>3. ASSUME NEW e \in Envelopes, e.kind \notin DecisionKinds, tasks' = Append(tasks, e)
        PROVE  \A k \in 1..Len(tasks') : tasks'[k].kind \in DecisionKinds =>
                 tasks'[k].kind = "approved" /\ apps[1] = "APPROVED"
    <3>1. /\ Len(tasks) \in Nat /\ Len(tasks') = Len(tasks) + 1
          /\ \A k \in 1..Len(tasks) : tasks'[k] = tasks[k]
          /\ tasks'[Len(tasks) + 1] = e
      BY <2>3, Lined, AtTheBack
    <3> QED BY <1>1, <2>3, <3>1
  <2> QED BY <2>1, <2>2, <2>3
<1> QED BY <1>2 DEF OnlyApproved

LEMMA Plain ==
  /\ \A kind \in {"gate", "evaluate", "closed"}, closed \in BOOLEAN :
       Event(kind, closed) \in Envelopes /\ Event(kind, closed).kind \notin DecisionKinds
  /\ closePullRequest => /\ pr' # "open" /\ (pr' = "botClosed" \/ pr' = pr)
                         /\ \/ tasks' = tasks
                            \/ \E e \in Envelopes : e.kind \notin DecisionKinds /\ tasks' = Append(tasks, e)
  /\ reopenPullRequest => /\ pr' = "open"
                          /\ \/ tasks' = tasks
                             \/ \E e \in Envelopes : e.kind \notin DecisionKinds /\ tasks' = Append(tasks, e)
<1>1. \A kind \in {"gate", "evaluate", "closed"}, closed \in BOOLEAN :
        Event(kind, closed) \in Envelopes /\ Event(kind, closed).kind \notin DecisionKinds
  BY BoundsOK DEF Event, Envelopes, TaskKinds, DecisionKinds, Bounds
<1>2. Event("closed", TRUE) \in Envelopes /\ Event("closed", TRUE).kind \notin DecisionKinds
      /\ Event("gate", FALSE) \in Envelopes /\ Event("gate", FALSE).kind \notin DecisionKinds
  BY <1>1
<1>3. closePullRequest => /\ pr' # "open" /\ (pr' = "botClosed" \/ pr' = pr)
                         /\ \/ tasks' = tasks
                            \/ \E e \in Envelopes : e.kind \notin DecisionKinds /\ tasks' = Append(tasks, e)
  BY <1>2 DEF closePullRequest
<1>4. reopenPullRequest => /\ pr' = "open"
                          /\ \/ tasks' = tasks
                             \/ \E e \in Envelopes : e.kind \notin DecisionKinds /\ tasks' = Append(tasks, e)
  BY <1>2 DEF reopenPullRequest
<1> QED BY <1>1, <1>3, <1>4

LEMMA RecordPeople ==
  ASSUME ConvTypes, OnRecord, People, past' \subseteq {"approved"} PROVE OnRecord'
<1>1. /\ apps \in Seq({"SUBMITTED", "APPROVED", "DENIED"}) /\ Len(apps) = 1 /\ DOMAIN apps = {1}
      /\ apps[1] \in {"SUBMITTED", "APPROVED"} /\ Newest # "DENIED"
  BY LenProperties DEF OnRecord, OnlyApproved, ConvTypes, TypeOK, Newest
<1>2. ASSUME NEW state, NEW kind \in {"gate", "evaluate", "closed"}, NEW closed \in BOOLEAN,
             Act(state, Event(kind, closed)), state = "botClosed" => pr = "botClosed"
      PROVE  OnRecord'
  <2>1. /\ tasks' = Append(tasks, Event(kind, closed)) /\ pr' = state
        /\ UNCHANGED <<apps, row, gate, fan, sweep>>
    BY <1>2 DEF Act, ghosts
  <2>2. OnlyApproved'
    BY <2>1, Plain, StillApproved DEF OnRecord, OnlyApproved
  <2>3. ClosedAgain' /\ Recorded'
    BY <1>2, <2>1 DEF OnRecord, ClosedAgain, Recorded, Blocks
  <2> QED BY <2>2, <2>3 DEF OnRecord
<1>3. ASSUME NEW from, NEW to, NEW kind \in DecisionKinds, Decide(from, to, kind), kind = "approved" => to = "APPROVED"
      PROVE  OnRecord'
  <2>1. PICK i \in DOMAIN apps : apps' = [apps EXCEPT ![i] = to] /\ tasks' = Append(tasks, Decision(kind, i))
    BY <1>3 DEF Decide
  <2>2. kind = "approved" /\ to = "APPROVED" /\ i = 1 /\ UNCHANGED <<pr, row, gate, fan, sweep>>
    BY <1>1, <1>3, <2>1 DEF Decide, DecisionKinds
  <2>3. Len(apps') = 1 /\ apps'[1] = "APPROVED"
    BY <1>1, <2>1, <2>2, ExceptSeq
  <2>4. Decision("approved", 1) \in Envelopes /\ Decision("approved", 1).kind = "approved"
    <3>1. 1 \in 0..(MaxDecisions + 1)
      BY BoundsOK DEF Bounds
    <3> QED BY <3>1 DEF Decision, Envelopes, TaskKinds, DecisionKinds
  <2>5. \A k \in 1..Len(tasks') : tasks'[k].kind \in DecisionKinds => tasks'[k].kind = "approved"
    <3>1. /\ Len(tasks) \in Nat /\ Len(tasks') = Len(tasks) + 1
          /\ \A k \in 1..Len(tasks) : tasks'[k] = tasks[k]
          /\ tasks'[Len(tasks) + 1] = Decision("approved", 1)
      BY <2>1, <2>2, <2>4, Lined, AtTheBack
    <3>2. \A k \in 1..Len(tasks) : tasks[k].kind \in DecisionKinds => tasks[k].kind = "approved"
      BY DEF OnRecord, OnlyApproved
    <3> QED BY <2>4, <3>1, <3>2
  <2>6. OnlyApproved'
    BY <2>3, <2>5 DEF OnlyApproved
  <2>7. ClosedAgain' /\ Recorded'
    BY <2>2, <2>3 DEF OnRecord, ClosedAgain, Recorded, Blocks
  <2> QED BY <2>6, <2>7 DEF OnRecord
<1>4. CASE AskReGate
  BY <1>4 DEF AskReGate, ghosts, OnRecord, OnlyApproved, ClosedAgain, Recorded, Blocks
<1>5. CASE Resubmit
  BY <1>1, <1>5 DEF Resubmit
<1>6. CASE Push \/ HumanCloses \/ Merge \/ HumanReopens
  BY <1>2, <1>6 DEF Push, HumanCloses, Merge, HumanReopens
<1>7. CASE Label
  <2>1. (pr # "open") \in BOOLEAN
    OBVIOUS
  <2> QED BY <1>2, <1>7, <2>1 DEF Label
<1>8. CASE approveAction \/ denyAction \/ revokeAction
  BY <1>3, <1>8 DEF approveAction, denyAction, revokeAction, DecisionKinds
<1> QED BY <1>4, <1>5, <1>6, <1>7, <1>8 DEF People

LEMMA RecordGate ==
  ASSUME ConvTypes, OnRecord, Gate \/ GateRetry, lapses' = {} PROVE OnRecord'
<1>1. gate \in GateSlot /\ row \in Row
  BY DEF ConvTypes, TypeOK, GateSlot, Row
<1>2. UNCHANGED <<apps, fan, sweep>>
  BY GateTypes DEF GateEffect
<1>3. /\ Newest = apps[1] /\ (fan # "idle" => apps[1] = "APPROVED") /\ (sweep = "mark" => apps[1] = "APPROVED")
  BY Lined DEF ConvTypes, Shape, OnRecord, OnlyApproved, Newest, Kind
<1>4. NoConverge.at = "idle"
  BY DEF NoConverge
<1>5. ASSUME \/ tasks' = tasks
             \/ \E e \in Envelopes : e.kind \notin DecisionKinds /\ tasks' = Append(tasks, e)
      PROVE  OnlyApproved'
  BY <1>2, <1>5, StillApproved DEF OnRecord, OnlyApproved
(* a step that leaves the PR and the mark alone, and neither blocks nor marks, *)
<1>6. ASSUME UNCHANGED <<pr, tasks>>, row'.closedByApp = row.closedByApp, row'.status = row.status, gate.at # "mark",
             gate'.at \notin {"upsert", "close", "unmark"}
      PROVE  OnRecord'
  <2>1. ~Blocks'
    BY <1>6 DEF Blocks
  <2> QED BY <1>2, <1>5, <1>6, <2>1 DEF OnRecord, ClosedAgain, Recorded
<1>7. CASE TakeEvent \/ TakeReGate \/ Fetch \/ GateRetry \/ CheckClosedByApp
  <2>1. UNCHANGED <<pr, row, tasks>> /\ gate.at # "mark"
    BY <1>7 DEF TakeEvent, TakeReGate, Fetch, GateRetry, CheckClosedByApp
  <2>2. gate'.at \in {"idle", "decide", "fetch", "reopen"}
    <3>1. CASE gate' = NoConverge
      BY <3>1, <1>4
    <3>2. CASE gate'.at \in {"decide", "fetch", "reopen"}
      BY <3>2
    <3>3. CASE gate' = [gate EXCEPT !.at = "decide", !.closed = pr # "open"]
      BY <1>1, <3>3 DEF GateSlot
    <3>4. CASE gate' = [gate EXCEPT !.at = "decide", !.verdict = "none"]
      BY <1>1, <3>4 DEF GateSlot
    <3>5. CASE gate' = [NoConverge EXCEPT !.at = "fetch", !.reEval = TRUE]
      BY <3>5 DEF NoConverge
    <3>6. CASE gate' = [gate EXCEPT !.at = "reopen"]
      BY <1>1, <3>6 DEF GateSlot
    <3>7. TakeEvent => gate'.at = "decide"
      BY DEF TakeEvent
    <3> QED BY <1>7, <3>1, <3>2, <3>3, <3>4, <3>5, <3>6, <3>7
            DEF TakeReGate, Fetch, GateRetry, CheckClosedByApp, Converged
  <2> QED BY <1>6, <2>1, <2>2
<1>8. CASE handlePrClosed
  BY <1>6, <1>8 DEF handlePrClosed
<1>9. CASE DecideForPR
  <2>1. PICK v \in Verdicts : gate' = [gate EXCEPT !.at = "upsert", !.verdict = v]
    BY <1>9 DEF DecideForPR
  <2>2. v # "none" /\ (apps[1] = "APPROVED" => v = "APPROVED")
    BY <1>3 DEF Verdicts, Blocking
  <2>3. gate'.at = "upsert" /\ gate'.verdict = v
    BY <1>1, <2>1 DEF GateSlot
  <2>4. apps[1] = "APPROVED" => ~Blocks'
    BY <2>2, <2>3 DEF Blocks, Blocking
  <2>5. UNCHANGED <<pr, row, tasks>> /\ gate.at = "decide"
    BY <1>9 DEF DecideForPR
  <2>6. ClosedAgain'
    BY <1>2, <1>3, <2>2, <2>3, <2>4, <2>5 DEF ClosedAgain
  <2>7. Recorded'
    BY <1>2, <2>4, <2>5 DEF OnRecord, Recorded
  <2> QED BY <1>5, <2>5, <2>6, <2>7 DEF OnRecord
<1>10. CASE Upsert
  <2>1. /\ UNCHANGED <<pr, tasks>> /\ row' = [row EXCEPT !.status = gate.verdict] /\ gate.at = "upsert"
    BY <1>10 DEF Upsert
  <2>2. row'.closedByApp = row.closedByApp /\ row'.status = gate.verdict
    BY <1>1, <2>1 DEF Row
  <2>3. gate'.at \in {"check", "close", "idle"} /\ (gate'.at = "close" => gate.verdict \in Blocking)
    <3>1. CASE gate' = [gate EXCEPT !.at = "check"]
      BY <1>1, <3>1 DEF GateSlot
    <3>2. CASE gate' = [gate EXCEPT !.at = "close"] /\ gate.verdict \in Blocking
      BY <1>1, <3>2 DEF GateSlot
    <3>3. CASE gate' = NoConverge
      BY <1>4, <3>3
    <3> QED BY <1>10, <3>1, <3>2, <3>3 DEF Upsert, Converged
  <2>4. Blocks' => Blocks
    BY <2>1, <2>3 DEF Blocks
  <2>5. ClosedAgain'
    BY <1>2, <2>1, <2>3, <2>4 DEF OnRecord, ClosedAgain
  <2>6. ~Blocks => gate.verdict = "APPROVED"
    BY <1>1, <2>1 DEF OnRecord, ClosedAgain, Blocks, Blocking, GateSlot
  <2>7. Recorded'
    BY <1>2, <2>1, <2>2, <2>4, <2>6 DEF OnRecord, Recorded
  <2> QED BY <1>5, <2>1, <2>5, <2>7 DEF OnRecord
<1>11. CASE GateReopens
  <2>1. CASE reopenPullRequest /\ gate' = [gate EXCEPT !.at = "unmark"]
    <3>1. pr' = "open" /\ OnlyApproved'
      BY <1>5, <2>1, Plain
    <3>2. gate'.at = "unmark"
      BY <1>1, <2>1 DEF GateSlot
    <3> QED BY <3>1, <3>2 DEF OnRecord, ClosedAgain, Recorded
  <2>2. CASE Converged /\ UNCHANGED <<pr, tasks>>
    <3>1. gate'.at = "idle" /\ UNCHANGED row /\ gate.at # "mark"
      BY <1>4, <1>11, <2>2 DEF GateReopens, Converged
    <3> QED BY <1>6, <2>2, <3>1
  <2> QED BY <1>11, <2>1, <2>2 DEF GateReopens
<1>12. CASE GateCloses
  <2>1. closePullRequest /\ gate' = [gate EXCEPT !.at = "mark"]
    BY <1>12 DEF GateCloses
  <2>2. gate'.at = "mark"
    BY <1>1, <2>1 DEF GateSlot
  <2>3. OnlyApproved'
    BY <1>5, <2>1, Plain
  <2> QED BY <2>2, <2>3 DEF OnRecord, ClosedAgain, Recorded, Blocks
<1>13. CASE GateMarks
  <2>1. /\ gate.at \in {"mark", "unmark"} /\ UNCHANGED <<pr, tasks>> /\ gate' = NoConverge
        /\ row' = [row EXCEPT !.closedByApp = (gate.at = "mark")]
    BY <1>13 DEF GateMarks, Converged
  <2>2. gate.at = "mark" => row'.closedByApp = TRUE
    BY <1>1, <2>1 DEF Row
  <2>3. gate.at = "unmark" => pr' # "botClosed"
    BY <2>1 DEF OnRecord, ClosedAgain
  <2>4. gate'.at = "idle"
    BY <1>4, <2>1
  <2> QED BY <1>5, <2>1, <2>2, <2>3, <2>4 DEF OnRecord, ClosedAgain, Recorded, Blocks
<1> QED BY <1>7, <1>8, <1>9, <1>10, <1>11, <1>12, <1>13 DEF Gate

LEMMA RecordFan ==
  ASSUME ConvTypes, OnRecord, Fan \/ FanRetry, lapses' = {} PROVE OnRecord'
<1>1. UNCHANGED <<apps, gate, sweep>>
  BY FanTypes DEF FanEffect
<1>2. /\ tasks # <<>> /\ Kind \in DecisionKinds => Kind = "approved" /\ apps[1] = "APPROVED"
      /\ fan # "idle" => tasks # <<>> /\ Kind \in DecisionKinds
  BY Lined DEF ConvTypes, Shape, OnRecord, OnlyApproved, Kind
<1>3. Blocks' = Blocks
  BY <1>1 DEF Blocks
<1>4. ASSUME tasks' = tasks \/ (tasks # <<>> /\ tasks' = Tail(tasks)) PROVE OnlyApproved'
  BY <1>1, <1>4, StillApproved DEF OnRecord, OnlyApproved
<1>5. ASSUME tasks' = tasks \/ (tasks # <<>> /\ tasks' = Tail(tasks)), UNCHANGED <<pr, row>>, fan' # "mark"
      PROVE  OnRecord'
  BY <1>1, <1>3, <1>4, <1>5 DEF OnRecord, ClosedAgain, Recorded
<1>6. CASE deliverPrEvent \/ LoadApplication \/ SelectChecks \/ FanRetry
  <2>1. UNCHANGED <<pr, row>> /\ fan' # "mark"
    BY <1>6 DEF deliverPrEvent, LoadApplication, SelectChecks, FanRetry, TaskDone
  <2>2. tasks' = tasks \/ (tasks # <<>> /\ tasks' = Tail(tasks))
    BY <1>2, <1>6 DEF deliverPrEvent, LoadApplication, SelectChecks, FanRetry, TaskDone
  <2> QED BY <1>5, <2>1, <2>2
<1>7. CASE FanActs
  <2>1. UNCHANGED row /\ fan # "idle" /\ tasks # <<>> /\ Kind = "approved"
    BY <1>2, <1>7 DEF FanActs
  <2>2. CASE reopenPullRequest
    <3>1. pr' = "open"
      BY <2>2, Plain
    <3>2. OnlyApproved'
      BY <1>1, <2>2, Plain, StillApproved DEF OnRecord, OnlyApproved
    <3> QED BY <1>1, <3>1, <3>2 DEF OnRecord, ClosedAgain, Recorded
  <2>3. CASE TaskDone /\ UNCHANGED pr
    BY <1>5, <2>1, <2>3 DEF TaskDone
  <2> QED BY <1>7, <2>1, <2>2, <2>3 DEF FanActs
<1>8. CASE FanMarks
  <2>1. fan = "mark" /\ tasks # <<>> /\ tasks' = Tail(tasks) /\ UNCHANGED pr /\ fan' = "idle"
        /\ Kind = "approved" /\ apps[1] = "APPROVED"
    BY <1>2, <1>8 DEF FanMarks, TaskDone
  <2>2. row' = row \/ row' = [status |-> "APPROVED", closedByApp |-> FALSE]
    BY <1>8, <2>1 DEF FanMarks
  <2>3. CASE row' = row
    BY <1>5, <2>1, <2>3
  <2>4. CASE row' = [status |-> "APPROVED", closedByApp |-> FALSE]
    <3>1. row'.status = "APPROVED"
      BY <2>4
    <3>2. pr' = "botClosed" => ~Blocks'
      BY <1>3, <2>1 DEF OnRecord, ClosedAgain
    <3> QED BY <1>1, <1>4, <2>1, <3>1, <3>2 DEF OnRecord, ClosedAgain, Recorded
  <2> QED BY <2>2, <2>3, <2>4
<1> QED BY <1>6, <1>7, <1>8 DEF Fan

LEMMA RecordSweep ==
  ASSUME ConvTypes, OnRecord, Sweep PROVE OnRecord'
<1>1. UNCHANGED <<apps, gate, fan>> /\ Newest = apps[1] /\ (sweep = "mark" => apps[1] = "APPROVED")
  BY SweepTypes DEF OutsideEffect, Sweep, SweepSelects, SweepDecides, SweepReopens, SweepMarks, SweepStep,
     OnRecord, OnlyApproved, Newest
<1>2. Blocks' = Blocks
  BY <1>1 DEF Blocks
<1>3. ASSUME tasks' = tasks, sweep' \in {"reopen", "mark"} => apps[1] = "APPROVED" PROVE OnlyApproved'
  BY <1>1, <1>3, StillApproved DEF OnRecord
<1>4. CASE SweepSelects
  <2>1. UNCHANGED <<pr, row, tasks>> /\ sweep' = "decide"
    BY <1>4 DEF SweepSelects
  <2> QED BY <1>1, <1>2, <1>3, <2>1 DEF OnRecord, ClosedAgain, Recorded
<1>5. CASE SweepDecides
  <2>1. UNCHANGED <<pr, row, tasks>> /\ sweep' = IF apps[1] = "APPROVED" THEN "reopen" ELSE "idle"
    BY <1>1, <1>5 DEF SweepDecides
  <2>2. OnlyApproved'
    BY <1>3, <2>1
  <2> QED BY <1>1, <1>2, <2>1, <2>2 DEF OnRecord, ClosedAgain, Recorded
<1>6. CASE SweepReopens
  <2>1. UNCHANGED row /\ apps[1] = "APPROVED"
    BY <1>6 DEF SweepReopens, OnRecord, OnlyApproved
  <2>2. CASE reopenPullRequest
    <3>1. pr' = "open"
      BY <2>2, Plain
    <3>2. OnlyApproved'
      BY <1>1, <2>1, <2>2, Plain, StillApproved DEF OnRecord
    <3> QED BY <1>1, <3>1, <3>2 DEF OnRecord, ClosedAgain, Recorded
  <2>3. CASE UNCHANGED <<pr, tasks>> /\ sweep' = "idle"
    BY <1>1, <1>2, <1>3, <2>1, <2>3 DEF OnRecord, ClosedAgain, Recorded
  <2> QED BY <1>6, <2>2, <2>3 DEF SweepReopens
<1>7. CASE SweepMarks
  <2>1. sweep = "mark" /\ sweep' = "idle" /\ UNCHANGED <<pr, tasks>>
    BY <1>7 DEF SweepMarks
  <2>2. OnlyApproved'
    BY <1>3, <2>1
  <2>3. CASE row' = row
    BY <1>1, <1>2, <2>1, <2>2, <2>3 DEF OnRecord, ClosedAgain, Recorded
  <2>4. CASE row' = [status |-> "APPROVED", closedByApp |-> FALSE]
    <3>1. row'.status = "APPROVED" /\ apps[1] = "APPROVED"
      BY <1>1, <2>1, <2>4
    <3>2. pr' = "botClosed" => ~Blocks'
      BY <1>2, <2>1 DEF OnRecord, ClosedAgain
    <3> QED BY <1>1, <2>1, <2>2, <3>1, <3>2 DEF OnRecord, ClosedAgain, Recorded
  <2> QED BY <1>7, <2>3, <2>4 DEF SweepMarks
<1> QED BY <1>4, <1>5, <1>6, <1>7 DEF Sweep

LEMMA RecordStep == ConvTypes /\ RecordInv /\ [Next]_vars => RecordInv'
<1> SUFFICES ASSUME ConvTypes, RecordInv, [Next]_vars, past' \subseteq {"approved"}, lapses' = {}
             PROVE  OnRecord'
  BY DEF RecordInv
<1>1. CASE UNCHANGED vars
  BY <1>1 DEF vars, RecordInv, OnRecord, OnlyApproved, ClosedAgain, Recorded, Blocks
<1>2. CASE Next
  <2>1. OnRecord
    BY <1>2, Remembered DEF RecordInv
  <2> QED BY <1>2, <2>1, RecordPeople, RecordGate, RecordFan, RecordSweep DEF Next
<1> QED BY <1>1, <1>2

(* post-decision.ts:52-53: where nobody was denied or revoked and nothing failed for  *)
(* good, a PR the bot has closed is marked as closed by the bot, or is recorded as     *)
(* approved, however the converges, fan-outs and sweeps that write the row overlap.    *)
THEOREM ClosesAreRecorded == Spec => []BotCloseIsOnRecord
<1>1. ConvTypes /\ RecordInv => BotCloseIsOnRecord
  BY DEF ConvTypes, TypeOK, RecordInv, OnRecord, Recorded, Quiet, BotCloseIsOnRecord
<1> QED BY <1>1, ConvInit, ConvTypesStep, RecordStep, PTL DEF Spec
=============================================================================
