--------------------------- MODULE GateTreeProofs ---------------------------
(***************************************************************************)
(* prGate for any number of envelopes, re-gates and turns of its loop, and *)
(* the contributorGate with it as its child: the tree implements           *)
(* EventMailbox, an idling parent orphans no child, and an envelope is      *)
(* lost only with a run.  The child's invariant is QueueInv, the tree's     *)
(* TreeInv.                                                                 *)
(***************************************************************************)
EXTENDS GateTree, SequenceTheorems, TLAPS

(***************************************************************************)
(* prGate alone.                                                            *)
(***************************************************************************)
(* What the code relies on between two awaits, beyond the properties themselves. *)
QueueIsOwed == owed = Range(queue)

(* Nothing queued or converged is newer than what has been delivered. *)
Delivered ==
  /\ lastConverged <= arrivals
  /\ \A i \in 1..Len(queue) : queue[i] <= arrivals

(* The head in flight is still in the queue; inside the loop there is room to count. *)
LoopShape ==
  /\ pc = "event" => queue # <<>>
  /\ pc \in {"wait", "event", "regate"} => processed < EventsCap
  /\ pc = "none" => queue = <<>>

(* The type invariant in two parts, for provers that take flags and numbers apart. *)
FlagsOK == hasParent \in BOOLEAN /\ terminal \in BOOLEAN /\ displaced \in BOOLEAN

NumbersOK ==
  /\ queue \in Seq(1..MaxEvents) /\ owed \subseteq 1..MaxEvents
  /\ pendingReGate \in 0..MaxNonces /\ lastNonce \in 0..MaxNonces /\ req \in 0..MaxNonces
  /\ processed \in 0..EventsCap
  /\ arrivals \in 0..MaxEvents /\ lastConverged \in 0..MaxEvents
  /\ asked \in 0..MaxNonces /\ settled \in 0..MaxNonces

QueueInv == TypeOK /\ QueueIsOwed /\ EventsInOrder /\ Delivered /\ LoopShape

-----------------------------------------------------------------------------
(* Appending an envelope adds it to what a queue holds. *)
LEMMA RangeAppend ==
  ASSUME NEW S, NEW s \in Seq(S), NEW e \in S
  PROVE  Range(Append(s, e)) = Range(s) \cup {e}
<1>1. /\ Append(s, e) \in Seq(S) /\ Len(Append(s, e)) = Len(s) + 1
      /\ \A i \in 1..Len(s) : Append(s, e)[i] = s[i]
      /\ Append(s, e)[Len(s) + 1] = e
  BY AppendProperties
<1>2. DOMAIN s = 1..Len(s) /\ DOMAIN Append(s, e) = 1..(Len(s) + 1) /\ Len(s) \in Nat
  BY <1>1
<1> QED  BY <1>1, <1>2 DEF Range

(* Shifting a queue of distinct, growing envelopes takes exactly its head away. *)
LEMMA RangeTail ==
  ASSUME NEW s \in Seq(Nat), s # <<>>,
         \A i, j \in 1..Len(s) : i < j => s[i] < s[j]
  PROVE  Range(Tail(s)) = Range(s) \ {Head(s)}
<1>1. /\ Tail(s) \in Seq(Nat) /\ Len(Tail(s)) = Len(s) - 1
      /\ \A i \in 1..Len(Tail(s)) : Tail(s)[i] = s[i + 1]
  BY HeadTailProperties
<1>2. /\ DOMAIN s = 1..Len(s) /\ DOMAIN Tail(s) = 1..(Len(s) - 1)
      /\ Len(s) \in Nat \ {0} /\ Head(s) = s[1]
  BY <1>1
<1>3. \A i \in 1..Len(s) : s[i] \in Nat
  BY <1>2
<1>4. Range(Tail(s)) \subseteq Range(s) \ {Head(s)}
  <2> SUFFICES ASSUME NEW i \in 1..(Len(s) - 1)
               PROVE  s[i + 1] \in Range(s) \ {s[1]}
    BY <1>1, <1>2 DEF Range
  <2>1. i + 1 \in 1..Len(s) /\ 1 \in 1..Len(s) /\ 1 < i + 1
    BY <1>2
  <2>2. s[1] < s[i + 1] /\ s[1] \in Nat /\ s[i + 1] \in Nat
    BY <2>1, <1>3
  <2> QED  BY <1>2, <2>1, <2>2 DEF Range
<1>5. Range(s) \ {Head(s)} \subseteq Range(Tail(s))
  <2> SUFFICES ASSUME NEW i \in 1..Len(s), s[i] # s[1]
               PROVE  s[i] \in Range(Tail(s))
    BY <1>2 DEF Range
  <2>1. i - 1 \in 1..(Len(s) - 1) /\ (i - 1) + 1 = i
    BY <1>2
  <2>2. Tail(s)[i - 1] = s[i]
    BY <1>1, <2>1
  <2> QED  BY <1>2, <2>1, <2>2 DEF Range
<1> QED  BY <1>4, <1>5

-----------------------------------------------------------------------------
(* The four things a step does to the queue: nothing, an envelope accepted at its *)
(* end, its head converged, everything let go.                                     *)
LEMMA EmptyRange == Range(<<>>) = {}
  BY DEF Range

LEMMA TypeParts == TypeOK <=> pc \in Points /\ FlagsOK /\ NumbersOK
  BY DEF TypeOK, FlagsOK, NumbersOK

LEMMA EmptyQueue == \A n : <<>> \in Seq(1..n) /\ Len(<<>>) = 0
  OBVIOUS

LEMMA QueueKept ==
  ASSUME QueueIsOwed, EventsInOrder, Delivered,
         UNCHANGED <<queue, owed, lastConverged, arrivals>>
  PROVE  QueueIsOwed' /\ EventsInOrder' /\ Delivered'
  BY DEF QueueIsOwed, EventsInOrder, Delivered

LEMMA QueueAccepts ==
  ASSUME TypeOK, QueueIsOwed, EventsInOrder, Delivered, PrGateAssumption,
         NEW e \in (arrivals + 1)..MaxEvents, queue' = Append(queue, e),
         Accept(e), UNCHANGED lastConverged
  PROVE  /\ queue' \in Seq(1..MaxEvents) /\ arrivals' \in 0..MaxEvents
         /\ owed' \subseteq 1..MaxEvents
         /\ QueueIsOwed' /\ EventsInOrder' /\ Delivered'
<1>1. /\ queue \in Seq(1..MaxEvents) /\ MaxEvents \in Nat /\ arrivals \in Nat
      /\ lastConverged \in Nat /\ owed \subseteq 1..MaxEvents
      /\ e \in 1..MaxEvents /\ arrivals' = e /\ arrivals < e
  BY DEF TypeOK, PrGateAssumption, Accept
<1>2. /\ queue' \in Seq(1..MaxEvents) /\ Len(queue') = Len(queue) + 1
      /\ \A i \in 1..Len(queue) : queue'[i] = queue[i]
      /\ queue'[Len(queue) + 1] = e
      /\ Len(queue) \in Nat
  BY <1>1, AppendProperties
<1>3. \A i \in 1..Len(queue) : queue[i] \in Nat /\ queue[i] <= arrivals
  BY <1>1 DEF Delivered
<1>4. QueueIsOwed'
  <2>1. Range(queue') = Range(queue) \cup {e}
    BY <1>1, RangeAppend
  <2> QED  BY <2>1 DEF QueueIsOwed, Accept
<1>5. EventsInOrder'
  <2>1. ASSUME NEW i \in 1..Len(queue')
        PROVE  lastConverged' < queue'[i]
    BY <1>1, <1>2, <1>3 DEF EventsInOrder, Delivered
  <2>2. ASSUME NEW i \in 1..Len(queue'), NEW j \in 1..Len(queue'), i < j
        PROVE  queue'[i] < queue'[j]
    <3>1. CASE j = Len(queue) + 1
      BY <1>1, <1>2, <1>3, <2>2, <3>1
    <3>2. CASE j # Len(queue) + 1
      <4>1. i \in 1..Len(queue) /\ j \in 1..Len(queue)
        <5>1. Len(queue) \in Nat /\ i \in 1..(Len(queue) + 1) /\ j \in 1..(Len(queue) + 1)
          BY <1>2
        <5> QED  BY <5>1, <2>2, <3>2
      <4>2. queue[i] < queue[j]
        BY <4>1, <2>2 DEF EventsInOrder
      <4> QED  BY <1>2, <4>1, <4>2
    <3> QED  BY <3>1, <3>2
  <2> QED  BY <2>1, <2>2 DEF EventsInOrder
<1>6. Delivered'
  BY <1>1, <1>2, <1>3 DEF Delivered
<1> QED  BY <1>1, <1>2, <1>4, <1>5, <1>6 DEF Accept

LEMMA QueueShifts ==
  ASSUME TypeOK, QueueIsOwed, EventsInOrder, Delivered, PrGateAssumption,
         queue # <<>>, queue' = Tail(queue), owed' = owed \ {Head(queue)},
         lastConverged' = Head(queue), UNCHANGED arrivals
  PROVE  /\ queue' \in Seq(1..MaxEvents) /\ lastConverged' \in 0..MaxEvents
         /\ QueueIsOwed' /\ EventsInOrder' /\ Delivered'
<1>1. queue \in Seq(1..MaxEvents) /\ queue \in Seq(Nat) /\ arrivals \in Nat
  BY DEF TypeOK, PrGateAssumption
<1>2. /\ Head(queue) \in 1..MaxEvents /\ Head(queue) = queue[1]
      /\ Len(queue) \in Nat \ {0}
      /\ queue' \in Seq(1..MaxEvents) /\ Len(queue') = Len(queue) - 1
      /\ \A i \in 1..Len(queue') : queue'[i] = queue[i + 1]
  BY <1>1, HeadTailProperties
<1>3. QueueIsOwed'
  <2>1. Range(queue') = Range(queue) \ {Head(queue)}
    BY <1>1, RangeTail DEF EventsInOrder
  <2> QED  BY <2>1 DEF QueueIsOwed
<1>4. EventsInOrder'
  <2>1. \A i \in 1..Len(queue') : i + 1 \in 1..Len(queue) /\ 1 \in 1..Len(queue) /\ 1 < i + 1
    BY <1>2
  <2>2. \A i \in 1..Len(queue') : lastConverged' < queue'[i]
    BY <1>2, <2>1 DEF EventsInOrder
  <2>3. \A i, j \in 1..Len(queue') : i < j => queue'[i] < queue'[j]
    BY <1>2, <2>1 DEF EventsInOrder
  <2> QED  BY <2>2, <2>3 DEF EventsInOrder
<1>5. Delivered'
  BY <1>2 DEF Delivered
<1> QED  BY <1>2, <1>3, <1>4, <1>5

LEMMA QueueLetGo ==
  ASSUME PrGateAssumption, TypeOK, Delivered, Close
  PROVE  QueueInv'
<1>1. QueueIsOwed'
  BY EmptyRange DEF QueueIsOwed, Close
<1>2. TypeOK'
  <2>1. pc' \in Points
    BY DEF Close, Points
  <2>2. FlagsOK'
    BY DEF Close, FlagsOK
  <2>3. NumbersOK'
    BY EmptyQueue, TypeParts DEF Close, NumbersOK, PrGateAssumption
  <2> QED  BY <2>1, <2>2, <2>3, TypeParts DEF TypeOK, FlagsOK, NumbersOK
<1>3. EventsInOrder' /\ Delivered' /\ LoopShape'
  BY DEF EventsInOrder, Delivered, LoopShape, Close
<1> QED  BY <1>1, <1>2, <1>3 DEF QueueInv

-----------------------------------------------------------------------------
LEMMA QueueInit == ASSUME PrGateAssumption, Init PROVE QueueInv
<1>1. QueueIsOwed
  BY EmptyRange DEF Init, QueueIsOwed
<1>2. TypeOK
  <2>1. pc \in Points
    BY DEF Init, Points
  <2>2. FlagsOK
    BY DEF Init, FlagsOK
  <2>3. NumbersOK
    BY EmptyQueue DEF Init, NumbersOK, PrGateAssumption
  <2> QED  BY <2>1, <2>2, <2>3, TypeParts
<1>3. EventsInOrder /\ Delivered /\ LoopShape
  BY DEF Init, EventsInOrder, Delivered, LoopShape
<1> QED  BY <1>1, <1>2, <1>3 DEF QueueInv

(* An envelope newer than any before reaches an open run ... *)
LEMMA SignalKeeps ==
  ASSUME PrGateAssumption, QueueInv, NEW e \in (arrivals + 1)..MaxEvents, SignalEvent(e)
  PROVE  QueueInv'
<1> USE DEF QueueInv
<1>1. /\ queue' \in Seq(1..MaxEvents) /\ arrivals' \in 0..MaxEvents
      /\ owed' \subseteq 1..MaxEvents
      /\ QueueIsOwed' /\ EventsInOrder' /\ Delivered'
  BY QueueAccepts DEF SignalEvent
<1>2. TypeOK'
  BY <1>1 DEF SignalEvent, TypeOK
<1>3. LoopShape'
  <2>1. queue \in Seq(1..MaxEvents) /\ e \in 1..MaxEvents
    BY DEF TypeOK, PrGateAssumption
  <2>2. queue' # <<>>
    BY <2>1, AppendProperties DEF SignalEvent
  <2> QED  BY <2>2 DEF SignalEvent, Listening, LoopShape
<1> QED  BY <1>1, <1>2, <1>3

(* ... or opens one. *)
LEMMA OpenKeeps ==
  ASSUME PrGateAssumption, QueueInv, NEW parent \in BOOLEAN, NEW e \in (arrivals + 1)..MaxEvents,
         Open(parent, <<e>>, 0), Accept(e), UNCHANGED <<lastConverged, asked, settled, displaced>>
  PROVE  QueueInv'
<1> USE DEF QueueInv
<1>1. queue' = Append(queue, e)
  BY DEF Open, LoopShape
<1>2. /\ queue' \in Seq(1..MaxEvents) /\ arrivals' \in 0..MaxEvents
      /\ owed' \subseteq 1..MaxEvents
      /\ QueueIsOwed' /\ EventsInOrder' /\ Delivered'
  BY <1>1, QueueAccepts
<1>3. TypeOK'
  <2>1. pc' \in Points
    BY DEF Open, Points
  <2>2. FlagsOK'
    BY TypeParts DEF Open, FlagsOK
  <2>3. NumbersOK'
    BY <1>2, TypeParts DEF Open, NumbersOK, PrGateAssumption
  <2> QED  BY <2>1, <2>2, <2>3 DEF TypeOK, FlagsOK, NumbersOK
<1>4. LoopShape'
  BY DEF Open, LoopShape
<1> QED  BY <1>2, <1>3, <1>4

(* A re-gate leaves the queue alone. *)
LEMMA ReGateKeeps ==
  ASSUME PrGateAssumption, QueueInv, NEW n \in 1..MaxNonces, ReGate(n) PROVE QueueInv'
<1> USE DEF QueueInv
<1>1. n \in 0..MaxNonces /\ asked' \in 0..MaxNonces
  <2>1. asked' = IF n > asked THEN n ELSE asked
    BY DEF ReGate, SignalReGate
  <2>2. n \in 0..MaxNonces /\ asked \in 0..MaxNonces
    BY TypeParts DEF NumbersOK, PrGateAssumption
  <2> QED  BY <2>1, <2>2
<1>2. CASE SignalReGate(n)
  <2>1. QueueIsOwed' /\ EventsInOrder' /\ Delivered'
    BY <1>2, QueueKept DEF SignalReGate
  <2>2. TypeOK' /\ LoopShape'
    BY <1>1, <1>2 DEF SignalReGate, TypeOK, LoopShape
  <2> QED  BY <2>1, <2>2
<1>3. CASE Open(FALSE, <<>>, n) /\ UNCHANGED <<arrivals, owed, lastConverged, settled, displaced>>
  <2>1. QueueIsOwed' /\ EventsInOrder' /\ Delivered'
    BY <1>3, QueueKept DEF Open, LoopShape
  <2>2. pc' \in Points /\ LoopShape'
    BY <1>3 DEF Open, Points, LoopShape
  <2>3. FlagsOK'
    BY <1>3, TypeParts DEF Open, FlagsOK
  <2>4. NumbersOK'
    BY <1>1, <1>3, EmptyQueue, TypeParts DEF Open, NumbersOK, PrGateAssumption
  <2> QED  BY <2>1, <2>2, <2>3, <2>4 DEF TypeOK, FlagsOK, NumbersOK
<1> QED  BY <1>2, <1>3 DEF ReGate

(* Every step keeps the queue invariant. *)
LEMMA QueueStep ==
  ASSUME PrGateAssumption, QueueInv, [Next]_vars PROVE QueueInv'
<1> USE DEF QueueInv
<1>1. CASE UNCHANGED vars
  BY <1>1 DEF vars, TypeOK, QueueIsOwed, EventsInOrder, Delivered, LoopShape
<1>2. CASE Deliver
  <2>1. arrivals + 1 \in (arrivals + 1)..MaxEvents
    BY <1>2 DEF Deliver, TypeOK, PrGateAssumption
  <2>2. CASE StartChild(arrivals + 1)
    BY <2>1, <2>2, OpenKeeps DEF StartChild
  <2>3. CASE SignalWithStartEvent(arrivals + 1)
    BY <2>1, <2>3, SignalKeeps, OpenKeeps DEF SignalWithStartEvent
  <2> QED  BY <1>2, <2>2, <2>3 DEF Deliver
<1>3. ASSUME NEW n \in 1..MaxNonces, ReGate(n) PROVE QueueInv'
  BY <1>3, ReGateKeeps
<1>4. CASE EventConverged
  <2>1. /\ queue' \in Seq(1..MaxEvents) /\ lastConverged' \in 0..MaxEvents
        /\ QueueIsOwed' /\ EventsInOrder' /\ Delivered'
    BY <1>4, QueueShifts DEF EventConverged, LoopShape
  <2>2. TypeOK'
    <3>1. pc' \in Points /\ FlagsOK'
      BY <1>4, TypeParts DEF EventConverged, Points, FlagsOK
    <3>2. processed' \in 0..EventsCap
      BY <1>4, TypeParts DEF EventConverged, NumbersOK, LoopShape, PrGateAssumption
    <3>3. NumbersOK'
      BY <1>4, <2>1, <3>2, TypeParts DEF EventConverged, NumbersOK
    <3> QED  BY <3>1, <3>3 DEF TypeOK, FlagsOK, NumbersOK
  <2>3. LoopShape'
    BY <1>4 DEF EventConverged, LoopShape
  <2> QED  BY <2>1, <2>2, <2>3
<1>5. CASE \/ ContinueAsNew \/ EnterLoop \/ TakeEvent \/ TakeReGate
           \/ ReGateConverged \/ IdleTimeout \/ NotifyParent
  <2>1. QueueIsOwed' /\ EventsInOrder' /\ Delivered'
    BY <1>5, QueueKept DEF ContinueAsNew, EnterLoop, TakeEvent, TakeReGate,
       ReGateConverged, IdleTimeout, NotifyParent, ghostVars
  <2>2. TypeOK'
    <3>1. pc' \in Points /\ FlagsOK'
      BY <1>5, TypeParts DEF ContinueAsNew, EnterLoop, TakeEvent, TakeReGate, ReGateConverged,
         IdleTimeout, NotifyParent, ghostVars, Points, FlagsOK
    <3>2. NumbersOK'
      <4>1. NumbersOK /\ (pc \in {"wait", "event", "regate"} => processed < EventsCap)
        BY TypeParts DEF LoopShape
      <4>2. CASE TakeReGate
        BY <4>1, <4>2 DEF TakeReGate, NumbersOK, PrGateAssumption
      <4>3. CASE ReGateConverged
        BY <4>1, <4>3 DEF ReGateConverged, ghostVars, NumbersOK, PrGateAssumption
      <4>4. CASE ContinueAsNew
        BY <4>1, <4>4 DEF ContinueAsNew, ghostVars, NumbersOK, PrGateAssumption
      <4>5. CASE EnterLoop \/ TakeEvent \/ IdleTimeout \/ NotifyParent
        BY <4>1, <4>5 DEF EnterLoop, TakeEvent, IdleTimeout, NotifyParent, ghostVars, NumbersOK
      <4> QED  BY <1>5, <4>2, <4>3, <4>4, <4>5
    <3> QED  BY <3>1, <3>2 DEF TypeOK, FlagsOK, NumbersOK
  <2>3. LoopShape'
    BY <1>5 DEF ContinueAsNew, EnterLoop, TakeEvent, TakeReGate, ReGateConverged,
       IdleTimeout, NotifyParent, LoopShape, TypeOK, PrGateAssumption
  <2> QED  BY <2>1, <2>2, <2>3
<1>6. CASE CapComplete \/ Fail \/ Complete
  BY <1>6, QueueLetGo DEF CapComplete, Fail, Complete
<1> QED
  BY <1>1, <1>2, <1>3, <1>4, <1>5, <1>6 DEF Next, Environment, Work, Settle

(* The inductive invariant holds in every reachable state. *)
THEOREM QueueInvariant == Spec => []QueueInv
<1>1. Init => QueueInv
  BY QueueInit, PrGateAssumption
<1>2. QueueInv /\ [Next]_vars => QueueInv'
  BY QueueStep, PrGateAssumption
<1> QED  BY <1>1, <1>2, PTL DEF Spec

(* prGate keeps to its types, its Continue-As-New cap among them. *)
THEOREM TypeCorrect == Spec => []TypeOK
<1>1. QueueInv => TypeOK
  BY DEF QueueInv
<1> QED  BY <1>1, QueueInvariant, PTL

(* pr-gate.ts:151-153: no await and no Continue-As-New drops an envelope that a run *)
(* was handed and has not converged, however many there are.                        *)
THEOREM NothingForgotten == Spec => []NoEventForgotten
<1>1. QueueInv => NoEventForgotten
  BY DEF QueueInv, QueueIsOwed, NoEventForgotten
<1> QED  BY <1>1, QueueInvariant, PTL

(* No envelope is converged after a newer one, on any chain of runs. *)
THEOREM Ordered == Spec => []EventsInOrder
<1>1. QueueInv => EventsInOrder
  BY DEF QueueInv
<1> QED  BY <1>1, QueueInvariant, PTL

-----------------------------------------------------------------------------
(* Re-gates: why clearing the slot before the await and comparing with the last   *)
(* nonce applied loses no request, save to a nonce applied before that is repeated. *)
SlotCovers == pendingReGate # 0 /\ pendingReGate # lastNonce /\ pendingReGate # req

ReGateInv ==
  /\ pendingReGate <= asked
  /\ req <= settled /\ lastNonce <= settled /\ settled <= asked
  /\ Serving /\ settled < asked /\ ~displaced => SlotCovers
  /\ pc = "none" => settled = asked

LEMMA ReGateInit == ASSUME Init PROVE ReGateInv
  BY DEF Init, ReGateInv, SlotCovers

LEMMA ReGateStep ==
  ASSUME PrGateAssumption, QueueInv, ReGateInv, [Next]_vars
  PROVE  ReGateInv'
<1>1. /\ pendingReGate \in Nat /\ lastNonce \in Nat /\ req \in Nat
      /\ asked \in Nat /\ settled \in Nat
  BY DEF QueueInv, TypeOK, PrGateAssumption
<1> USE DEF SlotCovers
<1>2. CASE UNCHANGED vars
  BY <1>2 DEF vars, ReGateInv, Serving
<1>3. CASE Deliver
  BY <1>1, <1>3 DEF Deliver, StartChild, SignalWithStartEvent, SignalEvent, Open, Listening,
     ReGateInv, Serving
<1>4. ASSUME NEW n \in 1..MaxNonces, ReGate(n) PROVE ReGateInv'
  <2>1. /\ n \in Nat /\ n > 0 /\ n <= asked + 1 /\ pendingReGate' = n /\ settled' = settled
        /\ asked' \in Nat /\ asked <= asked' /\ n <= asked' /\ asked' \in {asked, n}
    BY <1>1, <1>4 DEF ReGate, SignalReGate, Open, PrGateAssumption
  <2>2. pc' # "none"
    BY <1>4 DEF ReGate, SignalReGate, Listening, Open
  <2>3. CASE SignalReGate(n)
    <3>1. lastNonce' = lastNonce /\ req' = req /\ displaced' = (n < asked /\ n \in {lastNonce, req})
      BY <2>3 DEF SignalReGate
    <3>2. CASE n < asked
      <4>1. ~displaced' => n # lastNonce /\ n # req
        BY <3>1, <3>2
      <4> QED  BY <1>1, <2>1, <2>2, <3>1, <3>2, <4>1 DEF ReGateInv
    <3>3. CASE n >= asked
      <4>1. asked' = n
        BY <1>1, <2>1, <3>3
      <4>2. settled < n => n # lastNonce /\ n # req
        BY <1>1, <2>1 DEF ReGateInv
      <4> QED  BY <1>1, <2>1, <2>2, <3>1, <4>1, <4>2 DEF ReGateInv
    <3> QED  BY <1>1, <2>1, <3>2, <3>3
  <2>4. CASE Open(FALSE, <<>>, n)
    BY <1>1, <2>1, <2>2, <2>4 DEF Open, ReGateInv
  <2> QED  BY <1>4, <2>3, <2>4 DEF ReGate
<1>5. CASE TakeReGate
  <2>1. CASE pendingReGate = lastNonce
    BY <1>1, <1>5, <2>1 DEF TakeReGate, ReGateInv, Serving
  <2>2. CASE pendingReGate # lastNonce
    BY <1>1, <1>5, <2>2 DEF TakeReGate, ReGateInv, Serving
  <2> QED  BY <2>1, <2>2
<1>6. CASE ReGateConverged
  BY <1>1, <1>6 DEF ReGateConverged, ReGateInv, Serving, ghostVars
<1>7. CASE CapComplete \/ Fail \/ Complete
  BY <1>1, <1>7 DEF CapComplete, Fail, Complete, Close, ReGateInv, Serving
<1>8. CASE ContinueAsNew \/ EnterLoop \/ TakeEvent \/ EventConverged \/ IdleTimeout \/ NotifyParent
  BY <1>1, <1>8 DEF ContinueAsNew, EnterLoop, TakeEvent, EventConverged, IdleTimeout,
     NotifyParent, ghostVars, ReGateInv, Serving
<1> QED
  BY <1>2, <1>3, <1>4, <1>5, <1>6, <1>7, <1>8 DEF Next, Environment, Work, Settle

(* pr-gate.ts:109-110: a request is covered by the one pending until a re-gate      *)
(* converge has started since, whatever signals arrive during whatever awaits and    *)
(* whichever nonces are repeated, save that one applied before comes again last.     *)
THEOREM ReGateKept == Spec => []NoReGateForgotten
<1>1. Init => ReGateInv
  BY ReGateInit
<1>2. QueueInv /\ ReGateInv /\ [Next]_vars => ReGateInv'
  BY ReGateStep, PrGateAssumption
<1>3. QueueInv /\ ReGateInv => NoReGateForgotten
  BY DEF QueueInv, TypeOK, PrGateAssumption, ReGateInv, SlotCovers, NoReGateForgotten
<1> QED  BY <1>1, <1>2, <1>3, QueueInvariant, PTL DEF Spec

(***************************************************************************)
(* contributorGate and its child.                                           *)
(***************************************************************************)
Busy == {"other", "signal", "start", "started", "refused", "adopt"}
Delivering == {"signal", "start", "refused", "adopt"}

(* The task in flight is still queued, and is what the parent takes it for. *)
TasksShape ==
  /\ cpc \in ParentPoints
  /\ tasks \in Seq(0..MaxEvents) /\ sent \in 0..MaxEvents /\ arrivals <= sent
  /\ cpc \in Busy => tasks # <<>>
  /\ cpc \in Delivering => Head(tasks) # Other
  /\ cpc = "other" => Head(tasks) = Other

(* What the child is yet to be given is newer than all it was given, and in order. *)
TasksInOrder ==
  /\ \A i \in 1..Len(Ahead) : Ahead[i] # Other => arrivals < Ahead[i] /\ Ahead[i] <= sent
  /\ \A i, j \in 1..Len(Ahead) :
       i < j /\ Ahead[i] # Other /\ Ahead[j] # Other => Ahead[i] < Ahead[j]

(* The numbers of the parent: there is room to count the task in flight. *)
TasksCounted ==
  /\ cprocessed \in 0..TasksCap /\ others \in 0..MaxOthers
  /\ cpc \in Busy \cup {"wait"} => cprocessed < TasksCap

(* Every child of its own that has not reported is in the live set, or about to be. *)
ChildKnown ==
  /\ pc = "none" => ~ours
  /\ ours /\ pc # "none" /\ pc # "notified" => live \/ cpc = "started"

TreeFlags == live \in BOOLEAN /\ ours \in BOOLEAN

TreeInv == QueueInv /\ TasksShape /\ TasksInOrder

-----------------------------------------------------------------------------
(* What a sequence holds is its head and what its tail holds. *)
LEMMA RangeHeadTail ==
  ASSUME NEW S, NEW s \in Seq(S), s # <<>>
  PROVE  Range(s) = {Head(s)} \cup Range(Tail(s))
<1>1. /\ Tail(s) \in Seq(S) /\ Len(Tail(s)) = Len(s) - 1 /\ Len(s) \in Nat \ {0}
      /\ \A i \in 1..Len(Tail(s)) : Tail(s)[i] = s[i + 1]
      /\ Head(s) = s[1]
  BY HeadTailProperties
<1>2. DOMAIN s = 1..Len(s) /\ DOMAIN Tail(s) = 1..(Len(s) - 1)
  BY <1>1
<1>3. Range(s) \subseteq {Head(s)} \cup Range(Tail(s))
  <2> SUFFICES ASSUME NEW i \in 1..Len(s), i # 1 PROVE s[i] \in Range(Tail(s))
    BY <1>1, <1>2 DEF Range
  <2>1. i - 1 \in 1..(Len(s) - 1) /\ (i - 1) + 1 = i
    BY <1>1
  <2> QED  BY <1>1, <1>2, <2>1 DEF Range
<1>4. {Head(s)} \cup Range(Tail(s)) \subseteq Range(s)
  <2>1. 1 \in 1..Len(s) /\ \A i \in 1..(Len(s) - 1) : i + 1 \in 1..Len(s)
    BY <1>1
  <2> QED  BY <1>1, <1>2, <2>1 DEF Range
<1> QED  BY <1>3, <1>4

LEMMA AheadType ==
  ASSUME TasksShape PROVE Ahead \in Seq(0..MaxEvents)
<1>1. CASE cpc = "started"
  BY <1>1, HeadTailProperties DEF TasksShape, Busy, Ahead
<1>2. CASE cpc # "started"
  BY <1>2 DEF TasksShape, Ahead
<1> QED  BY <1>1, <1>2

(* Nothing is ahead that the child was given, and all of it is newer. *)
LEMMA AheadIsNewer ==
  ASSUME PrGateAssumption, TasksShape, TasksInOrder, arrivals \in Nat
  PROVE  \A e \in InTasks : e \in 1..MaxEvents /\ arrivals < e
<1>1. Ahead \in Seq(0..MaxEvents) /\ DOMAIN Ahead = 1..Len(Ahead)
  BY AheadType
<1> QED  BY <1>1 DEF InTasks, Range, TasksInOrder, Other, PrGateAssumption

-----------------------------------------------------------------------------
(* The four things a step does to what is ahead: nothing, one more task, the *)
(* first one done or handed over, everything given up.                       *)
LEMMA AheadKept ==
  ASSUME TasksInOrder, Ahead' = Ahead, UNCHANGED <<arrivals, sent>>
  PROVE  TasksInOrder' /\ InTasks' = InTasks
  BY DEF TasksInOrder, InTasks

LEMMA AheadGone ==
  ASSUME Ahead' = <<>> PROVE TasksInOrder' /\ InTasks' = {}
  BY EmptyRange DEF TasksInOrder, InTasks

LEMMA AheadGrows ==
  ASSUME PrGateAssumption, TasksShape, TasksInOrder, arrivals \in Nat, NEW t \in 0..MaxEvents,
         PushTask(t), UNCHANGED arrivals,
         \/ t = Other /\ sent' = sent
         \/ t = sent + 1 /\ sent' = sent + 1
  PROVE  TasksInOrder' /\ InTasks' = InTasks \cup ({t} \ {Other})
<1>1. Ahead \in Seq(0..MaxEvents) /\ Len(Ahead) \in Nat
  BY AheadType
<1>2. Ahead' = Append(Ahead, t)
  <2>1. CASE cpc = "started"
    <3>1. tasks \in Seq(0..MaxEvents) /\ tasks # <<>>
      BY <2>1 DEF TasksShape, Busy
    <3>2. Tail(Append(tasks, t)) = Append(Tail(tasks), t)
      BY <3>1
    <3> QED  BY <2>1, <3>2 DEF PushTask, Ahead
  <2>2. CASE cpc # "started"
    BY <2>2 DEF PushTask, Ahead
  <2> QED  BY <2>1, <2>2
<1>3. /\ Len(Ahead') = Len(Ahead) + 1 /\ Ahead'[Len(Ahead) + 1] = t
      /\ \A i \in 1..Len(Ahead) : Ahead'[i] = Ahead[i]
  BY <1>1, <1>2, AppendProperties
<1>4. InTasks' = InTasks \cup ({t} \ {Other})
  <2>1. Range(Ahead') = Range(Ahead) \cup {t}
    BY <1>1, <1>2, RangeAppend
  <2> QED  BY <2>1 DEF InTasks
<1>5. /\ sent \in Nat /\ arrivals <= sent /\ sent <= sent' /\ sent' \in Nat
      /\ t # Other => t = sent + 1 /\ t <= sent'
      /\ \A i \in 1..Len(Ahead) : Ahead[i] \in Nat
  BY <1>1 DEF TasksShape, PrGateAssumption
<1>6. ASSUME NEW i \in 1..Len(Ahead'), Ahead'[i] # Other
      PROVE  arrivals' < Ahead'[i] /\ Ahead'[i] <= sent'
  <2>1. CASE i = Len(Ahead) + 1
    BY <1>3, <1>5, <1>6, <2>1
  <2>2. CASE i \in 1..Len(Ahead)
    BY <1>3, <1>5, <1>6, <2>2 DEF TasksInOrder
  <2> QED  BY <1>1, <1>3, <2>1, <2>2
<1>7. ASSUME NEW i \in 1..Len(Ahead'), NEW j \in 1..Len(Ahead'), i < j,
             Ahead'[i] # Other, Ahead'[j] # Other
      PROVE  Ahead'[i] < Ahead'[j]
  <2>1. i \in 1..Len(Ahead)
    BY <1>1, <1>3, <1>7
  <2>2. CASE j = Len(Ahead) + 1
    BY <1>3, <1>5, <1>7, <2>1, <2>2 DEF TasksInOrder
  <2>3. CASE j \in 1..Len(Ahead)
    BY <1>3, <1>7, <2>1, <2>3 DEF TasksInOrder
  <2> QED  BY <1>1, <1>3, <2>2, <2>3
<1> QED  BY <1>4, <1>6, <1>7 DEF TasksInOrder

LEMMA AheadShifts ==
  ASSUME PrGateAssumption, TasksShape, TasksInOrder, arrivals \in Nat,
         Ahead # <<>>, Ahead' = Tail(Ahead), UNCHANGED sent,
         \/ arrivals' = arrivals
         \/ Head(Ahead) # Other /\ arrivals' = Head(Ahead)
  PROVE  TasksInOrder' /\ InTasks = InTasks' \cup ({Head(Ahead)} \ {Other})
<1>1. Ahead \in Seq(0..MaxEvents) /\ Len(Ahead) \in Nat \ {0} /\ Head(Ahead) = Ahead[1]
  BY AheadType
<1>2. /\ Len(Ahead') = Len(Ahead) - 1
      /\ \A i \in 1..Len(Ahead') : Ahead'[i] = Ahead[i + 1]
  BY <1>1, HeadTailProperties
<1>3. InTasks = InTasks' \cup ({Head(Ahead)} \ {Other})
  <2>1. Range(Ahead) = {Head(Ahead)} \cup Range(Ahead')
    BY <1>1, RangeHeadTail
  <2> QED  BY <2>1 DEF InTasks
<1>4. \A i \in 1..Len(Ahead') : i + 1 \in 1..Len(Ahead) /\ 1 \in 1..Len(Ahead) /\ 1 < i + 1
  BY <1>1, <1>2
<1>5. ASSUME NEW i \in 1..Len(Ahead'), Ahead'[i] # Other
      PROVE  arrivals' < Ahead'[i] /\ Ahead'[i] <= sent'
  BY <1>1, <1>2, <1>4, <1>5 DEF TasksInOrder
<1>6. ASSUME NEW i \in 1..Len(Ahead'), NEW j \in 1..Len(Ahead'), i < j,
             Ahead'[i] # Other, Ahead'[j] # Other
      PROVE  Ahead'[i] < Ahead'[j]
  BY <1>1, <1>2, <1>4, <1>6 DEF TasksInOrder
<1> QED  BY <1>3, <1>5, <1>6 DEF TasksInOrder
-----------------------------------------------------------------------------
(* What a step means to whoever handed the envelopes in. *)
Implements == Mailbox!Send \/ Mailbox!Converge \/ Mailbox!Drop

Explained ==
  \A e \in InHand \ InHand' :
    \/ e = lastConverged'
    \/ pc' = "none" /\ pc \in {"event", "regate", "leave", "notified"}
    \/ cpc = "other" /\ cpc' = "none"
    \/ cpc = "adopt" /\ pc = "none"

LEMMA Dropping ==
  ASSUME InHand' \subseteq InHand, UNCHANGED <<sent, lastConverged>> PROVE Implements
  BY DEF Implements, Mailbox!Drop

LEMMA TreeNumbers ==
  ASSUME PrGateAssumption, QueueInv PROVE arrivals \in Nat /\ lastConverged \in Nat /\ arrivals <= MaxEvents
  BY TypeParts DEF QueueInv, NumbersOK, PrGateAssumption, TypeOK

(* A task is handed to the contributorGate. *)
LEMMA PushKeeps ==
  ASSUME PrGateAssumption, TreeInv, PrEvent \/ OtherTask PROVE TreeInv' /\ Implements /\ Explained
<1> USE DEF TreeInv
<1>1. UNCHANGED vars /\ QueueInv'
  <2>1. UNCHANGED vars
    BY DEF PrEvent, OtherTask, PushTask
  <2> QED  BY <2>1, QueueStep
<1>2. UNCHANGED <<arrivals, owed, lastConverged>>
  BY <1>1 DEF vars
<1>3. CASE PrEvent
  <2>1. sent < MaxEvents /\ sent' = sent + 1 /\ PushTask(sent + 1) /\ sent + 1 \in 0..MaxEvents
        /\ sent + 1 # Other
    BY <1>3 DEF PrEvent, TasksShape, PrGateAssumption, Other
  <2>2. TasksInOrder' /\ InTasks' = InTasks \cup {sent + 1}
    BY <1>2, <2>1, AheadGrows, TreeNumbers
  <2>3. TasksShape'
    <3>1. tasks' \in Seq(0..MaxEvents) /\ tasks' # <<>> /\ (tasks # <<>> => Head(tasks') = Head(tasks))
      BY <2>1, AppendProperties DEF PushTask, TasksShape
    <3> QED  BY <1>2, <2>1, <3>1, TreeNumbers DEF TasksShape, PushTask, ParentPoints, Busy, Delivering, PrGateAssumption
  <2>4. InHand' = InHand \cup {sent + 1}
    BY <1>2, <2>2 DEF InHand
  <2>5. Implements
    BY <1>2, <2>1, <2>4 DEF Implements, Mailbox!Send
  <2> QED  BY <1>1, <2>2, <2>3, <2>4, <2>5 DEF Explained
<1>4. CASE OtherTask
  <2>1. sent' = sent /\ PushTask(Other) /\ Other \in 0..MaxEvents
    BY <1>4 DEF OtherTask, PrGateAssumption, Other
  <2>2. TasksInOrder' /\ InTasks' = InTasks
    BY <1>2, <2>1, AheadGrows, TreeNumbers
  <2>3. TasksShape'
    <3>1. tasks' \in Seq(0..MaxEvents) /\ tasks' # <<>> /\ (tasks # <<>> => Head(tasks') = Head(tasks))
      BY <2>1, AppendProperties DEF PushTask, TasksShape
    <3> QED  BY <1>2, <2>1, <3>1 DEF TasksShape, PushTask, ParentPoints, Busy, Delivering
  <2>4. InHand' = InHand
    BY <1>2, <2>2 DEF InHand
  <2>5. Implements
    BY <1>2, <2>1, <2>4, Dropping
  <2> QED  BY <1>1, <2>2, <2>3, <2>4, <2>5 DEF Explained
<1> QED  BY <1>3, <1>4

(* The parent moves from one await to the next with its tasks and its child as they are. *)
LEMMA ParentMoves ==
  ASSUME PrGateAssumption, TreeInv,
         \/ ParentContinueAsNew \/ TakeTask \/ Wake \/ ChildRefused
         \/ cpc = "signal" /\ cpc' = "start" /\ UNCHANGED <<vars, tasks, sent>>
         \/ cpc = "start" /\ cpc' = "refused" /\ UNCHANGED <<vars, tasks, sent>>
  PROVE  TreeInv' /\ Implements /\ Explained
<1> USE DEF TreeInv
<1>1. UNCHANGED <<vars, tasks, sent>> /\ cpc # "started" /\ cpc' # "started"
  BY DEF ParentContinueAsNew, TakeTask, Wake, ChildRefused
<1>2. QueueInv' /\ UNCHANGED <<arrivals, owed, lastConverged>>
  BY <1>1, QueueStep DEF vars
<1>3. TasksInOrder' /\ InTasks' = InTasks
  <2>1. Ahead' = Ahead
    BY <1>1 DEF Ahead
  <2> QED  BY <1>1, <1>2, <2>1, AheadKept
<1>4. TasksShape'
  <2>1. /\ cpc' \in ParentPoints
        /\ cpc' \in Busy => tasks # <<>>
        /\ cpc' \in Delivering => Head(tasks) # Other
        /\ cpc' = "other" => Head(tasks) = Other
    BY DEF TasksShape, ParentContinueAsNew, TakeTask, Wake, ChildRefused, ParentPoints, Busy, Delivering
  <2> QED  BY <1>1, <1>2, <2>1 DEF TasksShape
<1>5. InHand' = InHand
  BY <1>2, <1>3 DEF InHand
<1>6. Implements
  BY <1>1, <1>2, <1>5, Dropping
<1> QED  BY <1>2, <1>3, <1>4, <1>5, <1>6 DEF Explained

(* After the first task is done the parent is at its loop head with the others. *)
LEMMA DoneShape ==
  ASSUME TasksShape, tasks # <<>>, TaskDone, arrivals' <= sent PROVE TasksShape'
<1>1. Tail(tasks) \in Seq(0..MaxEvents)
  BY HeadTailProperties DEF TasksShape
<1> QED  BY <1>1 DEF TasksShape, TaskDone, ParentPoints, Busy, Delivering

(* A task is done without the child: another one's activity, a child that is there *)
(* with the envelope it was started with, or one that is gone.                     *)
LEMMA TaskEnds ==
  ASSUME PrGateAssumption, TreeInv, TaskDone, UNCHANGED vars,
         cpc = "other" \/ cpc = "started" \/ (cpc = "adopt" /\ pc = "none")
  PROVE  TreeInv' /\ Implements /\ Explained
<1> USE DEF TreeInv
<1>1. QueueInv' /\ UNCHANGED <<arrivals, owed, lastConverged, sent>>
  BY QueueStep DEF vars, TaskDone
<1>2. tasks # <<>> /\ TasksShape'
  <2>1. tasks # <<>> /\ arrivals' <= sent
    BY <1>1 DEF TasksShape, Busy
  <2> QED  BY <2>1, DoneShape
<1>3. /\ TasksInOrder' /\ InTasks' \subseteq InTasks
      /\ cpc # "adopt" => InTasks' = InTasks
  <2>1. CASE cpc = "started"
    <3>1. Ahead' = Ahead
      BY <2>1 DEF Ahead, TaskDone
    <3> QED  BY <1>1, <3>1, AheadKept
  <2>2. CASE cpc # "started"
    <3>1. Ahead = tasks /\ Ahead' = Tail(Ahead)
      BY <2>2 DEF Ahead, TaskDone
    <3>2. TasksInOrder' /\ InTasks = InTasks' \cup ({Head(tasks)} \ {Other})
      BY <1>1, <1>2, <3>1, AheadShifts, TreeNumbers
    <3>3. cpc = "other" => Head(tasks) = Other
      BY DEF TasksShape
    <3> QED  BY <2>2, <3>2, <3>3
  <2> QED  BY <2>1, <2>2
<1>4. InHand' \subseteq InHand /\ (cpc # "adopt" => InHand' = InHand)
  BY <1>1, <1>3 DEF InHand
<1>5. Implements
  BY <1>1, <1>4, Dropping
<1> QED  BY <1>1, <1>2, <1>3, <1>4, <1>5 DEF Explained

(* An envelope handed to the child is newer than all it was given. *)
LEMMA HeadIsNewer ==
  ASSUME PrGateAssumption, TreeInv, cpc \in Delivering
  PROVE  /\ Ahead = tasks /\ tasks # <<>> /\ Head(tasks) # Other
         /\ Head(tasks) \in (arrivals + 1)..MaxEvents /\ Head(tasks) <= sent
<1>1. Ahead = tasks /\ tasks # <<>> /\ Head(tasks) # Other /\ tasks \in Seq(0..MaxEvents)
  BY DEF TreeInv, TasksShape, Delivering, Busy, Ahead
<1>2. Head(tasks) = tasks[1] /\ 1 \in 1..Len(tasks) /\ Head(tasks) \in 0..MaxEvents
  BY <1>1, HeadTailProperties
<1>3. arrivals < Head(tasks) /\ Head(tasks) <= sent
  BY <1>1, <1>2 DEF TreeInv, TasksInOrder
<1> QED  BY <1>1, <1>2, <1>3, TreeNumbers DEF TreeInv, PrGateAssumption

(* The envelope is handed over: signalled to a live or an adopted child ... *)
LEMMA SignalHandsOver ==
  ASSUME PrGateAssumption, TreeInv, cpc \in {"signal", "adopt"}, SignalEvent(Head(tasks)), TaskDone
  PROVE  TreeInv' /\ Implements /\ Explained
<1>1. /\ Ahead = tasks /\ tasks # <<>> /\ Head(tasks) # Other
      /\ Head(tasks) \in (arrivals + 1)..MaxEvents /\ Head(tasks) <= sent
  BY HeadIsNewer DEF Delivering
<1>2. QueueInv'
  BY <1>1, SignalKeeps DEF TreeInv
<1>3. /\ arrivals' = Head(tasks) /\ owed' = owed \cup {Head(tasks)}
      /\ UNCHANGED <<lastConverged, sent>> /\ Ahead' = Tail(Ahead)
  BY <1>1 DEF SignalEvent, Accept, TaskDone, Ahead
<1>4. TasksInOrder' /\ InTasks = InTasks' \cup {Head(tasks)}
  BY <1>1, <1>3, AheadShifts, TreeNumbers DEF TreeInv
<1>5. TasksShape'
  BY <1>1, <1>3, DoneShape DEF TreeInv
<1>6. InHand' = InHand
  BY <1>3, <1>4 DEF InHand
<1>7. Implements
  BY <1>3, <1>6, Dropping
<1> QED  BY <1>2, <1>4, <1>5, <1>6, <1>7 DEF TreeInv, Explained

(* ... or in the start of a fresh one. *)
LEMMA StartHandsOver ==
  ASSUME PrGateAssumption, TreeInv, cpc = "start", cpc' = "started", StartChild(Head(tasks)),
         UNCHANGED <<tasks, sent>>
  PROVE  TreeInv' /\ Implements /\ Explained
<1>1. /\ Ahead = tasks /\ tasks # <<>> /\ Head(tasks) # Other
      /\ Head(tasks) \in (arrivals + 1)..MaxEvents /\ Head(tasks) <= sent
  BY HeadIsNewer DEF Delivering
<1>2. QueueInv'
  BY <1>1, OpenKeeps DEF TreeInv, StartChild
<1>3. /\ arrivals' = Head(tasks) /\ owed' = owed \cup {Head(tasks)}
      /\ UNCHANGED lastConverged /\ Ahead' = Tail(Ahead)
  BY <1>1 DEF StartChild, Accept, Ahead
<1>4. TasksInOrder' /\ InTasks = InTasks' \cup {Head(tasks)}
  BY <1>1, <1>3, AheadShifts, TreeNumbers DEF TreeInv
<1>5. TasksShape'
  BY <1>1, <1>3 DEF TreeInv, TasksShape, ParentPoints, Busy, Delivering
<1>6. InHand' = InHand
  BY <1>3, <1>4 DEF InHand
<1>7. Implements
  BY <1>3, <1>6, Dropping
<1> QED  BY <1>2, <1>4, <1>5, <1>6, <1>7 DEF TreeInv, Explained

(* The parent's run ends: idle with nothing queued, or failed. *)
LEMMA GoneKeeps ==
  ASSUME PrGateAssumption, TreeInv, ParentIdle \/ ParentFail PROVE TreeInv' /\ Implements /\ Explained
<1>1. UNCHANGED <<vars, sent>> /\ cpc' = "none" /\ tasks' = <<>>
  BY DEF ParentIdle, ParentFail, ParentGone
<1>2. QueueInv' /\ UNCHANGED <<arrivals, owed, lastConverged>>
  BY <1>1, QueueStep DEF TreeInv, vars
<1>3. TasksInOrder' /\ InTasks' = {}
  <2>1. Ahead' = <<>>
    BY <1>1 DEF Ahead
  <2> QED  BY <2>1, AheadGone
<1>4. TasksShape'
  BY <1>1, <1>2 DEF TreeInv, TasksShape, ParentPoints, Busy, Delivering
<1>5. InHand' \subseteq InHand
  BY <1>2, <1>3 DEF InHand
<1>6. Implements
  BY <1>1, <1>2, <1>5, Dropping
<1>7. cpc # "other" => InTasks = {}
  BY EmptyRange DEF ParentIdle, ParentFail, InTasks, Ahead
<1>8. Explained
  BY <1>1, <1>2, <1>7 DEF Explained, InHand
<1> QED  BY <1>2, <1>3, <1>4, <1>6, <1>8 DEF TreeInv
-----------------------------------------------------------------------------
(* A converge that succeeds is of the oldest envelope in hand. *)
LEMMA ConvergeKeeps ==
  ASSUME PrGateAssumption, TreeInv, EventConverged, UNCHANGED parentVars
  PROVE  TreeInv' /\ Implements /\ Explained
<1> DEFINE e == Head(queue)
<1> USE DEF TreeInv
<1>1. QueueInv'
  BY QueueStep DEF Next, Work, Settle
<1>2. /\ queue # <<>> /\ queue \in Seq(1..MaxEvents) /\ QueueIsOwed /\ EventsInOrder /\ Delivered
      /\ arrivals \in Nat /\ lastConverged \in Nat
  BY TypeParts, TreeNumbers DEF QueueInv, LoopShape, EventConverged, NumbersOK
<1>3. /\ e = queue[1] /\ 1 \in 1..Len(queue) /\ DOMAIN queue = 1..Len(queue) /\ e \in Nat
      /\ \A i \in 1..Len(queue) : queue[i] \in Nat
  BY <1>2, HeadTailProperties DEF PrGateAssumption
<1>4. e > lastConverged /\ e <= arrivals /\ e \in owed /\ \A f \in owed : e <= f
  <2>1. \A i \in 1..Len(queue) : e <= queue[i]
    BY <1>2, <1>3 DEF EventsInOrder
  <2> QED  BY <1>2, <1>3, <2>1 DEF EventsInOrder, Delivered, QueueIsOwed, Range
<1>5. \A f \in InTasks : f \in Nat /\ e < f
  BY <1>2, <1>3, <1>4, AheadIsNewer DEF PrGateAssumption
<1>6. owed' = owed \ {e} /\ lastConverged' = e /\ UNCHANGED <<arrivals, sent>> /\ Ahead' = Ahead
  BY DEF EventConverged, parentVars, Ahead
<1>7. TasksInOrder' /\ InTasks' = InTasks
  BY <1>6, AheadKept
<1>8. TasksShape'
  BY <1>6 DEF TasksShape, parentVars
<1>9. InHand' = InHand \ {e}
  BY <1>3, <1>5, <1>6, <1>7 DEF InHand
<1>10. e \in InHand /\ \A f \in InHand : e <= f
  BY <1>3, <1>4, <1>5 DEF InHand
<1>11. Implements
  BY <1>4, <1>6, <1>9, <1>10 DEF Implements, Mailbox!Converge
<1> QED  BY <1>1, <1>6, <1>7, <1>8, <1>9, <1>11 DEF Explained

(* The child's other steps give the envelopes it holds to nobody. *)
LEMMA ChildMoves ==
  ASSUME PrGateAssumption, TreeInv,
         \/ TreeReGate
         \/ TreeNotify
         \/ /\ ContinueAsNew \/ EnterLoop \/ TakeEvent \/ TakeReGate \/ ReGateConverged \/ IdleTimeout
            /\ UNCHANGED parentVars
  PROVE  TreeInv' /\ Implements /\ Explained
<1> USE DEF TreeInv
<1>1. QueueInv'
  <2>1. CASE TreeReGate
    BY <2>1, ReGateKeeps DEF TreeReGate
  <2>2. CASE ~TreeReGate
    BY <2>2, QueueStep DEF TreeNotify, Next, Work, Settle
  <2> QED  BY <2>1, <2>2
<1>2. UNCHANGED <<arrivals, owed, lastConverged>>
  BY DEF TreeReGate, ReGate, SignalReGate, TreeNotify, NotifyParent, ContinueAsNew, EnterLoop, TakeEvent,
         TakeReGate, ReGateConverged, IdleTimeout, ghostVars
<1>3. UNCHANGED <<tasks, sent>> /\ (cpc' = cpc \/ (cpc = "wait" /\ cpc' = "head"))
  BY DEF TreeReGate, TreeNotify, parentVars
<1>4. TasksInOrder' /\ InTasks' = InTasks
  <2>1. Ahead' = Ahead
    BY <1>3 DEF Ahead
  <2> QED  BY <1>2, <1>3, <2>1, AheadKept
<1>5. TasksShape'
  BY <1>2, <1>3 DEF TasksShape, ParentPoints, Busy, Delivering
<1>6. InHand' = InHand
  BY <1>2, <1>4 DEF InHand
<1>7. Implements
  BY <1>2, <1>3, <1>6, Dropping
<1> QED  BY <1>1, <1>4, <1>5, <1>6, <1>7 DEF Explained

(* A child's run closes with what it held: nothing, if it was not failing or leaving. *)
LEMMA ClosesKeeps ==
  ASSUME PrGateAssumption, TreeInv, ChildCloses PROVE TreeInv' /\ Implements /\ Explained
<1> USE DEF TreeInv
<1>1. QueueInv'
  BY QueueStep DEF ChildCloses, Next, Work, Settle
<1>2. /\ owed' = {} /\ pc' = "none"
      /\ UNCHANGED <<arrivals, lastConverged, cpc, tasks, sent>>
  BY DEF ChildCloses, CapComplete, Fail, Complete, Close
<1>3. TasksInOrder' /\ InTasks' = InTasks
  <2>1. Ahead' = Ahead
    BY <1>2 DEF Ahead
  <2> QED  BY <1>2, <2>1, AheadKept
<1>4. TasksShape'
  BY <1>2 DEF TasksShape
<1>5. InHand' \subseteq InHand
  BY <1>2, <1>3 DEF InHand
<1>6. Implements
  BY <1>2, <1>5, Dropping
<1>7. pc \in {"event", "regate", "leave", "notified"} \/ owed = {}
  BY EmptyRange DEF ChildCloses, CapComplete, Fail, Complete, HasWork, QueueInv, QueueIsOwed
<1>8. Explained
  BY <1>2, <1>3, <1>7 DEF Explained, InHand
<1> QED  BY <1>1, <1>3, <1>4, <1>6, <1>8

-----------------------------------------------------------------------------
LEMMA TreeStarts == ASSUME PrGateAssumption, TreeInit PROVE TreeInv /\ Mailbox!MInit
<1>1. QueueInv
  BY QueueInit DEF TreeInit
<1>2. TasksShape
  BY EmptyQueue DEF TreeInit, Init, TasksShape, ParentPoints, Busy, Delivering, PrGateAssumption
<1>3. Ahead = <<>>
  BY DEF TreeInit, Ahead
<1>4. TasksInOrder
  BY <1>3 DEF TasksInOrder
<1>5. InHand = {} /\ sent = 0 /\ lastConverged = 0
  BY <1>3, EmptyRange DEF TreeInit, Init, InHand, InTasks
<1> QED  BY <1>1, <1>2, <1>4, <1>5 DEF TreeInv, Mailbox!MInit

(* Every step keeps the invariant, is one of the mailbox, and loses nothing else. *)
LEMMA TreeStep ==
  ASSUME PrGateAssumption, TreeInv, [TreeNext]_treeVars
  PROVE  TreeInv' /\ Implements /\ Explained
<1>1. CASE PrEvent \/ OtherTask
  BY <1>1, PushKeeps
<1>2. CASE ParentContinueAsNew \/ TakeTask \/ Wake \/ ChildRefused
  BY <1>2, ParentMoves
<1>3. CASE OtherDone \/ ChildStarted
  BY <1>3, TaskEnds DEF OtherDone, ChildStarted
<1>4. CASE ParentFail \/ ParentIdle
  BY <1>4, GoneKeeps
<1>5. CASE SignalLive
  BY <1>5, SignalHandsOver, ParentMoves DEF SignalLive
<1>6. CASE SignalAdopted
  BY <1>6, SignalHandsOver, TaskEnds DEF SignalAdopted
<1>7. CASE ServerStart
  BY <1>7, StartHandsOver, ParentMoves DEF ServerStart
<1>8. CASE TreeReGate \/ TreeNotify
  BY <1>8, ChildMoves
<1>9. CASE ChildStep
  BY <1>9, ChildMoves, ConvergeKeeps DEF ChildStep
<1>10. CASE ChildCloses
  BY <1>10, ClosesKeeps
<1>11. CASE UNCHANGED treeVars
  <2>1. UNCHANGED vars /\ UNCHANGED parentVars
    BY <1>11 DEF treeVars
  <2>2. QueueInv' /\ UNCHANGED <<arrivals, owed, lastConverged, pc>>
    BY <2>1, QueueStep DEF TreeInv, vars
  <2>3. Ahead' = Ahead /\ UNCHANGED <<cpc, tasks, sent>>
    BY <2>1 DEF parentVars, Ahead
  <2>4. TasksInOrder' /\ InTasks' = InTasks
    BY <2>2, <2>3, AheadKept DEF TreeInv
  <2>5. TasksShape' /\ InHand' = InHand
    BY <2>2, <2>3, <2>4 DEF TreeInv, TasksShape, InHand
  <2> QED  BY <2>2, <2>3, <2>4, <2>5, Dropping DEF TreeInv, Explained
<1> QED
  BY <1>1, <1>2, <1>3, <1>4, <1>5, <1>6, <1>7, <1>8, <1>9, <1>10, <1>11
  DEF TreeNext, ParentWork, ChildWork

THEOREM TreeInvariant == TreeSpec => []TreeInv
<1>1. TreeInit => TreeInv
  BY TreeStarts, PrGateAssumption
<1>2. TreeInv /\ [TreeNext]_treeVars => TreeInv'
  BY TreeStep, PrGateAssumption
<1> QED  BY <1>1, <1>2, PTL DEF TreeSpec

(* contributor-gate.ts:253-292, pr-gate.ts:151-155: through starts, refusals,       *)
(* adoptions, rolls and failures of both workflows, each envelope takes effect at   *)
(* most once, the oldest in hand first and none after a newer one.                  *)
THEOREM TreeImplements == TreeSpec => ImplementsMailbox
<1>1. TreeInit => Mailbox!MInit
  BY TreeStarts, PrGateAssumption
<1>2. TreeInv /\ [TreeNext]_treeVars => [Mailbox!MNext]_(Mailbox!mailbox)
  BY TreeStep, PrGateAssumption DEF Implements, Mailbox!MNext
<1> QED
  BY <1>1, <1>2, TreeInvariant, PTL DEF TreeSpec, ImplementsMailbox, Mailbox!MSpec

(* An envelope that leaves the tree unconverged went down with a run, or its child *)
(* was gone when it was to be adopted.                                              *)
THEOREM LossExplained == TreeSpec => LostOnlyWithItsRun
<1>1. TreeInv /\ [TreeNext]_treeVars => [Explained]_treeVars
  BY TreeStep, PrGateAssumption
<1> QED
  BY <1>1, TreeInvariant, PTL DEF TreeSpec, LostOnlyWithItsRun, Explained
-----------------------------------------------------------------------------
(* The parent's count and flags, apart from the rest: no step of the child counts. *)
LEMMA CountKept ==
  ASSUME GateTreeAssumption, TasksShape, TasksCounted, [TreeNext]_treeVars PROVE TasksCounted'
<1> USE DEF TasksCounted, Busy, GateTreeAssumption
<1>1. CASE PrEvent \/ OtherTask
  BY <1>1 DEF PrEvent, OtherTask, PushTask
<1>2. CASE ParentContinueAsNew \/ TakeTask \/ Wake
  BY <1>2 DEF ParentContinueAsNew, TakeTask, Wake
<1>3. CASE OtherDone \/ ChildStarted \/ SignalAdopted
  BY <1>3 DEF OtherDone, ChildStarted, SignalAdopted, TaskDone
<1>4. CASE SignalLive \/ ServerStart \/ ChildRefused
  BY <1>4 DEF SignalLive, ServerStart, ChildRefused, TaskDone
<1>5. CASE ParentFail \/ ParentIdle
  BY <1>5 DEF ParentFail, ParentIdle, ParentGone
<1>6. CASE TreeReGate \/ ChildWork
  BY <1>6 DEF TreeReGate, ChildWork, TreeNotify, ChildCloses, ChildStep, parentVars
<1>7. CASE UNCHANGED treeVars
  BY <1>7 DEF treeVars, parentVars
<1> QED
  BY <1>1, <1>2, <1>3, <1>4, <1>5, <1>6, <1>7 DEF TreeNext, ParentWork

LEMMA FlagsKept == ASSUME TreeFlags, [TreeNext]_treeVars PROVE TreeFlags'
<1> USE DEF TreeFlags
<1>1. CASE PrEvent \/ OtherTask \/ TreeReGate
  BY <1>1 DEF PrEvent, OtherTask, PushTask, TreeReGate, parentVars
<1>2. CASE ParentContinueAsNew \/ TakeTask \/ Wake \/ OtherDone \/ ParentFail \/ ParentIdle
  BY <1>2 DEF ParentContinueAsNew, TakeTask, Wake, OtherDone, ParentFail, ParentIdle, ParentGone
<1>3. CASE SignalLive \/ ServerStart \/ ChildStarted \/ ChildRefused \/ SignalAdopted
  BY <1>3 DEF SignalLive, ServerStart, ChildStarted, ChildRefused, SignalAdopted
<1>4. CASE ChildWork
  BY <1>4 DEF ChildWork, TreeNotify, ChildCloses, ChildStep, parentVars
<1>5. CASE UNCHANGED treeVars
  BY <1>5 DEF treeVars, parentVars
<1> QED
  BY <1>1, <1>2, <1>3, <1>4, <1>5 DEF TreeNext, ParentWork

(* The live set may name a child that has ended, but misses none of its own that runs. *)
LEMMA KnownKept ==
  ASSUME ChildKnown, [TreeNext]_treeVars PROVE ChildKnown'
<1> USE DEF ChildKnown
<1>1. CASE PrEvent \/ OtherTask
  BY <1>1 DEF PrEvent, OtherTask, PushTask, vars
<1>2. CASE TreeReGate
  BY <1>2 DEF TreeReGate, ReGate, SignalReGate, Open, Listening, parentVars
<1>3. CASE ParentContinueAsNew \/ TakeTask \/ Wake \/ OtherDone \/ ChildRefused
  BY <1>3 DEF ParentContinueAsNew, TakeTask, Wake, OtherDone, ChildRefused, vars
<1>4. CASE ParentFail \/ ParentIdle
  BY <1>4 DEF ParentFail, ParentIdle, ParentGone
<1>5. CASE SignalLive \/ SignalAdopted
  BY <1>5 DEF SignalLive, SignalAdopted, SignalEvent, Listening, TaskDone, vars
<1>6. CASE ServerStart \/ ChildStarted
  BY <1>6 DEF ServerStart, StartChild, Open, ChildStarted, TaskDone, vars
<1>7. CASE TreeNotify
  BY <1>7 DEF TreeNotify, NotifyParent
<1>8. CASE ChildCloses
  BY <1>8 DEF ChildCloses
<1>9. CASE ChildStep
  BY <1>9 DEF ChildStep, ContinueAsNew, EnterLoop, TakeEvent, EventConverged, TakeReGate, ReGateConverged,
              IdleTimeout, parentVars
<1>10. CASE UNCHANGED treeVars
  BY <1>10 DEF treeVars, parentVars, vars
<1> QED
  BY <1>1, <1>2, <1>3, <1>4, <1>5, <1>6, <1>7, <1>8, <1>9, <1>10 DEF TreeNext, ParentWork, ChildWork

(* Both workflows keep their types, and neither takes more than its cap in a run. *)
THEOREM TreeTypes == TreeSpec => []TreeTypeOK
<1>1. TreeInit => TasksCounted
  BY GateTreeAssumption DEF TreeInit, TasksCounted, Busy, GateTreeAssumption
<1>2. TreeInit => TreeFlags
  BY DEF TreeInit, TreeFlags
<1>3. TreeInv /\ TasksCounted /\ [TreeNext]_treeVars => TasksCounted'
  BY CountKept, GateTreeAssumption DEF TreeInv
<1>4. TreeFlags /\ [TreeNext]_treeVars => TreeFlags'
  BY FlagsKept
<1>5. TreeInv /\ TasksCounted /\ TreeFlags => TreeTypeOK
  BY DEF TreeInv, QueueInv, TasksShape, TasksCounted, TreeFlags, TreeTypeOK
<1> QED
  BY <1>1, <1>2, <1>3, <1>4, <1>5, TreeInvariant, PTL DEF TreeSpec

(* contributor-gate.ts:89-91: a contributorGate that completes for idleness leaves *)
(* no child of its own that has yet to report.                                     *)
THEOREM NoOrphans == TreeSpec => IdleNeverOrphans
<1> DEFINE Idles == cpc = "wait" /\ cpc' = "none" => ~(ours /\ pc # "none" /\ pc # "notified")
<1>1. TreeInit => ChildKnown
  BY DEF TreeInit, Init, ChildKnown
<1>2. ChildKnown /\ [TreeNext]_treeVars => ChildKnown'
  BY KnownKept
<1>3. ChildKnown /\ [TreeNext]_treeVars => [Idles]_treeVars
  <2> SUFFICES ASSUME ChildKnown, TreeNext, cpc = "wait", cpc' = "none"
               PROVE  ~(ours /\ pc # "none" /\ pc # "notified")
    OBVIOUS
  <2>1. ParentIdle
    BY DEF TreeNext, PrEvent, OtherTask, PushTask, TreeReGate, ParentWork, ParentContinueAsNew, TakeTask, Wake,
           OtherDone, ParentFail, SignalLive, ServerStart, ChildStarted, ChildRefused, SignalAdopted,
           ChildWork, TreeNotify, ChildCloses, ChildStep, parentVars
  <2> QED  BY <2>1 DEF ParentIdle, ChildKnown
<1> QED
  BY <1>1, <1>2, <1>3, PTL DEF TreeSpec, IdleNeverOrphans
=============================================================================
