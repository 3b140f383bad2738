-------------------------- MODULE ProjectGateProofs --------------------------
(***************************************************************************)
(* What the fan-outs of any number of requests, over any number of rows,    *)
(* pages, rolls, retries and failed runs, leave in the re-gate slot of one  *)
(* prGate, and whom they reach.                                             *)
(***************************************************************************)
EXTENDS ProjectGate, FiniteSetTheorems, WellFoundedInduction, TLAPS

(* Sets of rows. *)
LEMMA LeastOf ==
  ASSUME NEW T, T \subseteq Nat, T # {}
  PROVE  \E x \in T : \A y \in T : x <= y
<1> DEFINE R == {ss \in Nat \X Nat : ss[1] < ss[2]}
<1>1. IsWellFoundedOn(R, Nat)
  BY NatLessThanWellFounded DEF OpToRel
<1>2. \E x \in T : \A y \in T : ~ (<<y, x>> \in R)
  BY <1>1, WFMin
<1>3. PICK x \in T : \A y \in T : ~ (<<y, x>> \in R)
  BY <1>2
<1>4. \A y \in T : ~ (y < x)
  BY <1>3
<1> QED BY <1>4

LEMMA MinOf ==
  ASSUME NEW T, T \subseteq Nat, T # {}
  PROVE  Min(T) \in T /\ \A y \in T : Min(T) <= y
<1>1. \E x \in T : \A y \in T : x <= y
  BY LeastOf
<1> QED BY <1>1 DEF Min

LEMMA MaxOf ==
  ASSUME NEW n \in Nat, NEW T, T \subseteq 1..n, T # {}
  PROVE  Max(T) \in T /\ \A y \in T : Max(T) >= y
<1> DEFINE Above == {m \in Nat : \A y \in T : y <= m}
<1>1. PICK m \in Above : \A k \in Above : m <= k
  <2>1. n \in Above
    OBVIOUS
  <2> QED BY <2>1, LeastOf
<1>2. m \in T
  <2>1. SUFFICES ASSUME m \notin T PROVE FALSE
    OBVIOUS
  <2>2. m # 0
    <3>1. PICK y \in T : TRUE
      OBVIOUS
    <3>2. y \in 1..n /\ y <= m
      BY <3>1, <1>1
    <3> QED BY <3>2
  <2>3. m - 1 \in Nat
    BY <1>1, <2>2
  <2>4. \A y \in T : y <= m - 1
    <3> SUFFICES ASSUME NEW y \in T PROVE y <= m - 1
      OBVIOUS
    <3>1. y <= m /\ y # m /\ y \in Nat
      BY <1>1, <2>1
    <3> QED BY <3>1, <1>1
  <2>5. m - 1 \in Above
    BY <2>3, <2>4
  <2>6. m <= m - 1
    BY <1>1, <2>5
  <2> QED BY <1>1, <2>6
<1>3. \E x \in T : \A y \in T : x >= y
  BY <1>1, <1>2
<1> QED BY <1>3 DEF Max

(* The first k of a set of rows: all of them, or k of them and none is skipped. *)
FirstOf(S, k) == {p \in S : Cardinality({q \in S : q <= p}) <= k}

LEMMA FirstOnes ==
  ASSUME NEW n \in Nat, NEW S, S \subseteq 1..n, NEW k \in Nat \ {0}
  PROVE  /\ FirstOf(S, k) # S => Cardinality(FirstOf(S, k)) = k
         /\ \A p \in FirstOf(S, k), q \in S : q <= p => q \in FirstOf(S, k)
<1>0. SUFFICES ASSUME NEW F, F = {p \in S : Cardinality({q \in S : q <= p}) <= k}
      PROVE  /\ F # S => Cardinality(F) = k
             /\ \A p \in F, q \in S : q <= p => q \in F
  BY DEF FirstOf
<1> USE <1>0
<1> DEFINE To(p) == {q \in S : q <= p}
<1>1. IsFiniteSet(S) /\ \A T \in SUBSET S : IsFiniteSet(T) /\ Cardinality(T) \in Nat
  <2>1. IsFiniteSet(1..n)
    BY FS_Interval
  <2> QED BY <2>1, FS_Subset, FS_CardinalityType
<1>2. ASSUME NEW T \in SUBSET S, NEW U \in SUBSET T PROVE Cardinality(U) <= Cardinality(T)
  BY <1>1, FS_Subset
<1>3. ASSUME NEW p \in F, NEW q \in S, q <= p PROVE q \in F
  <2>0. p \in S /\ p \in Nat /\ q \in Nat /\ \A r \in S : r \in Nat
    OBVIOUS
  <2>1. To(q) \in SUBSET To(p) /\ To(p) \in SUBSET S
    <3>1. \A r \in S : r <= q => r <= p
      BY <2>0, <1>3
    <3> QED BY <3>1
  <2>2. Cardinality(To(q)) <= Cardinality(To(p))
    BY <2>1, <1>2
  <2>3. Cardinality(To(p)) <= k /\ Cardinality(To(p)) \in Nat /\ Cardinality(To(q)) \in Nat
    BY <1>1, <2>1
  <2>4. Cardinality(To(q)) <= k
    BY <2>2, <2>3
  <2> QED BY <2>4
<1>4. ASSUME F # S PROVE Cardinality(F) = k
  <2>0. S \ F \subseteq Nat /\ S \ F # {}
    <3>1. \A r \in F : r \in S
      OBVIOUS
    <3>2. S \ F # {}
      BY <1>4, <3>1
    <3>3. 1..n \subseteq Nat
      OBVIOUS
    <3>4. S \ F \subseteq Nat
      BY <3>3, Zenon
    <3> QED BY <3>2, <3>4
  <2>1. PICK m \in S \ F : \A y \in S \ F : m <= y
    BY <2>0, LeastOf
  <2>2. F = To(m) \ {m}
    <3>1. ASSUME NEW f \in F PROVE f <= m /\ f # m
      BY <3>1, <1>3, <2>1
    <3>2. ASSUME NEW q \in S, q <= m, q # m PROVE q \in F
      BY <3>2, <2>1
    <3> QED BY <3>1, <3>2
  <2>3. Cardinality(F) = Cardinality(To(m)) - 1
    <3>1. m \in To(m) /\ IsFiniteSet(To(m))
      BY <1>1, <2>1
    <3> QED BY <3>1, <2>2, FS_RemoveElement
  <2>4. ~ (Cardinality(To(m)) <= k) /\ Cardinality(To(m)) \in Nat
    BY <1>1, <2>1
  <2>5. Cardinality(F) >= k /\ Cardinality(F) \in Nat
    BY <2>3, <2>4, <1>1
  <2>6. Cardinality(F) <= k
    <3>1. CASE F = {}
      <4>1. Cardinality(F) = 0
        BY <3>1, FS_EmptySet
      <4> QED BY <4>1
    <3>2. CASE F # {}
      <4>1. Max(F) \in F /\ \A y \in F : Max(F) >= y
        BY <3>2, MaxOf
      <4>2. F \in SUBSET To(Max(F)) /\ To(Max(F)) \in SUBSET S
        BY <4>1
      <4>3. Cardinality(F) <= Cardinality(To(Max(F))) /\ Cardinality(To(Max(F))) <= k
        BY <4>1, <4>2, <1>2
      <4>4. Cardinality(To(Max(F))) \in Nat
        BY <4>2, <1>1
      <4> HIDE DEF To
      <4> QED BY <4>3, <4>4, <2>5
    <3> QED BY <3>1, <3>2
  <2> QED BY <2>5, <2>6
<1> QED BY <1>3, <1>4

-----------------------------------------------------------------------------
(* Types: a fan-out has its task at the head of the queue, and the run room for it. *)
TypeInv ==
  /\ TypeOK
  /\ pc \in {"list", "batch"} => tasks # <<>> /\ processed < TasksCap
  /\ zombie.todo # {} => zombie.nonce # 0

(* The re-gate slot of the prGate that is followed, and what was sent to it. *)
SlotTyped ==
  /\ pend \in 0..MaxNonces /\ last \in 0..MaxNonces
  /\ seen \subseteq 1..MaxNonces /\ due \in BOOLEAN /\ displaced \in BOOLEAN

LEMMA NoTasks == <<>> \in Seq(Task)
  OBVIOUS

LEMMA TypeInit == Init => TypeInv
<1> SUFFICES ASSUME Init PROVE TypeInv
  OBVIOUS
<1>1. written \in 0..MaxRows /\ erased = {} /\ page = {} /\ todo = {} /\ goal = {} /\ reached = {}
  BY ProjectGateAssumption DEF Init
<1>2. report \in [active : BOOLEAN, cla : BOOLEAN] /\ zombie \in [todo : SUBSET Rows, nonce : 0..MaxNonces]
  BY ProjectGateAssumption DEF Init
<1>3. pc \in Points /\ pc = "none" /\ tasks \in Seq(Task) /\ claTimer \in {"off", "armed", "due"}
  BY NoTasks DEF Init, Points
<1>5. active \in BOOLEAN /\ cla \in BOOLEAN /\ recDue \in BOOLEAN /\ cursorLost \in BOOLEAN
  BY DEF Init
<1>4. /\ cursor \in 0..MaxRows /\ next \in 0..MaxRows /\ processed \in 0..TasksCap
      /\ pend \in 0..MaxNonces /\ last \in 0..MaxNonces
      /\ asked \in 0..MaxNonces /\ flips \in 0..MaxFlips /\ faults \in 0..MaxFaults
  BY ProjectGateAssumption DEF Init
<1>6. seen \subseteq 1..MaxNonces /\ due \in BOOLEAN /\ displaced \in BOOLEAN /\ zombie.todo = {}
  BY DEF Init
<1> QED BY <1>1, <1>2, <1>3, <1>4, <1>5, <1>6 DEF TypeInv, TypeOK, SlotTyped

(* The run of a project that has none, or has one no more. *)
LEMMA TypeGone == 
  ASSUME TypeInv, Gone, UNCHANGED <<db, zombie, asked, flips>>, faults' \in 0..MaxFaults,
         SlotTyped'
  PROVE  TypeInv'
<1>1. /\ pc' = "none" /\ tasks' = <<>> /\ recDue' = FALSE /\ claTimer' = "off" /\ processed' = 0
      /\ cursor' = 0 /\ next' = 0 /\ page' = {} /\ todo' = {}
      /\ goal' = {} /\ reached' = {} /\ cursorLost' = FALSE
  BY DEF Gone
<1>2. report' \in [active : BOOLEAN, cla : BOOLEAN]
  BY DEF Gone
<1>3. processed' \in 0..TasksCap /\ cursor' \in 0..MaxRows /\ next' \in 0..MaxRows
  BY <1>1, ProjectGateAssumption
<1>4. /\ written' \in 0..MaxRows /\ erased' \subseteq Rows /\ active' \in BOOLEAN /\ cla' \in BOOLEAN
      /\ zombie' \in [todo : SUBSET Rows, nonce : 0..MaxNonces] /\ (zombie'.todo # {} => zombie'.nonce # 0)
      /\ asked' \in 0..MaxNonces /\ flips' \in 0..MaxFlips
  BY DEF TypeInv, TypeOK, db
<1> QED BY <1>1, <1>2, <1>3, <1>4, NoTasks DEF TypeInv, TypeOK, Points, SlotTyped

(* A nonce reaches the prGate that is followed, or another one. *)
LEMMA SignalTyped ==
  ASSUME TypeInv, NEW p, NEW n \in 1..MaxNonces, SignalPr(p, n)
  PROVE  SlotTyped'
<1>1. SlotTyped
  BY DEF TypeInv, TypeOK, SlotTyped
<1>2. CASE p = Watched
  <2>1. pend' = n /\ last' = last /\ seen' = seen \cup {n}
    BY <1>2 DEF SignalPr, Told
  <2>2. due' \in BOOLEAN /\ displaced' \in BOOLEAN
    BY <1>2 DEF SignalPr, Told
  <2> QED BY <1>1, <2>1, <2>2 DEF SlotTyped
<1>3. CASE p # Watched
  BY <1>1, <1>3 DEF SignalPr, SlotTyped
<1> QED BY <1>2, <1>3

LEMMA TypeWorld == ASSUME TypeInv, World \/ Ensure \/ Elapse PROVE TypeInv'
<1> USE ProjectGateAssumption DEF TypeInv, TypeOK, Points
<1>1. CASE TrackPr
  BY <1>1 DEF TrackPr, fan, run, gates, ghosts, bounds
<1>2. CASE Configure
  <2>1. active' \in BOOLEAN /\ cla' \in BOOLEAN
    BY <1>2 DEF Configure
  <2>2. goal' \subseteq Rows /\ flips' \in 0..MaxFlips
    BY <1>2 DEF Configure
  <2>3. UNCHANGED <<written, erased, fan, run, gates, reached, cursorLost, asked, faults>>
    BY <1>2 DEF Configure
  <2> QED BY <2>1, <2>2, <2>3 DEF fan, run, gates
<1>3. ASSUME NEW p \in Rows, ErasePr(p) PROVE TypeInv'
  BY <1>3 DEF ErasePr, fan, run, gates, ghosts, bounds
<1>4. ASSUME NEW k \in {"all", "author"}, Request(k) PROVE TypeInv'
  <2> DEFINE t == [kind |-> k, nonce |-> asked + 1]
  <2>1. asked' = asked + 1 /\ asked' \in 0..MaxNonces /\ t \in Task
    BY <1>4 DEF Request, Task
  <2>2. UNCHANGED <<db, fan, gates, ghosts, flips, faults>>
    BY <1>4 DEF Request
  <2>3. \/ Start(<<t>>)
        \/ pc # "none" /\ tasks' = Append(tasks, t) /\ UNCHANGED <<pc, recDue, claTimer, report, processed>>
    BY <1>4 DEF Request
  <2> HIDE DEF t
  <2>4. CASE Start(<<t>>)
    <3>1. tasks' \in Seq(Task)
      BY <2>1, <2>4 DEF Start
    <3>2. pc' = "head" /\ processed' = 0 /\ recDue' = FALSE /\ claTimer' = "off" /\ UNCHANGED report
      BY <2>4 DEF Start
    <3>3. processed' \in 0..TasksCap
      BY <3>2
    <3>4. recDue' \in BOOLEAN
      BY <3>2
    <3> QED BY <2>1, <2>2, <3>1, <3>2, <3>3, <3>4 DEF db, fan, gates, ghosts
  <2>5. CASE tasks' = Append(tasks, t) /\ UNCHANGED <<pc, recDue, claTimer, report, processed>>
    <3>1. tasks' \in Seq(Task) /\ tasks' # <<>>
      BY <2>1, <2>5
    <3> QED BY <2>1, <2>2, <2>5, <3>1 DEF db, fan, gates, ghosts
  <2> QED BY <2>3, <2>4, <2>5
<1>5. CASE Ensure
  <2>1. pc' = "head" /\ processed' = 0 /\ recDue' = FALSE /\ claTimer' = "off" /\ UNCHANGED report
    BY <1>5 DEF Ensure, Start
  <2>3. processed' \in 0..TasksCap
    BY <2>1
  <2>4. recDue' \in BOOLEAN
    BY <2>1
  <2>2. tasks' \in Seq(Task)
    BY <1>5, NoTasks DEF Ensure, Start
  <2> QED BY <1>5, <2>1, <2>2, <2>3, <2>4 DEF Ensure, db, fan, gates, ghosts, bounds
<1>6. CASE Elapse
  <2>1. recDue' \in BOOLEAN /\ claTimer' \in {"off", "armed", "due"}
    BY <1>6 DEF Elapse
  <2>2. UNCHANGED <<db, fan, pc, tasks, report, processed, gates, ghosts, bounds>>
    BY <1>6 DEF Elapse
  <2> QED BY <2>1, <2>2 DEF db, fan, gates, ghosts, bounds
<1>7. CASE ReEvaluate
  <2>1. asked' = asked + 1 /\ asked' \in 1..MaxNonces /\ SignalPr(Watched, asked + 1)
        /\ UNCHANGED <<db, fan, run, zombie, ghosts, flips, faults>>
    BY <1>7 DEF ReEvaluate
  <2>2. SlotTyped'
    BY <2>1, SignalTyped
  <2> QED BY <2>1, <2>2 DEF SlotTyped, db, fan, run, ghosts
<1> QED BY <1>1, <1>2, <1>3, <1>4, <1>5, <1>6, <1>7 DEF World

LEMMA TypeLoop ==
  ASSUME TypeInv, ContinueAsNew \/ Dispatch \/ Wake \/ Reconcile \/ ClaSweep
  PROVE  TypeInv'
<1> USE ProjectGateAssumption DEF TypeInv, TypeOK, Points
<1>1. CASE ContinueAsNew
  BY <1>1 DEF ContinueAsNew, db, fan, gates, ghosts, bounds
<1>2. CASE Dispatch
  <2>1. goal' \subseteq Rows /\ cursor' \in 0..MaxRows /\ reached' \subseteq Rows /\ cursorLost' \in BOOLEAN
    <3>1. Selected(Head(tasks)) \subseteq Rows
      <4>1. Tracked \subseteq Rows
        BY DEF Tracked, Rows
      <4> QED BY <4>1 DEF Selected
    <3>2. goal' \in {goal, Selected(Head(tasks))} /\ reached' \in {reached, {}} /\ cursor' \in {cursor, 0}
          /\ (cursorLost' = cursorLost \/ cursorLost' = FALSE)
      BY <1>2 DEF Dispatch
    <3>3. goal' \subseteq Rows /\ reached' \subseteq Rows
      BY <3>1, <3>2
    <3>4. cursor' \in 0..MaxRows
      BY <3>2
    <3>5. cursorLost' \in BOOLEAN
      BY <3>2
    <3> QED BY <3>3, <3>4, <3>5
  <2>2. /\ pc' \in {"count", "clasweep", "list", "wait"} /\ (pc' = "list" => tasks # <<>>)
        /\ processed < TasksCap
    BY <1>2 DEF Dispatch
  <2>3. UNCHANGED <<db, next, page, todo, tasks, recDue, claTimer, report, processed, gates, bounds>>
    BY <1>2 DEF Dispatch
  <2> QED BY <2>1, <2>2, <2>3 DEF db, gates, bounds
<1>3. CASE Wake
  BY <1>3 DEF Wake, At, db, fan, gates, ghosts, bounds
<1>4. CASE ReconcileProject
  BY <1>4 DEF ReconcileProject, At, db, fan, gates, ghosts, bounds
<1>5. CASE Retire
  BY <1>5, TypeGone DEF Retire, gates, bounds, SlotTyped
<1>6. CASE Rearm
  BY <1>6 DEF Rearm, At, db, fan, gates, ghosts, bounds
<1>7. CASE ClaSweep
  BY <1>7 DEF ClaSweep, At, db, fan, gates, ghosts, bounds
<1> QED BY <1>1, <1>2, <1>3, <1>4, <1>5, <1>6, <1>7 DEF Reconcile

(* A nonce at the head of the queue is one of the requests made. *)
LEMMA HeadTask ==
  ASSUME TypeInv, tasks # <<>>
  PROVE  Head(tasks).nonce \in 1..MaxNonces
<1>1. Head(tasks) \in Task
  BY DEF TypeInv, TypeOK
<1> QED BY <1>1 DEF Task

LEMMA TaskDoneTyped ==
  ASSUME TypeInv, pc \in {"list", "batch"}, TaskDone \/ (pc' \in {"list", "batch"} /\ UNCHANGED <<tasks, processed>>)
  PROVE  /\ tasks' \in Seq(Task) /\ pc' \in Points /\ processed' \in 0..TasksCap
         /\ pc' \in {"list", "batch"} => tasks' # <<>> /\ processed' < TasksCap
<1>1. tasks # <<>> /\ processed \in Nat /\ processed < TasksCap /\ tasks \in Seq(Task) /\ TasksCap \in Nat
  BY ProjectGateAssumption DEF TypeInv, TypeOK
<1>2. CASE TaskDone
  <2>1. pc' = "head" /\ tasks' = Tail(tasks) /\ processed' = processed + 1
    BY <1>2 DEF TaskDone
  <2>2. tasks' \in Seq(Task)
    BY <1>1, <2>1
  <2>3. processed' \in 0..TasksCap
    BY <1>1, <2>1
  <2> QED BY <2>1, <2>2, <2>3 DEF Points
<1>3. CASE pc' \in {"list", "batch"} /\ UNCHANGED <<tasks, processed>>
  BY <1>1, <1>3 DEF Points
<1> QED BY <1>2, <1>3

LEMMA ZombieNonce ==
  ASSUME TypeInv, zombie.todo # {}
  PROVE  zombie.nonce \in 1..MaxNonces
<1>1. zombie.nonce \in 0..MaxNonces /\ zombie.nonce # 0
  BY DEF TypeInv, TypeOK
<1> QED BY <1>1, ProjectGateAssumption

LEMMA PageTyped == PageAfter(cursor) \subseteq Tracked /\ Tracked \subseteq 1..written
  BY DEF PageAfter, Selected, Tracked

LEMMA TypeFan == ASSUME TypeInv, FanOut PROVE TypeInv'
<1> USE ProjectGateAssumption
<1>1. CASE ListReGatePrTargets
  <2>1. /\ pc = "list" /\ tasks # <<>> /\ page' = PageAfter(cursor) /\ todo' = page'
        /\ UNCHANGED <<db, cursor, recDue, claTimer, report, gates, ghosts, bounds>>
        /\ \/ page' = {} /\ TaskDone
           \/ pc' = "batch" /\ UNCHANGED <<tasks, processed>>
    BY <1>1 DEF ListReGatePrTargets, TypeInv
  <2>2. page' \subseteq Rows
    <3>1. written \in Nat /\ MaxRows \in Nat /\ written <= MaxRows
      BY DEF TypeInv, TypeOK
    <3>2. 1..written \subseteq Rows
      BY <3>1 DEF Rows
    <3> QED BY <2>1, <3>2, PageTyped
  <2>3. next' \in 0..MaxRows
    <3>1. CASE Cardinality(page') = PageSize
      <4>1. page' # {}
        BY <3>1, FS_EmptySet
      <4>2. Max(page') \in page' /\ next' = Max(page')
        BY <4>1, <3>1, <2>2, <1>1, MaxOf DEF Rows, ListReGatePrTargets
      <4>3. next' \in Rows
        BY <4>2, <2>2
      <4> QED BY <4>3 DEF Rows
    <3>2. CASE Cardinality(page') # PageSize
      BY <3>2, <1>1 DEF ListReGatePrTargets
    <3> QED BY <3>1, <3>2
  <2>5. /\ tasks' \in Seq(Task) /\ pc' \in Points /\ processed' \in 0..TasksCap
        /\ pc' \in {"list", "batch"} => tasks' # <<>> /\ processed' < TasksCap
    BY <2>1, TaskDoneTyped
  <2> QED BY <2>1, <2>2, <2>3, <2>5 DEF TypeInv, TypeOK, db, gates, ghosts, bounds
<1>2. CASE SendOne
  <2>1. tasks # <<>> /\ SignalPr(Min(todo), Head(tasks).nonce)
    BY <1>2 DEF SendOne, TypeInv
  <2>2. SlotTyped'
    BY <2>1, HeadTask, SignalTyped
  <2>3. Min(todo) \in todo
    <3>1. todo # {} /\ todo \subseteq Rows
      BY <1>2 DEF SendOne, TypeInv, TypeOK
    <3>2. Rows \subseteq Nat
      BY DEF Rows
    <3> QED BY <3>1, <3>2, MinOf
  <2>4. todo' \subseteq page /\ reached' \subseteq Rows
    BY <1>2, <2>3 DEF SendOne, TypeInv, TypeOK
  <2>5. UNCHANGED <<db, cursor, next, page, run, zombie, goal, cursorLost, bounds>>
    BY <1>2 DEF SendOne
  <2> QED BY <2>2, <2>4, <2>5 DEF TypeInv, TypeOK, SlotTyped, db, run, bounds
<1>3. CASE PageSent
  <2>1. /\ pc = "batch" /\ tasks # <<>>
        /\ UNCHANGED <<db, next, page, todo, recDue, claTimer, report, gates, ghosts, bounds>>
        /\ \/ TaskDone /\ UNCHANGED cursor
           \/ pc' = "list" /\ cursor' = next /\ UNCHANGED <<tasks, processed>>
    BY <1>3 DEF PageSent, TypeInv
  <2>3. /\ tasks' \in Seq(Task) /\ pc' \in Points /\ processed' \in 0..TasksCap
        /\ pc' \in {"list", "batch"} => tasks' # <<>> /\ processed' < TasksCap
    BY <2>1, TaskDoneTyped
  <2>4. cursor' \in 0..MaxRows
    BY <2>1 DEF TypeInv, TypeOK
  <2> QED BY <2>1, <2>3, <2>4 DEF TypeInv, TypeOK, db, gates, ghosts, bounds
<1> QED BY <1>1, <1>2, <1>3 DEF FanOut

LEMMA TypeFaults == ASSUME TypeInv, Faults \/ ZombieSends \/ Converge PROVE TypeInv'
<1> USE ProjectGateAssumption
<1>1. CASE BatchRetried
  BY <1>1 DEF TypeInv, TypeOK, BatchRetried, db, run, gates, ghosts
<1>2. CASE BatchTimesOut
  <2>1. tasks # <<>> /\ Head(tasks).nonce \in 1..MaxNonces
    BY <1>2, HeadTask DEF BatchTimesOut, TypeInv
  <2>2. zombie' \in [todo : SUBSET Rows, nonce : 0..MaxNonces] /\ zombie'.nonce # 0
    BY <1>2, <2>1 DEF BatchTimesOut, TypeInv, TypeOK
  <2> QED BY <1>2, <2>2 DEF TypeInv, TypeOK, BatchTimesOut, db, run, ghosts
<1>3. CASE Fail
  <2>1. Gone /\ faults' \in 0..MaxFaults /\ UNCHANGED <<db, gates, asked, flips>>
    BY <1>3 DEF Fail, TypeInv, TypeOK
  <2> QED BY <2>1, TypeGone DEF gates, TypeInv, TypeOK, SlotTyped
<1>4. CASE ZombieSends
  <2>1. SlotTyped'
    <3>1. zombie.nonce \in 1..MaxNonces
      BY <1>4, ZombieNonce DEF ZombieSends
    <3> QED BY <1>4, <3>1, SignalTyped DEF ZombieSends
  <2>2. zombie' \in [todo : SUBSET Rows, nonce : 0..MaxNonces] /\ zombie'.nonce # 0
    BY <1>4 DEF ZombieSends, TypeInv, TypeOK
  <2>3. UNCHANGED <<db, fan, run, ghosts, bounds>>
    BY <1>4 DEF ZombieSends
  <2> QED BY <2>1, <2>2, <2>3 DEF TypeInv, TypeOK, SlotTyped, db, fan, run, ghosts, bounds
<1>5. CASE Converge
  <2>1. pend' = 0 /\ last' \in {last, pend} /\ seen' = seen /\ displaced' = displaced
        /\ (due' = due \/ due' = FALSE)
    BY <1>5 DEF Converge
  <2>2. SlotTyped
    BY DEF TypeInv, TypeOK, SlotTyped
  <2>3. pend' \in 0..MaxNonces /\ last' \in 0..MaxNonces /\ seen' \subseteq 1..MaxNonces
    BY <2>1, <2>2 DEF SlotTyped
  <2>4. due' \in BOOLEAN /\ displaced' \in BOOLEAN
    BY <2>1, <2>2 DEF SlotTyped
  <2>5. UNCHANGED <<db, fan, run, zombie, ghosts, bounds>>
    BY <1>5 DEF Converge
  <2> QED BY <2>3, <2>4, <2>5 DEF TypeInv, TypeOK, db, fan, run, ghosts, bounds
<1> QED BY <1>1, <1>2, <1>3, <1>4, <1>5 DEF Faults

LEMMA TypeStep == TypeInv /\ [Next]_vars => TypeInv'
<1> SUFFICES ASSUME TypeInv, [Next]_vars PROVE TypeInv'
  OBVIOUS
<1>1. CASE UNCHANGED vars
  BY <1>1 DEF TypeInv, TypeOK, vars, db, fan, run, gates, ghosts, bounds
<1>2. CASE World \/ Ensure \/ Elapse
  BY <1>2, TypeWorld
<1>3. CASE Work
  BY <1>3, TypeLoop, TypeFan DEF Work
<1>4. CASE Faults \/ ZombieSends \/ Converge
  BY <1>4, TypeFaults
<1> QED BY <1>1, <1>2, <1>3, <1>4 DEF Next

(* project-gate.ts: every variable of the run and of the rows it walks keeps its type; *)
(* no task is taken beyond TASKS_BEFORE_CONTINUE, and none from an empty queue.        *)
THEOREM GateTypes == Spec => []TypeOK
<1>1. TypeInv => TypeOK
  BY DEF TypeInv
<1> QED BY <1>1, TypeInit, TypeStep, PTL DEF Spec

-----------------------------------------------------------------------------
(* The slot: what is pending was sent, and while a nonce that was new has not been  *)
(* converged the one pending will not be skipped, unless the one applied last came   *)
(* again over it.                                                                    *)
SlotInv ==
  /\ last \in seen \cup {0} /\ pend \in seen \cup {0}
  /\ due /\ ~displaced => pend # 0 /\ pend # last

LEMMA SlotSignalled ==
  ASSUME SlotInv, NEW p, NEW n \in 1..MaxNonces, SignalPr(p, n)
  PROVE  SlotInv'
<1>1. CASE p = Watched
  <2>1. pend' = n /\ last' = last /\ seen' = seen \cup {n} /\ n # 0
    BY <1>1, ProjectGateAssumption DEF SignalPr, Told
  <2>2. due' /\ ~displaced' => n # last
    <3>1. CASE n = last
      <4>1. n \in seen
        BY <2>1, <3>1 DEF SlotInv
      <4> QED BY <1>1, <3>1, <4>1 DEF SignalPr, Told
    <3>2. CASE n # last
      BY <3>2
    <3> QED BY <3>1, <3>2
  <2> QED BY <2>1, <2>2 DEF SlotInv
<1>2. CASE p # Watched
  BY <1>2 DEF SignalPr, SlotInv
<1> QED BY <1>1, <1>2

LEMMA SlotStep == TypeInv /\ SlotInv /\ [Next]_vars => SlotInv'
<1> SUFFICES ASSUME TypeInv, SlotInv, [Next]_vars PROVE SlotInv'
  OBVIOUS
<1>1. ASSUME UNCHANGED <<pend, last, seen, due, displaced>> PROVE SlotInv'
  BY <1>1 DEF SlotInv
<1>2. CASE SendOne
  <2>1. Head(tasks).nonce \in 1..MaxNonces
    BY <1>2, HeadTask DEF SendOne, TypeInv
  <2> QED BY <1>2, <2>1, SlotSignalled DEF SendOne
<1>3. CASE ZombieSends
  <2>1. zombie.nonce \in 1..MaxNonces
    BY <1>3, ZombieNonce DEF ZombieSends
  <2> QED BY <1>3, <2>1, SlotSignalled DEF ZombieSends
<1>4. CASE ReEvaluate
  <2>1. asked + 1 \in 1..MaxNonces
    BY <1>4, ProjectGateAssumption DEF ReEvaluate, TypeInv, TypeOK
  <2> QED BY <1>4, <2>1, SlotSignalled DEF ReEvaluate
<1>5. CASE Converge
  BY <1>5 DEF Converge, SlotInv
<1>6. CASE UNCHANGED vars
  BY <1>1, <1>6 DEF vars, gates
<1>7. CASE TrackPr \/ Configure \/ (\E p \in Rows : ErasePr(p)) \/ (\E k \in {"all", "author"} : Request(k))
  BY <1>1, <1>7 DEF TrackPr, Configure, ErasePr, Request, gates
<1>8. CASE Ensure \/ Elapse \/ ContinueAsNew \/ Dispatch \/ Wake \/ Reconcile \/ ClaSweep
  BY <1>1, <1>8 DEF Ensure, Elapse, ContinueAsNew, Dispatch, Wake, Reconcile, ReconcileProject, Retire,
     Rearm, ClaSweep, gates
<1>9. CASE ListReGatePrTargets \/ PageSent \/ Faults
  BY <1>1, <1>9 DEF ListReGatePrTargets, PageSent, Faults, BatchRetried, BatchTimesOut, Fail, gates
<1> QED BY <1>2, <1>3, <1>4, <1>5, <1>6, <1>7, <1>8, <1>9 DEF Next, World, Work, FanOut

(* pr-gate.ts:109: whatever fan-outs, retries, attempts past their time-out and       *)
(* admins sent, a prGate with nothing pending has converged after the newest request   *)
(* it was signalled, unless the nonce it applied last was repeated over that one.      *)
THEOREM NewestApplied == Spec => []NewestReGateApplied
<1>1. Init => SlotInv
  BY DEF Init, SlotInv
<1>2. SlotInv => NewestReGateApplied
  BY DEF SlotInv, NewestReGateApplied
<1> QED BY <1>1, <1>2, TypeInit, TypeStep, SlotStep, PTL DEF Spec

-----------------------------------------------------------------------------
(* A fan-out walks the rows it selects in the order of their ids: the rows of its    *)
(* request up to the cursor have been signalled, those up to the end of the batch    *)
(* have been or are about to be, unless the row the walk stood on was erased.        *)
Upto(c) == {p \in goal : p <= c}

FanInv ==
  /\ pc = "none" => tasks = <<>>
  /\ pc \in {"list", "batch"} => goal \subseteq Selected(Head(tasks))
  /\ pc = "list" /\ ~cursorLost => cursor \in Tracked \cup {0} /\ Upto(cursor) \subseteq reached
  /\ pc = "batch" /\ ~cursorLost =>
       IF next = 0 THEN goal \subseteq reached \cup todo
                   ELSE next \in Tracked /\ Upto(next) \subseteq reached \cup todo

LEMMA FanInit == Init => FanInv
  BY DEF Init, FanInv

(* Steps that leave the walk alone. *)
LEMMA FanKept ==
  ASSUME FanInv, UNCHANGED <<db, fan, ghosts, pc>>, pc = "none" => tasks' = <<>>,
         pc \in {"list", "batch"} => Head(tasks') = Head(tasks)
  PROVE  FanInv'
  BY DEF FanInv, db, fan, ghosts, Upto, Tracked, Selected

LEMMA FanAway ==
  ASSUME pc' \notin {"list", "batch"}, pc' = "none" => tasks' = <<>>
  PROVE  FanInv'
  BY DEF FanInv

(* A row that is written is past every cursor; one that is erased leaves the goal. *)
LEMMA FanWorld ==
  ASSUME TypeInv, FanInv, World \/ Ensure \/ Elapse
  PROVE  FanInv'
<1>1. CASE TrackPr
  <2>1. written \in Nat /\ written' = written + 1 /\ UNCHANGED <<erased, active, fan, run, ghosts>>
    BY <1>1 DEF TrackPr, TypeInv, TypeOK
  <2>2. Tracked \subseteq Tracked'
    BY <2>1 DEF Tracked
  <2>3. Selected(Head(tasks)) \subseteq Selected(Head(tasks))'
    BY <2>1, <2>2 DEF Selected, run
  <2> QED BY <2>1, <2>2, <2>3 DEF FanInv, Upto, fan, run, ghosts
<1>2. CASE Configure
  <2>1. UNCHANGED <<written, erased, fan, run, reached, cursorLost>>
        /\ (goal' = {} \/ UNCHANGED <<active, goal>>)
    BY <1>2 DEF Configure
  <2>2. Tracked' = Tracked
    BY <2>1 DEF Tracked
  <2>3. goal' \subseteq goal /\ Upto(cursor)' \subseteq Upto(cursor) /\ Upto(next)' \subseteq Upto(next)
    BY <2>1 DEF Upto, fan
  <2>4. pc \in {"list", "batch"} => goal' \subseteq Selected(Head(tasks))'
    BY <2>1, <2>2 DEF Selected, run, FanInv
  <2> QED BY <2>1, <2>2, <2>3, <2>4 DEF FanInv, fan, run
<1>3. ASSUME NEW p \in Rows, ErasePr(p) PROVE FanInv'
  <2>1. /\ UNCHANGED <<written, active, fan, run, reached>> /\ erased' = erased \cup {p}
        /\ goal' = goal \ {p} /\ (~cursorLost' => ~cursorLost /\ p # cursor /\ p # next)
    BY <1>3 DEF ErasePr
  <2>2. Tracked' = Tracked \ {p}
    BY <2>1 DEF Tracked
  <2>3. Upto(cursor)' \subseteq Upto(cursor) /\ Upto(next)' \subseteq Upto(next)
    BY <2>1 DEF Upto, fan
  <2>4. Selected(Head(tasks))' = Selected(Head(tasks)) \ {p}
    BY <2>1, <2>2 DEF Selected, run
  <2> QED BY <2>1, <2>2, <2>3, <2>4 DEF FanInv, fan, run
<1>4. ASSUME NEW k \in {"all", "author"}, Request(k) PROVE FanInv'
  <2> DEFINE t == [kind |-> k, nonce |-> asked + 1]
  <2>1. UNCHANGED <<db, fan, ghosts>>
        /\ (Start(<<t>>) \/ (pc # "none" /\ tasks' = Append(tasks, t) /\ pc' = pc))
    BY <1>4 DEF Request
  <2> HIDE DEF t
  <2>2. CASE Start(<<t>>)
    BY <2>2, FanAway DEF Start
  <2>3. CASE pc # "none" /\ tasks' = Append(tasks, t) /\ pc' = pc
    <3>1. pc \in {"list", "batch"} => Head(tasks') = Head(tasks)
      BY <2>3 DEF TypeInv, TypeOK
    <3> QED BY <2>1, <2>3, <3>1, FanKept
  <2> QED BY <2>1, <2>2, <2>3
<1>5. CASE Ensure
  BY <1>5, FanAway DEF Ensure, Start
<1>6. CASE Elapse
  BY <1>6, FanKept DEF Elapse, FanInv
<1>7. CASE ReEvaluate
  BY <1>7, FanKept DEF ReEvaluate, run, FanInv
<1> QED BY <1>1, <1>2, <1>3, <1>4, <1>5, <1>6, <1>7 DEF World

(* The next page holds every selected row up to its last, or, when it is not full, *)
(* every one there is.                                                              *)
LEMMA FanList ==
  ASSUME TypeInv, FanInv, ListReGatePrTargets
  PROVE  /\ FanInv'
         /\ pc' = "head" => cursorLost \/ goal \subseteq reached
<1> DEFINE rest == {p \in Selected(Head(tasks)) : p > cursor}
<1>1. /\ pc = "list" /\ tasks # <<>> /\ page' = PageAfter(cursor) /\ todo' = page'
      /\ next' = (IF Cardinality(page') = PageSize THEN Max(page') ELSE 0)
      /\ UNCHANGED <<db, cursor, ghosts>>
      /\ \/ page' = {} /\ pc' = "head"
         \/ pc' = "batch" /\ tasks' = tasks
  BY DEF ListReGatePrTargets, TypeInv, TaskDone
<1>2. Tracked' = Tracked /\ Selected(Head(tasks)) \subseteq Tracked /\ Tracked \subseteq 1..written
  BY <1>1 DEF Tracked, Selected, db
<1>3. CASE cursorLost
  <2>1. cursorLost'
    BY <1>1, <1>3 DEF ghosts
  <2>2. pc' = "batch" => goal' \subseteq Selected(Head(tasks))'
    BY <1>1, <1>2 DEF FanInv, Selected, db, ghosts
  <2> QED BY <1>1, <1>3, <2>1, <2>2 DEF FanInv
<1>4. CASE ~cursorLost
  <2>1. cursor \in Tracked \cup {0} /\ Upto(cursor) \subseteq reached /\ goal \subseteq Selected(Head(tasks))
    BY <1>1, <1>4 DEF FanInv
  <2>2. cursor \in Nat /\ written \in Nat /\ PageSize \in Nat \ {0}
    BY ProjectGateAssumption DEF TypeInv, TypeOK
  <2>3. page' = FirstOf(rest, PageSize)
    BY <1>1, <2>1 DEF PageAfter, FirstOf
  <2>4. rest \subseteq 1..written
    BY <1>2
  <2> HIDE DEF rest
  <2>5. /\ page' # rest => Cardinality(page') = PageSize
        /\ \A p \in page', q \in rest : q <= p => q \in page'
    BY <2>2, <2>3, <2>4, FirstOnes
  <2>6. goal \subseteq reached \cup rest
    <3>1. \A p \in goal : p \in Upto(cursor) \/ p \in rest
      <4>1. \A p \in goal : p \in Selected(Head(tasks)) /\ p \in 1..written
        BY <1>2, <2>1
      <4> QED BY <4>1, <2>2 DEF Upto, rest
    <3> QED BY <3>1, <2>1
  <2>7. ASSUME Cardinality(page') = PageSize
        PROVE  next' # 0 /\ next' \in Tracked /\ \A p \in goal : p <= next' => p \in reached \cup page'
    <3>1. page' \subseteq rest
      BY <2>3 DEF FirstOf
    <3>2. page' # {}
      <4>1. Cardinality({}) = 0
        BY FS_EmptySet
      <4> QED BY <2>7, <4>1, <2>2
    <3>3. Max(page') \in page' /\ next' = Max(page')
      BY <1>1, <2>2, <2>4, <2>7, <3>1, <3>2, MaxOf
    <3>4. next' \in rest
      BY <3>1, <3>3
    <3>5. next' \in Tracked /\ next' # 0
      <4>1. next' \in Tracked
        BY <3>4, <1>2 DEF rest
      <4> QED BY <4>1, <1>2
    <3>6. \A p \in goal : p <= next' => p \in reached \cup page'
      BY <2>5, <2>6, <3>3
    <3> QED BY <3>5, <3>6
  <2>8. ASSUME page' = rest PROVE goal \subseteq reached \cup page'
    BY <2>6, <2>8
  <2>9. pc' = "batch" => goal' \subseteq Selected(Head(tasks))'
    BY <1>1, <1>2, <2>1 DEF Selected, db, ghosts
  <2>10. CASE pc' = "batch"
    <3>1. IF next' = 0 THEN goal' \subseteq reached' \cup todo'
          ELSE next' \in Tracked' /\ Upto(next)' \subseteq reached' \cup todo'
      <4>1. CASE Cardinality(page') = PageSize
        BY <1>1, <1>2, <2>7, <4>1 DEF Upto, ghosts
      <4>2. CASE Cardinality(page') # PageSize
        BY <1>1, <2>5, <2>8, <4>2 DEF ghosts
      <4> QED BY <4>1, <4>2
    <3> QED BY <2>9, <2>10, <3>1 DEF FanInv
  <2>11. CASE pc' = "head"
    <3>1. page' = {}
      BY <1>1, <2>11
    <3>2. page' = rest
      <4>1. Cardinality({}) = 0
        BY FS_EmptySet
      <4> QED BY <2>2, <2>5, <3>1, <4>1
    <3>3. goal \subseteq reached
      BY <2>8, <3>1, <3>2
    <3> QED BY <2>11, <3>3, FanAway
  <2> QED BY <1>1, <2>10, <2>11
<1> QED BY <1>3, <1>4

(* One signal moves a row from what is to be signalled to what has been. *)
LEMMA FanSend ==
  ASSUME TypeInv, FanInv, SendOne
  PROVE  FanInv'
<1> DEFINE m == Min(todo)
<1>1. /\ pc = "batch" /\ todo' = todo \ {m} /\ reached' = reached \cup {m}
      /\ UNCHANGED <<db, cursor, next, run, goal, cursorLost>>
  BY DEF SendOne
<1>2. Tracked' = Tracked /\ Selected(Head(tasks))' = Selected(Head(tasks)) /\ Upto(next)' = Upto(next)
  BY <1>1 DEF Tracked, Selected, Upto, db, run
<1> HIDE DEF m
<1>3. reached \cup todo \subseteq reached' \cup todo'
  BY <1>1
<1> QED BY <1>1, <1>2, <1>3 DEF FanInv, run

LEMMA FanSent ==
  ASSUME TypeInv, FanInv, PageSent
  PROVE  /\ FanInv'
         /\ pc' = "head" => cursorLost \/ goal \subseteq reached
<1>1. /\ pc = "batch" /\ todo = {} /\ UNCHANGED <<db, next, ghosts>>
      /\ \/ next = 0 /\ pc' = "head"
         \/ next # 0 /\ pc' = "list" /\ cursor' = next /\ tasks' = tasks
  BY DEF PageSent, TaskDone
<1>2. CASE pc' = "head"
  <2>1. cursorLost \/ goal \subseteq reached
    BY <1>1, <1>2 DEF FanInv
  <2> QED BY <1>2, <2>1, FanAway
<1>3. CASE pc' = "list"
  <2>1. Tracked' = Tracked /\ goal' = goal /\ reached' = reached /\ cursorLost' = cursorLost
        /\ Selected(Head(tasks))' = Selected(Head(tasks)) /\ Upto(cursor)' = Upto(next)
    BY <1>1, <1>3 DEF Tracked, Selected, Upto, db, ghosts
  <2>2. ~cursorLost => next \in Tracked /\ Upto(next) \subseteq reached
    BY <1>1, <1>3 DEF FanInv
  <2> QED BY <1>1, <1>3, <2>1, <2>2 DEF FanInv
<1> QED BY <1>1, <1>2, <1>3

LEMMA FanLoop ==
  ASSUME TypeInv, FanInv, ContinueAsNew \/ Dispatch \/ Wake \/ Reconcile \/ ClaSweep
  PROVE  FanInv'
<1>1. CASE ContinueAsNew \/ Wake \/ ReconcileProject \/ Rearm \/ ClaSweep
  BY <1>1, FanAway DEF ContinueAsNew, Wake, ReconcileProject, Rearm, ClaSweep, At
<1>2. CASE Retire
  BY <1>2, FanAway DEF Retire, Gone
<1>3. CASE Dispatch
  <2>1. CASE pc' # "list"
    BY <1>3, <2>1, FanAway DEF Dispatch
  <2>2. CASE pc' = "list"
    <3>1. /\ tasks' = tasks /\ UNCHANGED db /\ cursor' = 0 /\ goal' = Selected(Head(tasks)) /\ reached' = {}
      BY <1>3, <2>2 DEF Dispatch
    <3>2. Selected(Head(tasks))' = Selected(Head(tasks)) /\ Selected(Head(tasks)) \subseteq Tracked
          /\ Tracked \subseteq 1..written
      BY <3>1 DEF Selected, Tracked, db
    <3>3. \A p \in goal' : p \in 1..written
      BY <3>1, <3>2
    <3>4. Upto(cursor)' = {}
      <4>1. \A i \in 1..written : ~ (i <= 0)
        BY DEF TypeInv, TypeOK
      <4> QED BY <3>1, <3>3, <4>1 DEF Upto
    <3> QED BY <2>2, <3>1, <3>2, <3>4 DEF FanInv
  <2> QED BY <2>1, <2>2
<1> QED BY <1>1, <1>2, <1>3 DEF Reconcile

LEMMA FanFaults ==
  ASSUME TypeInv, FanInv, Faults \/ ZombieSends \/ Converge
  PROVE  FanInv'
<1>1. CASE BatchRetried \/ BatchTimesOut
  <2>1. /\ pc = "batch" /\ todo' = page /\ UNCHANGED <<db, cursor, next, run, ghosts>> /\ todo \subseteq page
    BY <1>1 DEF BatchRetried, BatchTimesOut, TypeInv, TypeOK
  <2>2. Tracked' = Tracked /\ Selected(Head(tasks))' = Selected(Head(tasks)) /\ Upto(next)' = Upto(next)
    BY <2>1 DEF Tracked, Selected, Upto, db, run, ghosts
  <2>3. reached \cup todo \subseteq reached' \cup todo'
    BY <2>1 DEF ghosts
  <2> QED BY <2>1, <2>2, <2>3 DEF FanInv, run, ghosts
<1>2. CASE Fail
  BY <1>2, FanAway DEF Fail, Gone
<1>3. CASE ZombieSends \/ Converge
  <2>1. UNCHANGED <<db, fan, ghosts, pc, tasks>>
    BY <1>3 DEF ZombieSends, Converge, run
  <2> QED BY <2>1, FanKept DEF FanInv
<1> QED BY <1>1, <1>2, <1>3 DEF Faults

LEMMA FanStep == TypeInv /\ FanInv /\ [Next]_vars => FanInv'
<1> SUFFICES ASSUME TypeInv, FanInv, [Next]_vars PROVE FanInv'
  OBVIOUS
<1>1. CASE UNCHANGED vars
  <2>1. UNCHANGED <<db, fan, ghosts, pc, tasks>>
    BY <1>1 DEF vars, run
  <2> QED BY <2>1, FanKept DEF FanInv
<1>2. CASE World \/ Ensure \/ Elapse
  BY <1>2, FanWorld
<1>3. CASE Work
  BY <1>3, FanLoop, FanList, FanSend, FanSent DEF Work, FanOut
<1>4. CASE Faults \/ ZombieSends \/ Converge
  BY <1>4, FanFaults
<1> QED BY <1>1, <1>2, <1>3, <1>4 DEF Next

(* What a queue loses when it loses its head. *)
LEMMA LostIsHead ==
  ASSUME TypeInv, tasks # <<>>, NEW t \in Range(tasks) \ Range(Tail(tasks))
  PROVE  t = Head(tasks)
<1>1. tasks \in Seq(Task) /\ Len(tasks) \in Nat /\ Len(tasks) >= 1
  BY DEF TypeInv, TypeOK
<1>2. PICK i \in 1..Len(tasks) : t = tasks[i]
  BY <1>1 DEF Range
<1>3. ASSUME i # 1 PROVE FALSE
  <2>1. i - 1 \in 1..Len(Tail(tasks)) /\ Tail(tasks)[i - 1] = tasks[i]
    BY <1>1, <1>3
  <2>2. DOMAIN Tail(tasks) = 1..Len(Tail(tasks))
    BY <1>1
  <2>3. tasks[i] \in Range(Tail(tasks))
    BY <2>1, <2>2 DEF Range
  <2> QED BY <1>2, <2>3
<1> QED BY <1>1, <1>2, <1>3

(* The queue grows, is kept, is gone with its run, or loses its head to TaskDone. *)
LEMMA QueueLoses ==
  ASSUME TypeInv, FanInv, [Next]_vars, NEW t \in Range(tasks) \ Range(tasks'), pc' # "none"
  PROVE  pc \in {"list", "batch"} /\ t = Head(tasks) /\ (cursorLost \/ goal \subseteq reached)
<1>1. tasks' # tasks
  OBVIOUS
<1>2. CASE World \/ Ensure \/ Elapse
  <2>1. tasks' = tasks \/ (pc = "none" /\ tasks = <<>>) \/ \E x : tasks' = Append(tasks, x)
    <3>1. CASE TrackPr \/ Configure \/ ReEvaluate \/ (\E p \in Rows : ErasePr(p)) \/ Elapse
      BY <3>1 DEF TrackPr, Configure, ReEvaluate, ErasePr, Elapse, run
    <3>2. CASE \E k \in {"all", "author"} : Request(k)
      BY <3>2 DEF Request, Start, FanInv
    <3>3. CASE Ensure
      BY <3>3 DEF Ensure, Start, FanInv
    <3> QED BY <1>2, <3>1, <3>2, <3>3 DEF World
  <2>2. tasks # <<>>
    BY DEF Range
  <2>3. PICK x : tasks' = Append(tasks, x)
    BY <1>1, <2>1, <2>2
  <2>4. \A i \in DOMAIN tasks : i \in DOMAIN tasks' /\ tasks'[i] = tasks[i]
    BY <2>3 DEF TypeInv, TypeOK
  <2>5. t \in Range(tasks')
    BY <2>4 DEF Range
  <2> QED BY <2>5
<1>3. CASE Work
  <2>1. CASE ListReGatePrTargets \/ PageSent
    <3>1. pc \in {"list", "batch"} /\ pc' = "head" /\ tasks' = Tail(tasks)
      BY <1>1, <2>1 DEF ListReGatePrTargets, PageSent, TaskDone
    <3>2. tasks # <<>>
      BY <3>1 DEF TypeInv
    <3> QED BY <2>1, <3>1, <3>2, LostIsHead, FanList, FanSent
  <2>2. CASE ~ (ListReGatePrTargets \/ PageSent)
    BY <1>1, <1>3, <2>2 DEF Work, FanOut, Reconcile, SendOne, ContinueAsNew, Dispatch, Wake, ReconcileProject,
       Retire, Gone, Rearm, ClaSweep, run
  <2> QED BY <2>1, <2>2
<1>4. CASE Faults \/ ZombieSends \/ Converge \/ UNCHANGED vars
  BY <1>1, <1>4 DEF Faults, BatchRetried, BatchTimesOut, Fail, Gone, ZombieSends, Converge, vars, run
<1> QED BY <1>2, <1>3, <1>4 DEF Next

(* project-gate.ts:246-250: whatever pages, rolls, sweeps, retries, rows written and   *)
(* rows erased there were, a request leaves a run that goes on only from the head of    *)
(* its queue and only when every PR it was about has been signalled, unless the very    *)
(* row its cursor stood on was erased.                                                  *)
THEOREM FanOutReaches == Spec => FanOutReachesAll
<1>1. TypeInv /\ FanInv /\ [Next]_vars =>
        [\A t \in Range(tasks) \ Range(tasks') :
           \/ pc' = "none"
           \/ pc \in {"list", "batch"} /\ t = Head(tasks) /\ (cursorLost \/ goal \subseteq reached)]_vars
  BY QueueLoses
<1> QED BY <1>1, TypeInit, TypeStep, FanInit, FanStep, PTL DEF Spec, FanOutReachesAll

=============================================================================
