---------------------------- MODULE QaBoardProofs ----------------------------
(***************************************************************************)
(* What holds of the mirror of the QA board for any items, batches,         *)
(* providers, verdicts, moves, faults and cap on passes: its types, and     *)
(* that a pass decides to take a verdict off a card only where a person     *)
(* gave the latest one there.                                               *)
(***************************************************************************)
EXTENDS QaBoard, WellFoundedInduction, TLAPS

-----------------------------------------------------------------------------
(* The batches, what is recorded of them, and the providers linked. *)
Recorded ==
  /\ opened \in 0..MaxBatches /\ shipped \in 0..opened /\ batch \in 0..opened
  /\ recorded \subseteq Items /\ \A i \in recorded : BatchOf[i] <= opened
  /\ dropped \subseteq recorded /\ links \subseteq Providers

(* What rows, cards and the copies a pass holds of them say. *)
RowsSay ==
  /\ row \in [Items -> Payload] /\ hash \in [Items -> Payload \cup {NoHash}]
  /\ prov \in [Items -> Providers \cup {"none"}] /\ card \in [Items -> Payload]
  /\ said \in [Items -> Verdicts] /\ snap \in [Items -> Payload]

(* Only an item that has a row is on a board, and only such items are edited, *)
(* read or written.                                                            *)
OnBoard == \A i \in Items : prov[i] # "none" => i \in recorded
Marked ==
  /\ fresh \subseteq recorded /\ unseen \subseteq recorded /\ byHand \subseteq recorded
  /\ newer \subseteq recorded /\ apply \subseteq recorded
  /\ queue \subseteq recorded /\ mine \subseteq recorded

(* A row is written after the card of the first item in the queue; a run that is *)
(* in a pass may still count it.                                                  *)
RunShape ==
  /\ pc \in Points /\ syncs \in 0..SyncsCap
  /\ todo \subseteq Providers /\ link \in Providers \cup {"none"}
  /\ pc = "none" => ~dirty
  /\ pc = "row" => queue # {}
  /\ pc \notin {"none", "wait", "tell"} => syncs < SyncsCap

Flags ==
  /\ dirty \in BOOLEAN /\ total \in BOOLEAN /\ idle \in BOOLEAN
  /\ applied \in BOOLEAN /\ untold \in BOOLEAN
Said == lastWord \in [Items -> {"here", "board"}]
Counted == faults \in 0..MaxFaults

TypeInv == Recorded /\ RowsSay /\ OnBoard /\ Marked /\ RunShape /\ Flags /\ Said /\ Counted

(* While nothing failed, a card that is newer than its row was written by a person, *)
(* and nobody gave a verdict here since; but for the card whose row comes next.      *)
ByAPerson ==
  faults = 0 =>
    /\ \A i \in newer : lastWord[i] = "board"
    /\ \A i \in fresh : lastWord[i] = "board" \/ (pc = "row" /\ i = Min(queue))

-----------------------------------------------------------------------------
(* The first of a queue is in it. *)
LEMMA FirstOf ==
  ASSUME NEW S, S \subseteq Nat, S # {}
  PROVE  Min(S) \in S
<1> DEFINE R == {ss \in Nat \X Nat : ss[1] < ss[2]}
<1>1. IsWellFoundedOn(R, Nat)
  BY NatLessThanWellFounded DEF OpToRel
<1>2. PICK x \in S : \A y \in S : ~ (<<y, x>> \in R)
  BY <1>1, WFMin
<1>3. \A y \in S : ~ (y < x)
  BY <1>2
<1>4. \A y \in S : x <= y
  BY <1>3
<1> QED BY <1>4 DEF Min

(* What may be said of nothing. *)
LEMMA Blanks ==
  /\ Blank \in Payload
  /\ [i \in Items |-> Blank] \in [Items -> Payload]
  /\ [i \in Items |-> NoHash] \in [Items -> Payload \cup {NoHash}]
  /\ [i \in Items |-> "pending"] \in [Items -> Verdicts]
<1>1. Blank \in Payload
  BY QaBoardAssumption DEF Blank, Payload
<1> QED BY <1>1, QaBoardAssumption

(* A signal opens a run or marks the one there is, or is lost. *)
LEMMA Signalled ==
  ASSUME RunShape, dirty \in BOOLEAN, Counted, Signal, UNCHANGED <<todo, link, queue>>
  PROVE  RunShape' /\ dirty' \in BOOLEAN /\ Counted'
<1> USE QaBoardAssumption DEF RunShape, Counted
<1>1. CASE dirty' = TRUE /\ pc' = (IF pc = "none" THEN "wait" ELSE pc)
             /\ syncs' = (IF pc = "none" THEN 0 ELSE syncs) /\ UNCHANGED faults
  <2>1. pc' \in Points
    BY <1>1 DEF Points
  <2> QED BY <1>1, <2>1
<1>2. CASE Fault /\ UNCHANGED run
  BY <1>2 DEF Fault, run
<1> QED BY <1>1, <1>2 DEF Signal

-----------------------------------------------------------------------------
(* People. *)
LEMMA SetTypes ==
  ASSUME TypeInv, NEW i \in Items, NEW v \in Verdicts, setQaStatus(i, v)
  PROVE  TypeInv'
<1> USE DEF TypeInv, setQaStatus, Written
<1>1. RunShape' /\ dirty' \in BOOLEAN /\ Counted'
  BY Signalled DEF Flags
<1>2. Recorded' /\ OnBoard' /\ Marked'
  BY DEF Recorded, OnBoard, Marked
<1>3. RowsSay'
  <2>1. [row[i] EXCEPT !.status = v] \in Payload
    BY DEF RowsSay, Payload
  <2> QED BY <2>1 DEF RowsSay
<1>4. Flags' /\ Said'
  BY <1>1 DEF Flags, Said, answer
<1> QED BY <1>1, <1>2, <1>3, <1>4

LEMMA ToggleTypes ==
  ASSUME TypeInv, NEW i \in Items, toggleQaStep(i)
  PROVE  TypeInv'
<1> USE DEF TypeInv, toggleQaStep, Written
<1>1. RunShape' /\ dirty' \in BOOLEAN /\ Counted'
  BY Signalled DEF Flags
<1>2. Recorded' /\ OnBoard' /\ Marked'
  BY DEF Recorded, OnBoard, Marked, ghosts
<1>3. RowsSay'
  <2>1. [row[i] EXCEPT !.text = 1 - row[i].text] \in Payload
    BY DEF RowsSay, Payload
  <2> QED BY <2>1 DEF RowsSay
<1>4. Flags' /\ Said'
  BY <1>1 DEF Flags, Said, answer, ghosts
<1> QED BY <1>1, <1>2, <1>3, <1>4

LEMMA EditTypes ==
  ASSUME TypeInv, NEW i \in Items, NEW v \in Verdicts, EditCard(i, v)
  PROVE  TypeInv'
<1> USE DEF TypeInv, EditCard
<1>1. RunShape' /\ dirty' \in BOOLEAN /\ Counted'
  <2>1. CASE Signal
    BY <2>1, Signalled DEF Flags, pass
  <2>2. CASE UNCHANGED <<run, faults>>
    BY <2>2 DEF run, pass, RunShape, Flags, Counted
  <2> QED BY <2>1, <2>2
<1>2. Recorded' /\ OnBoard' /\ Marked'
  BY DEF Recorded, OnBoard, Marked, db, rows, pass
<1>3. RowsSay'
  <2>1. [card[i] EXCEPT !.status = v] \in Payload
    BY DEF RowsSay, Payload
  <2> QED BY <2>1 DEF RowsSay, db, rows, pass
<1>4. Flags' /\ Said'
  BY <1>1 DEF Flags, Said, answer, pass
<1> QED BY <1>1, <1>2, <1>3, <1>4

LEMMA LinkTypes ==
  ASSUME TypeInv, NEW p \in Providers, linkQaBoard(p) \/ unlinkQaBoard(p)
  PROVE  TypeInv'
<1>1. CASE linkQaBoard(p)
  <2> USE <1>1 DEF TypeInv, linkQaBoard
  <2>1. RunShape' /\ dirty' \in BOOLEAN /\ Counted'
    BY Signalled DEF Flags, pass
  <2>2. Recorded' /\ OnBoard' /\ Marked'
    BY QaBoardAssumption DEF Recorded, OnBoard, Marked, rows, pass, ghosts
  <2>3. RowsSay'
    BY DEF RowsSay, rows, pass
  <2>4. Flags' /\ Said'
    BY <2>1 DEF Flags, Said, answer, pass, ghosts
  <2> QED BY <2>1, <2>2, <2>3, <2>4
<1>2. CASE unlinkQaBoard(p)
  <2> USE <1>2 DEF TypeInv, unlinkQaBoard, Written
  <2>1. RunShape' /\ Counted' /\ Flags' /\ Said'
    BY DEF RunShape, Counted, Flags, Said, run, answer
  <2>2. Recorded' /\ OnBoard' /\ Marked'
    BY DEF Recorded, OnBoard, Marked
  <2>3. RowsSay'
    BY DEF RowsSay
  <2> QED BY <2>1, <2>2, <2>3
<1> QED BY <1>1, <1>2

-----------------------------------------------------------------------------
(* The staging entity. *)
LEMMA RecordTypes ==
  ASSUME TypeInv, NEW i \in Items, Record(i)
  PROVE  TypeInv'
<1> USE DEF TypeInv, Record, Written
<1>1. RunShape' /\ Counted' /\ Flags' /\ Said'
  BY DEF RunShape, Counted, Flags, Said, run, answer, ghosts
<1>2. opened' \in 0..MaxBatches /\ opened <= opened' /\ BatchOf[i] <= opened'
  <2>1. CASE BatchOf[i] = opened /\ Open /\ UNCHANGED opened
    BY <2>1 DEF Recorded
  <2>2. CASE BatchOf[i] = opened + 1 /\ ~Open /\ opened' = opened + 1
    BY <2>2, QaBoardAssumption DEF Recorded
  <2> QED BY <2>1, <2>2
<1>3. Recorded' /\ OnBoard' /\ Marked'
  <2>1. Recorded'
    BY <1>2, QaBoardAssumption DEF Recorded
  <2>2. OnBoard' /\ Marked'
    BY DEF OnBoard, Marked, ghosts
  <2> QED BY <2>1, <2>2
<1>4. RowsSay'
  <2>1. PICK text \in 0..1, v \in IF i \in recorded THEN {row[i].status, "pending"} ELSE {"pending"} :
          row' = [row EXCEPT ![i] = [status |-> v, text |-> text]]
    OBVIOUS
  <2>2. v \in Verdicts
    BY QaBoardAssumption DEF RowsSay, Payload
  <2>3. [status |-> v, text |-> text] \in Payload
    BY <2>2 DEF Payload
  <2> QED BY <2>1, <2>3 DEF RowsSay
<1> QED BY <1>1, <1>3, <1>4

LEMMA DropTypes ==
  ASSUME TypeInv, NEW i \in Items, Drop(i)
  PROVE  TypeInv'
<1> USE DEF TypeInv, Drop, Written
<1>1. RunShape' /\ Counted' /\ Flags' /\ Said'
  BY DEF RunShape, Counted, Flags, Said, run, answer, ghosts
<1>2. Recorded' /\ OnBoard' /\ Marked'
  BY DEF Recorded, OnBoard, Marked, ghosts
<1>3. RowsSay'
  BY DEF RowsSay
<1> QED BY <1>1, <1>2, <1>3

LEMMA ShipTypes == ASSUME TypeInv, markBatchShipped PROVE TypeInv'
<1> USE DEF TypeInv, markBatchShipped
<1>1. RunShape' /\ Counted' /\ Flags' /\ Said'
  BY DEF RunShape, Counted, Flags, Said, run, answer, ghosts, pass
<1>2. Recorded'
  BY QaBoardAssumption DEF Recorded, rows, pass
<1>3. OnBoard' /\ Marked' /\ RowsSay'
  BY DEF OnBoard, Marked, RowsSay, rows, boards, pass, ghosts
<1> QED BY <1>1, <1>2, <1>3

-----------------------------------------------------------------------------
(* The run, between its passes. *)
LEMMA RunTypes ==
  ASSUME TypeInv, Wake \/ ContinueAsNew \/ syncQaBoard \/ Answer \/ signalStagingReconcile
  PROVE  TypeInv'
<1> USE QaBoardAssumption
<1>1. UNCHANGED <<db, boards, pass, byHand, lastWord, faults>>
  BY DEF Wake, ContinueAsNew, syncQaBoard, Answer, signalStagingReconcile, ghosts
<1>2. Recorded' /\ RowsSay' /\ OnBoard' /\ Said' /\ Counted'
  BY <1>1 DEF TypeInv, Recorded, RowsSay, OnBoard, Said, Counted, db, rows, boards, pass
<1>3. Marked'
  BY <1>1 DEF TypeInv, Marked, db, rows, boards, pass
<1>4. Flags'
  BY <1>1 DEF TypeInv, Flags, pass, run, answer, ghosts, Wake, ContinueAsNew, syncQaBoard, Answer, signalStagingReconcile
<1>5. RunShape'
  <2> USE <1>1 DEF TypeInv, RunShape, Points, pass, At
  <2>1. CASE Wake
    BY <2>1 DEF Wake
  <2>2. CASE ContinueAsNew
    BY <2>2 DEF ContinueAsNew
  <2>3. CASE syncQaBoard
    BY <2>3 DEF syncQaBoard
  <2>4. CASE Answer
    BY <2>4 DEF Answer
  <2>5. CASE signalStagingReconcile
    BY <2>5 DEF signalStagingReconcile
  <2> QED BY <2>1, <2>2, <2>3, <2>4, <2>5
<1> QED BY <1>2, <1>3, <1>4, <1>5 DEF TypeInv

-----------------------------------------------------------------------------
(* A pass.  These read links and rows, and write neither. *)
LEMMA ReadTypes ==
  ASSUME TypeInv, ReadLinks \/ NextLink \/ ArchiveDone \/ PullChanges \/ ReadItems \/ PushRead
  PROVE  TypeInv'
<1> USE QaBoardAssumption
<1>1. UNCHANGED <<db, boards, dirty, syncs, total, idle, applied, ghosts, faults>>
  BY DEF ReadLinks, NextLink, ArchiveDone, PullChanges, ReadItems, PushRead, answer, pass
<1>2. OnBoard' /\ Said' /\ Counted' /\ Flags'
  BY <1>1 DEF TypeInv, OnBoard, Said, Counted, Flags, db, rows, ghosts
<1>3. Recorded'
  <2>1. batch' \in 0..opened
    BY DEF TypeInv, Recorded, ReadLinks, NextLink, ArchiveDone, PullChanges, ReadItems, PushRead, pass
  <2> QED BY <1>1, <2>1 DEF TypeInv, Recorded, db, rows
<1>4. RowsSay'
  <2>1. said' \in [Items -> Verdicts]
    <3>1. CASE PullChanges
      BY <3>1 DEF PullChanges, TypeInv, RowsSay, Payload
    <3> QED BY <3>1 DEF TypeInv, RowsSay, ReadLinks, NextLink, ArchiveDone, ReadItems, PushRead, pass
  <2>2. snap' \in [Items -> Payload]
    BY DEF TypeInv, RowsSay, ReadLinks, NextLink, ArchiveDone, PullChanges, ReadItems, PushRead, pass
  <2> QED BY <1>1, <2>1, <2>2 DEF TypeInv, RowsSay, db, rows, boards
<1>5. Marked'
  <2>1. newer' \subseteq recorded /\ apply' \subseteq recorded
    BY DEF TypeInv, Marked, ReadLinks, NextLink, ArchiveDone, PullChanges, ReadItems, PushRead, pass
  <2>2. queue' \subseteq recorded /\ mine' \subseteq recorded
    BY DEF TypeInv, Marked, ReadLinks, NextLink, ArchiveDone, PullChanges, ReadItems, PushRead, pass
  <2> QED BY <1>1, <2>1, <2>2 DEF TypeInv, Marked, db, rows, boards, ghosts
<1>6. RunShape'
  <2>1. todo' \subseteq Providers /\ link' \in Providers \cup {"none"}
    BY DEF TypeInv, Recorded, RunShape, ReadLinks, NextLink, ArchiveDone, PullChanges, ReadItems, PushRead, pass
  <2>2. pc' \in {"link", "answer", "archive", "mark", "pull", "items", "apply", "card"} /\ syncs < SyncsCap
    BY DEF TypeInv, RunShape, ReadLinks, NextLink, ArchiveDone, PullChanges, ReadItems, PushRead, At
  <2> QED BY <1>1, <2>1, <2>2 DEF TypeInv, RunShape, Points
<1> QED BY <1>2, <1>3, <1>4, <1>5, <1>6 DEF TypeInv

LEMMA ArchiveTypes == ASSUME TypeInv, ArchiveCard PROVE TypeInv'
<1>1. PICK i \in Items :
        /\ Shipped(i) /\ prov[i] = link
        /\ prov' = [prov EXCEPT ![i] = "none"] /\ hash' = [hash EXCEPT ![i] = NoHash]
        /\ Written({i}) /\ unseen' = unseen \ {i} /\ byHand' = byHand \ {i}
  BY DEF ArchiveCard
<1>2. RunShape' /\ Counted' /\ Flags' /\ Said'
  BY DEF ArchiveCard, TypeInv, RunShape, Counted, Flags, Said, run, answer
<1>3. Recorded' /\ OnBoard' /\ Marked'
  BY <1>1 DEF ArchiveCard, TypeInv, Recorded, OnBoard, Marked, Written
<1>4. RowsSay'
  BY <1>1 DEF ArchiveCard, TypeInv, RowsSay
<1> QED BY <1>2, <1>3, <1>4 DEF TypeInv

LEMMA ApplyTypes == ASSUME TypeInv, ApplyVerdict PROVE TypeInv'
<1> USE DEF TypeInv
<1> DEFINE i == Min(apply)
<1>1. i \in Items
  BY FirstOf, QaBoardAssumption DEF ApplyVerdict, Recorded, Marked
<1>2. /\ row' = [row EXCEPT ![i].status = said[i]] /\ Written({i})
      /\ hash' = [hash EXCEPT ![i] = [status |-> said[i], text |-> snap[i].text]]
      /\ apply' = apply \ {i}
  BY DEF ApplyVerdict
<1> HIDE DEF i
<1>3. RunShape' /\ Counted' /\ Flags' /\ Said'
  BY DEF ApplyVerdict, RunShape, Counted, Flags, Said, run, answer
<1>4. Recorded' /\ OnBoard' /\ Marked'
  BY <1>2 DEF ApplyVerdict, Recorded, OnBoard, Marked, Written
<1>5. RowsSay'
  <2>1. said[i] \in Verdicts /\ snap[i] \in Payload /\ row[i] \in Payload
    BY <1>1 DEF RowsSay
  <2>2. [row[i] EXCEPT !.status = said[i]] \in Payload
    BY <2>1 DEF Payload
  <2>3. [status |-> said[i], text |-> snap[i].text] \in Payload
    BY <2>1 DEF Payload
  <2>4. row' \in [Items -> Payload] /\ hash' \in [Items -> Payload \cup {NoHash}]
    BY <1>2, <2>2, <2>3 DEF RowsSay
  <2>5. UNCHANGED <<prov, card, said, snap>>
    BY DEF ApplyVerdict
  <2> QED BY <2>4, <2>5 DEF RowsSay
<1> QED BY <1>3, <1>4, <1>5

LEMMA WriteCardTypes == ASSUME TypeInv, WriteCard PROVE TypeInv'
<1> USE DEF TypeInv
<1> DEFINE i == Min(queue)
<1>1. i \in Items /\ i \in recorded
  BY FirstOf, QaBoardAssumption DEF WriteCard, Recorded, Marked
<1>2. IF i \in mine /\ prov[i] = link
      THEN /\ card' = [card EXCEPT ![i] = snap[i]]
           /\ fresh' = fresh \cup {i} /\ unseen' = unseen \cup {i} /\ byHand' = byHand \ {i}
      ELSE UNCHANGED <<boards, byHand>>
  BY DEF WriteCard
<1> HIDE DEF i
<1>3. RunShape' /\ Counted' /\ Flags' /\ Said'
  BY DEF WriteCard, At, Points, RunShape, Counted, Flags, Said, answer, pass
<1>4. Recorded' /\ OnBoard' /\ Marked'
  BY <1>1, <1>2 DEF WriteCard, Recorded, OnBoard, Marked, db, rows, boards, pass
<1>5. RowsSay'
  BY <1>1, <1>2 DEF WriteCard, RowsSay, db, rows, boards, pass
<1> QED BY <1>3, <1>4, <1>5

LEMMA WriteRowTypes == ASSUME TypeInv, WriteRow PROVE TypeInv'
<1> USE DEF TypeInv
<1> DEFINE i == Min(queue)
<1>1. i \in Items /\ i \in recorded
  BY FirstOf, QaBoardAssumption DEF WriteRow, At, RunShape, Recorded, Marked
<1>2. /\ hash' = [hash EXCEPT ![i] = snap[i]] /\ Written({i}) /\ queue' = queue \ {i}
      /\ IF i \in mine THEN UNCHANGED <<prov, card, unseen, byHand>>
         ELSE /\ prov' = [prov EXCEPT ![i] = link] /\ card' = [card EXCEPT ![i] = snap[i]]
              /\ unseen' = unseen \cup {i} /\ byHand' = byHand \ {i}
  BY DEF WriteRow
<1> HIDE DEF i
<1>3. RunShape' /\ Counted' /\ Flags' /\ Said'
  BY DEF WriteRow, At, Points, RunShape, Counted, Flags, Said, answer
<1>4. Recorded' /\ Marked'
  BY <1>1, <1>2 DEF WriteRow, Recorded, Marked, Written
<1>5. \/ prov' = prov /\ card' = card
      \/ prov' = [prov EXCEPT ![i] = link] /\ card' = [card EXCEPT ![i] = snap[i]]
  BY <1>2
<1>6. OnBoard'
  BY <1>1, <1>5 DEF WriteRow, RowsSay, OnBoard
<1>7. RowsSay'
  <2>1. hash' \in [Items -> Payload \cup {NoHash}] /\ card' \in [Items -> Payload]
    BY <1>1, <1>2, <1>5 DEF RowsSay
  <2>2. prov' \in [Items -> Providers \cup {"none"}]
    BY <1>5 DEF RowsSay, RunShape
  <2> QED BY <2>1, <2>2 DEF WriteRow, RowsSay
<1> QED BY <1>3, <1>4, <1>6, <1>7

(* The end of a half of a pass, of a pass, and of one that fails. *)
LEMMA ForgetTypes ==
  ASSUME TypeInv, Forget, UNCHANGED <<db, boards, ghosts>>, batch' \in {0, batch}, Counted',
         {dirty', total', idle'} \subseteq BOOLEAN, RunShape'
  PROVE  TypeInv'
<1> USE DEF TypeInv, Forget
<1>1. Recorded' /\ OnBoard' /\ Said'
  BY DEF Recorded, OnBoard, Said, db, rows, ghosts
<1>2. Marked' /\ Flags'
  BY DEF Marked, Flags, db, rows, boards, ghosts
<1>3. RowsSay'
  BY Blanks DEF RowsSay, db, rows, boards
<1> QED BY <1>1, <1>2, <1>3

LEMMA EndTypes ==
  ASSUME TypeInv, Pulled \/ Pushed \/ LinkFails \/ AttemptDies
  PROVE  TypeInv'
<1>1. Forget /\ UNCHANGED <<db, boards, ghosts>> /\ batch' \in {0, batch}
  BY DEF Pulled, Pushed, LinkFails, AttemptDies
<1>2. Counted'
  BY QaBoardAssumption DEF TypeInv, Counted, Pulled, Pushed, LinkFails, AttemptDies, Fault
<1>3. dirty' \in BOOLEAN /\ total' \in BOOLEAN /\ idle' \in BOOLEAN
  BY DEF TypeInv, Flags, Pulled, Pushed, LinkFails, AttemptDies, answer
<1>4. RunShape'
  <2> USE QaBoardAssumption DEF TypeInv, RunShape, Points, At, LinkSteps
  <2>1. CASE Pulled
    BY <2>1 DEF Pulled
  <2>2. CASE Pushed
    BY <2>2 DEF Pushed
  <2>3. CASE LinkFails
    BY <2>3 DEF LinkFails
  <2>4. CASE AttemptDies
    BY <2>4 DEF AttemptDies
  <2> QED BY <2>1, <2>2, <2>3, <2>4
<1> QED BY <1>1, <1>2, <1>3, <1>4, ForgetTypes

LEMMA MarkTypes == ASSUME TypeInv, MarkPulled PROVE TypeInv'
<1> USE DEF TypeInv, MarkPulled
<1>1. RunShape' /\ Counted' /\ Flags' /\ Said'
  BY DEF At, Points, RunShape, Counted, Flags, Said, answer, pass, ghosts
<1>2. Recorded' /\ OnBoard' /\ Marked' /\ RowsSay'
  BY DEF Recorded, OnBoard, Marked, RowsSay, db, rows, pass, ghosts
<1> QED BY <1>1, <1>2

-----------------------------------------------------------------------------
LEMMA StartTypes == Init => TypeInv
<1> SUFFICES ASSUME Init PROVE TypeInv
  OBVIOUS
<1> USE QaBoardAssumption DEF Init
<1>1. Recorded /\ Marked /\ OnBoard
  BY DEF Recorded, Marked, OnBoard
<1>2. RowsSay
  BY Blanks DEF RowsSay
<1>3. RunShape
  BY DEF RunShape, Points
<1>4. Flags
  BY DEF Flags
<1>5. Said
  BY DEF Said
<1>6. Counted
  BY DEF Counted
<1> QED BY <1>1, <1>2, <1>3, <1>4, <1>5, <1>6 DEF TypeInv

LEMMA StillTypes == ASSUME TypeInv, UNCHANGED vars PROVE TypeInv'
<1> USE DEF TypeInv, vars
<1>1. RunShape' /\ Counted' /\ Flags' /\ Said'
  BY DEF RunShape, Counted, Flags, Said, run, answer, pass, ghosts
<1>2. Recorded' /\ OnBoard' /\ Marked'
  BY DEF Recorded, OnBoard, Marked, db, rows, boards, pass, ghosts
<1>3. RowsSay'
  BY DEF RowsSay, db, rows, boards, pass
<1> QED BY <1>1, <1>2, <1>3

LEMMA StepTypes == ASSUME TypeInv, Next PROVE TypeInv'
<1>1. CASE People
  BY <1>1, SetTypes, ToggleTypes, EditTypes, LinkTypes DEF People
<1>2. CASE Staging
  BY <1>2, RecordTypes, DropTypes, ShipTypes DEF Staging
<1>3. CASE Mirror
  BY <1>3, RunTypes, ReadTypes, ArchiveTypes, ApplyTypes, WriteCardTypes, WriteRowTypes, EndTypes, MarkTypes
     DEF Mirror, Pull, Push
<1>4. CASE LinkFails \/ AttemptDies
  BY <1>4, EndTypes
<1> QED BY <1>1, <1>2, <1>3, <1>4 DEF Next, Moves, Steps, Faults

(* The types of the mirror, for any items, batches, providers, moves and faults: *)
(* whatever is marked, read or queued has a row, and a run makes no more passes   *)
(* than its cap.                                                                  *)
THEOREM QaTypes == Spec => []QaTypeOK
<1> DEFINE Inv == TypeInv /\ moves \in 0..MaxMoves
<1>1. Init => Inv
  BY StartTypes, QaBoardAssumption DEF Init
<1>2. Inv /\ [Next]_vars => Inv'
  <2>1. ASSUME Inv, [Next]_vars PROVE moves' \in 0..MaxMoves
    BY <2>1, QaBoardAssumption DEF Next, Moves, Steps, Faults, vars
  <2> QED BY <2>1, StepTypes, StillTypes
<1>3. Inv => QaTypeOK
  BY DEF TypeInv, Recorded, RowsSay, Marked, RunShape, Flags, Said, Counted, QaTypeOK
<1> QED BY <1>1, <1>2, <1>3, PTL DEF Spec

-----------------------------------------------------------------------------
(* ByAPerson, step by step.  A card gets newer than its row by an edit, or by a   *)
(* write of the mirror whose row comes next; every write of a row makes the row    *)
(* the newer one again.                                                            *)
LEMMA PeopleAct ==
  ASSUME TypeInv, ByAPerson, People
  PROVE  ByAPerson'
<1> SUFFICES ASSUME faults' = 0
             PROVE  /\ \A i \in newer' : lastWord'[i] = "board"
                    /\ \A i \in fresh' : lastWord'[i] = "board" \/ (pc' = "row" /\ i = Min(queue'))
  BY DEF ByAPerson
<1> USE DEF TypeInv, Said, Marked, Recorded, RunShape, Counted, ByAPerson
<1>1. ASSUME Signal
      PROVE  faults = 0 /\ (pc = "row" => pc' = "row")
  BY <1>1, QaBoardAssumption DEF Signal, Fault, run
<1>2. ASSUME NEW i \in Items, NEW v \in Verdicts, setQaStatus(i, v)
      PROVE  /\ \A j \in newer' : lastWord'[j] = "board"
             /\ \A j \in fresh' : lastWord'[j] = "board" \/ (pc' = "row" /\ j = Min(queue'))
  BY <1>1, <1>2 DEF setQaStatus, Written
<1>3. ASSUME NEW i \in Items, toggleQaStep(i)
      PROVE  /\ \A j \in newer' : lastWord'[j] = "board"
             /\ \A j \in fresh' : lastWord'[j] = "board" \/ (pc' = "row" /\ j = Min(queue'))
  BY <1>1, <1>3 DEF toggleQaStep, Written, ghosts
<1>4. ASSUME NEW i \in Items, NEW v \in Verdicts, EditCard(i, v)
      PROVE  /\ \A j \in newer' : lastWord'[j] = "board"
             /\ \A j \in fresh' : lastWord'[j] = "board" \/ (pc' = "row" /\ j = Min(queue'))
  <2>1. faults = 0 /\ (pc = "row" => pc' = "row")
    BY <1>1, <1>4 DEF EditCard, run
  <2> QED BY <1>4, <2>1 DEF EditCard, pass
<1>5. ASSUME NEW p \in Providers, linkQaBoard(p) \/ unlinkQaBoard(p)
      PROVE  /\ \A j \in newer' : lastWord'[j] = "board"
             /\ \A j \in fresh' : lastWord'[j] = "board" \/ (pc' = "row" /\ j = Min(queue'))
  BY <1>1, <1>5 DEF linkQaBoard, unlinkQaBoard, Written, ghosts, pass, run
<1> QED BY <1>2, <1>3, <1>4, <1>5 DEF People

LEMMA StagingActs ==
  ASSUME ByAPerson, Staging
  PROVE  ByAPerson'
<1>1. ASSUME NEW i \in Items, Record(i) \/ Drop(i) PROVE ByAPerson'
  BY <1>1 DEF ByAPerson, Record, Drop, Written, run, ghosts
<1>2. CASE markBatchShipped
  BY <1>2 DEF ByAPerson, markBatchShipped, boards, pass, run, ghosts
<1> QED BY <1>1, <1>2 DEF Staging

(* These write neither card nor row. *)
LEMMA MirrorLooks ==
  ASSUME TypeInv, ByAPerson,
         \/ Wake \/ ContinueAsNew \/ syncQaBoard \/ Answer \/ signalStagingReconcile
         \/ ReadLinks \/ NextLink \/ ArchiveDone \/ PullChanges \/ ReadItems \/ Pulled
         \/ PushRead \/ Pushed \/ MarkPulled
  PROVE  ByAPerson'
<1>1. faults' = faults /\ fresh' = fresh /\ lastWord' = lastWord /\ pc # "row"
  BY DEF Wake, ContinueAsNew, syncQaBoard, Answer, signalStagingReconcile, ReadLinks, NextLink, ArchiveDone,
         PullChanges, ReadItems, Pulled, PushRead, Pushed, MarkPulled, At, boards, ghosts
<1>2. newer' \subseteq newer \cup fresh
  BY DEF Wake, ContinueAsNew, syncQaBoard, Answer, signalStagingReconcile, ReadLinks, NextLink, ArchiveDone,
         PullChanges, ReadItems, Pulled, PushRead, Pushed, MarkPulled, Forget, pass
<1> QED BY <1>1, <1>2 DEF ByAPerson

LEMMA MirrorWrites ==
  ASSUME TypeInv, ByAPerson, ArchiveCard \/ ApplyVerdict \/ WriteCard \/ WriteRow
  PROVE  ByAPerson'
<1>1. CASE ArchiveCard
  BY <1>1 DEF ByAPerson, ArchiveCard, Written
<1>2. CASE ApplyVerdict
  BY <1>2 DEF ByAPerson, ApplyVerdict, Written, run
<1>3. CASE WriteCard
  <2>1. /\ faults' = faults /\ newer' = newer /\ lastWord' = lastWord /\ queue' = queue
        /\ pc = "card" /\ pc' = "row"
    BY <1>3 DEF WriteCard, At, pass
  <2>2. fresh' \subseteq fresh \cup {Min(queue)}
    BY <1>3 DEF WriteCard, boards
  <2> QED BY <2>1, <2>2 DEF ByAPerson
<1>4. CASE WriteRow
  <2>1. /\ faults' = faults /\ newer' \subseteq newer /\ lastWord' = lastWord
        /\ fresh' = fresh \ {Min(queue)}
    BY <1>4 DEF WriteRow, Written
  <2> QED BY <2>1 DEF ByAPerson
<1> QED BY <1>1, <1>2, <1>3, <1>4

LEMMA PersonHolds == ASSUME TypeInv, ByAPerson, Next PROVE ByAPerson'
<1>1. CASE LinkFails \/ AttemptDies
  <2>1. faults' # 0
    BY <1>1 DEF LinkFails, AttemptDies, Fault, TypeInv, Counted
  <2> QED BY <2>1 DEF ByAPerson
<1> QED BY <1>1, PeopleAct, StagingActs, MirrorLooks, MirrorWrites
        DEF Next, Moves, Steps, Faults, Mirror, Pull, Push

(* A pass decides only in ReadItems, among the verdicts it found newer. *)
LEMMA DecidesByAPerson ==
  ASSUME ByAPerson, Next, pc = "items", pc' = "apply", faults = 0
  PROVE  \A i \in apply' : lastWord[i] = "board"
<1>1. ~ People
  BY DEF People, setQaStatus, toggleQaStep, EditCard, linkQaBoard, unlinkQaBoard, Signal, run
<1>2. ~ Staging
  BY DEF Staging, Record, Drop, markBatchShipped, run
<1>3. ReadItems
  BY <1>1, <1>2 DEF Next, Moves, Steps, Faults, LinkFails, AttemptDies, Mirror, Pull, Push, At,
     Wake, ContinueAsNew, syncQaBoard, Answer, signalStagingReconcile, ReadLinks, NextLink, ArchiveCard, ArchiveDone,
     PullChanges, ApplyVerdict, Pulled, PushRead, WriteCard, WriteRow, Pushed, MarkPulled, run
<1> QED BY <1>3 DEF ReadItems, ByAPerson, ghosts

(* sync.ts:189-195, for any number of items, providers, moves and passes: as long  *)
(* as nothing failed, a verdict is taken off a card only if a person put it there   *)
(* and none was given here since, whatever reviewers, the staging entity and the    *)
(* mirror itself wrote between the calls of the pass.                               *)
THEOREM NewerVerdict == Spec => NewerVerdictStands
<1>1. Init => ByAPerson
  BY DEF Init, ByAPerson
<1>2. ByAPerson /\ UNCHANGED vars => ByAPerson'
  BY DEF ByAPerson, vars, boards, run, pass, ghosts
<1>3. TypeInv /\ ByAPerson /\ [Next]_vars => TypeInv' /\ ByAPerson'
  BY <1>2, StepTypes, StillTypes, PersonHolds
<1>4. ByAPerson /\ [Next]_vars
        => [pc = "items" /\ pc' = "apply" /\ faults = 0 => \A i \in apply' : lastWord[i] = "board"]_vars
  <2>1. ASSUME ByAPerson, Next, pc = "items", pc' = "apply", faults = 0
        PROVE  \A i \in apply' : lastWord[i] = "board"
    BY <2>1, DecidesByAPerson
  <2> QED BY <2>1
<1> QED BY <1>1, <1>3, <1>4, StartTypes, PTL DEF Spec, NewerVerdictStands

=============================================================================
