------------------------------- MODULE QaBoard -------------------------------
(***************************************************************************)
(* qaBoardSync, the entity that mirrors the QA items of a repository into   *)
(* Notion and Trello (src/src/worker/workflows/qa-board-sync.ts), its       *)
(* activity (src/src/lib/qa/board/sync.ts), the actions of the reviewers    *)
(* and the writes of the staging entity it runs beside.                     *)
(*                                                                         *)
(* Times are only compared, so what is kept of them is their order:         *)
(* `fresh' has the items whose card was edited after the row's updatedAt,   *)
(* `unseen' those whose card was edited after the link's lastPulledAt.      *)
(* A card nobody's row points to any more is out of the model.              *)
(***************************************************************************)
EXTENDS Naturals, FiniteSets, FiniteSetsExt

CONSTANTS
  Items,       \* items, as numbers: the order they are read in
  BatchOf,     \* the batch each item is recorded in
  MaxBatches,  \* bound: batches opened
  Providers,
  Verdicts,    \* verdicts, "pending" among them
  SyncsCap,    \* SYNCS_BEFORE_CONTINUE
  MaxMoves,    \* bound: what people and the staging entity do
  MaxFaults    \* bound: signals, calls, attempts and runs that fail

ASSUME QaBoardAssumption ==
  /\ Items \subseteq Nat /\ BatchOf \in [Items -> 1..MaxBatches] /\ MaxBatches \in Nat
  /\ "pending" \in Verdicts /\ SyncsCap \in Nat \ {0} /\ MaxMoves \in Nat /\ MaxFaults \in Nat
  /\ "none" \notin Providers

VARIABLES
  \* the database
  opened, shipped,  \* batches opened and batches shipped, counted
  recorded, dropped,\* items that have a row; rows whose work left the batch
  row,              \* verdict and text of the row
  prov, hash,       \* externalProvider (with externalId) and externalHash
  links,            \* providers linked
  \* the boards
  card,             \* what the card the row points to says
  fresh, unseen,
  \* the run
  pc, dirty, syncs,
  total, idle,      \* what the pass answers with: any verdict applied; no batch
  \* the pass
  batch, todo, link,
  newer, said,      \* verdicts read: edited after the row's last write; what they say
  apply, queue,     \* rows to update; cards to write
  snap, mine,       \* items as read: the payload; whether it has a card here
  applied,          \* pullInto's count is not zero
  \* what an observer remembers
  byHand,           \* cards whose last writer is a person
  lastWord,         \* where a person last gave a verdict on the item
  untold,           \* a verdict applied, the staging entity not yet signalled
  faults, moves

rows == <<recorded, dropped, row, prov, hash>>
db == <<opened, shipped, rows, links>>
boards == <<card, fresh, unseen>>
run == <<pc, dirty, syncs>>
answer == <<total, idle>>
pass == <<batch, todo, link, newer, said, apply, queue, snap, mine, applied>>
ghosts == <<byHand, lastWord, untold>>
vars == <<db, boards, run, answer, pass, ghosts, faults, moves>>

Payload == [status : Verdicts, text : 0..1]
Blank == [status |-> "pending", text |-> 0]
NoHash == [status |-> "none", text |-> 0]
Open == opened > shipped
Points == {"none", "wait", "count", "links", "link", "archive", "pull", "items", "apply",
           "push", "card", "row", "mark", "answer", "tell"}

Init ==
  /\ opened = 0 /\ shipped = 0 /\ recorded = {} /\ dropped = {} /\ links = {}
  /\ row = [i \in Items |-> Blank] /\ prov = [i \in Items |-> "none"] /\ hash = [i \in Items |-> NoHash]
  /\ card = [i \in Items |-> Blank] /\ fresh = {} /\ unseen = {}
  /\ pc = "none" /\ dirty = FALSE /\ syncs = 0
  /\ total = FALSE /\ idle = FALSE
  /\ batch = 0 /\ todo = {} /\ link = "none" /\ newer = {} /\ said = [i \in Items |-> "pending"]
  /\ apply = {} /\ queue = {} /\ snap = [i \in Items |-> Blank] /\ mine = {} /\ applied = FALSE
  /\ byHand = {} /\ lastWord = [i \in Items |-> "here"] /\ untold = FALSE
  /\ faults = 0 /\ moves = 0

(* Prisma's @updatedAt: whatever a write changes, the row is now the newer one. *)
Written(S) == fresh' = fresh \ S /\ newer' = newer \ S

Fault == faults < MaxFaults /\ faults' = faults + 1

(* signalQaBoardSync: the handler of an open run, or a new run; its failure is *)
(* only logged.                                                                 *)
Signal ==
  \/ /\ dirty' = TRUE /\ pc' = (IF pc = "none" THEN "wait" ELSE pc)
     /\ syncs' = (IF pc = "none" THEN 0 ELSE syncs) /\ UNCHANGED faults
  \/ Fault /\ UNCHANGED run

-----------------------------------------------------------------------------
(* People. *)

(* A verdict on the dashboard; the staging entity is signalled as well. *)
setQaStatus(i, v) ==
  /\ i \in recorded
  /\ row' = [row EXCEPT ![i].status = v] /\ Written({i})
  /\ lastWord' = [lastWord EXCEPT ![i] = "here"] /\ untold' = FALSE
  /\ Signal
  /\ UNCHANGED <<opened, shipped, recorded, dropped, prov, hash, links, card, unseen, answer,
                 batch, todo, link, said, apply, queue, snap, mine, applied, byHand>>

(* A checkbox: the steps change and the hash is cleared. *)
toggleQaStep(i) ==
  /\ i \in recorded
  /\ row' = [row EXCEPT ![i].text = 1 - @] /\ hash' = [hash EXCEPT ![i] = NoHash] /\ Written({i})
  /\ Signal
  /\ UNCHANGED <<opened, shipped, recorded, dropped, prov, links, card, unseen, answer,
                 batch, todo, link, said, apply, queue, snap, mine, applied, ghosts>>

(* A verdict on the board; its callback may be late, lost or refused. *)
EditCard(i, v) ==
  /\ prov[i] # "none" /\ card[i].status # v
  /\ card' = [card EXCEPT ![i].status = v]
  /\ fresh' = fresh \cup {i} /\ unseen' = unseen \cup {i} /\ byHand' = byHand \cup {i}
  /\ lastWord' = [lastWord EXCEPT ![i] = "board"]
  /\ (prov[i] \in links /\ Signal) \/ UNCHANGED <<run, faults>>
  /\ UNCHANGED <<db, answer, pass, untold>>

(* A new link has never been pulled. *)
linkQaBoard(p) ==
  /\ p \notin links /\ links' = links \cup {p}
  /\ unseen' = unseen \cup {i \in Items : prov[i] = p}
  /\ Signal
  /\ UNCHANGED <<opened, shipped, rows, card, fresh, answer, pass, ghosts>>

(* The link goes, and the pointers to its cards with it. *)
unlinkQaBoard(p) ==
  LET cards == {i \in Items : prov[i] = p}
  IN  /\ p \in links /\ links' = links \ {p}
      /\ prov' = [i \in Items |-> IF i \in cards THEN "none" ELSE prov[i]]
      /\ hash' = [i \in Items |-> IF i \in cards THEN NoHash ELSE hash[i]]
      /\ Written(cards) /\ unseen' = unseen \ cards /\ byHand' = byHand \ cards
      /\ UNCHANGED <<opened, shipped, recorded, dropped, row, card, run, answer, lastWord, untold, faults,
                     batch, todo, link, said, apply, queue, snap, mine, applied>>

-----------------------------------------------------------------------------
(* The staging entity (StagingRelease has the whole); it never signals the mirror. *)

(* syncBatchRecord writes an item: new, reworded, merged again or back in the batch. *)
Record(i) ==
  /\ \/ BatchOf[i] = opened /\ Open /\ UNCHANGED opened
     \/ BatchOf[i] = opened + 1 /\ ~Open /\ opened' = opened + 1
  /\ recorded' = recorded \cup {i} /\ dropped' = dropped \ {i} /\ Written({i})
  /\ \E text \in 0..1, v \in IF i \in recorded THEN {row[i].status, "pending"} ELSE {"pending"} :
       row' = [row EXCEPT ![i] = [status |-> v, text |-> text]]
  /\ UNCHANGED <<shipped, prov, hash, links, card, unseen, run, answer, ghosts, faults,
                 batch, todo, link, said, apply, queue, snap, mine, applied>>

Drop(i) ==
  /\ Open /\ i \in recorded \ dropped /\ BatchOf[i] = opened
  /\ dropped' = dropped \cup {i} /\ Written({i})
  /\ UNCHANGED <<opened, shipped, recorded, row, prov, hash, links, card, unseen, run, answer, ghosts, faults,
                 batch, todo, link, said, apply, queue, snap, mine, applied>>

markBatchShipped ==
  /\ Open /\ shipped' = opened
  /\ UNCHANGED <<opened, rows, links, boards, run, answer, pass, ghosts, faults>>

-----------------------------------------------------------------------------
(* The run. *)

At(from, to) == pc = from /\ pc' = to

(* Mutant of Wake: the cap on passes is not looked at. *)
WakeUncapped ==
  /\ At("wait", "count") /\ dirty' = FALSE
  /\ UNCHANGED <<db, boards, syncs, answer, pass, ghosts, faults>>

(* A signal and the debounce, or the poll interval. *)
Wake ==
  /\ At("wait", "count") /\ syncs < SyncsCap /\ dirty' = FALSE
  /\ UNCHANGED <<db, boards, syncs, answer, pass, ghosts, faults>>

ContinueAsNew ==
  /\ pc = "wait" /\ syncs = SyncsCap /\ syncs' = 0
  /\ UNCHANGED <<db, boards, pc, dirty, answer, pass, ghosts, faults>>

(* syncQaBoard counts the links and looks for an open batch. *)
syncQaBoard ==
  /\ pc = "count" /\ total' = FALSE
  /\ \/ links = {} /\ pc' = "answer" /\ idle' = TRUE
     \/ links # {} /\ pc' = "links" /\ idle' = ~Open
  /\ UNCHANGED <<db, boards, dirty, syncs, pass, ghosts, faults>>

(* Idle and not dirty: the run is over.  Else verdicts are passed on, and it waits. *)
Answer ==
  /\ pc = "answer" /\ total' = FALSE /\ idle' = FALSE
  /\ \/ idle /\ ~dirty /\ pc' = "none" /\ syncs' = 0
     \/ ~(idle /\ ~dirty) /\ pc' = (IF total THEN "tell" ELSE "wait") /\ syncs' = syncs + 1
  /\ UNCHANGED <<db, boards, dirty, pass, ghosts, faults>>

signalStagingReconcile ==
  /\ At("tell", "wait") /\ untold' = FALSE
  /\ UNCHANGED <<db, boards, dirty, syncs, answer, pass, byHand, lastWord, faults>>

-----------------------------------------------------------------------------
(* syncQaBoards. *)

ReadLinks ==
  /\ pc = "links" /\ todo' = links /\ batch' = (IF Open /\ links # {} THEN opened ELSE 0)
  /\ pc' = "link"
  /\ UNCHANGED <<db, boards, dirty, syncs, answer, ghosts, faults,
                 link, newer, said, apply, queue, snap, mine, applied>>

NextLink ==
  /\ pc = "link"
  /\ \/ /\ todo = {} /\ pc' = "answer" /\ link' = "none" /\ batch' = 0 /\ UNCHANGED todo
     \/ \E p \in todo : link' = p /\ todo' = todo \ {p} /\ pc' = "archive" /\ UNCHANGED batch
  /\ UNCHANGED <<db, boards, dirty, syncs, answer, ghosts, faults, newer, said, apply, queue, snap, mine, applied>>

Shipped(i) == i \in recorded /\ BatchOf[i] <= shipped

(* archiveShippedCards, a card and its row at a time (nobody else writes the      *)
(* pointer of a shipped item; a card archived twice is no matter), of the newest   *)
(* three shipped batches that have cards (the runs have no more than those).      *)
ArchiveCard ==
  /\ pc = "archive"
  /\ \E i \in Items :
       /\ Shipped(i) /\ prov[i] = link
       /\ prov' = [prov EXCEPT ![i] = "none"] /\ hash' = [hash EXCEPT ![i] = NoHash]
       /\ Written({i}) /\ unseen' = unseen \ {i} /\ byHand' = byHand \ {i}
  /\ UNCHANGED <<opened, shipped, recorded, dropped, row, links, card, run, answer, lastWord, untold, faults,
                 batch, todo, link, said, apply, queue, snap, mine, applied>>

ArchiveDone ==
  /\ pc = "archive" /\ ~\E i \in Items : Shipped(i) /\ prov[i] = link
  /\ pc' = IF batch = 0 THEN "mark" ELSE "pull"
  /\ UNCHANGED <<db, boards, dirty, syncs, answer, pass, ghosts, faults>>

(* pullChanges: the cards edited since the last pull. *)
PullChanges ==
  LET seen == {i \in unseen : prov[i] = link}
  IN  /\ At("pull", "items")
      /\ apply' = seen /\ newer' = seen \cap fresh
      /\ said' = [i \in Items |-> IF i \in seen THEN card[i].status ELSE "pending"]
      /\ UNCHANGED <<db, boards, dirty, syncs, answer, ghosts, faults, batch, todo, link, queue, snap, mine, applied>>

(* Mutant of ReadItems: the timestamps are not compared. *)
ReadItemsUnguarded ==
  /\ At("items", "apply") /\ snap' = row
  /\ apply' = {i \in apply : i \in recorded /\ BatchOf[i] = batch /\ prov[i] = link /\ said[i] # row[i].status}
  /\ UNCHANGED <<db, boards, dirty, syncs, answer, ghosts, faults,
                 batch, todo, link, newer, said, queue, mine, applied>>

(* pullInto reads the items and takes both guards on what it read. *)
ReadItems ==
  /\ At("items", "apply") /\ snap' = row
  /\ apply' = {i \in apply \cap newer :
                 i \in recorded /\ BatchOf[i] = batch /\ prov[i] = link /\ said[i] # row[i].status}
  /\ UNCHANGED <<db, boards, dirty, syncs, answer, ghosts, faults,
                 batch, todo, link, newer, said, queue, mine, applied>>

(* One update of pullInto, with the hash of the item as it was read. *)
ApplyVerdict ==
  /\ pc = "apply" /\ apply # {}
  /\ LET i == Min(apply)
     IN  /\ row' = [row EXCEPT ![i].status = said[i]] /\ Written({i})
         /\ hash' = [hash EXCEPT ![i] = [status |-> said[i], text |-> snap[i].text]]
         /\ apply' = apply \ {i}
  /\ applied' = TRUE /\ untold' = TRUE
  /\ UNCHANGED <<opened, shipped, recorded, dropped, prov, links, card, unseen, run, answer, byHand, lastWord, faults,
                 batch, todo, link, said, queue, snap, mine>>

(* What the pass of a link holds is gone; what it has written stays. *)
Forget ==
  /\ newer' = {} /\ said' = [i \in Items |-> "pending"] /\ apply' = {} /\ queue' = {}
  /\ snap' = [i \in Items |-> Blank] /\ mine' = {} /\ applied' = FALSE

(* Mutant of Pulled: the count is that of the last link. *)
PulledLast ==
  /\ At("apply", "push") /\ apply = {} /\ total' = applied /\ Forget
  /\ UNCHANGED <<db, boards, dirty, syncs, idle, ghosts, faults, batch, todo, link>>

Pulled ==
  /\ At("apply", "push") /\ apply = {} /\ total' = (total \/ applied) /\ Forget
  /\ UNCHANGED <<db, boards, dirty, syncs, idle, ghosts, faults, batch, todo, link>>

(* pushFrom reads the items; those whose hash is that of their payload are left alone. *)
PushRead ==
  LET items == {i \in recorded \ dropped : BatchOf[i] = batch}
  IN  /\ At("push", "card") /\ snap' = row
      /\ mine' = {i \in items : prov[i] = link}
      /\ queue' = {i \in items : prov[i] # link \/ hash[i] # row[i]}
      /\ UNCHANGED <<db, boards, dirty, syncs, answer, ghosts, faults, batch, todo, link, newer, said, apply, applied>>

(* updateCard or createCard; a card the row no longer points to is nobody's. *)
WriteCard ==
  /\ At("card", "row") /\ queue # {}
  /\ LET i == Min(queue)
     IN  IF i \in mine /\ prov[i] = link
         THEN /\ card' = [card EXCEPT ![i] = snap[i]]
              /\ fresh' = fresh \cup {i} /\ unseen' = unseen \cup {i} /\ byHand' = byHand \ {i}
         ELSE UNCHANGED <<boards, byHand>>
  /\ UNCHANGED <<db, dirty, syncs, answer, pass, lastWord, untold, faults>>

(* Mutant of WriteRow: the hash of what was sent is not kept. *)
WriteRowUnhashed ==
  /\ At("row", "card")
  /\ LET i == Min(queue)
     IN  /\ Written({i}) /\ queue' = queue \ {i}
         /\ IF i \in mine THEN UNCHANGED <<prov, card, unseen, byHand>>
            ELSE /\ prov' = [prov EXCEPT ![i] = link] /\ card' = [card EXCEPT ![i] = snap[i]]
                 /\ unseen' = unseen \cup {i} /\ byHand' = byHand \ {i}
  /\ UNCHANGED <<opened, shipped, recorded, dropped, row, hash, links, dirty, syncs, answer, lastWord, untold, faults,
                 batch, todo, link, said, apply, snap, mine, applied>>

(* The row's update after it: the hash, and the pointer to a card just created. *)
WriteRow ==
  /\ At("row", "card")
  /\ LET i == Min(queue)
     IN  /\ hash' = [hash EXCEPT ![i] = snap[i]] /\ Written({i}) /\ queue' = queue \ {i}
         /\ IF i \in mine THEN UNCHANGED <<prov, card, unseen, byHand>>
            ELSE /\ prov' = [prov EXCEPT ![i] = link] /\ card' = [card EXCEPT ![i] = snap[i]]
                 /\ unseen' = unseen \cup {i} /\ byHand' = byHand \ {i}
  /\ UNCHANGED <<opened, shipped, recorded, dropped, row, links, dirty, syncs, answer, lastWord, untold, faults,
                 batch, todo, link, said, apply, snap, mine, applied>>

Pushed ==
  /\ At("card", "mark") /\ queue = {} /\ Forget
  /\ UNCHANGED <<db, boards, dirty, syncs, answer, ghosts, faults, batch, todo, link>>

(* lastPulledAt is the time of this write, not of the pull. *)
MarkPulled ==
  /\ At("mark", "link")
  /\ unseen' = IF link \in links THEN {i \in unseen : prov[i] # link} ELSE unseen
  /\ UNCHANGED <<db, card, fresh, dirty, syncs, answer, pass, ghosts, faults>>

LinkSteps == {"archive", "pull", "items", "apply", "push", "card", "row", "mark"}

(* A call throws: the link is given up until the next pass. *)
LinkFails ==
  /\ pc \in LinkSteps /\ pc' = "link" /\ Fault /\ Forget
  /\ UNCHANGED <<db, boards, dirty, syncs, answer, ghosts, batch, todo, link>>

(* The worker dies and the activity is attempted again, or the run fails with it. *)
AttemptDies ==
  /\ pc \in LinkSteps \cup {"count", "links", "link", "answer"} /\ Fault /\ Forget
  /\ batch' = 0 /\ todo' = {} /\ link' = "none" /\ total' = FALSE /\ idle' = FALSE
  /\ \/ pc' = "count" /\ UNCHANGED <<dirty, syncs>>
     \/ pc' = "none" /\ dirty' = FALSE /\ syncs' = 0
  /\ UNCHANGED <<db, boards, ghosts>>

-----------------------------------------------------------------------------
Pull == PullChanges \/ ReadItems \/ ApplyVerdict \/ Pulled
Push == PushRead \/ WriteCard \/ WriteRow \/ Pushed
Mirror ==
  \/ Wake \/ ContinueAsNew \/ syncQaBoard \/ Answer \/ signalStagingReconcile
  \/ ReadLinks \/ NextLink \/ ArchiveCard \/ ArchiveDone \/ Pull \/ Push \/ MarkPulled

People ==
  \/ \E i \in Items, v \in Verdicts : setQaStatus(i, v) \/ EditCard(i, v)
  \/ \E i \in Items : toggleQaStep(i)
  \/ \E p \in Providers : linkQaBoard(p) \/ unlinkQaBoard(p)
Staging == markBatchShipped \/ \E i \in Items : Record(i) \/ Drop(i)

Moves == moves < MaxMoves /\ moves' = moves + 1 /\ (People \/ Staging)
Steps == Mirror /\ UNCHANGED moves
Faults == (LinkFails \/ AttemptDies) /\ UNCHANGED moves

Next == Moves \/ Steps \/ Faults

(* Temporal drives an open run, its poll timer included. *)
Spec == Init /\ [][Next]_vars /\ WF_vars(Steps)

-----------------------------------------------------------------------------
QaTypeOK ==
  /\ opened \in 0..MaxBatches /\ shipped \in 0..opened
  /\ dropped \subseteq recorded /\ recorded \subseteq {i \in Items : BatchOf[i] <= opened}
  /\ row \in [Items -> Payload] /\ card \in [Items -> Payload]
  /\ prov \in [Items -> Providers \cup {"none"}] /\ hash \in [Items -> Payload \cup {NoHash}]
  /\ links \subseteq Providers /\ todo \subseteq Providers /\ link \in Providers \cup {"none"}
  /\ UNION {fresh, unseen, newer, apply, queue, mine, byHand} \subseteq recorded
  /\ pc \in Points /\ syncs \in 0..SyncsCap /\ batch \in 0..opened
  /\ {dirty, total, idle, applied, untold} \subseteq BOOLEAN
  /\ said \in [Items -> Verdicts] /\ snap \in [Items -> Payload]
  /\ lastWord \in [Items -> {"here", "board"}] /\ faults \in 0..MaxFaults /\ moves \in 0..MaxMoves
  /\ pc = "none" => ~dirty

(* sync.ts:189-195: while nothing fails, a pass decides to take a verdict off a card *)
(* only if a person put it there and nobody has given a later one here: neither a    *)
(* stale card nor what the mirror itself wrote is taken for one.                      *)
NewerVerdictStands ==
  [][pc = "items" /\ pc' = "apply" /\ faults = 0 => \A i \in apply' : lastWord[i] = "board"]_vars

(* sync.ts:268-270: with one board linked and nothing left to happen, the mirror stops *)
(* writing, and every card it was the last to write shows its row.                      *)
MirrorSettles ==
  <>[](Cardinality(links) = 1) =>
    /\ <>[][pc # "card" \/ pc' # "row"]_vars
    /\ [](faults = 0) /\ []<>(pc = "wait") =>
         <>[](\A i \in recorded \ dropped : BatchOf[i] > shipped /\ i \notin byHand =>
                prov[i] \in links /\ card[i] = row[i])

(* qa-board-sync.ts:54-57: while nothing fails, a verdict taken off a card reaches the *)
(* staging entity, which owns the release.                                              *)
VerdictReachesRelease == [](faults = 0) => (untold ~> ~untold)

=============================================================================
