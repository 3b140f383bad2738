------------------------------ MODULE ClaLedger ------------------------------
(***************************************************************************)
(* The CLA records of one project, as they bear on one contributor: the     *)
(* rows, the hash-chained ledger every write appends to, and the move of    *)
(* both to GPlatform Legal while the project stays in use                   *)
(* (src/src/lib/cla/mutations.ts, integrity.ts, status.ts and               *)
(* move-to-legal.ts).                                                       *)
(*                                                                         *)
(* A write is a READ COMMITTED transaction of three steps: it reads and     *)
(* checks, it writes its rows (uncommitted), and it takes the project's row *)
(* to append its entry and commit.  A row inserted under the project holds  *)
(* a share of the project's row until then, by its foreign key.             *)
(***************************************************************************)
EXTENDS Naturals, Sequences, FiniteSets

CONSTANTS
  Writers,     \* requests that may be in flight at once
  MaxWrites,   \* bound: transactions ever begun
  MaxMoves     \* bound: times the move is tried

ASSUME ClaLedgerAssumption == {MaxWrites, MaxMoves} \subseteq Nat /\ IsFiniteSet(Writers)

VARIABLES
  rows,      \* the committed rows: an id, to its status and the row it rests on
  ledger,    \* ClaEventLog by seq; the hash chain makes it a sequence
  enrolled,  \* Project.claLegalEnrolledAt is set
  tx,        \* tx[w]: the transaction of request w
  move,      \* where the move is and what it has read
  legal,     \* Legal's copy: its rows and its chain
  writes, moves   \* spent of the bounds

vars == <<rows, ledger, enrolled, tx, move, legal, writes, moves>>

Docs == {"ICLA", "CCLA"}
None == <<"none", 0>>

NoRows == [id \in {} |-> None]
Row(st, on) == [st |-> st, on |-> on]
Only(id, row) == [i \in {id} |-> row]
(* The rows r with those of s put over them. *)
Over(r, s) == [id \in DOMAIN r \cup DOMAIN s |-> IF id \in DOMAIN s THEN s[id] ELSE r[id]]
Having(r, kind, st) == {id \in DOMAIN r : id[1] = kind /\ r[id].st = st}
Latest(r, doc) == <<doc, Cardinality({id \in DOMAIN r : id[1] = doc})>>

(* An entry, its links to rows, and what the write it records puts in the rows. *)
Entry(kind, links, puts) == [kind |-> kind, links |-> links, puts |-> puts]
Genesis == Entry("genesis", {}, NoRows)
Grown(log, entry) == IF log = <<>> THEN <<Genesis, entry>> ELSE Append(log, entry)

NoTx == [at |-> "idle", entry |-> Genesis]
NoMove == [at |-> "idle", got |-> NoRows, upTo |-> 0, readAt |-> <<>>]

(* What a project that has both texts and one approved company starts with. *)
Corporate1 == <<"corporate", 1>>
SeedEntries ==
  <<Genesis,
    Entry("doc.published", {<<"ICLA", 1>>}, Only(<<"ICLA", 1>>, Row("valid", None))),
    Entry("doc.published", {<<"CCLA", 1>>}, Only(<<"CCLA", 1>>, Row("valid", None))),
    Entry("ccla.signed", {<<"signature", 1>>, <<"CCLA", 1>>, Corporate1},
          Over(Only(<<"signature", 1>>, Row("ACTIVE", <<"CCLA", 1>>)),
               Only(Corporate1, Row("ACTIVE", <<"signature", 1>>)))),
    Entry("roster.added", {<<"roster", 1>>, Corporate1},
          Only(<<"roster", 1>>, Row("ACTIVE", Corporate1)))>>

(* The rows a ledger tells of. *)
RowsAfter(log) ==
  LET after[n \in 0..Len(log)] ==
        IF n = 0 THEN NoRows ELSE Over(after[n - 1], log[n].puts)
  IN after[Len(log)]

Init ==
  /\ ledger \in {<<>>, SeedEntries} /\ rows = RowsAfter(ledger)
  /\ enrolled = FALSE
  /\ tx = [w \in Writers |-> NoTx]
  /\ move = NoMove /\ writes = 0 /\ moves = 0
  /\ legal = [rows |-> NoRows, chain |-> <<>>]

-----------------------------------------------------------------------------
(* What each write reads, checks and intends, as the entry it will append.   *)
Pending == UNION {DOMAIN tx[w].entry.puts : w \in Writers}
Fresh(kind) ==
  CHOOSE id \in {<<kind, n>> : n \in 1..(Cardinality(DOMAIN rows \cup Pending) + 1)} :
    id \notin DOMAIN rows \cup Pending
(* The next version number: two publications may be given the same one. *)
NextVersion(doc) == <<doc, Latest(rows, doc)[2] + 1>>
Flags(ids, st) == [id \in ids |-> Row(st, None)]
Status(id, st) == Only(id, [rows[id] EXCEPT !.st = st])

(* The entry the transaction of request w will append; its rows are not written yet. *)
Begins(w, entry) == tx' = [tx EXCEPT ![w] = [at |-> "read", entry |-> entry]]

(* All earlier versions are made stale, a selection of them, or none. *)
publishClaVersion(w) ==
  \E doc \in Docs :
    LET id == NextVersion(doc)
        prior == Having(rows, doc, "valid")
    IN \E stale \in {{}, prior} \cup {{v} : v \in prior} :
         Begins(w, Entry("doc.published", {id},
                         Over(Flags(stale, "stale"), Only(id, Row("valid", None)))))

(* The current version may not be made stale. *)
setVersionResign(w) ==
  \E doc \in Docs :
    \E v \in {id \in DOMAIN rows : id[1] = doc} :
      /\ rows[v].st = "valid" => v # Latest(rows, doc)
      /\ Begins(w, Entry("doc.resign_set", {},
                         Flags({v}, IF rows[v].st = "valid" THEN "stale" ELSE "valid")))

recordIclaSignature(w) ==
  LET id == Fresh("signature")
      doc == Latest(rows, "ICLA")
  IN /\ doc \in DOMAIN rows
     /\ Begins(w, Entry("icla.signed", {id, doc}, Only(id, Row("ACTIVE", doc))))

(* PENDING when the project has companies approved by hand. *)
recordCclaSignature(w) ==
  LET sig == Fresh("signature")
      corp == Fresh("corporate")
      doc == Latest(rows, "CCLA")
  IN /\ doc \in DOMAIN rows
     /\ \E st \in {"PENDING", "ACTIVE"} :
          Begins(w, Entry("ccla.signed", {sig, doc, corp},
                          Over(Only(sig, Row("ACTIVE", doc)), Only(corp, Row(st, sig)))))

Decides(w, kind, from, to) ==
  \E c \in Having(rows, "corporate", from) : Begins(w, Entry(kind, {c}, Status(c, to)))

approveCorporateCla(w) == Decides(w, "ccla.approved", "PENDING", "ACTIVE")
rejectCorporateCla(w) == Decides(w, "ccla.rejected", "PENDING", "REJECTED")
revokeCorporateCla(w) == Decides(w, "ccla.revoked", "ACTIVE", "REVOKED")

(* The same login may be added twice; a disputed one may not be added again. *)
addRosterMembers(w) ==
  \E c \in Having(rows, "corporate", "PENDING") \cup Having(rows, "corporate", "ACTIVE") :
    /\ \A m \in Having(rows, "roster", "DISPUTED") : rows[m].on # c
    /\ LET id == Fresh("roster")
       IN Begins(w, Entry("roster.added", {id, c}, Only(id, Row("ACTIVE", c))))

ChangesMember(w, kind, from, to) ==
  \E m \in UNION {Having(rows, "roster", st) : st \in from} :
    Begins(w, Entry(kind, {m, rows[m].on}, Status(m, to)))

revokeRosterMember(w) == ChangesMember(w, "roster.revoked", {"ACTIVE", "DISPUTED"}, "REVOKED")
disputeRosterMembership(w) ==
  ChangesMember(w, "roster.disputed", {"ACTIVE", "REVOKED"}, "DISPUTED")

revokeSignature(w) ==
  \E s \in Having(rows, "signature", "ACTIVE") :
    Begins(w, Entry("signature.revoked", {s}, Status(s, "REVOKED")))

grantWaiver(w) ==
  LET id == Fresh("waiver")
  IN Begins(w, Entry("waiver.granted", {id}, Only(id, Row("ACTIVE", None))))

revokeWaiver(w) ==
  \E id \in Having(rows, "waiver", "ACTIVE") :
    Begins(w, Entry("waiver.revoked", {id}, Status(id, "REVOKED")))

(* claStore chose this product's tables: the project had not moved. *)
Begin(w) ==
  /\ tx[w] = NoTx /\ ~enrolled
  /\ writes < MaxWrites /\ writes' = writes + 1
  /\ \/ publishClaVersion(w) \/ setVersionResign(w)
     \/ recordIclaSignature(w) \/ recordCclaSignature(w)
     \/ approveCorporateCla(w) \/ rejectCorporateCla(w) \/ revokeCorporateCla(w)
     \/ addRosterMembers(w) \/ revokeRosterMember(w) \/ disputeRosterMembership(w)
     \/ revokeSignature(w) \/ grantWaiver(w) \/ revokeWaiver(w)
  /\ UNCHANGED <<rows, ledger, enrolled, move, legal, moves>>

-----------------------------------------------------------------------------
(* The rows are written: each waits for a transaction that has written it.   *)
(* A row inserted under the project shares the project's row until the end.  *)
Inserts == {"doc.published", "icla.signed", "ccla.signed", "roster.added", "waiver.granted"}
Wrote(w) == tx[w].at = "wrote"
Shares(w) == Wrote(w) /\ tx[w].entry.kind \in Inserts
HoldsProject == move.at \in {"held", "sent"}

WriteRows(w) ==
  LET e == tx[w].entry
  IN /\ tx[w].at = "read"
     /\ \A v \in Writers \ {w} :
          Wrote(v) => DOMAIN tx[v].entry.puts \cap DOMAIN e.puts = {}
     /\ e.kind \in Inserts => ~HoldsProject
     /\ e.kind = "doc.published" => DOMAIN rows \cap e.links = {}   \* one row a version number
     /\ tx' = [tx EXCEPT ![w].at = "wrote"]
  /\ UNCHANGED <<rows, ledger, enrolled, move, legal, writes, moves>>

(* The project's row, FOR UPDATE, waits for every share of it and for the move. *)
LocksProject(w) ==
  Wrote(w) /\ ~HoldsProject /\ \A v \in Writers \ {w} : ~Shares(v)

(* A mutant: the claLegalEnrolledAt of the row it holds is not looked at. *)
AppendUnasked(w) ==
  /\ LocksProject(w)
  /\ ledger' = Grown(ledger, tx[w].entry)
  /\ rows' = Over(rows, tx[w].entry.puts)
  /\ tx' = [tx EXCEPT ![w] = NoTx]
  /\ UNCHANGED <<enrolled, move, legal, writes, moves>>

appendClaEvent(w) ==
  /\ LocksProject(w) /\ ~enrolled
  /\ ledger' = Grown(ledger, tx[w].entry)
  /\ rows' = Over(rows, tx[w].entry.puts)
  /\ tx' = [tx EXCEPT ![w] = NoTx]
  /\ UNCHANGED <<enrolled, move, legal, writes, moves>>

(* ClaInLegalError: the transaction is rolled back, and its rows with it. *)
Refused(w) ==
  /\ LocksProject(w) /\ enrolled
  /\ tx' = [tx EXCEPT ![w] = NoTx]
  /\ UNCHANGED <<rows, ledger, enrolled, move, legal, writes, moves>>

(* A deadlock of two shares, a unique version number, five seconds, a crash. *)
RollsBack(w) ==
  /\ tx[w].at # "idle"
  /\ tx' = [tx EXCEPT ![w] = NoTx]
  /\ UNCHANGED <<rows, ledger, enrolled, move, legal, writes, moves>>

-----------------------------------------------------------------------------
(* moveClaToLegal, step by step. *)
At(step) == move.at = step

StartMove ==
  /\ move = NoMove /\ ~enrolled /\ moves < MaxMoves /\ moves' = moves + 1
  /\ move' = [move EXCEPT !.at = "reading"]
  /\ UNCHANGED <<rows, ledger, enrolled, tx, legal, writes>>

OfKind(kinds) == {id \in DOMAIN rows : id[1] \in kinds}
Picked(ids) == [id \in ids |-> rows[id]]

(* One query a table, in this order, and no snapshot over them. *)
Tables == <<Docs, {"signature"}, {"corporate"}, {"roster"}, {"waiver"}>>
ReadTable ==
  /\ At("reading") /\ Len(move.readAt) < Len(Tables)
  /\ move' = [move EXCEPT !.got = Over(@, Picked(OfKind(Tables[Len(move.readAt) + 1]))),
                          !.readAt = Append(@, Len(ledger))]
  /\ UNCHANGED <<rows, ledger, enrolled, tx, legal, writes, moves>>

(* A mutant: the entry after the last one counts as sent. *)
ReadEventsOneAhead ==
  /\ At("reading") /\ Len(move.readAt) = Len(Tables)
  /\ move' = [move EXCEPT !.at = "send", !.upTo = Len(ledger) + 1]
  /\ UNCHANGED <<rows, ledger, enrolled, tx, legal, writes, moves>>

ReadEvents ==
  /\ At("reading") /\ Len(move.readAt) = Len(Tables)
  /\ move' = [move EXCEPT !.at = "send", !.upTo = Len(ledger)]
  /\ UNCHANGED <<rows, ledger, enrolled, tx, legal, writes, moves>>

(* Legal takes rows in batches, each after what it rests on, and the entries *)
(* that continue its chain; what it has it takes as it is or as it moved on. *)
LegalTakes(got, upTo) ==
  /\ \A id \in DOMAIN got : got[id].on \in {None} \cup DOMAIN got \cup DOMAIN legal.rows
  /\ legal' = [rows |-> Over(legal.rows, got),
               chain |-> IF Len(legal.chain) >= upTo THEN legal.chain
                         ELSE SubSeq(ledger, 1, upTo)]

SendHistory ==
  /\ At("send") /\ LegalTakes(move.got, move.upTo)
  /\ move' = [move EXCEPT !.at = "lock"]
  /\ UNCHANGED <<rows, ledger, enrolled, tx, writes, moves>>

HoldProject ==
  /\ At("lock") /\ \A w \in Writers : ~Shares(w)
  /\ move' = [move EXCEPT !.at = "held"]
  /\ UNCHANGED <<rows, ledger, enrolled, tx, legal, writes, moves>>

(* What was written since the entries were read: the rows those entries link *)
(* to, and every text if one of them set a re-sign flag.                     *)
Later == {ledger[n] : n \in (move.upTo + 1)..Len(ledger)}
DeltaLinked == UNION {e.links : e \in Later}   \* a mutant: re-sign flags are forgotten
Delta ==
  (UNION {e.links : e \in Later})
    \cup (IF \E e \in Later : e.kind = "doc.resign_set" THEN OfKind(Docs) ELSE {})

SendDelta ==
  /\ At("held") /\ LegalTakes(Picked(Delta), Len(ledger))
  /\ move' = [move EXCEPT !.at = "sent"]
  /\ UNCHANGED <<rows, ledger, enrolled, tx, writes, moves>>

SwitchOver ==
  /\ At("sent") /\ legal.chain = ledger
  /\ enrolled' = TRUE /\ move' = NoMove
  /\ UNCHANGED <<rows, ledger, tx, legal, writes, moves>>

(* Legal refuses or does not answer, or the process ends: some tables were taken, *)
(* of the history or of what came after it.                                       *)
FirstTables(got, n) ==
  [id \in {i \in DOMAIN got : \E k \in 1..n : i[1] \in Tables[k]} |-> got[id]]

MoveFails ==
  /\ move # NoMove
  /\ \/ UNCHANGED legal
     \/ \E n \in 1..Len(Tables) :
          \/ At("send") /\ LegalTakes(FirstTables(move.got, n), 0)
          \/ At("held") /\ LegalTakes(FirstTables(Picked(Delta), n), 0)
  /\ move' = NoMove
  /\ UNCHANGED <<rows, ledger, enrolled, tx, writes, moves>>

Next ==
  \/ \E w \in Writers : Begin(w) \/ WriteRows(w) \/ appendClaEvent(w) \/ Refused(w) \/ RollsBack(w)
  \/ StartMove \/ ReadTable \/ ReadEvents \/ SendHistory
  \/ HoldProject \/ SendDelta \/ SwitchOver \/ MoveFails

Spec == Init /\ [][Next]_vars

-----------------------------------------------------------------------------
Kinds == UNION {Tables[i] : i \in DOMAIN Tables}
Ids == Kinds \X (Nat \ {0})
IsRows(r) ==
  /\ DOMAIN r \subseteq Ids
  /\ \A id \in DOMAIN r : r[id].on \in {None} \cup DOMAIN r

(* Every row rests on a row there is, here and in Legal, whatever was sent,  *)
(* taken in part or rolled back; the state has its types.                    *)
ClaTypeOK ==
  /\ IsRows(rows) /\ IsRows(legal.rows)
  /\ enrolled \in BOOLEAN
  /\ \A w \in Writers : tx[w].at \in {"idle", "read", "wrote"}
  /\ move.at \in {"idle", "reading", "send", "lock", "held", "sent"}
  /\ move.upTo <= Len(ledger) /\ writes <= MaxWrites /\ moves <= MaxMoves

(* The rows are what the ledger says was done to them, every write of it and *)
(* none that was refused: the operational row and the entry commit together. *)
RowsFollowTheLedger == rows = RowsAfter(ledger)

(* A project that moved has one chain: a write that chose this product's     *)
(* tables before the switch and comes after it appends to neither.           *)
ChainNeverForks == enrolled => ledger = legal.chain

(* When the heads are compared, every row is in Legal as it is here, save    *)
(* one that changed between the reading of its table and of the entries, and *)
(* a text whose flag a later publication set.                                *)
TableOf(id) == CHOOSE i \in DOMAIN Tables : id[1] \in Tables[i]
LastChange(id) ==
  CHOOSE n \in DOMAIN ledger :
    /\ id \in DOMAIN ledger[n].puts
    /\ \A m \in (n + 1)..Len(ledger) : id \notin DOMAIN ledger[m].puts
MissedByReading(id) ==
  LET n == LastChange(id) IN move.readAt[TableOf(id)] < n /\ n <= move.upTo
FlaggedByPublishing(id) ==
  LET n == LastChange(id)
  IN n > move.upTo /\ ledger[n].kind = "doc.published" /\ id \notin ledger[n].links
RestIsInLegal ==
  At("sent") =>
    \A id \in DOMAIN rows :
      \/ MissedByReading(id) \/ FlaggedByPublishing(id)
      \/ id \in DOMAIN legal.rows /\ legal.rows[id] = rows[id]
=============================================================================
