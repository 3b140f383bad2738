------------------------------ MODULE ClaProofs ------------------------------
(***************************************************************************)
(* The CLA.  First its ledger: for any number of requests, writes and moves *)
(* of one project, its rows are what its ledger says and rest on one        *)
(* another, the move leaves Legal with all of them but those it is known to *)
(* miss, and the chain never forks.  Then the gate of a pull request: for   *)
(* any number of drives, commits, changes of coverage and faults, both its  *)
(* checks stand on the head and tell its author's coverage, but where an    *)
(* observer noted why not.                                                  *)
(***************************************************************************)
EXTENDS ClaLedger, ClaGate, FiniteSetTheorems, WellFoundedInduction, TLAPS

(* A set of numbers has a least one. *)
LEMMA LeastOf ==
  ASSUME NEW T, T \subseteq Nat, T # {}
  PROVE  \E x \in T : \A y \in T : x <= y
<1> DEFINE R == {ss \in Nat \X Nat : ss[1] < ss[2]}
<1>1. IsWellFoundedOn(R, Nat)
  BY NatLessThanWellFounded DEF OpToRel
<1>2. \E x \in T : \A y \in T : ~ (<<y, x>> \in R)
  BY <1>1, WFMin
<1>3. PICK x \in T : \A y \in T : ~ (<<y, x>> \in R)
  BY <1>2
<1>4. \A y \in T : ~ (y < x)
  BY <1>3
<1> QED BY <1>4

(* What a ledger tells of, entry after entry: the function RowsAfter defines by   *)
(* recursion exists, and that of a longer ledger begins as that of a shorter one.  *)
Told(log, k, f) ==
  f = [n \in 0..k |-> IF n = 0 THEN NoRows ELSE Over(f[n - 1], log[n].puts)]

LEMMA ToldNext ==
  ASSUME NEW log, NEW k \in Nat \ {0}, NEW f, Told(log, k - 1, f)
  PROVE  Told(log, k, [n \in 0..k |-> IF n = k THEN Over(f[k - 1], log[k].puts) ELSE f[n]])
<1> DEFINE g == [n \in 0..k |-> IF n = k THEN Over(f[k - 1], log[k].puts) ELSE f[n]]
<1>1. \A n \in 0..(k - 1) : f[n] = IF n = 0 THEN NoRows ELSE Over(f[n - 1], log[n].puts)
  <2>1. f = [n \in 0..(k - 1) |-> IF n = 0 THEN NoRows ELSE Over(f[n - 1], log[n].puts)]
    BY DEF Told
  <2> QED BY <2>1
<1>2. ASSUME NEW n \in 0..k
      PROVE  g[n] = IF n = 0 THEN NoRows ELSE Over(g[n - 1], log[n].puts)
  <2>1. CASE n = k
    <3>1. k - 1 \in 0..k /\ k - 1 # k
      OBVIOUS
    <3>2. g[n - 1] = f[k - 1]
      BY <2>1, <3>1
    <3> QED BY <2>1, <3>2
  <2>2. CASE n = 0
    BY <1>1, <2>2
  <2>3. CASE n # k /\ n # 0
    <3>1. n \in 0..(k - 1) /\ n - 1 \in 0..k /\ n - 1 # k
      BY <2>3
    <3>2. g[n] = f[n] /\ g[n - 1] = f[n - 1]
      BY <2>3, <3>1
    <3> QED BY <1>1, <2>3, <3>1, <3>2
  <2> QED BY <2>1, <2>2, <2>3
<1> HIDE DEF g
<1>3. g = [n \in 0..k |-> g[n]]
  BY DEF g
<1>4. [n \in 0..k |-> g[n]] = [n \in 0..k |-> IF n = 0 THEN NoRows ELSE Over(g[n - 1], log[n].puts)]
  BY <1>2, Zenon
<1>5. g = [n \in 0..k |-> IF n = 0 THEN NoRows ELSE Over(g[n - 1], log[n].puts)]
  BY <1>3, <1>4
<1>6. Told(log, k, g)
  BY <1>5 DEF Told
<1> QED BY <1>6 DEF g

LEMMA ToldExists ==
  ASSUME NEW log, NEW m \in Nat
  PROVE  \E f : Told(log, m, f)
<1> DEFINE Bad == {k \in Nat : ~ \E f : Told(log, k, f)}
<1>1. SUFFICES Bad = {}
  OBVIOUS
<1>2. SUFFICES ASSUME Bad # {} PROVE FALSE
  OBVIOUS
<1>3. PICK k \in Bad : \A j \in Bad : k <= j
  BY <1>2, LeastOf
<1>4. k # 0
  <2>1. Told(log, 0, [n \in 0..0 |-> NoRows])
    <3> DEFINE g == [n \in 0..0 |-> NoRows]
    <3>1. g = [n \in 0..0 |-> IF n = 0 THEN NoRows ELSE Over(g[n - 1], log[n].puts)]
      OBVIOUS
    <3> QED BY <3>1 DEF Told
  <2> QED BY <2>1, <1>3
<1>5. k - 1 \in Nat /\ k - 1 \notin Bad
  BY <1>3, <1>4
<1>6. PICK f : Told(log, k - 1, f)
  BY <1>5
<1>7. \E g : Told(log, k, g)
  BY <1>3, <1>4, <1>6, ToldNext
<1> QED BY <1>3, <1>7

LEMMA RowsTold ==
  ASSUME NEW log, Len(log) \in Nat
  PROVE  \E f : Told(log, Len(log), f) /\ RowsAfter(log) = f[Len(log)]
<1>1. RowsAfter(log) = (CHOOSE f : Told(log, Len(log), f))[Len(log)]
  BY DEF RowsAfter, Told
<1>2. \E f : Told(log, Len(log), f)
  BY ToldExists
<1>3. Told(log, Len(log), CHOOSE f : Told(log, Len(log), f))
  BY <1>2
<1> QED BY <1>1, <1>3

LEMMA RowsAfterNothing == RowsAfter(<<>>) = NoRows
<1>1. Len(<<>>) = 0
  OBVIOUS
<1>2. PICK f : Told(<<>>, 0, f) /\ RowsAfter(<<>>) = f[0]
  BY <1>1, RowsTold
<1>3. f = [n \in 0..0 |-> IF n = 0 THEN NoRows ELSE Over(f[n - 1], <<>>[n].puts)]
  BY <1>2 DEF Told
<1>4. f[0] = NoRows
  BY <1>3
<1> QED BY <1>2, <1>4

LEMMA RowsAfterAppend ==
  ASSUME NEW S, NEW log \in Seq(S), NEW e \in S
  PROVE  RowsAfter(Append(log, e)) = Over(RowsAfter(log), e.puts)
<1> DEFINE more == Append(log, e)
           m == Len(log)
<1>1. m \in Nat /\ Len(more) = m + 1 /\ more[m + 1] = e /\ \A n \in 1..m : more[n] = log[n]
  OBVIOUS
<1> HIDE DEF more
<1>2. PICK f : Told(log, m, f) /\ RowsAfter(log) = f[m]
  BY <1>1, RowsTold
<1>3. PICK g : Told(more, m + 1, g) /\ RowsAfter(more) = g[m + 1]
  BY <1>1, RowsTold
<1> HIDE DEF m
<1>4. \A n \in 0..m : f[n] = g[n]
  <2>1. \A n \in 0..m : f[n] = IF n = 0 THEN NoRows ELSE Over(f[n - 1], log[n].puts)
    <3>1. f = [n \in 0..m |-> IF n = 0 THEN NoRows ELSE Over(f[n - 1], log[n].puts)]
      BY <1>2 DEF Told
    <3> QED BY <3>1
  <2>2. \A n \in 0..(m + 1) : g[n] = IF n = 0 THEN NoRows ELSE Over(g[n - 1], more[n].puts)
    <3>1. g = [n \in 0..(m + 1) |-> IF n = 0 THEN NoRows ELSE Over(g[n - 1], more[n].puts)]
      BY <1>3 DEF Told
    <3> QED BY <3>1
  <2> DEFINE Bad == {n \in 0..m : f[n] # g[n]}
  <2>3. SUFFICES ASSUME Bad # {} PROVE FALSE
    OBVIOUS
  <2>4. Bad \subseteq Nat
    BY <1>1
  <2>5. PICK n \in Bad : \A j \in Bad : n <= j
    BY <2>3, <2>4, LeastOf
  <2>6. n # 0
    BY <1>1, <2>1, <2>2, <2>5
  <2>7. n - 1 \in 0..m /\ n - 1 \notin Bad /\ n \in 1..m /\ n \in 0..(m + 1)
    BY <1>1, <2>5, <2>6
  <2>8. f[n - 1] = g[n - 1] /\ more[n] = log[n]
    BY <1>1, <2>7
  <2>9. f[n] = g[n]
    BY <2>1, <2>2, <2>6, <2>7, <2>8
  <2> QED BY <2>5, <2>9
<1>5. g[m] = f[m]
  BY <1>1, <1>4
<1>6. g = [n \in 0..(m + 1) |-> IF n = 0 THEN NoRows ELSE Over(g[n - 1], more[n].puts)]
  BY <1>3 DEF Told
<1>7. g[m + 1] = Over(g[m], more[m + 1].puts)
  <2>1. m + 1 \in 0..(m + 1) /\ m + 1 # 0 /\ (m + 1) - 1 = m
    BY <1>1
  <2>2. g[m + 1] = IF m + 1 = 0 THEN NoRows ELSE Over(g[(m + 1) - 1], more[m + 1].puts)
    BY <1>6, <2>1
  <2> QED BY <2>1, <2>2
<1>8. RowsAfter(more) = Over(RowsAfter(log), e.puts)
  BY <1>1, <1>2, <1>3, <1>5, <1>7
<1> QED BY <1>8 DEF more

-----------------------------------------------------------------------------
(* Rows by id, and the entries that record what is done to them. *)
Standing == {"valid", "stale", "ACTIVE", "PENDING", "REJECTED", "REVOKED", "DISPUTED"}
Records == [st : Standing, on : Ids \cup {None}]
Maps == UNION {[D -> Records] : D \in {E \in SUBSET Ids : IsFiniteSet(E)}}
Events ==
  {"genesis", "doc.published", "doc.resign_set", "icla.signed", "ccla.signed", "ccla.approved", "ccla.rejected",
   "ccla.revoked", "roster.added", "roster.revoked", "roster.disputed", "signature.revoked", "waiver.granted",
   "waiver.revoked"}
Entries == [kind : Events, links : SUBSET Ids, puts : Maps]

LEMMA KindsAre ==
  /\ Kinds = {"ICLA", "CCLA", "signature", "corporate", "roster", "waiver"}
  /\ DOMAIN Tables = 1..5 /\ Len(Tables) = 5
  /\ Tables[1] = Docs /\ Tables[2] = {"signature"} /\ Tables[3] = {"corporate"}
  /\ Tables[4] = {"roster"} /\ Tables[5] = {"waiver"}
<1>1. /\ DOMAIN Tables = 1..5 /\ Len(Tables) = 5
      /\ Tables[1] = Docs /\ Tables[2] = {"signature"} /\ Tables[3] = {"corporate"}
      /\ Tables[4] = {"roster"} /\ Tables[5] = {"waiver"}
  BY DEF Tables
<1>2. Kinds = Docs \cup {"signature"} \cup {"corporate"} \cup {"roster"} \cup {"waiver"}
  <2>1. 1..5 = {1, 2, 3, 4, 5}
    OBVIOUS
  <2> QED BY <1>1, <2>1 DEF Kinds
<1> QED BY <1>1, <1>2 DEF Docs

LEMMA MapIs ==
  ASSUME NEW r \in Maps
  PROVE  DOMAIN r \in SUBSET Ids /\ IsFiniteSet(DOMAIN r) /\ r \in [DOMAIN r -> Records]
         /\ \A id \in DOMAIN r : r[id] \in Records
<1>1. PICK D \in SUBSET Ids : IsFiniteSet(D) /\ r \in [D -> Records]
  BY DEF Maps
<1>2. DOMAIN r = D
  BY <1>1
<1> QED BY <1>1, <1>2

LEMMA MapFrom ==
  ASSUME NEW D \in SUBSET Ids, IsFiniteSet(D), NEW r \in [D -> Records]
  PROVE  r \in Maps
  BY DEF Maps

LEMMA NoRowsMap == NoRows \in Maps /\ DOMAIN NoRows = {}
<1>1. NoRows \in [{} -> Records] /\ DOMAIN NoRows = {}
  BY DEF NoRows
<1>2. IsFiniteSet({})
  BY FS_EmptySet
<1> QED BY <1>1, <1>2, MapFrom

LEMMA OnlyMap ==
  ASSUME NEW id \in Ids, NEW put \in Records
  PROVE  /\ Only(id, put) \in Maps /\ DOMAIN Only(id, put) = {id} /\ Only(id, put)[id] = put
<1>1. Only(id, put) \in [{id} -> Records] /\ DOMAIN Only(id, put) = {id} /\ Only(id, put)[id] = put
  BY DEF Only
<1>2. IsFiniteSet({id})
  BY FS_Singleton
<1> QED BY <1>1, <1>2, MapFrom

LEMMA FlagsMap ==
  ASSUME NEW ids \in SUBSET Ids, IsFiniteSet(ids), NEW st \in Standing
  PROVE  /\ Flags(ids, st) \in Maps /\ DOMAIN Flags(ids, st) = ids
         /\ \A id \in ids : Flags(ids, st)[id].on = None
<1>1. Row(st, None) \in Records /\ Row(st, None).on = None
  BY DEF Row, Records
<1>2. Flags(ids, st) \in [ids -> Records] /\ DOMAIN Flags(ids, st) = ids
      /\ \A id \in ids : Flags(ids, st)[id] = Row(st, None)
  BY <1>1 DEF Flags
<1> QED BY <1>1, <1>2, MapFrom

LEMMA OverIs ==
  ASSUME NEW r, NEW s
  PROVE  /\ DOMAIN Over(r, s) = DOMAIN r \cup DOMAIN s
         /\ \A id \in DOMAIN s : Over(r, s)[id] = s[id]
         /\ \A id \in DOMAIN r \ DOMAIN s : Over(r, s)[id] = r[id]
  BY DEF Over

LEMMA OverMap ==
  ASSUME NEW r \in Maps, NEW s \in Maps
  PROVE  Over(r, s) \in Maps
<1>1. Over(r, s) \in [DOMAIN r \cup DOMAIN s -> Records]
  BY MapIs DEF Over
<1>2. DOMAIN r \cup DOMAIN s \in SUBSET Ids /\ IsFiniteSet(DOMAIN r \cup DOMAIN s)
  BY MapIs, FS_Union
<1> QED BY <1>1, <1>2, MapFrom

LEMMA PickedMap ==
  ASSUME rows \in Maps, NEW ids \in SUBSET DOMAIN rows
  PROVE  Picked(ids) \in Maps /\ DOMAIN Picked(ids) = ids /\ \A id \in ids : Picked(ids)[id] = rows[id]
<1>1. Picked(ids) \in [ids -> Records] /\ DOMAIN Picked(ids) = ids /\ \A id \in ids : Picked(ids)[id] = rows[id]
  BY MapIs DEF Picked
<1>2. ids \in SUBSET Ids /\ IsFiniteSet(ids)
  BY MapIs, FS_Subset
<1> QED BY <1>1, <1>2, MapFrom

(* A number no row of a kind has. *)
LEMMA NumberLeft ==
  ASSUME NEW T, IsFiniteSet(T), NEW kind
  PROVE  \E n \in 1..(Cardinality(T) + 1) : <<kind, n>> \notin T
<1>1. Cardinality(T) \in Nat
  BY FS_CardinalityType
<1> DEFINE N == 1..(Cardinality(T) + 1)
           f == [n \in N |-> <<kind, n>>]
<1>2. IsFiniteSet(N) /\ Cardinality(N) = Cardinality(T) + 1
  <2>1. 1 \in Int /\ Cardinality(T) + 1 \in Int
    BY <1>1
  <2>2. IsFiniteSet(N) /\ Cardinality(N) = (IF 1 > Cardinality(T) + 1 THEN 0 ELSE (Cardinality(T) + 1) - 1 + 1)
    BY <2>1, FS_Interval
  <2> QED BY <1>1, <2>2
<1>3. SUFFICES ASSUME \A n \in N : <<kind, n>> \in T PROVE FALSE
  OBVIOUS
<1>4. f \in [N -> T]
  BY <1>3
<1>5. Cardinality(T) < Cardinality(N)
  BY <1>1, <1>2
<1>6. \E x, y \in N : x # y /\ f[x] = f[y]
  <2> HIDE DEF f, N
  <2> QED BY <1>2, <1>4, <1>5, FS_PigeonHole
<1> QED BY <1>6

-----------------------------------------------------------------------------
(* What a row rests on is among the rows it is put with or those known; a roster *)
(* always rests on something.                                                     *)
RestsIn(r, known) ==
  \A id \in DOMAIN r : /\ r[id].on \in {None} \cup DOMAIN r \cup known
                       /\ id[1] = "roster" => r[id].on # None

(* A row an entry changes is one it links to, or a text whose flag it sets. *)
TellsOf(e, id) ==
  id \in e.links \/ e.kind = "doc.published" \/ (e.kind = "doc.resign_set" /\ id[1] \in Docs)

EntryInv(e, known) ==
  /\ RestsIn(e.puts, known)
  /\ e.links \subseteq DOMAIN e.puts \cup known
  /\ \A id \in DOMAIN e.puts : TellsOf(e, id)

Phases == {"idle", "read", "wrote"}
LedgerTypes ==
  /\ rows \in Maps /\ ledger \in Seq(Entries)
  /\ tx \in [Writers -> [at : Phases, entry : Entries]]

(* The rows r that a ledger tells of: each was put there by an entry, and rests on  *)
(* one of them.                                                                      *)
LedgerOf(r, log) ==
  /\ log \in Seq(Entries) /\ r \in Maps /\ RestsIn(r, {})
  /\ \A n \in 1..Len(log) : EntryInv(log[n], DOMAIN r) /\ DOMAIN log[n].puts \subseteq DOMAIN r
  /\ \A id \in DOMAIN r : \E n \in 1..Len(log) : id \in DOMAIN log[n].puts
  /\ r = RowsAfter(log)

(* The rows there are, and the entries about to be appended. *)
RowsInv ==
  /\ LedgerTypes /\ LedgerOf(rows, ledger)
  /\ \A w \in Writers : EntryInv(tx[w].entry, DOMAIN rows)

-----------------------------------------------------------------------------
LEMMA GenesisGood ==
  Genesis \in Entries /\ DOMAIN Genesis.puts = {} /\ Genesis.links = {} /\ Genesis.puts = NoRows
  BY NoRowsMap DEF Genesis, Entry, Entries, Events

LEMMA EntryMade ==
  ASSUME NEW kind \in Events, NEW links \in SUBSET Ids, NEW puts \in Maps
  PROVE  /\ Entry(kind, links, puts) \in Entries
         /\ Entry(kind, links, puts).kind = kind /\ Entry(kind, links, puts).links = links
         /\ Entry(kind, links, puts).puts = puts
  BY DEF Entry, Entries

LEMMA IdIs ==
  ASSUME NEW id \in Ids
  PROVE  id[1] \in Kinds /\ id[2] \in Nat \ {0} /\ id = <<id[1], id[2]>> /\ id # None
<1>1. id[1] \in Kinds /\ id[2] \in Nat \ {0} /\ id = <<id[1], id[2]>>
  BY DEF Ids
<1> QED BY <1>1 DEF None

(* A number for a new row: one that no row has and none about to be written. *)
LEMMA FreshId ==
  ASSUME LedgerTypes, NEW kind \in Kinds
  PROVE  Fresh(kind) \in Ids /\ Fresh(kind)[1] = kind
<1> DEFINE T == DOMAIN rows \cup Pending
           C == {<<kind, n>> : n \in 1..(Cardinality(T) + 1)}
<1>1. IsFiniteSet(Pending)
  <2> DEFINE P == {DOMAIN tx[w].entry.puts : w \in Writers}
             f == [w \in Writers |-> DOMAIN tx[w].entry.puts]
  <2>1. f \in Surjection(Writers, P)
    BY DEF Surjection
  <2>2. IsFiniteSet(Writers)
    BY ClaLedgerAssumption
  <2>3. IsFiniteSet(P)
    <3> HIDE DEF f, P
    <3> QED BY <2>1, <2>2, FS_Surjection
  <2>4. \A w \in Writers : tx[w].entry.puts \in Maps
    BY DEF LedgerTypes, Entries
  <2>5. \A X \in P : IsFiniteSet(X)
    BY <2>4, MapIs
  <2>6. IsFiniteSet(UNION P)
    <3> HIDE DEF P
    <3> QED BY <2>3, <2>5, FS_UNION
  <2> QED BY <2>6 DEF Pending
<1>2. IsFiniteSet(T)
  BY <1>1, MapIs, FS_Union DEF LedgerTypes
<1>3. \E n \in 1..(Cardinality(T) + 1) : <<kind, n>> \notin T
  BY <1>2, NumberLeft
<1>4. \E id \in C : id \notin T
  BY <1>3
<1>5. Fresh(kind) \in C
  BY <1>4 DEF Fresh
<1>6. Cardinality(T) \in Nat
  BY <1>2, FS_CardinalityType
<1> HIDE DEF T
<1>7. PICK n \in 1..(Cardinality(T) + 1) : Fresh(kind) = <<kind, n>>
  BY <1>5
<1> QED BY <1>6, <1>7 DEF Ids

LEMMA NextId ==
  ASSUME LedgerTypes, NEW doc \in Docs
  PROVE  NextVersion(doc) \in Ids /\ NextVersion(doc)[1] = doc
<1> DEFINE N == {id \in DOMAIN rows : id[1] = doc}
<1>1. IsFiniteSet(N)
  BY MapIs, FS_Subset DEF LedgerTypes
<1>2. Cardinality(N) \in Nat
  BY <1>1, FS_CardinalityType
<1>3. NextVersion(doc) = <<doc, Cardinality(N) + 1>>
  BY DEF NextVersion, Latest
<1> HIDE DEF N
<1> QED BY <1>2, <1>3, KindsAre DEF Ids, Docs

-----------------------------------------------------------------------------
(* Every write intends an entry that is in order. *)
Good(e) == e \in Entries /\ EntryInv(e, DOMAIN rows)
BeginsGood(w) == \E e : Good(e) /\ Begins(w, e)

(* One of a row that stands: its links, and the row with another standing. *)
LEMMA StatusGood ==
  ASSUME RowsInv, NEW id \in DOMAIN rows, NEW st \in Standing, NEW kind \in Events,
         NEW links \in SUBSET DOMAIN rows, id \in links
  PROVE  Good(Entry(kind, links, Status(id, st)))
<1> DEFINE put == [rows[id] EXCEPT !.st = st]
           p == Status(id, st)
           e == Entry(kind, links, p)
<1>1. id \in Ids /\ rows[id] \in Records /\ DOMAIN rows \in SUBSET Ids
  BY MapIs DEF RowsInv, LedgerTypes
<1>2. put \in Records /\ put.on = rows[id].on
  BY <1>1 DEF Records
<1>3. p \in Maps /\ DOMAIN p = {id} /\ p[id] = put
  BY <1>1, <1>2, OnlyMap DEF Status
<1>4. e \in Entries /\ e.links = links /\ e.puts = p
  BY <1>1, <1>3, EntryMade
<1> HIDE DEF p, e, put
<1>5. RestsIn(p, DOMAIN rows)
  BY <1>2, <1>3 DEF RestsIn, RowsInv, LedgerOf
<1>6. EntryInv(e, DOMAIN rows)
  BY <1>3, <1>4, <1>5 DEF EntryInv, TellsOf
<1> QED BY <1>4, <1>6 DEF Good, e, p

(* One of a row that is new. *)
LEMMA NewGood ==
  ASSUME RowsInv, NEW id \in Ids, NEW st \in Standing, NEW on \in {None} \cup DOMAIN rows,
         id[1] = "roster" => on # None,
         NEW kind \in Events, NEW links \in SUBSET ({id} \cup DOMAIN rows), id \in links
  PROVE  Good(Entry(kind, links, Only(id, Row(st, on))))
<1> DEFINE put == Row(st, on)
           p == Only(id, put)
           e == Entry(kind, links, p)
<1>1. DOMAIN rows \in SUBSET Ids
  BY MapIs DEF RowsInv, LedgerTypes
<1>2. put \in Records /\ put.on = on
  BY <1>1 DEF Records, Row
<1> HIDE DEF put
<1>3. p \in Maps /\ DOMAIN p = {id} /\ p[id] = put
  BY <1>2, OnlyMap
<1> HIDE DEF p
<1>4. e \in Entries /\ e.links = links /\ e.puts = p
  BY <1>1, <1>3, EntryMade
<1> HIDE DEF e
<1>5. RestsIn(p, DOMAIN rows)
  BY <1>2, <1>3 DEF RestsIn
<1>6. EntryInv(e, DOMAIN rows)
  BY <1>3, <1>4, <1>5 DEF EntryInv, TellsOf
<1> QED BY <1>4, <1>6 DEF Good, e, p, put

LEMMA HavingIs ==
  ASSUME NEW kind, NEW st, NEW id \in Having(rows, kind, st)
  PROVE  id \in DOMAIN rows /\ id[1] = kind /\ rows[id].st = st
  BY DEF Having

LEMMA PublishGood == ASSUME RowsInv, NEW w \in Writers, publishClaVersion(w) PROVE BeginsGood(w)
<1>1. PICK doc \in Docs :
        \E stale \in {{}, Having(rows, doc, "valid")} \cup {{v} : v \in Having(rows, doc, "valid")} :
          Begins(w, Entry("doc.published", {NextVersion(doc)},
                          Over(Flags(stale, "stale"), Only(NextVersion(doc), Row("valid", None)))))
  BY DEF publishClaVersion
<1>2. PICK stale \in {{}, Having(rows, doc, "valid")} \cup {{v} : v \in Having(rows, doc, "valid")} :
        Begins(w, Entry("doc.published", {NextVersion(doc)},
                        Over(Flags(stale, "stale"), Only(NextVersion(doc), Row("valid", None)))))
  BY <1>1
<1> DEFINE id == NextVersion(doc)
           put == Row("valid", None)
           q == Flags(stale, "stale")
           o == Only(id, put)
           p == Over(q, o)
           e == Entry("doc.published", {id}, p)
<1>3. id \in Ids /\ id[1] = doc /\ id[1] # "roster"
  BY NextId DEF RowsInv, Docs
<1>4. put \in Records /\ put.on = None
  BY DEF Records, Row, Standing
<1>5. stale \subseteq DOMAIN rows /\ \A v \in stale : v[1] = doc
  BY <1>2 DEF Having
<1> HIDE DEF id, put
<1>6. stale \in SUBSET Ids /\ IsFiniteSet(stale)
  BY <1>5, MapIs, FS_Subset DEF RowsInv, LedgerTypes
<1>7. q \in Maps /\ DOMAIN q = stale /\ \A v \in stale : q[v].on = None
  BY <1>6, FlagsMap DEF Standing
<1>8. o \in Maps /\ DOMAIN o = {id} /\ o[id] = put
  BY <1>3, <1>4, OnlyMap
<1> HIDE DEF q, o
<1>9. /\ p \in Maps /\ DOMAIN p = stale \cup {id}
      /\ \A v \in DOMAIN p : p[v].on = None /\ v[1] # "roster"
  <2>1. p \in Maps
    BY <1>7, <1>8, OverMap
  <2>2. DOMAIN p = DOMAIN q \cup DOMAIN o /\ (\A i \in DOMAIN o : p[i] = o[i])
        /\ (\A i \in DOMAIN q \ DOMAIN o : p[i] = q[i])
    BY OverIs
  <2> HIDE DEF p
  <2> QED BY <1>3, <1>4, <1>5, <1>7, <1>8, <2>1, <2>2 DEF Docs
<1> HIDE DEF p
<1>10. e \in Entries /\ e.kind = "doc.published" /\ e.links = {id} /\ e.puts = p
  BY <1>3, <1>9, EntryMade DEF Events
<1> HIDE DEF e
<1>11. RestsIn(p, DOMAIN rows)
  BY <1>9 DEF RestsIn
<1>12. EntryInv(e, DOMAIN rows)
  BY <1>9, <1>10, <1>11 DEF EntryInv, TellsOf
<1>13. Begins(w, e)
  BY <1>2 DEF e, p, q, o, put, id
<1> QED BY <1>10, <1>12, <1>13 DEF BeginsGood, Good

LEMMA ResignGood == ASSUME RowsInv, NEW w \in Writers, setVersionResign(w) PROVE BeginsGood(w)
<1>1. PICK doc \in Docs : \E v \in {id \in DOMAIN rows : id[1] = doc} :
        Begins(w, Entry("doc.resign_set", {}, Flags({v}, IF rows[v].st = "valid" THEN "stale" ELSE "valid")))
  BY DEF setVersionResign
<1>2. PICK v \in DOMAIN rows : v[1] = doc /\
        Begins(w, Entry("doc.resign_set", {}, Flags({v}, IF rows[v].st = "valid" THEN "stale" ELSE "valid")))
  BY <1>1
<1> DEFINE st == IF rows[v].st = "valid" THEN "stale" ELSE "valid"
           p == Flags({v}, st)
           e == Entry("doc.resign_set", {}, p)
<1>3. {v} \in SUBSET Ids /\ IsFiniteSet({v}) /\ st \in Standing
  BY MapIs, FS_Singleton DEF RowsInv, LedgerTypes, Standing
<1> HIDE DEF st
<1>4. p \in Maps /\ DOMAIN p = {v} /\ p[v].on = None
  BY <1>3, FlagsMap
<1> HIDE DEF p
<1>5. e \in Entries /\ e.kind = "doc.resign_set" /\ e.links = {} /\ e.puts = p
  BY <1>4, EntryMade DEF Events
<1> HIDE DEF e
<1>6. RestsIn(p, DOMAIN rows)
  BY <1>2, <1>4 DEF RestsIn, Docs
<1>7. EntryInv(e, DOMAIN rows)
  BY <1>2, <1>4, <1>5, <1>6 DEF EntryInv, TellsOf
<1>8. Begins(w, e)
  BY <1>2 DEF e, p, st
<1> QED BY <1>5, <1>7, <1>8 DEF BeginsGood, Good

LEMMA IclaGood == ASSUME RowsInv, NEW w \in Writers, recordIclaSignature(w) PROVE BeginsGood(w)
<1> DEFINE id == Fresh("signature")
           doc == Latest(rows, "ICLA")
<1>1. doc \in DOMAIN rows /\ Begins(w, Entry("icla.signed", {id, doc}, Only(id, Row("ACTIVE", doc))))
  BY DEF recordIclaSignature
<1>2. id \in Ids /\ id[1] = "signature"
  BY FreshId, KindsAre DEF RowsInv
<1> HIDE DEF id, doc
<1>3. Good(Entry("icla.signed", {id, doc}, Only(id, Row("ACTIVE", doc))))
  BY <1>1, <1>2, NewGood DEF Standing, Events
<1> QED BY <1>1, <1>3 DEF BeginsGood

LEMMA CclaGood == ASSUME RowsInv, NEW w \in Writers, recordCclaSignature(w) PROVE BeginsGood(w)
<1> DEFINE sig == Fresh("signature")
           corp == Fresh("corporate")
           doc == Latest(rows, "CCLA")
<1>1. PICK st \in {"PENDING", "ACTIVE"} :
        Begins(w, Entry("ccla.signed", {sig, doc, corp},
                        Over(Only(sig, Row("ACTIVE", doc)), Only(corp, Row(st, sig)))))
  BY DEF recordCclaSignature
<1>2. doc \in DOMAIN rows /\ DOMAIN rows \in SUBSET Ids
  BY MapIs DEF recordCclaSignature, RowsInv, LedgerTypes
<1>3. sig \in Ids /\ sig[1] = "signature" /\ corp \in Ids /\ corp[1] = "corporate"
  BY FreshId, KindsAre DEF RowsInv
<1> HIDE DEF sig, corp, doc
<1> DEFINE q == Only(sig, Row("ACTIVE", doc))
           o == Only(corp, Row(st, sig))
           p == Over(q, o)
           e == Entry("ccla.signed", {sig, doc, corp}, p)
<1>4. /\ Row("ACTIVE", doc) \in Records /\ Row("ACTIVE", doc).on = doc
      /\ Row(st, sig) \in Records /\ Row(st, sig).on = sig
  BY <1>2, <1>3 DEF Records, Row, Standing
<1>5. /\ q \in Maps /\ DOMAIN q = {sig} /\ q[sig].on = doc
      /\ o \in Maps /\ DOMAIN o = {corp} /\ o[corp].on = sig
  BY <1>3, <1>4, OnlyMap
<1> HIDE DEF q, o
<1>6. p \in Maps /\ DOMAIN p = {sig, corp} /\ p[sig].on = doc /\ p[corp].on = sig
  <2>1. p \in Maps
    BY <1>5, OverMap
  <2>2. DOMAIN p = DOMAIN q \cup DOMAIN o /\ (\A i \in DOMAIN o : p[i] = o[i])
        /\ (\A i \in DOMAIN q \ DOMAIN o : p[i] = q[i])
    BY OverIs
  <2>3. sig # corp
    BY <1>3
  <2> HIDE DEF p
  <2> QED BY <1>5, <2>1, <2>2, <2>3
<1> HIDE DEF p
<1>7. e \in Entries /\ e.links = {sig, doc, corp} /\ e.puts = p
  BY <1>2, <1>3, <1>6, EntryMade DEF Events
<1> HIDE DEF e
<1>8. RestsIn(p, DOMAIN rows)
  BY <1>2, <1>3, <1>6 DEF RestsIn
<1>9. EntryInv(e, DOMAIN rows)
  BY <1>2, <1>6, <1>7, <1>8 DEF EntryInv, TellsOf
<1>10. Begins(w, e)
  BY <1>1 DEF e, p, q, o
<1> QED BY <1>7, <1>9, <1>10 DEF BeginsGood, Good

LEMMA DecidesGood ==
  ASSUME RowsInv, NEW w \in Writers, NEW kind \in Events, NEW from, NEW to \in Standing, Decides(w, kind, from, to)
  PROVE  BeginsGood(w)
<1>1. PICK c \in Having(rows, "corporate", from) : Begins(w, Entry(kind, {c}, Status(c, to)))
  BY DEF Decides
<1>2. c \in DOMAIN rows
  BY HavingIs
<1>3. Good(Entry(kind, {c}, Status(c, to)))
  BY <1>2, StatusGood
<1> QED BY <1>1, <1>3 DEF BeginsGood

LEMMA MemberGood ==
  ASSUME RowsInv, NEW w \in Writers, NEW kind \in Events, NEW from, NEW to \in Standing,
         ChangesMember(w, kind, from, to)
  PROVE  BeginsGood(w)
<1>1. PICK m \in UNION {Having(rows, "roster", st) : st \in from} :
        Begins(w, Entry(kind, {m, rows[m].on}, Status(m, to)))
  BY DEF ChangesMember
<1>2. m \in DOMAIN rows /\ m[1] = "roster"
  BY <1>1, HavingIs
<1>3. rows[m].on \in DOMAIN rows
  BY <1>2 DEF RowsInv, RestsIn, LedgerOf
<1>4. Good(Entry(kind, {m, rows[m].on}, Status(m, to)))
  BY <1>2, <1>3, StatusGood
<1> QED BY <1>1, <1>4 DEF BeginsGood

LEMMA RosterGood == ASSUME RowsInv, NEW w \in Writers, addRosterMembers(w) PROVE BeginsGood(w)
<1> DEFINE id == Fresh("roster")
<1>1. PICK c \in Having(rows, "corporate", "PENDING") \cup Having(rows, "corporate", "ACTIVE") :
        Begins(w, Entry("roster.added", {id, c}, Only(id, Row("ACTIVE", c))))
  BY DEF addRosterMembers
<1>2. c \in DOMAIN rows /\ c # None
  BY HavingIs, MapIs, IdIs DEF RowsInv, LedgerTypes
<1>3. id \in Ids
  BY FreshId, KindsAre DEF RowsInv
<1> HIDE DEF id
<1>4. Good(Entry("roster.added", {id, c}, Only(id, Row("ACTIVE", c))))
  BY <1>2, <1>3, NewGood DEF Standing, Events
<1> QED BY <1>1, <1>4 DEF BeginsGood

LEMMA SignatureGood ==
  ASSUME RowsInv, NEW w \in Writers, revokeSignature(w) \/ revokeWaiver(w) PROVE BeginsGood(w)
<1>1. PICK id \in DOMAIN rows, kind \in {"signature.revoked", "waiver.revoked"} :
        Begins(w, Entry(kind, {id}, Status(id, "REVOKED")))
  BY HavingIs DEF revokeSignature, revokeWaiver
<1>2. Good(Entry(kind, {id}, Status(id, "REVOKED")))
  BY <1>1, StatusGood DEF Standing, Events
<1> QED BY <1>1, <1>2 DEF BeginsGood

LEMMA WaiverGood == ASSUME RowsInv, NEW w \in Writers, grantWaiver(w) PROVE BeginsGood(w)
<1> DEFINE id == Fresh("waiver")
<1>1. Begins(w, Entry("waiver.granted", {id}, Only(id, Row("ACTIVE", None))))
  BY DEF grantWaiver
<1>2. id \in Ids /\ id[1] = "waiver"
  BY FreshId, KindsAre DEF RowsInv
<1> HIDE DEF id
<1>3. Good(Entry("waiver.granted", {id}, Only(id, Row("ACTIVE", None))))
  BY <1>2, NewGood DEF Standing, Events
<1> QED BY <1>1, <1>3 DEF BeginsGood

LEMMA BeginGood == ASSUME RowsInv, NEW w \in Writers, Begin(w) PROVE BeginsGood(w)
<1>1. CASE approveCorporateCla(w) \/ rejectCorporateCla(w) \/ revokeCorporateCla(w)
  BY <1>1, DecidesGood
     DEF approveCorporateCla, rejectCorporateCla, revokeCorporateCla, Events, Standing
<1>2. CASE revokeRosterMember(w) \/ disputeRosterMembership(w)
  BY <1>2, MemberGood DEF revokeRosterMember, disputeRosterMembership, Events, Standing
<1> QED BY <1>1, <1>2, PublishGood, ResignGood, IclaGood, CclaGood, RosterGood, SignatureGood, WaiverGood
        DEF Begin

-----------------------------------------------------------------------------
LEMMA RestsMore ==
  ASSUME NEW r, NEW known, NEW more, known \subseteq more, RestsIn(r, known)
  PROVE  RestsIn(r, more)
  BY DEF RestsIn

LEMMA EntryMore ==
  ASSUME NEW e, NEW known, NEW more, known \subseteq more, EntryInv(e, known)
  PROVE  EntryInv(e, more)
  BY RestsMore DEF EntryInv

(* An entry in order, appended, with its rows put in their place. *)
LEMMA Extended ==
  ASSUME NEW r, NEW log, LedgerOf(r, log), NEW e \in Entries, EntryInv(e, DOMAIN r)
  PROVE  LedgerOf(Over(r, e.puts), Append(log, e))
<1> DEFINE q == Over(r, e.puts)
           more == Append(log, e)
<1>1. e.puts \in Maps /\ r \in Maps /\ log \in Seq(Entries)
  BY DEF Entries, LedgerOf
<1>2. q \in Maps
  BY <1>1, OverMap
<1>3. DOMAIN q = DOMAIN r \cup DOMAIN e.puts /\ (\A id \in DOMAIN e.puts : q[id] = e.puts[id])
      /\ (\A id \in DOMAIN r \ DOMAIN e.puts : q[id] = r[id])
  BY DEF Over
<1>4. /\ more \in Seq(Entries) /\ Len(log) \in Nat /\ Len(more) = Len(log) + 1 /\ more[Len(log) + 1] = e
      /\ \A n \in 1..Len(log) : n \in 1..Len(more) /\ more[n] = log[n]
      /\ \A n \in 1..Len(more) : n = Len(log) + 1 \/ n \in 1..Len(log)
  BY <1>1
<1>5. q = RowsAfter(more)
  BY <1>1, RowsAfterAppend DEF LedgerOf
<1> HIDE DEF q, more
<1>6. RestsIn(q, {})
  <2> SUFFICES ASSUME NEW id \in DOMAIN q
               PROVE  q[id].on \in {None} \cup DOMAIN q /\ (id[1] = "roster" => q[id].on # None)
    BY DEF RestsIn
  <2>1. CASE id \in DOMAIN e.puts
    BY <1>3, <2>1 DEF EntryInv, RestsIn
  <2>2. CASE id \notin DOMAIN e.puts
    BY <1>3, <2>2 DEF LedgerOf, RestsIn
  <2> QED BY <2>1, <2>2
<1>7. ASSUME NEW n \in 1..Len(more)
      PROVE  EntryInv(more[n], DOMAIN q) /\ DOMAIN more[n].puts \subseteq DOMAIN q
  <2>1. EntryInv(more[n], DOMAIN r) /\ DOMAIN more[n].puts \subseteq DOMAIN q
    BY <1>3, <1>4 DEF LedgerOf
  <2> QED BY <1>3, <2>1, EntryMore
<1>8. ASSUME NEW id \in DOMAIN q
      PROVE  \E n \in 1..Len(more) : id \in DOMAIN more[n].puts
  <2>1. CASE id \in DOMAIN r
    <3>1. PICK n \in 1..Len(log) : id \in DOMAIN log[n].puts
      BY <2>1 DEF LedgerOf
    <3> QED BY <1>4, <3>1
  <2>2. CASE id \in DOMAIN e.puts
    <3>1. Len(log) + 1 \in 1..Len(more)
      BY <1>4
    <3> QED BY <1>4, <2>2, <3>1
  <2> QED BY <1>3, <2>1, <2>2
<1>9. LedgerOf(q, more)
  BY <1>2, <1>4, <1>5, <1>6, <1>7, <1>8 DEF LedgerOf
<1> QED BY <1>9 DEF q, more

LEMMA NothingTold == LedgerOf(NoRows, <<>>)
  BY NoRowsMap, RowsAfterNothing DEF LedgerOf, RestsIn

LEMMA GenesisTold == LedgerOf(NoRows, <<Genesis>>)
<1>1. EntryInv(Genesis, DOMAIN NoRows)
  BY GenesisGood DEF EntryInv, RestsIn
<1>2. LedgerOf(Over(NoRows, NoRows), Append(<<>>, Genesis))
  BY <1>1, NothingTold, GenesisGood, Extended
<1>3. Append(<<>>, Genesis) = <<Genesis>>
  OBVIOUS
<1>4. Over(NoRows, NoRows) = NoRows
  BY DEF Over, NoRows
<1> QED BY <1>2, <1>3, <1>4

(* A ledger that begins with its genesis, or goes on. *)
LEMMA GrownTold ==
  ASSUME NEW r, NEW log, LedgerOf(r, log), NEW e \in Entries, EntryInv(e, DOMAIN r)
  PROVE  /\ LedgerOf(Over(r, e.puts), Grown(log, e))
         /\ Len(Grown(log, e)) \in Nat /\ Len(Grown(log, e)) > Len(log)
         /\ Grown(log, e)[Len(Grown(log, e))] = e
         /\ \A n \in 1..Len(log) : n \in 1..Len(Grown(log, e)) /\ Grown(log, e)[n] = log[n]
         /\ \A n \in 1..Len(Grown(log, e)) : n > Len(log) => Grown(log, e)[n] \in {Genesis, e}
<1>1. log \in Seq(Entries) /\ Len(log) \in Nat
  BY DEF LedgerOf
<1>2. CASE log # <<>>
  <2>1. Grown(log, e) = Append(log, e)
    BY <1>2 DEF Grown
  <2>2. /\ Len(Append(log, e)) = Len(log) + 1 /\ Append(log, e)[Len(log) + 1] = e
        /\ \A n \in 1..Len(log) : n \in 1..Len(Append(log, e)) /\ Append(log, e)[n] = log[n]
    BY <1>1
  <2>3. LedgerOf(Over(r, e.puts), Append(log, e))
    BY Extended
  <2>4. \A n \in 1..(Len(log) + 1) : n > Len(log) => n = Len(log) + 1
    BY <1>1
  <2> QED BY <1>1, <2>1, <2>2, <2>3, <2>4
<1>3. CASE log = <<>>
  <2>1. Grown(log, e) = Append(<<Genesis>>, e)
    BY <1>3 DEF Grown
  <2>2. r = NoRows
    BY <1>3, RowsAfterNothing DEF LedgerOf
  <2>3. LedgerOf(Over(r, e.puts), Append(<<Genesis>>, e))
    BY <2>2, GenesisTold, Extended
  <2>4. Len(log) = 0 /\ Len(Append(<<Genesis>>, e)) = 2
        /\ Append(<<Genesis>>, e)[1] = Genesis /\ Append(<<Genesis>>, e)[2] = e
    BY <1>3
  <2>5. \A n \in 1..2 : n = 1 \/ n = 2
    OBVIOUS
  <2> QED BY <2>1, <2>3, <2>4, <2>5
<1> QED BY <1>2, <1>3

LEMMA SeedsTold == LedgerOf(RowsAfter(SeedEntries), SeedEntries)
<1> DEFINE e2 == Entry("doc.published", {<<"ICLA", 1>>}, Only(<<"ICLA", 1>>, Row("valid", None)))
           e3 == Entry("doc.published", {<<"CCLA", 1>>}, Only(<<"CCLA", 1>>, Row("valid", None)))
           p4 == Over(Only(<<"signature", 1>>, Row("ACTIVE", <<"CCLA", 1>>)),
                      Only(Corporate1, Row("ACTIVE", <<"signature", 1>>)))
           e4 == Entry("ccla.signed", {<<"signature", 1>>, <<"CCLA", 1>>, Corporate1}, p4)
           e5 == Entry("roster.added", {<<"roster", 1>>, Corporate1},
                       Only(<<"roster", 1>>, Row("ACTIVE", Corporate1)))
<1>1. /\ <<"ICLA", 1>> \in Ids /\ <<"CCLA", 1>> \in Ids /\ <<"signature", 1>> \in Ids /\ Corporate1 \in Ids
      /\ <<"roster", 1>> \in Ids
  BY KindsAre DEF Ids, Corporate1
<1>2. /\ e2 \in Entries /\ e2.links = {<<"ICLA", 1>>} /\ DOMAIN e2.puts = {<<"ICLA", 1>>}
      /\ e2.puts[<<"ICLA", 1>>].on = None /\ EntryInv(e2, {})
  <2> DEFINE p == Only(<<"ICLA", 1>>, Row("valid", None))
  <2>1. Row("valid", None) \in Records /\ Row("valid", None).on = None
    BY DEF Row, Records, Standing
  <2>2. p \in Maps /\ DOMAIN p = {<<"ICLA", 1>>} /\ p[<<"ICLA", 1>>].on = None
    BY <1>1, <2>1, OnlyMap
  <2> HIDE DEF p
  <2>3. e2 \in Entries /\ e2.links = {<<"ICLA", 1>>} /\ e2.puts = p
    BY <1>1, <2>2, EntryMade DEF Events, p
  <2> HIDE DEF e2
  <2>4. EntryInv(e2, {})
    BY <2>2, <2>3 DEF EntryInv, RestsIn, TellsOf
  <2> QED BY <2>2, <2>3, <2>4
<1>3. /\ e3 \in Entries /\ e3.links = {<<"CCLA", 1>>} /\ DOMAIN e3.puts = {<<"CCLA", 1>>}
      /\ e3.puts[<<"CCLA", 1>>].on = None /\ EntryInv(e3, {})
  <2> DEFINE p == Only(<<"CCLA", 1>>, Row("valid", None))
  <2>1. Row("valid", None) \in Records /\ Row("valid", None).on = None
    BY DEF Row, Records, Standing
  <2>2. p \in Maps /\ DOMAIN p = {<<"CCLA", 1>>} /\ p[<<"CCLA", 1>>].on = None
    BY <1>1, <2>1, OnlyMap
  <2> HIDE DEF p
  <2>3. e3 \in Entries /\ e3.links = {<<"CCLA", 1>>} /\ e3.puts = p
    BY <1>1, <2>2, EntryMade DEF Events, p
  <2> HIDE DEF e3
  <2>4. EntryInv(e3, {})
    BY <2>2, <2>3 DEF EntryInv, RestsIn, TellsOf
  <2> QED BY <2>2, <2>3, <2>4
<1>4. /\ e4 \in Entries /\ DOMAIN e4.puts = {<<"signature", 1>>, Corporate1}
      /\ EntryInv(e4, {<<"ICLA", 1>>, <<"CCLA", 1>>})
  <2> DEFINE q == Only(<<"signature", 1>>, Row("ACTIVE", <<"CCLA", 1>>))
             o == Only(Corporate1, Row("ACTIVE", <<"signature", 1>>))
  <2>1. /\ Row("ACTIVE", <<"CCLA", 1>>) \in Records /\ Row("ACTIVE", <<"CCLA", 1>>).on = <<"CCLA", 1>>
        /\ Row("ACTIVE", <<"signature", 1>>) \in Records
        /\ Row("ACTIVE", <<"signature", 1>>).on = <<"signature", 1>>
    BY <1>1 DEF Row, Records, Standing
  <2>2. /\ q \in Maps /\ DOMAIN q = {<<"signature", 1>>} /\ q[<<"signature", 1>>].on = <<"CCLA", 1>>
        /\ o \in Maps /\ DOMAIN o = {Corporate1} /\ o[Corporate1].on = <<"signature", 1>>
    BY <1>1, <2>1, OnlyMap
  <2> HIDE DEF q, o
  <2>3. Over(q, o) \in Maps
    BY <2>2, OverMap
  <2>4. DOMAIN Over(q, o) = DOMAIN q \cup DOMAIN o /\ (\A i \in DOMAIN o : Over(q, o)[i] = o[i])
        /\ (\A i \in DOMAIN q \ DOMAIN o : Over(q, o)[i] = q[i])
    BY OverIs
  <2>5. p4 = Over(q, o)
    BY DEF q, o
  <2> HIDE DEF p4
  <2>6. e4 \in Entries /\ e4.links = {<<"signature", 1>>, <<"CCLA", 1>>, Corporate1} /\ e4.puts = p4
    BY <1>1, <2>3, <2>5, EntryMade DEF Events
  <2> HIDE DEF e4
  <2>7. <<"signature", 1>> # Corporate1 /\ <<"signature", 1>>[1] # "roster" /\ Corporate1[1] # "roster"
        /\ <<"CCLA", 1>> # None /\ <<"signature", 1>> # None
    BY DEF Corporate1, None
  <2>8. DOMAIN p4 = {<<"signature", 1>>, Corporate1} /\ p4[<<"signature", 1>>].on = <<"CCLA", 1>>
        /\ p4[Corporate1].on = <<"signature", 1>>
    BY <2>2, <2>4, <2>5, <2>7
  <2>9. RestsIn(p4, {<<"ICLA", 1>>, <<"CCLA", 1>>})
    BY <2>7, <2>8 DEF RestsIn
  <2>10. EntryInv(e4, {<<"ICLA", 1>>, <<"CCLA", 1>>})
    BY <2>6, <2>8, <2>9 DEF EntryInv, TellsOf
  <2> QED BY <2>6, <2>8, <2>10
<1>5. e5 \in Entries /\ \A known : Corporate1 \in known => EntryInv(e5, known)
  <2> DEFINE p == Only(<<"roster", 1>>, Row("ACTIVE", Corporate1))
  <2>1. Row("ACTIVE", Corporate1) \in Records /\ Row("ACTIVE", Corporate1).on = Corporate1
    BY <1>1 DEF Row, Records, Standing
  <2>2. p \in Maps /\ DOMAIN p = {<<"roster", 1>>} /\ p[<<"roster", 1>>].on = Corporate1
    BY <1>1, <2>1, OnlyMap
  <2> HIDE DEF p
  <2>3. e5 \in Entries /\ e5.links = {<<"roster", 1>>, Corporate1} /\ e5.puts = p
    BY <1>1, <2>2, EntryMade DEF Events, p
  <2> HIDE DEF e5
  <2>4. Corporate1 # None
    BY DEF Corporate1, None
  <2>5. ASSUME NEW known, Corporate1 \in known PROVE EntryInv(e5, known)
    BY <2>2, <2>3, <2>4, <2>5 DEF EntryInv, RestsIn, TellsOf
  <2> QED BY <2>3, <2>5
<1> DEFINE s1 == <<Genesis>>
           s2 == <<Genesis, e2>>
           s3 == <<Genesis, e2, e3>>
           s4 == <<Genesis, e2, e3, e4>>
<1>6. SeedEntries = <<Genesis, e2, e3, e4, e5>>
  BY DEF SeedEntries
<1> HIDE DEF e2, e3, e4, e5, p4
<1>7. s2 = Append(s1, e2) /\ s3 = Append(s2, e3) /\ s4 = Append(s3, e4) /\ SeedEntries = Append(s4, e5)
  BY <1>6
<1> HIDE DEF s1, s2, s3, s4
<1>8. LedgerOf(NoRows, s1)
  BY GenesisTold DEF s1
<1> DEFINE r2 == Over(NoRows, e2.puts)
           r3 == Over(r2, e3.puts)
           r4 == Over(r3, e4.puts)
           r5 == Over(r4, e5.puts)
<1>9. DOMAIN r2 = {<<"ICLA", 1>>}
  BY <1>2, NoRowsMap DEF Over
<1>10. LedgerOf(r2, s2)
  BY <1>2, <1>7, <1>8, Extended, NoRowsMap
<1> HIDE DEF r2
<1>11. DOMAIN r3 = {<<"ICLA", 1>>, <<"CCLA", 1>>}
  BY <1>3, <1>9 DEF Over
<1>12. EntryInv(e3, DOMAIN r2)
  BY <1>3, EntryMore
<1>13. LedgerOf(r3, s3)
  BY <1>3, <1>7, <1>10, <1>12, Extended
<1> HIDE DEF r3
<1>14. DOMAIN r4 = DOMAIN r3 \cup {<<"signature", 1>>, Corporate1}
  BY <1>4 DEF Over
<1>15. LedgerOf(r4, s4)
  BY <1>4, <1>7, <1>11, <1>13, Extended
<1> HIDE DEF r4
<1>16. LedgerOf(r5, SeedEntries)
  BY <1>5, <1>7, <1>14, <1>15, Extended
<1>17. r5 = RowsAfter(SeedEntries)
  BY <1>16 DEF LedgerOf
<1> QED BY <1>16, <1>17

-----------------------------------------------------------------------------
LEMMA RowsInit == Init => RowsInv
<1> SUFFICES ASSUME Init PROVE RowsInv
  OBVIOUS
<1>1. LedgerOf(rows, ledger)
  BY NothingTold, RowsAfterNothing, SeedsTold DEF Init
<1>2. Genesis \in Entries /\ EntryInv(Genesis, DOMAIN rows)
  BY GenesisGood DEF EntryInv, RestsIn
<1>3. \A w \in Writers : tx[w].entry = Genesis
  BY DEF Init, NoTx
<1>4. tx \in [Writers -> [at : Phases, entry : Entries]]
  BY <1>2 DEF Init, NoTx, Phases
<1> QED BY <1>1, <1>2, <1>3, <1>4 DEF RowsInv, LedgerTypes, LedgerOf

(* A transaction at rest intends nothing. *)
LEMMA RowsRest ==
  ASSUME RowsInv, NEW w \in Writers, tx' = [tx EXCEPT ![w] = NoTx], UNCHANGED <<rows, ledger>>
  PROVE  RowsInv'
<1>1. NoTx \in [at : Phases, entry : Entries] /\ NoTx.entry = Genesis /\ EntryInv(Genesis, DOMAIN rows)
  BY GenesisGood DEF EntryInv, RestsIn, NoTx, Phases
<1>2. tx' \in [Writers -> [at : Phases, entry : Entries]]
  BY <1>1 DEF RowsInv, LedgerTypes
<1>3. \A v \in Writers : EntryInv(tx'[v].entry, DOMAIN rows)
  BY <1>1 DEF RowsInv, LedgerTypes
<1> QED BY <1>2, <1>3 DEF RowsInv, LedgerTypes

LEMMA RowsBegin == ASSUME RowsInv, NEW w \in Writers, Begin(w) PROVE RowsInv'
<1>1. PICK e : Good(e) /\ tx' = [tx EXCEPT ![w] = [at |-> "read", entry |-> e]]
  BY BeginGood DEF BeginsGood, Begins
<1>2. UNCHANGED <<rows, ledger>>
  BY DEF Begin
<1>3. [at |-> "read", entry |-> e] \in [at : Phases, entry : Entries]
  BY <1>1 DEF Good, Phases
<1>4. tx' \in [Writers -> [at : Phases, entry : Entries]]
  BY <1>1, <1>3 DEF RowsInv, LedgerTypes
<1>5. \A v \in Writers : EntryInv(tx'[v].entry, DOMAIN rows)
  BY <1>1 DEF RowsInv, LedgerTypes, Good
<1> QED BY <1>2, <1>4, <1>5 DEF RowsInv, LedgerTypes

LEMMA RowsWrote == ASSUME RowsInv, NEW w \in Writers, WriteRows(w) PROVE RowsInv'
<1>1. tx' = [tx EXCEPT ![w].at = "wrote"] /\ UNCHANGED <<rows, ledger>>
  BY DEF WriteRows
<1>2. tx' \in [Writers -> [at : Phases, entry : Entries]] /\ \A v \in Writers : tx'[v].entry = tx[v].entry
  BY <1>1 DEF RowsInv, LedgerTypes, Phases
<1> QED BY <1>1, <1>2 DEF RowsInv, LedgerTypes

LEMMA RowsAppended == ASSUME RowsInv, NEW w \in Writers, appendClaEvent(w) PROVE RowsInv'
<1> DEFINE e == tx[w].entry
<1>1. ledger' = Grown(ledger, e) /\ rows' = Over(rows, e.puts) /\ tx' = [tx EXCEPT ![w] = NoTx]
  BY DEF appendClaEvent
<1>2. e \in Entries /\ EntryInv(e, DOMAIN rows)
  BY DEF RowsInv, LedgerTypes
<1>3. LedgerOf(rows', ledger')
  BY <1>1, <1>2, GrownTold DEF RowsInv
<1>4. DOMAIN rows \subseteq DOMAIN rows'
  BY <1>1 DEF Over
<1>5. NoTx \in [at : Phases, entry : Entries] /\ NoTx.entry = Genesis
  BY GenesisGood DEF NoTx, Phases
<1>6. EntryInv(Genesis, DOMAIN rows')
  BY GenesisGood DEF EntryInv, RestsIn
<1>7. tx' \in [Writers -> [at : Phases, entry : Entries]]
  BY <1>1, <1>5 DEF RowsInv, LedgerTypes
<1>8. ASSUME NEW v \in Writers PROVE EntryInv(tx'[v].entry, DOMAIN rows')
  <2>1. CASE v = w
    BY <1>1, <1>5, <1>6, <2>1 DEF RowsInv, LedgerTypes
  <2>2. CASE v # w
    <3>1. tx'[v] = tx[v]
      BY <1>1, <2>2 DEF RowsInv, LedgerTypes
    <3> QED BY <1>4, <3>1, EntryMore DEF RowsInv
  <2> QED BY <2>1, <2>2
<1> QED BY <1>3, <1>7, <1>8 DEF RowsInv, LedgerTypes, LedgerOf

Moves ==
  \/ StartMove \/ ReadTable \/ ReadEvents \/ SendHistory
  \/ HoldProject \/ SendDelta \/ SwitchOver \/ MoveFails

LEMMA MovesReadOnly == Moves => UNCHANGED <<rows, ledger, tx>>
  BY DEF Moves, StartMove, ReadTable, ReadEvents, SendHistory, HoldProject, SendDelta, SwitchOver, MoveFails

LEMMA RowsKept == ASSUME RowsInv, UNCHANGED <<rows, ledger, tx>> PROVE RowsInv'
  BY DEF RowsInv, LedgerTypes

LEMMA RowsStep == RowsInv /\ [Next]_vars => RowsInv'
<1> SUFFICES ASSUME RowsInv, [Next]_vars PROVE RowsInv'
  OBVIOUS
<1>1. ASSUME NEW w \in Writers, Refused(w) \/ RollsBack(w) PROVE RowsInv'
  BY <1>1, RowsRest DEF Refused, RollsBack
<1>2. CASE Moves \/ UNCHANGED vars
  BY <1>2, MovesReadOnly, RowsKept DEF vars
<1> QED BY <1>1, <1>2, RowsBegin, RowsWrote, RowsAppended DEF Next, Moves

(* mutations.ts, in each of its transactions, and integrity.ts: whatever writes     *)
(* overlap, are refused or roll back, the operational rows are what the ledger says *)
(* was done to them.                                                                *)
THEOREM OneAccount == Spec => []RowsFollowTheLedger
<1>1. RowsInv => RowsFollowTheLedger
  BY DEF RowsInv, LedgerOf, RowsFollowTheLedger
<1> QED BY <1>1, RowsInit, RowsStep, PTL DEF Spec

-----------------------------------------------------------------------------
(* What the move has read and Legal has taken; nothing rests on what is missing. *)
Closed(r) == \A id \in DOMAIN r : r[id].on \in {None} \cup DOMAIN r
Stages == {"idle", "reading", "send", "lock", "held", "sent"}

LegalTypes ==
  /\ legal.rows \in Maps /\ Closed(legal.rows)
  /\ move \in [at : Stages, got : Maps, upTo : Nat, readAt : Seq(Nat)]
  /\ move.upTo <= Len(ledger)
  /\ \A i \in 1..Len(move.readAt) : move.readAt[i] <= Len(ledger)
  /\ enrolled \in BOOLEAN /\ writes <= MaxWrites /\ moves <= MaxMoves /\ {writes, moves} \subseteq Nat

LEMMA LegalInit == Init => LegalTypes
<1> SUFFICES ASSUME Init PROVE LegalTypes
  OBVIOUS
<1>1. move = [at |-> "idle", got |-> NoRows, upTo |-> 0, readAt |-> <<>>] /\ legal.rows = NoRows
  BY DEF Init, NoMove
<1>2. move \in [at : Stages, got : Maps, upTo : Nat, readAt : Seq(Nat)]
  BY <1>1, NoRowsMap DEF Stages
<1>3. ledger \in Seq(Entries)
  BY NothingTold, SeedsTold DEF Init, LedgerOf
<1>4. Len(ledger) \in Nat
  BY <1>3
<1>5. Len(move.readAt) = 0 /\ move.upTo = 0
  BY <1>1
<1>6. legal.rows \in Maps /\ Closed(legal.rows)
  BY <1>1, NoRowsMap DEF Closed
<1>7. enrolled \in BOOLEAN /\ writes = 0 /\ moves = 0
  BY DEF Init
<1> QED BY <1>2, <1>4, <1>5, <1>6, <1>7, ClaLedgerAssumption DEF LegalTypes

(* What a move has got of the first tables is a map as well. *)
LEMMA FirstTablesMap == ASSUME NEW got \in Maps, NEW n PROVE FirstTables(got, n) \in Maps
<1> DEFINE D == {i \in DOMAIN got : \E k \in 1..n : i[1] \in Tables[k]}
<1>1. D \subseteq DOMAIN got /\ FirstTables(got, n) = [id \in D |-> got[id]]
  BY DEF FirstTables
<1> HIDE DEF D
<1>2. D \in SUBSET Ids /\ IsFiniteSet(D) /\ [id \in D |-> got[id]] \in [D -> Records]
  BY <1>1, MapIs, FS_Subset
<1> QED BY <1>1, <1>2, MapFrom

(* Legal refuses a row that rests on one it has not. *)
LEMMA TakenTypes ==
  ASSUME legal.rows \in Maps, Closed(legal.rows), NEW got \in Maps, NEW upTo, LegalTakes(got, upTo)
  PROVE  /\ legal'.rows = Over(legal.rows, got) /\ legal'.rows \in Maps /\ Closed(legal'.rows)
<1> DEFINE q == Over(legal.rows, got)
<1>1. legal'.rows = q /\ \A id \in DOMAIN got : got[id].on \in {None} \cup DOMAIN got \cup DOMAIN legal.rows
  BY DEF LegalTakes
<1>2. q \in Maps
  BY OverMap
<1>3. DOMAIN q = DOMAIN legal.rows \cup DOMAIN got /\ (\A id \in DOMAIN got : q[id] = got[id])
      /\ (\A id \in DOMAIN legal.rows \ DOMAIN got : q[id] = legal.rows[id])
  BY DEF Over
<1> HIDE DEF q
<1>4. Closed(q)
  BY <1>1, <1>3 DEF Closed
<1> QED BY <1>1, <1>2, <1>4 DEF q

LEMMA DeltaKnown ==
  ASSUME RowsInv, LegalTypes
  PROVE  Delta \subseteq DOMAIN rows
<1>1. \A n \in (move.upTo + 1)..Len(ledger) : ledger[n].links \subseteq DOMAIN rows
  <2>1. \A n \in 1..Len(ledger) : ledger[n].links \subseteq DOMAIN rows
    BY DEF RowsInv, LedgerOf, EntryInv
  <2>2. \A n \in (move.upTo + 1)..Len(ledger) : n \in 1..Len(ledger)
    BY DEF LegalTypes, RowsInv, LedgerTypes
  <2> QED BY <2>1, <2>2
<1>2. \A e \in Later : e.links \subseteq DOMAIN rows
  BY <1>1 DEF Later
<1>3. UNION {e.links : e \in Later} \subseteq DOMAIN rows
  BY <1>2
<1>4. OfKind(Docs) \subseteq DOMAIN rows
  BY DEF OfKind
<1> QED BY <1>3, <1>4 DEF Delta

LEMMA NothingRead == NoMove \in [at : Stages, got : Maps, upTo : Nat, readAt : Seq(Nat)] /\
                     NoMove.upTo = 0 /\ Len(NoMove.readAt) = 0 /\ NoMove.at = "idle"
  BY NoRowsMap DEF NoMove, Stages

LEMMA LegalWrites ==
  ASSUME RowsInv, RowsInv', LegalTypes, NEW w \in Writers,
         Begin(w) \/ WriteRows(w) \/ appendClaEvent(w) \/ Refused(w) \/ RollsBack(w)
  PROVE  LegalTypes'
<1>1. UNCHANGED <<enrolled, move, legal, moves>>
  BY DEF Begin, WriteRows, appendClaEvent, Refused, RollsBack
<1>2. writes' <= MaxWrites /\ writes' \in Nat
  BY ClaLedgerAssumption DEF Begin, WriteRows, appendClaEvent, Refused, RollsBack, LegalTypes
<1>3. Len(ledger) <= Len(ledger') /\ Len(ledger) \in Nat /\ Len(ledger') \in Nat
  <2>1. Len(ledger) \in Nat
    BY DEF RowsInv, LedgerTypes
  <2>2. CASE appendClaEvent(w)
    <3>1. ledger' = Grown(ledger, tx[w].entry)
      BY <2>2 DEF appendClaEvent
    <3>2. tx[w].entry \in Entries /\ EntryInv(tx[w].entry, DOMAIN rows) /\ LedgerOf(rows, ledger)
      BY DEF RowsInv, LedgerTypes
    <3>3. Len(Grown(ledger, tx[w].entry)) \in Nat /\ Len(Grown(ledger, tx[w].entry)) > Len(ledger)
      BY <3>2, GrownTold
    <3> QED BY <2>1, <3>1, <3>3
  <2>3. CASE ledger' = ledger
    BY <2>1, <2>3
  <2> QED BY <2>2, <2>3 DEF Begin, WriteRows, Refused, RollsBack
<1>4. /\ move'.upTo <= Len(ledger')
      /\ \A i \in 1..Len(move'.readAt) : move'.readAt[i] <= Len(ledger')
  <2>1. move.upTo \in Nat /\ \A i \in 1..Len(move.readAt) : move.readAt[i] \in Nat
    BY DEF LegalTypes
  <2> QED BY <1>1, <1>3, <2>1 DEF LegalTypes
<1> QED BY <1>1, <1>2, <1>4 DEF LegalTypes

LEMMA LegalMoves == ASSUME RowsInv, LegalTypes, Moves PROVE LegalTypes'
<1> DEFINE M == [at : Stages, got : Maps, upTo : Nat, readAt : Seq(Nat)]
<1>1. UNCHANGED <<rows, ledger, tx, writes>> /\ Len(ledger) \in Nat
  BY MovesReadOnly DEF RowsInv, LedgerTypes, Moves, StartMove, ReadTable, ReadEvents, SendHistory, HoldProject,
     SendDelta, SwitchOver, MoveFails
<1>2. enrolled' \in BOOLEAN
  BY DEF LegalTypes, Moves, StartMove, ReadTable, ReadEvents, SendHistory, HoldProject, SendDelta, SwitchOver, MoveFails
<1>3. moves' <= MaxMoves /\ moves' \in Nat
  BY ClaLedgerAssumption
     DEF LegalTypes, Moves, StartMove, ReadTable, ReadEvents, SendHistory, HoldProject, SendDelta, SwitchOver, MoveFails
<1>4. legal'.rows \in Maps /\ Closed(legal'.rows)
  <2>1. CASE UNCHANGED legal
    BY <2>1 DEF LegalTypes
  <2>2. CASE SendHistory
    BY <2>2, TakenTypes DEF SendHistory, LegalTypes
  <2>3. CASE SendDelta
    <3>1. Picked(Delta) \in Maps
      BY DeltaKnown, PickedMap DEF RowsInv, LedgerTypes
    <3> QED BY <2>3, <3>1, TakenTypes DEF SendDelta, LegalTypes
  <2>4. CASE MoveFails /\ ~ UNCHANGED legal
    <3>1. Picked(Delta) \in Maps
      BY DeltaKnown, PickedMap DEF RowsInv, LedgerTypes
    <3>2. PICK got \in Maps, n \in 1..Len(Tables) : LegalTakes(FirstTables(got, n), 0)
      BY <2>4, <3>1 DEF MoveFails, LegalTypes
    <3> QED BY <3>2, FirstTablesMap, TakenTypes DEF LegalTypes
  <2> QED BY <2>1, <2>2, <2>3, <2>4 DEF Moves, StartMove, ReadTable, ReadEvents, HoldProject, SwitchOver
<1>5. /\ move' \in M /\ move'.upTo <= Len(ledger)
      /\ \A i \in 1..Len(move'.readAt) : move'.readAt[i] <= Len(ledger)
  <2>1. CASE StartMove \/ HoldProject \/ SendHistory \/ SendDelta
    <3>1. move \in M
      BY DEF LegalTypes
    <3>2. /\ move' \in M /\ move'.upTo = move.upTo /\ move'.readAt = move.readAt
      BY <2>1, <3>1 DEF StartMove, HoldProject, SendHistory, SendDelta, Stages
    <3> QED BY <3>2 DEF LegalTypes
  <2>2. CASE SwitchOver \/ MoveFails
    <3>1. move' = NoMove
      BY <2>2 DEF SwitchOver, MoveFails
    <3> QED BY <1>1, <3>1, NothingRead
  <2>3. CASE ReadEvents
    <3>1. move' = [move EXCEPT !.at = "send", !.upTo = Len(ledger)] /\ move \in M
      BY <2>3 DEF ReadEvents, LegalTypes
    <3>2. move' \in M /\ move'.upTo = Len(ledger) /\ move'.readAt = move.readAt
      BY <1>1, <3>1 DEF Stages
    <3> QED BY <1>1, <3>2 DEF LegalTypes
  <2>4. CASE ReadTable
    <3> DEFINE p == Picked(OfKind(Tables[Len(move.readAt) + 1]))
    <3>1. p \in Maps
      BY PickedMap DEF OfKind, RowsInv, LedgerTypes
    <3> HIDE DEF p
    <3>2. move' = [move EXCEPT !.got = Over(@, p), !.readAt = Append(@, Len(ledger))]
      BY <2>4 DEF ReadTable, p
    <3>3. move \in M /\ Over(move.got, p) \in Maps /\ Append(move.readAt, Len(ledger)) \in Seq(Nat)
      BY <1>1, <3>1, OverMap DEF LegalTypes
    <3>4. move' \in M /\ move'.upTo = move.upTo /\ move'.readAt = Append(move.readAt, Len(ledger))
      BY <3>2, <3>3
    <3>5. \A i \in 1..Len(move'.readAt) : move'.readAt[i] <= Len(ledger)
      <4>1. \A i \in 1..Len(move'.readAt) :
              (i \in 1..Len(move.readAt) /\ move'.readAt[i] = move.readAt[i]) \/ move'.readAt[i] = Len(ledger)
        BY <1>1, <3>3, <3>4
      <4> QED BY <1>1, <4>1 DEF LegalTypes
    <3> QED BY <3>4, <3>5 DEF LegalTypes
  <2> QED BY <2>1, <2>2, <2>3, <2>4 DEF Moves
<1> QED BY <1>1, <1>2, <1>3, <1>4, <1>5 DEF LegalTypes

LEMMA LegalStep == RowsInv /\ RowsInv' /\ LegalTypes /\ [Next]_vars => LegalTypes'
<1> SUFFICES ASSUME RowsInv, RowsInv', LegalTypes, [Next]_vars PROVE LegalTypes'
  OBVIOUS
<1>1. CASE UNCHANGED vars
  BY <1>1 DEF vars, LegalTypes
<1>2. CASE Moves
  BY <1>2, LegalMoves
<1> QED BY <1>1, <1>2, LegalWrites DEF Next, Moves

(* mutations.ts, move-to-legal.ts: every row rests on a row there is, here and in *)
(* Legal, whatever was sent, taken in part or rolled back.                        *)
THEOREM RowsRestOnRows == Spec => []ClaTypeOK
<1>1. RowsInv /\ LegalTypes => ClaTypeOK
  <2> SUFFICES ASSUME RowsInv, LegalTypes PROVE ClaTypeOK
    OBVIOUS
  <2>1. IsRows(rows)
    BY MapIs DEF RowsInv, LedgerOf, RestsIn, IsRows
  <2>2. IsRows(legal.rows)
    BY MapIs DEF LegalTypes, Closed, IsRows
  <2>3. \A w \in Writers : tx[w].at \in {"idle", "read", "wrote"}
    BY DEF RowsInv, LedgerTypes, Phases
  <2> QED BY <2>1, <2>2, <2>3 DEF LegalTypes, Stages, ClaTypeOK
<1> QED BY <1>1, RowsInit, RowsStep, LegalInit, LegalStep, PTL DEF Spec

-----------------------------------------------------------------------------
(* Which rows the move has as they are: what it read, or Legal took, is what there *)
(* is, save what changed after it was read; and the entry of that change is after  *)
(* the ledger's length then.                                                        *)
ChangedAfter(id, k) == \E n \in 1..Len(ledger) : n > k /\ id \in DOMAIN ledger[n].puts
Sent(r, id) == id \in DOMAIN r /\ r[id] = rows[id]
Read(id) == TableOf(id) <= Len(move.readAt)

Reading == {"reading", "send"}
Locking == {"lock", "held"}
MoveInv ==
  /\ move.at = "reading" => Len(move.readAt) <= Len(Tables)
  /\ move.at \in {"send", "lock", "held", "sent"} => Len(move.readAt) = Len(Tables)
  /\ \A id \in DOMAIN rows :
       /\ move.at \in Reading /\ Read(id) =>
            ChangedAfter(id, move.readAt[TableOf(id)]) \/ Sent(move.got, id)
       /\ move.at \in Locking =>
            ChangedAfter(id, move.readAt[TableOf(id)]) \/ Sent(legal.rows, id)
  /\ RestIsInLegal

LEMMA TableIs ==
  ASSUME NEW id \in Ids
  PROVE  TableOf(id) \in 1..5 /\ \A i \in 1..5 : id[1] \in Tables[i] <=> i = TableOf(id)
<1>1. id[1] \in Kinds
  BY IdIs
<1>2. \E i \in 1..5 : id[1] \in Tables[i]
  BY <1>1, KindsAre DEF Kinds
<1>3. \A i, j \in 1..5 : id[1] \in Tables[i] /\ id[1] \in Tables[j] => i = j
  <2>1. 1..5 = {1, 2, 3, 4, 5}
    OBVIOUS
  <2> QED BY <2>1, KindsAre DEF Docs
<1>4. TableOf(id) = CHOOSE i \in 1..5 : id[1] \in Tables[i]
  BY KindsAre DEF TableOf
<1>5. TableOf(id) \in 1..5 /\ id[1] \in Tables[TableOf(id)]
  BY <1>2, <1>4
<1> QED BY <1>3, <1>5

LEMMA GreatestOf ==
  ASSUME NEW n \in Nat, NEW T, T \subseteq 1..n, T # {}
  PROVE  \E x \in T : \A y \in T : y <= x
<1> DEFINE B == {m \in Nat : \E y \in T : y = n - m}
<1>1. PICK y \in T : TRUE
  OBVIOUS
<1>2. y \in 1..n /\ n - y \in B
  BY <1>1
<1>3. B \subseteq Nat /\ B # {}
  BY <1>2
<1>4. PICK m \in B : \A k \in B : m <= k
  BY <1>3, LeastOf
<1>5. n - m \in T
  BY <1>4
<1>6. ASSUME NEW z \in T PROVE z <= n - m
  <2>1. z \in 1..n /\ n - z \in B
    OBVIOUS
  <2>2. m <= n - z /\ m \in Nat
    BY <1>4, <2>1
  <2> QED BY <2>1, <2>2
<1> QED BY <1>5, <1>6

(* The entry that last changed a row. *)
LEMMA LastIs ==
  ASSUME RowsInv, NEW id \in DOMAIN rows
  PROVE  /\ LastChange(id) \in 1..Len(ledger) /\ id \in DOMAIN ledger[LastChange(id)].puts
         /\ \A k \in Nat : ChangedAfter(id, k) => LastChange(id) > k
<1> DEFINE T == {n \in 1..Len(ledger) : id \in DOMAIN ledger[n].puts}
<1>1. ledger \in Seq(Entries) /\ Len(ledger) \in Nat /\ DOMAIN ledger = 1..Len(ledger)
  BY DEF RowsInv, LedgerTypes
<1>2. T # {}
  BY DEF RowsInv, LedgerOf
<1>3. PICK x \in T : \A y \in T : y <= x
  BY <1>1, <1>2, GreatestOf
<1>4. \A m \in (x + 1)..Len(ledger) : id \notin DOMAIN ledger[m].puts
  <2> SUFFICES ASSUME NEW m \in (x + 1)..Len(ledger), id \in DOMAIN ledger[m].puts PROVE FALSE
    OBVIOUS
  <2>1. m \in T
    BY <1>1, <1>3
  <2> QED BY <1>1, <1>3, <2>1
<1> DEFINE P(n) == /\ id \in DOMAIN ledger[n].puts
                   /\ \A m \in (n + 1)..Len(ledger) : id \notin DOMAIN ledger[m].puts
<1>5. \E n \in DOMAIN ledger : P(n)
  BY <1>1, <1>3, <1>4
<1>6. LastChange(id) = CHOOSE n \in DOMAIN ledger : P(n)
  BY DEF LastChange
<1>7. LastChange(id) \in DOMAIN ledger /\ P(LastChange(id))
  <2> HIDE DEF P
  <2> QED BY <1>5, <1>6
<1>8. ASSUME NEW k \in Nat, ChangedAfter(id, k) PROVE LastChange(id) > k
  <2>1. PICK n \in 1..Len(ledger) : n > k /\ id \in DOMAIN ledger[n].puts
    BY <1>8 DEF ChangedAfter
  <2>2. LastChange(id) \in 1..Len(ledger)
    BY <1>1, <1>7
  <2>3. ~ (n \in (LastChange(id) + 1)..Len(ledger))
    BY <1>7, <2>1
  <2> QED BY <1>1, <2>1, <2>2, <2>3
<1> QED BY <1>1, <1>7, <1>8

LEMMA MoveInit == Init => MoveInv
  BY DEF Init, NoMove, MoveInv, RestIsInLegal, At, Reading, Locking

(* A write changes what it puts, and the ledger grows past what was read. *)
LEMMA MoveAppended ==
  ASSUME RowsInv, LegalTypes, MoveInv, NEW w \in Writers, appendClaEvent(w)
  PROVE  MoveInv'
<1> DEFINE e == tx[w].entry
<1>1. /\ ledger' = Grown(ledger, e) /\ rows' = Over(rows, e.puts) /\ UNCHANGED <<move, legal>>
      /\ move.at \notin {"held", "sent"}
  BY DEF appendClaEvent, LocksProject, HoldsProject
<1>2. e \in Entries /\ EntryInv(e, DOMAIN rows) /\ LedgerOf(rows, ledger)
  BY DEF RowsInv, LedgerTypes
<1> HIDE DEF e
<1>3. /\ Len(ledger') \in Nat /\ Len(ledger') > Len(ledger) /\ ledger'[Len(ledger')] = e /\ Len(ledger) \in Nat
      /\ \A n \in 1..Len(ledger) : n \in 1..Len(ledger') /\ ledger'[n] = ledger[n]
  BY <1>1, <1>2, GrownTold DEF RowsInv, LedgerTypes
<1>4. /\ DOMAIN rows' = DOMAIN rows \cup DOMAIN e.puts
      /\ \A id \in DOMAIN rows \ DOMAIN e.puts : rows'[id] = rows[id]
  BY <1>1 DEF Over
<1>7. /\ \A id : TableOf(id)' = TableOf(id) /\ (Read(id)' <=> Read(id))
      /\ \A i \in 1..Len(move.readAt) : move.readAt[i] \in Nat /\ move.readAt[i] <= Len(ledger)
  BY <1>1 DEF TableOf, Read, LegalTypes
<1>8. ASSUME NEW id \in DOMAIN rows'
      PROVE  id \in Ids /\ TableOf(id) \in 1..5
  <2>1. DOMAIN e.puts \subseteq Ids /\ DOMAIN rows \subseteq Ids
    BY <1>2, MapIs DEF Entries, LedgerOf
  <2>2. id \in Ids
    BY <1>4, <2>1
  <2> QED BY <2>2, TableIs
<1>9. ASSUME NEW id \in DOMAIN rows'
      PROVE  /\ move.at \in Reading /\ Read(id) =>
                  ChangedAfter(id, move.readAt[TableOf(id)])' \/ Sent(move.got, id)'
             /\ move.at \in Locking =>
                  ChangedAfter(id, move.readAt[TableOf(id)])' \/ Sent(legal.rows, id)'
  <2> DEFINE k == move.readAt[TableOf(id)]
  <2>0. k' = k
    BY <1>1, <1>7
  <2>1. TableOf(id) \in 1..Len(move.readAt) => k \in Nat /\ k <= Len(ledger)
    BY <1>7
  <2>2. (move.at \in Reading /\ Read(id)) \/ move.at \in Locking => TableOf(id) \in 1..Len(move.readAt)
    <3>1. Len(move.readAt) \in Nat /\ TableOf(id) \in 1..5
      BY <1>8 DEF LegalTypes
    <3>2. move.at \in Locking => Len(move.readAt) = 5
      BY KindsAre DEF MoveInv, Locking
    <3>3. Read(id) => TableOf(id) <= Len(move.readAt)
      BY DEF Read
    <3>4. CASE move.at \in Locking
      BY <3>1, <3>2, <3>4
    <3>5. CASE Read(id)
      BY <3>1, <3>3, <3>5
    <3> QED BY <3>4, <3>5
  <2>3. CASE id \in DOMAIN e.puts
    <3>1. (move.at \in Reading /\ Read(id)) \/ move.at \in Locking => ChangedAfter(id, k)'
      <4> HIDE DEF k
      <4>1. k \in Nat /\ k <= Len(ledger) => ChangedAfter(id, k)'
        BY <1>3, <2>0, <2>3 DEF ChangedAfter
      <4> QED BY <2>1, <2>2, <4>1
    <3> QED BY <3>1
  <2>4. CASE id \notin DOMAIN e.puts
    <3>1. id \in DOMAIN rows
      BY <1>4, <2>4
    <3>2. ChangedAfter(id, k) => ChangedAfter(id, k)'
      <4> HIDE DEF k
      <4> QED BY <1>3, <2>0 DEF ChangedAfter
    <3>3. (Sent(move.got, id) => Sent(move.got, id)') /\ (Sent(legal.rows, id) => Sent(legal.rows, id)')
      BY <1>1, <1>4, <3>1, <2>4 DEF Sent
    <3>4. /\ move.at \in Reading /\ Read(id) => ChangedAfter(id, k) \/ Sent(move.got, id)
          /\ move.at \in Locking => ChangedAfter(id, k) \/ Sent(legal.rows, id)
      BY <3>1 DEF MoveInv
    <3> QED BY <3>2, <3>3, <3>4
  <2> QED BY <2>3, <2>4
<1>10. RestIsInLegal'
  BY <1>1 DEF RestIsInLegal, At
<1>11. \A id \in DOMAIN rows' :
         /\ move'.at \in Reading /\ Read(id)' =>
              ChangedAfter(id, move.readAt[TableOf(id)])' \/ Sent(move.got, id)'
         /\ move'.at \in Locking =>
              ChangedAfter(id, move.readAt[TableOf(id)])' \/ Sent(legal.rows, id)'
  BY <1>1, <1>7, <1>9
<1>12. /\ move'.at = "reading" => Len(move'.readAt) <= Len(Tables)'
       /\ move'.at \in {"send", "lock", "held", "sent"} => Len(move'.readAt) = Len(Tables)'
  BY <1>1 DEF MoveInv, Tables
<1> QED BY <1>10, <1>11, <1>12 DEF MoveInv, Reading, Locking
(* Steps that leave the rows, the ledger and what has been read alone. *)
LEMMA MoveOther ==
  ASSUME MoveInv, UNCHANGED <<rows, ledger, move, legal>>
  PROVE  MoveInv'
<1>1. /\ \A id, k : ChangedAfter(id, k)' <=> ChangedAfter(id, k)
      /\ \A id, r : Sent(r, id)' <=> Sent(r, id)
      /\ \A id : Read(id)' <=> Read(id)
  BY DEF ChangedAfter, Sent, Read, TableOf
<1>2. RestIsInLegal'
  BY DEF MoveInv, RestIsInLegal, At, MissedByReading, FlaggedByPublishing, LastChange, TableOf
<1> QED BY <1>1, <1>2 DEF MoveInv, TableOf, ChangedAfter, Sent, Read, Reading, Locking

LEMMA MoveReads == ASSUME RowsInv, LegalTypes, MoveInv, ReadTable PROVE MoveInv'
<1> DEFINE k == Len(move.readAt) + 1
           p == Picked(OfKind(Tables[k]))
<1>1. /\ move.at = "reading" /\ Len(move.readAt) < Len(Tables) /\ UNCHANGED <<rows, ledger, legal>>
      /\ move' = [move EXCEPT !.got = Over(@, p), !.readAt = Append(@, Len(ledger))]
  BY DEF ReadTable, At
<1>2. OfKind(Tables[k]) \subseteq DOMAIN rows
  BY DEF OfKind
<1>3. DOMAIN p = OfKind(Tables[k]) /\ \A id \in OfKind(Tables[k]) : p[id] = rows[id]
  BY <1>2, PickedMap DEF RowsInv, LedgerTypes
<1> HIDE DEF p
<1>4. /\ move \in [at : Stages, got : Maps, upTo : Nat, readAt : Seq(Nat)]
      /\ Len(move.readAt) \in Nat /\ Len(ledger) \in Nat
  BY DEF LegalTypes, RowsInv, LedgerTypes
<1>5. /\ move'.at = "reading" /\ move'.got = Over(move.got, p) /\ move'.readAt = Append(move.readAt, Len(ledger))
  BY <1>1, <1>4
<1>6. /\ Len(move'.readAt) = k /\ \A i \in 1..Len(move.readAt) : move'.readAt[i] = move.readAt[i]
  BY <1>4, <1>5
<1>7. ASSUME NEW id \in DOMAIN rows, TableOf(id) <= k
      PROVE  ChangedAfter(id, move'.readAt[TableOf(id)]) \/ Sent(move'.got, id)
  <2>1. id \in Ids /\ TableOf(id) \in 1..5 /\ k \in 1..5
        /\ \A i \in 1..5 : id[1] \in Tables[i] <=> i = TableOf(id)
    BY <1>1, <1>4, TableIs, MapIs, KindsAre DEF RowsInv, LedgerTypes
  <2>2. CASE TableOf(id) = k
    <3>1. id \in OfKind(Tables[k])
      BY <2>1, <2>2 DEF OfKind
    <3>2. id \in DOMAIN Over(move.got, p) /\ Over(move.got, p)[id] = rows[id]
      BY <1>3, <3>1 DEF Over
    <3> QED BY <1>5, <3>2 DEF Sent
  <2>3. CASE TableOf(id) # k
    <3>1. TableOf(id) \in 1..Len(move.readAt)
      BY <1>4, <1>7, <2>1, <2>3
    <3>2. ChangedAfter(id, move.readAt[TableOf(id)]) \/ Sent(move.got, id)
      BY <1>1, <1>4, <3>1 DEF MoveInv, Read, Reading
    <3>3. id \notin DOMAIN p
      BY <1>3, <2>1, <2>3 DEF OfKind
    <3>4. Sent(move.got, id) => Sent(Over(move.got, p), id)
      BY <3>3 DEF Sent, Over
    <3> QED BY <1>5, <1>6, <3>1, <3>2, <3>4
  <2> QED BY <2>2, <2>3
<1>8. /\ \A id, n : ChangedAfter(id, n)' <=> ChangedAfter(id, n)
      /\ \A id, r : Sent(r, id)' <=> Sent(r, id)
      /\ \A id : TableOf(id)' = TableOf(id) /\ (Read(id)' <=> TableOf(id) <= k)
  BY <1>1, <1>6 DEF ChangedAfter, Sent, Read, TableOf
<1>9. RestIsInLegal'
  BY <1>5 DEF RestIsInLegal, At
<1>10. \A id \in DOMAIN rows' :
         Read(id)' => ChangedAfter(id, move.readAt[TableOf(id)])' \/ Sent(move.got, id)'
  <2> SUFFICES ASSUME NEW id \in DOMAIN rows', Read(id)'
               PROVE  ChangedAfter(id, move.readAt[TableOf(id)])' \/ Sent(move.got, id)'
    OBVIOUS
  <2>1. id \in DOMAIN rows /\ TableOf(id) <= k /\ TableOf(id)' = TableOf(id)
    BY <1>1, <1>8
  <2>2. ChangedAfter(id, move'.readAt[TableOf(id)]) \/ Sent(move'.got, id)
    BY <1>7, <2>1
  <2> QED BY <1>1, <2>1, <2>2 DEF ChangedAfter, Sent
<1>11. Len(move'.readAt) <= Len(Tables)'
  BY <1>1, <1>4, <1>6, KindsAre DEF Tables
<1> QED BY <1>5, <1>9, <1>10, <1>11 DEF MoveInv, Locking

LEMMA MoveReadsEvents == ASSUME RowsInv, LegalTypes, MoveInv, ReadEvents PROVE MoveInv'
<1>1. /\ move.at = "reading" /\ Len(move.readAt) = Len(Tables) /\ UNCHANGED <<rows, ledger, legal>>
      /\ move' = [move EXCEPT !.at = "send", !.upTo = Len(ledger)]
  BY DEF ReadEvents, At
<1>2. move'.at = "send" /\ move'.got = move.got /\ move'.readAt = move.readAt
  BY <1>1 DEF LegalTypes
<1>3. RestIsInLegal'
  BY <1>2 DEF RestIsInLegal, At
<1>4. \A id \in DOMAIN rows' :
         Read(id)' => ChangedAfter(id, move.readAt[TableOf(id)])' \/ Sent(move.got, id)'
  BY <1>1, <1>2 DEF MoveInv, ChangedAfter, Sent, TableOf, Read, Reading
<1> QED BY <1>1, <1>2, <1>3, <1>4 DEF MoveInv, Locking, Tables

(* Legal has what was read, whatever it had. *)
LEMMA MoveSends == ASSUME RowsInv, LegalTypes, MoveInv, SendHistory PROVE MoveInv'
<1>1. /\ move.at = "send" /\ UNCHANGED <<rows, ledger>> /\ move' = [move EXCEPT !.at = "lock"]
      /\ legal'.rows = Over(legal.rows, move.got)
  BY DEF SendHistory, At, LegalTakes
<1>2. move'.at = "lock" /\ move'.readAt = move.readAt
  BY <1>1 DEF LegalTypes
<1>3. RestIsInLegal'
  BY <1>2 DEF RestIsInLegal, At
<1>4. ASSUME NEW id \in DOMAIN rows
      PROVE  ChangedAfter(id, move.readAt[TableOf(id)]) \/ Sent(Over(legal.rows, move.got), id)
  <2>1. Read(id)
    <3>1. Len(move.readAt) = 5
      BY <1>1, KindsAre DEF MoveInv
    <3>2. TableOf(id) \in 1..5
      BY TableIs, MapIs DEF RowsInv, LedgerTypes
    <3> QED BY <3>1, <3>2 DEF Read
  <2>2. ChangedAfter(id, move.readAt[TableOf(id)]) \/ Sent(move.got, id)
    BY <1>1, <2>1 DEF MoveInv, Reading
  <2> QED BY <2>2 DEF Sent, Over
<1>5. \A id \in DOMAIN rows' :
         ChangedAfter(id, move.readAt[TableOf(id)])' \/ Sent(legal.rows, id)'
  BY <1>1, <1>2, <1>4 DEF ChangedAfter, Sent, TableOf
<1> QED BY <1>1, <1>2, <1>3, <1>5 DEF MoveInv, Reading, Tables

LEMMA MoveHolds == ASSUME RowsInv, LegalTypes, MoveInv, HoldProject PROVE MoveInv'
<1>1. move.at = "lock" /\ UNCHANGED <<rows, ledger, legal>> /\ move' = [move EXCEPT !.at = "held"]
  BY DEF HoldProject, At
<1>2. move'.at = "held" /\ move'.readAt = move.readAt
  BY <1>1 DEF LegalTypes
<1>3. RestIsInLegal'
  BY <1>2 DEF RestIsInLegal, At
<1>4. \A id \in DOMAIN rows' :
         ChangedAfter(id, move.readAt[TableOf(id)])' \/ Sent(legal.rows, id)'
  BY <1>1, <1>2 DEF MoveInv, ChangedAfter, Sent, TableOf, Locking
<1> QED BY <1>1, <1>2, <1>3, <1>4 DEF MoveInv, Reading, Tables

(* With the project held: a row that changed after the entries were read is one of    *)
(* those its entry sends again, or a text whose flag a publication set.                *)
LEMMA MoveSendsRest == ASSUME RowsInv, LegalTypes, MoveInv, SendDelta PROVE MoveInv'
<1>1. /\ move.at = "held" /\ UNCHANGED <<rows, ledger>> /\ move' = [move EXCEPT !.at = "sent"]
      /\ legal'.rows = Over(legal.rows, Picked(Delta))
  BY DEF SendDelta, At, LegalTakes
<1>2. move'.at = "sent" /\ move'.readAt = move.readAt /\ move'.upTo = move.upTo
  BY <1>1 DEF LegalTypes
<1>3. DOMAIN Picked(Delta) = Delta /\ \A id \in Delta : Picked(Delta)[id] = rows[id]
  BY DeltaKnown, PickedMap DEF RowsInv, LedgerTypes
<1>4. ASSUME NEW id \in DOMAIN rows
      PROVE  \/ MissedByReading(id) \/ FlaggedByPublishing(id)
             \/ Sent(Over(legal.rows, Picked(Delta)), id)
  <2> DEFINE n == LastChange(id)
  <2>1. n \in 1..Len(ledger) /\ id \in DOMAIN ledger[n].puts
        /\ \A k \in Nat : ChangedAfter(id, k) => n > k
    BY LastIs
  <2>2. Len(move.readAt) = 5 /\ TableOf(id) \in 1..5
    BY <1>1, KindsAre, TableIs, MapIs DEF MoveInv, RowsInv, LedgerTypes
  <2>3. move.readAt[TableOf(id)] \in Nat /\ move.upTo \in Nat /\ Len(ledger) \in Nat
    BY <2>2 DEF LegalTypes, RowsInv, LedgerTypes
  <2>4. TellsOf(ledger[n], id)
    BY <2>1 DEF RowsInv, LedgerOf, EntryInv
  <2>5. CASE id \in Delta
    BY <1>3, <2>5 DEF Sent, Over
  <2>6. CASE id \notin Delta /\ n > move.upTo
    <3>1. ledger[n] \in Later
      BY <2>1, <2>3, <2>6 DEF Later
    <3>2. id \notin ledger[n].links
      BY <2>6, <3>1 DEF Delta
    <3>3. ~ (ledger[n].kind = "doc.resign_set" /\ id[1] \in Docs)
      BY <2>6, <3>1 DEF Delta, OfKind
    <3>4. ledger[n].kind = "doc.published"
      BY <2>4, <3>2, <3>3 DEF TellsOf
    <3> QED BY <2>6, <3>2, <3>4 DEF FlaggedByPublishing
  <2>7. CASE id \notin Delta /\ ~ (n > move.upTo)
    <3>1. CASE ChangedAfter(id, move.readAt[TableOf(id)])
      <4>1. move.readAt[TableOf(id)] < n /\ n <= move.upTo
        BY <2>1, <2>3, <2>7, <3>1
      <4> QED BY <4>1 DEF MissedByReading
    <3>2. CASE Sent(legal.rows, id)
      BY <1>3, <2>7, <3>2 DEF Sent, Over
    <3> QED BY <1>1, <3>1, <3>2 DEF MoveInv, Locking
  <2> QED BY <2>5, <2>6, <2>7
<1>5. RestIsInLegal'
  BY <1>1, <1>2, <1>4 DEF RestIsInLegal, MissedByReading, FlaggedByPublishing, LastChange, TableOf, Sent
<1> QED BY <1>1, <1>2, <1>5 DEF MoveInv, Reading, Locking, Tables

LEMMA MoveEnds == ASSUME move'.at \in {"idle", "reading"}, Len(move'.readAt) = 0, RowsInv' PROVE MoveInv'
<1>1. \A id \in DOMAIN rows' : ~ Read(id)'
  <2> SUFFICES ASSUME NEW id \in DOMAIN rows' PROVE ~ (TableOf(id)' <= Len(move'.readAt))
    BY DEF Read
  <2>1. id \in Ids
    BY MapIs DEF RowsInv, LedgerTypes
  <2>2. TableOf(id) \in 1..5 /\ TableOf(id)' = TableOf(id)
    BY <2>1, TableIs DEF TableOf
  <2> QED BY <2>2
<1>2. RestIsInLegal'
  BY DEF RestIsInLegal, At
<1>3. Len(move'.readAt) <= Len(Tables)'
  BY KindsAre DEF Tables
<1> QED BY <1>1, <1>2, <1>3 DEF MoveInv, Locking

LEMMA MoveStep == RowsInv /\ RowsInv' /\ LegalTypes /\ MoveInv /\ [Next]_vars => MoveInv'
<1> SUFFICES ASSUME RowsInv, RowsInv', LegalTypes, MoveInv, [Next]_vars PROVE MoveInv'
  OBVIOUS
<1>1. CASE StartMove
  <2>1. move' = [NoMove EXCEPT !.at = "reading"]
    BY <1>1 DEF StartMove
  <2>2. move'.at = "reading" /\ Len(move'.readAt) = 0
    BY <2>1 DEF NoMove
  <2> QED BY <2>2, MoveEnds
<1>2. CASE SwitchOver \/ MoveFails
  <2>1. move' = NoMove
    BY <1>2 DEF SwitchOver, MoveFails
  <2>2. move'.at = "idle" /\ Len(move'.readAt) = 0
    BY <2>1, NothingRead
  <2> QED BY <2>2, MoveEnds
<1>3. ASSUME NEW w \in Writers, Begin(w) \/ WriteRows(w) \/ Refused(w) \/ RollsBack(w) PROVE MoveInv'
  BY <1>3, MoveOther DEF Begin, WriteRows, Refused, RollsBack
<1>4. CASE UNCHANGED vars
  BY <1>4, MoveOther DEF vars
<1> QED BY <1>1, <1>2, <1>3, <1>4, MoveAppended, MoveReads, MoveReadsEvents, MoveSends, MoveHolds, MoveSendsRest
        DEF Next

(* move-to-legal.ts: when the heads of the two chains are compared, every row is in *)
(* Legal as it is here, whatever was written while the move read, sent and locked,  *)
(* save one that changed between the reading of its table and that of the entries,   *)
(* and a text whose flag a later publication set.                                    *)
THEOREM LegalHasTheRest == Spec => []RestIsInLegal
<1>1. MoveInv => RestIsInLegal
  BY DEF MoveInv
<1> QED BY <1>1, RowsInit, RowsStep, LegalInit, LegalStep, MoveInit, MoveStep, PTL DEF Spec

-----------------------------------------------------------------------------
(* The invariant: ChainNeverForks, and with it that no move is under way. *)
MovedForGood == enrolled => move = NoMove /\ ledger = legal.chain

LEMMA MoveSteps == ASSUME MovedForGood, move.at # "idle" PROVE ~enrolled
  BY DEF MovedForGood, NoMove

LEMMA MovedInit == Init => MovedForGood
  BY DEF Init, MovedForGood

(* A write: begun or not, it appends only while the project has not moved. *)
LEMMA WritesKeepMoved ==
  ASSUME MovedForGood, NEW w \in Writers,
         Begin(w) \/ WriteRows(w) \/ appendClaEvent(w) \/ Refused(w) \/ RollsBack(w)
  PROVE  MovedForGood'
<1>1. CASE appendClaEvent(w)
  <2>1. ~enrolled'
    BY <1>1 DEF appendClaEvent
  <2> QED BY <2>1 DEF MovedForGood
<1>2. CASE Begin(w) \/ WriteRows(w) \/ Refused(w) \/ RollsBack(w)
  <2>1. UNCHANGED <<ledger, enrolled, move, legal>>
    BY <1>2 DEF Begin, WriteRows, Refused, RollsBack
  <2> QED BY <2>1 DEF MovedForGood
<1> QED BY <1>1, <1>2

(* A step of the move: only the last one switches the project over. *)
LEMMA MoveKeepsMoved ==
  ASSUME MovedForGood,
         \/ StartMove \/ ReadTable \/ ReadEvents \/ SendHistory
         \/ HoldProject \/ SendDelta \/ SwitchOver \/ MoveFails
  PROVE  MovedForGood'
<1>1. CASE SwitchOver
  BY <1>1 DEF SwitchOver, MovedForGood
<1>2. CASE StartMove
  BY <1>2 DEF StartMove, MovedForGood
<1>3. CASE MoveFails
  <2>1. ~enrolled
    BY <1>3 DEF MoveFails, MovedForGood
  <2> QED BY <1>3, <2>1 DEF MoveFails, MovedForGood
<1>4. CASE ReadTable \/ ReadEvents \/ SendHistory \/ HoldProject \/ SendDelta
  <2>1. move.at # "idle"
    BY <1>4 DEF ReadTable, ReadEvents, SendHistory, HoldProject, SendDelta, At
  <2>2. ~enrolled
    BY <2>1, MoveSteps
  <2>3. enrolled' = enrolled
    BY <1>4 DEF ReadTable, ReadEvents, SendHistory, HoldProject, SendDelta
  <2> QED BY <2>2, <2>3 DEF MovedForGood
<1> QED BY <1>1, <1>2, <1>3, <1>4

LEMMA MovedStep == MovedForGood /\ [Next]_vars => MovedForGood'
<1> SUFFICES ASSUME MovedForGood, [Next]_vars PROVE MovedForGood'
  OBVIOUS
<1>1. CASE UNCHANGED vars
  BY <1>1 DEF vars, MovedForGood
<1>2. CASE Next
  BY <1>2, WritesKeepMoved, MoveKeepsMoved DEF Next
<1> QED BY <1>1, <1>2

(* integrity.ts:116-118 and move-to-legal.ts:16-18: whoever writes, and however *)
(* often the move is tried, a project that moved has the one chain Legal holds.  *)
THEOREM OneChain == Spec => []ChainNeverForks
<1>1. MovedForGood => ChainNeverForks
  BY DEF MovedForGood, ChainNeverForks
<1> QED BY <1>1, MovedInit, MovedStep, PTL DEF Spec

-----------------------------------------------------------------------------
CallSteps == {"idle", "list", "decide", "cover", "prior", "upsert", "read", "send", "write", "flip"}
CallKinds == {"event", "regate", "gain", "loss", "both", "sweep"}
Statuses == {"APPROVED", "CHECK_REQUIRED"}

(* The calls, and the rows. *)
Calls ==
  [at : CallSteps, as : CallKinds, sha : 0..MaxHead, prior : 0..MaxHead, pass : BOOLEAN,
   cla : BOOLEAN, check : Check, id : Nat \X Nat, asked : Nat]

CheckRows == [status : Statuses, sha : 1..MaxHead, id : [Check -> Nat \X Nat]]

(* The gate's steps up to its writing the row; and those that publish. *)
Before == {"decide", "cover", "prior", "upsert"}
Publishing == {"read", "send", "write"}

CallInv(a) ==
  /\ actor[a].at \in (IF a = "gate" THEN {"idle"} \cup Before \cup Publishing
                      ELSE {"idle", "list", "decide", "flip"} \cup Publishing)
  /\ actor[a].at \in Before \cup Publishing => actor[a].sha # 0
  /\ actor[a].at = "list" => actor[a].as \in Gained \cup Lost
  /\ actor[a].at \in Before \cup {"list", "flip"} => actor[a].check = "decision"
  /\ IsRun(actor[a].check, actor[a].id)
  /\ actor[a].asked <= turns

CallTypes ==
  /\ head \in 1..MaxHead /\ heard \in 0..head /\ covered \in BOOLEAN
  /\ runs \in [Check -> [1..MaxHead -> Seq(BOOLEAN)]]
  /\ row \in CheckRows /\ \A c \in Check : IsRun(c, row.id[c])
  /\ actor \in [Actors -> Calls] /\ \A a \in Actors : CallInv(a)
  /\ turns \in 1..(MaxTurns + 1) /\ others \in 0..MaxOthers
  /\ seen \subseteq {"stale", "displaced"}

(* What a step of a does to the calls. *)
Others(a) == \A b \in Actors : b # a => actor'[b] = actor[b]

LEMMA CallIs ==
  ASSUME NEW r \in Calls
  PROVE  r = [at |-> r.at, as |-> r.as, sha |-> r.sha, prior |-> r.prior, pass |-> r.pass,
              cla |-> r.cla, check |-> r.check, id |-> r.id, asked |-> r.asked]
BY DEF Calls

LEMMA IdleIs == Idle \in Calls
BY ClaGateAssumption DEF Idle, Calls, CallSteps, CallKinds, Check, NoRun

LEMMA Becoming ==
  ASSUME actor \in [Actors -> Calls], NEW a \in Actors, NEW call \in Calls, Becomes(a, call)
  PROVE  actor' \in [Actors -> Calls] /\ actor'[a] = call /\ Others(a)
BY DEF Becomes, Others

LEMMA ReadRunDoes ==
  ASSUME CallTypes, NEW a \in Actors, ReadRun(a)
  PROVE  /\ actor' \in [Actors -> Calls] /\ Others(a)
         /\ actor'[a].at = "send" /\ actor'[a].as = actor[a].as /\ actor'[a].sha = actor[a].sha
         /\ actor'[a].pass = actor[a].pass /\ actor'[a].cla = actor[a].cla
         /\ actor'[a].check = actor[a].check /\ actor'[a].id = Stored(actor[a])
         /\ actor'[a].asked = actor[a].asked
<1> DEFINE call == [actor[a] EXCEPT !.at = "send", !.id = Stored(actor[a])]
<1>1. actor[a] \in Calls /\ actor[a].check \in Check /\ Becomes(a, call)
  BY DEF ReadRun, CallTypes, Calls
<1>2. Stored(actor[a]) \in Nat \X Nat
  BY <1>1 DEF CallTypes, CheckRows, Stored, NoRun
<1>3. call \in Calls
  BY <1>1, <1>2 DEF Calls, CallSteps
<1>4. actor' \in [Actors -> Calls] /\ actor'[a] = call /\ Others(a)
  <2> HIDE DEF call
  <2> QED BY <1>1, <1>3, Becoming DEF CallTypes
<1> QED BY <1>1, <1>4 DEF Calls

LEMMA Altered ==
  ASSUME NEW r \in Calls, NEW at \in CallSteps, NEW as \in CallKinds, NEW sha \in 0..MaxHead
  PROVE  /\ [r EXCEPT !.at = at, !.as = as, !.sha = sha] \in Calls
         /\ [r EXCEPT !.at = at, !.as = as] \in Calls
         /\ [r EXCEPT !.at = at, !.sha = sha] \in Calls
BY DEF Calls

LEMMA EndsDoes ==
  ASSUME CallTypes, NEW a \in Actors, Ends(a)
  PROVE  /\ actor' \in [Actors -> Calls] /\ Others(a)
         /\ actor'[a].check = "decision" /\ actor'[a].id = NoRun /\ actor'[a].asked = 0
         /\ IF actor[a].as = "both" THEN actor'[a].at = "list" /\ actor'[a].as = "gain"
            ELSE actor'[a].at = "idle"
<1> DEFINE call == IF actor[a].as = "both" THEN [Idle EXCEPT !.at = "list", !.as = "gain"] ELSE Idle
<1>1. Becomes(a, call)
  BY DEF Ends
<1>2. call \in Calls
  <2>1. "list" \in CallSteps /\ "gain" \in CallKinds
    BY DEF CallSteps, CallKinds
  <2>2. 0 \in 0..MaxHead
    BY ClaGateAssumption
  <2>3. [Idle EXCEPT !.at = "list", !.as = "gain"] \in Calls
    BY <2>1, <2>2, IdleIs, Altered, Zenon
  <2> QED BY <2>3, IdleIs
<1>3. /\ call.check = "decision" /\ call.id = NoRun /\ call.asked = 0
      /\ IF actor[a].as = "both" THEN call.at = "list" /\ call.as = "gain" ELSE call.at = "idle"
  BY DEF Idle
<1> HIDE DEF call
<1>4. actor' \in [Actors -> Calls] /\ actor'[a] = call /\ Others(a)
  BY <1>1, <1>2, Becoming DEF CallTypes
<1> QED BY <1>3, <1>4

(* What each step makes of the call it is a step of. *)
LEMMA CoverageChangesDoes ==
  ASSUME CallTypes, NEW d \in Drives, CoverageChanges(d)
  PROVE  /\ actor' \in [Actors -> Calls] /\ Others(d)
         /\ actor'[d].at = "list" /\ actor'[d].as \in (IF covered THEN Lost ELSE Gained)
         /\ actor'[d].check = "decision" /\ actor'[d].id = NoRun /\ actor'[d].asked = 0
<1>1. PICK as \in (IF covered THEN Lost ELSE Gained) : Becomes(d, [Idle EXCEPT !.at = "list", !.as = as])
  BY DEF CoverageChanges
<1> DEFINE call == [Idle EXCEPT !.at = "list", !.as = as]
<1>2. Becomes(d, call) /\ d \in Actors
  BY <1>1 DEF Actors
<1>3. "list" \in CallSteps /\ as \in CallKinds
  BY <1>1 DEF CallSteps, CallKinds, Gained, Lost
<1>4. 0 \in 0..MaxHead
  BY ClaGateAssumption
<1>5. call \in Calls
  BY <1>3, <1>4, IdleIs, Altered, Zenon
<1>6. /\ call.at = "list" /\ call.as \in (IF covered THEN Lost ELSE Gained)
      /\ call.check = "decision" /\ call.id = NoRun /\ call.asked = 0
  BY <1>1, <1>3 DEF Idle
<1> HIDE DEF call
<1>7. actor' \in [Actors -> Calls] /\ actor'[d] = call /\ Others(d)
  BY <1>2, <1>5, Becoming DEF CallTypes
<1> QED BY <1>6, <1>7

LEMMA TakeEventDoes ==
  ASSUME CallTypes, TakeEvent
  PROVE  /\ actor' \in [Actors -> Calls] /\ Others("gate")
         /\ actor'["gate"].at = "decide" /\ actor'["gate"].sha = heard + 1
         /\ actor'["gate"].check = "decision" /\ actor'["gate"].id = NoRun /\ actor'["gate"].asked = 0
<1> DEFINE call == [Idle EXCEPT !.at = "decide", !.sha = heard + 1]
<1>2. Becomes("gate", call) /\ "gate" \in Actors
  BY DEF TakeEvent, Actors
<1>3. "decide" \in CallSteps /\ "event" \in CallKinds
  BY DEF CallSteps, CallKinds
<1>4. heard + 1 \in 0..MaxHead
  BY ClaGateAssumption DEF CallTypes, TakeEvent
<1>5. call \in Calls
  BY <1>3, <1>4, IdleIs, Altered, Zenon
<1>6. /\ call.at = "decide" /\ call.sha = heard + 1
      /\ call.check = "decision" /\ call.id = NoRun /\ call.asked = 0
  BY <1>3 DEF Idle
<1> HIDE DEF call
<1>7. actor' \in [Actors -> Calls] /\ actor'["gate"] = call /\ Others("gate")
  BY <1>2, <1>5, Becoming DEF CallTypes
<1> QED BY <1>6, <1>7

LEMMA ReGateDoes ==
  ASSUME CallTypes, ReGate
  PROVE  /\ actor' \in [Actors -> Calls] /\ Others("gate")
         /\ actor'["gate"].at = "decide" /\ actor'["gate"].sha = head
         /\ actor'["gate"].check = "decision" /\ actor'["gate"].id = NoRun /\ actor'["gate"].asked = 0
<1> DEFINE call == [Idle EXCEPT !.at = "decide", !.as = "regate", !.sha = head]
<1>2. Becomes("gate", call) /\ "gate" \in Actors
  BY DEF ReGate, Actors
<1>3. "decide" \in CallSteps /\ "regate" \in CallKinds
  BY DEF CallSteps, CallKinds
<1>4. head \in 0..MaxHead
  BY ClaGateAssumption DEF CallTypes
<1>5. call \in Calls
  BY <1>3, <1>4, IdleIs, Altered, Zenon
<1>6. /\ call.at = "decide" /\ call.sha = head
      /\ call.check = "decision" /\ call.id = NoRun /\ call.asked = 0
  BY <1>3 DEF Idle
<1> HIDE DEF call
<1>7. actor' \in [Actors -> Calls] /\ actor'["gate"] = call /\ Others("gate")
  BY <1>2, <1>5, Becoming DEF CallTypes
<1> QED BY <1>6, <1>7

LEMMA RetriedDoes ==
  ASSUME CallTypes, ConvergeRetried
  PROVE  /\ actor' \in [Actors -> Calls] /\ Others("gate")
         /\ actor'["gate"].at = "decide" /\ actor'["gate"].sha \in {head, actor["gate"].sha}
         /\ actor'["gate"].check = "decision" /\ actor'["gate"].id = NoRun /\ actor'["gate"].asked = 0
<1>1. actor["gate"] \in Calls
  BY DEF CallTypes, Actors
<1> DEFINE sha == IF actor["gate"].as = "regate" THEN head ELSE actor["gate"].sha
<1> DEFINE call == [Idle EXCEPT !.at = "decide", !.as = actor["gate"].as, !.sha = sha]
<1>2. Becomes("gate", call) /\ "gate" \in Actors
  BY DEF ConvergeRetried, Actors
<1>3. "decide" \in CallSteps /\ actor["gate"].as \in CallKinds
  BY <1>1 DEF Calls, CallSteps, CallKinds
<1>4. sha \in 0..MaxHead
  BY <1>1, ClaGateAssumption DEF CallTypes, Calls
<1>5. call \in Calls
  BY <1>3, <1>4, IdleIs, Altered, Zenon
<1>6. /\ call.at = "decide" /\ call.sha \in {head, actor["gate"].sha}
      /\ call.check = "decision" /\ call.id = NoRun /\ call.asked = 0
  BY <1>3 DEF Idle
<1> HIDE DEF call
<1>7. actor' \in [Actors -> Calls] /\ actor'["gate"] = call /\ Others("gate")
  BY <1>2, <1>5, Becoming DEF CallTypes
<1> QED BY <1>6, <1>7

LEMMA SweepDoes ==
  ASSUME CallTypes, NEW d \in Drives, Sweep(d)
  PROVE  /\ actor' \in [Actors -> Calls] /\ Others(d)
         /\ actor'[d].at = "decide" /\ actor'[d].sha = row.sha
         /\ actor'[d].check = "decision" /\ actor'[d].id = NoRun /\ actor'[d].asked = 0
<1> DEFINE call == [Idle EXCEPT !.at = "decide", !.as = "sweep", !.sha = row.sha]
<1>2. Becomes(d, call) /\ d \in Actors
  BY DEF Sweep, Actors
<1>3. "decide" \in CallSteps /\ "sweep" \in CallKinds
  BY DEF CallSteps, CallKinds
<1>4. row.sha \in 0..MaxHead
  BY ClaGateAssumption DEF CallTypes, CheckRows
<1>5. call \in Calls
  BY <1>3, <1>4, IdleIs, Altered, Zenon
<1>6. /\ call.at = "decide" /\ call.sha = row.sha
      /\ call.check = "decision" /\ call.id = NoRun /\ call.asked = 0
  BY <1>3 DEF Idle
<1> HIDE DEF call
<1>7. actor' \in [Actors -> Calls] /\ actor'[d] = call /\ Others(d)
  BY <1>2, <1>5, Becoming DEF CallTypes
<1> QED BY <1>6, <1>7

LEMMA DiesDoes ==
  ASSUME CallTypes, NEW d \in Drives, DriveDies(d)
  PROVE  /\ actor' \in [Actors -> Calls] /\ Others(d)
         /\ actor'[d].at = "idle" /\ actor'[d].check = "decision" /\ actor'[d].id = NoRun
         /\ actor'[d].asked = 0
<1>1. Becomes(d, Idle) /\ d \in Actors
  BY DEF DriveDies, Actors
<1>2. actor' \in [Actors -> Calls] /\ actor'[d] = Idle /\ Others(d)
  BY <1>1, IdleIs, Becoming DEF CallTypes
<1> QED BY <1>2 DEF Idle

LEMMA ListRowDoes ==
  ASSUME CallTypes, NEW a \in Actors, ListRow(a)
  PROVE  \/ /\ row.status \in Selects(actor[a].as)
            /\ actor' \in [Actors -> Calls] /\ Others(a)
            /\ actor'[a].at = "decide" /\ actor'[a].as = actor[a].as /\ actor'[a].sha = row.sha
            /\ actor'[a].check = actor[a].check /\ actor'[a].id = actor[a].id
            /\ actor'[a].asked = actor[a].asked
         \/ row.status \notin Selects(actor[a].as) /\ Ends(a)
<1>1. CASE row.status \notin Selects(actor[a].as)
  BY <1>1 DEF ListRow
<1>2. CASE row.status \in Selects(actor[a].as)
  <2> DEFINE call == [actor[a] EXCEPT !.at = "decide", !.sha = row.sha]
  <2>1. actor[a] \in Calls /\ Becomes(a, call)
    BY <1>2 DEF CallTypes, ListRow
  <2>2. "decide" \in CallSteps /\ actor[a].as \in CallKinds
    BY <2>1 DEF CallSteps, Calls
  <2>3. row.sha \in 0..MaxHead
    BY ClaGateAssumption DEF CallTypes, CheckRows
  <2>4. call \in Calls
    BY <2>1, <2>2, <2>3, Altered, Zenon
  <2>5. /\ call.at = "decide" /\ call.as = actor[a].as /\ call.sha = row.sha
        /\ call.check = actor[a].check /\ call.id = actor[a].id /\ call.asked = actor[a].asked
    BY <2>1 DEF Calls
  <2> HIDE DEF call
  <2>6. actor' \in [Actors -> Calls] /\ actor'[a] = call /\ Others(a)
    BY <2>1, <2>4, Becoming DEF CallTypes
  <2> QED BY <1>2, <2>5, <2>6
<1> QED BY <1>1, <1>2

LEMMA DecidedIs ==
  ASSUME NEW r \in Calls, NEW at \in CallSteps, NEW as \in CallKinds, NEW n \in Nat, NEW v \in BOOLEAN
  PROVE  LET call == [[r EXCEPT !.pass = v, !.cla = v, !.as = as, !.asked = n] EXCEPT !.at = at]
         IN /\ call \in Calls /\ call.at = at /\ call.sha = r.sha /\ call.pass = v /\ call.cla = v
            /\ call.check = r.check /\ call.id = r.id /\ call.asked = n
BY DEF Calls

LEMMA DecideDoes ==
  ASSUME CallTypes, NEW a \in Actors, decideForRepo(a)
  PROVE  \/ /\ \/ a = "gate" /\ actor'[a].at = (IF covered THEN "cover" ELSE "prior")
               \/ a # "gate" /\ Acts(actor[a].as) /\ actor'[a].at = "read"
            /\ actor' \in [Actors -> Calls] /\ Others(a) /\ actor'[a].sha = actor[a].sha
            /\ actor'[a].pass = covered /\ actor'[a].cla = covered
            /\ actor'[a].check = actor[a].check /\ actor'[a].id = actor[a].id
            /\ actor'[a].asked = turns
         \/ a # "gate" /\ ~Acts(actor[a].as) /\ Ends(a)
<1> DEFINE decided == [actor[a] EXCEPT !.pass = covered, !.cla = covered, !.as = Chained(@),
                                       !.asked = turns]
           call(at) == [decided EXCEPT !.at = at]
<1>1. actor[a] \in Calls
  BY DEF CallTypes
<1>2. Chained(actor[a].as) \in CallKinds /\ turns \in Nat /\ covered \in BOOLEAN
  BY <1>1 DEF CallTypes, Chained, CallKinds, Calls
<1>3. ASSUME NEW at \in CallSteps
      PROVE  /\ call(at) \in Calls /\ call(at).at = at /\ call(at).sha = actor[a].sha
             /\ call(at).pass = covered /\ call(at).cla = covered /\ call(at).check = actor[a].check
             /\ call(at).id = actor[a].id /\ call(at).asked = turns
  BY <1>1, <1>2 DEF Calls
<1>4. \/ a = "gate" /\ Becomes(a, call(IF covered THEN "cover" ELSE "prior"))
      \/ a # "gate" /\ Acts(actor[a].as) /\ Becomes(a, call("read"))
      \/ a # "gate" /\ ~Acts(actor[a].as) /\ Ends(a)
  BY DEF decideForRepo
<1> HIDE DEF call
<1>5. ASSUME NEW at \in CallSteps, Becomes(a, call(at))
      PROVE  actor' \in [Actors -> Calls] /\ actor'[a] = call(at) /\ Others(a)
  BY <1>3, <1>5, Becoming DEF CallTypes
<1>6. (IF covered THEN "cover" ELSE "prior") \in CallSteps /\ "read" \in CallSteps
  BY DEF CallSteps
<1>7. CASE a = "gate" /\ Becomes(a, call(IF covered THEN "cover" ELSE "prior"))
  BY <1>3, <1>5, <1>6, <1>7
<1>8. CASE a # "gate" /\ Acts(actor[a].as) /\ Becomes(a, call("read"))
  BY <1>3, <1>5, <1>6, <1>8
<1> QED BY <1>4, <1>7, <1>8

LEMMA ResolveDoes ==
  ASSUME CallTypes, resolveClaState
  PROVE  /\ actor' \in [Actors -> Calls] /\ Others("gate")
         /\ actor'["gate"].at = "prior" /\ actor'["gate"].sha = actor["gate"].sha
         /\ actor'["gate"].pass = actor["gate"].pass
         /\ actor'["gate"].check = actor["gate"].check /\ actor'["gate"].id = actor["gate"].id
         /\ \/ actor'["gate"].asked = actor["gate"].asked /\ actor'["gate"].cla = covered
            \/ actor'["gate"].asked = 0
<1> DEFINE call(cla, asked) == [actor["gate"] EXCEPT !.at = "prior", !.cla = cla, !.asked = asked]
<1>1. /\ "gate" \in Actors /\ actor["gate"] \in Calls /\ covered \in BOOLEAN
      /\ \/ Becomes("gate", [actor["gate"] EXCEPT !.at = "prior", !.cla = covered])
         \/ Becomes("gate", call(FALSE, 0))
  BY DEF CallTypes, resolveClaState, Actors
<1>2. [actor["gate"] EXCEPT !.at = "prior", !.cla = covered] = call(covered, actor["gate"].asked)
  BY <1>1 DEF Calls
<1>3. ASSUME NEW cla \in BOOLEAN, NEW asked \in Nat
      PROVE  /\ call(cla, asked) \in Calls /\ call(cla, asked).at = "prior"
             /\ call(cla, asked).sha = actor["gate"].sha /\ call(cla, asked).pass = actor["gate"].pass
             /\ call(cla, asked).check = actor["gate"].check /\ call(cla, asked).id = actor["gate"].id
             /\ call(cla, asked).cla = cla /\ call(cla, asked).asked = asked
  BY <1>1 DEF Calls, CallSteps
<1> HIDE DEF call
<1>4. \E cla \in BOOLEAN, asked \in Nat :
        /\ Becomes("gate", call(cla, asked))
        /\ (asked = actor["gate"].asked /\ cla = covered) \/ asked = 0
  <2>1. actor["gate"].asked \in Nat
    BY <1>1 DEF Calls
  <2> QED BY <1>1, <1>2, <2>1
<1>5. PICK cla \in BOOLEAN, asked \in Nat :
        /\ Becomes("gate", call(cla, asked))
        /\ (asked = actor["gate"].asked /\ cla = covered) \/ asked = 0
  BY <1>4
<1>6. actor' \in [Actors -> Calls] /\ actor'["gate"] = call(cla, asked) /\ Others("gate")
  BY <1>1, <1>3, <1>5, Becoming DEF CallTypes
<1> QED BY <1>3, <1>5, <1>6

LEMMA ReadPriorDoes ==
  ASSUME CallTypes, ReadPrior
  PROVE  /\ actor' \in [Actors -> Calls] /\ Others("gate")
         /\ actor'["gate"].at = "upsert" /\ actor'["gate"].prior = row.sha
         /\ actor'["gate"].sha = actor["gate"].sha
         /\ actor'["gate"].pass = actor["gate"].pass /\ actor'["gate"].cla = actor["gate"].cla
         /\ actor'["gate"].check = actor["gate"].check /\ actor'["gate"].id = actor["gate"].id
         /\ actor'["gate"].asked = actor["gate"].asked
<1> DEFINE call == [actor["gate"] EXCEPT !.at = "upsert", !.prior = row.sha]
<1>1. "gate" \in Actors /\ actor["gate"] \in Calls /\ Becomes("gate", call)
  BY DEF CallTypes, ReadPrior, Actors
<1>2. row.sha \in 0..MaxHead
  BY ClaGateAssumption DEF CallTypes, CheckRows
<1>3. /\ call \in Calls /\ call.at = "upsert" /\ call.prior = row.sha /\ call.sha = actor["gate"].sha
      /\ call.pass = actor["gate"].pass /\ call.cla = actor["gate"].cla
      /\ call.check = actor["gate"].check
      /\ call.id = actor["gate"].id /\ call.asked = actor["gate"].asked
  BY <1>1, <1>2 DEF Calls, CallSteps
<1> HIDE DEF call
<1>4. actor' \in [Actors -> Calls] /\ actor'["gate"] = call /\ Others("gate")
  BY <1>1, <1>3, Becoming DEF CallTypes
<1> QED BY <1>3, <1>4

LEMMA UpsertDoes ==
  ASSUME CallTypes, Upsert
  PROVE  /\ actor' \in [Actors -> Calls] /\ Others("gate")
         /\ actor'["gate"].at = "read" /\ actor'["gate"].sha = actor["gate"].sha
         /\ actor'["gate"].pass = actor["gate"].pass /\ actor'["gate"].cla = actor["gate"].cla
         /\ actor'["gate"].check = actor["gate"].check /\ actor'["gate"].id = actor["gate"].id
         /\ actor'["gate"].asked = actor["gate"].asked
         /\ row' \in CheckRows
         /\ row'.status = StatusOf(actor["gate"].pass) /\ row'.sha = actor["gate"].sha
         /\ row'.id = IF actor["gate"].prior # actor["gate"].sha THEN NoRuns ELSE row.id
<1> DEFINE call == [actor["gate"] EXCEPT !.at = "read", !.prior = 0]
<1>1. "gate" \in Actors /\ actor["gate"] \in Calls /\ Becomes("gate", call)
  BY DEF CallTypes, Upsert, Actors
<1>2. /\ call \in Calls /\ call.at = "read" /\ call.sha = actor["gate"].sha
      /\ call.pass = actor["gate"].pass /\ call.cla = actor["gate"].cla
      /\ call.check = actor["gate"].check
      /\ call.id = actor["gate"].id /\ call.asked = actor["gate"].asked
  <2>1. 0 \in 0..MaxHead /\ "read" \in CallSteps
    BY ClaGateAssumption DEF CallSteps
  <2> QED BY <1>1, <2>1 DEF Calls
<1> HIDE DEF call
<1>3. actor' \in [Actors -> Calls] /\ actor'["gate"] = call /\ Others("gate")
  BY <1>1, <1>2, Becoming DEF CallTypes
<1>4. row \in CheckRows /\ row' = Upserted(actor["gate"])
  BY DEF CallTypes, Upsert
<1>5. /\ row'.status = StatusOf(actor["gate"].pass) /\ row'.sha = actor["gate"].sha
      /\ row'.id = IF actor["gate"].prior # actor["gate"].sha THEN NoRuns ELSE row.id
  BY <1>4 DEF CheckRows, Upserted
<1>6. actor["gate"].sha \in 1..MaxHead
  BY <1>1, ClaGateAssumption DEF CallTypes, CallInv, Upsert, IsAt, Before, Calls
<1>7. StatusOf(actor["gate"].pass) \in Statuses /\ NoRuns \in [Check -> Nat \X Nat]
  BY DEF StatusOf, Statuses, NoRuns, NoRun
<1>8. row' \in CheckRows
  BY <1>4, <1>6, <1>7 DEF CheckRows, Upserted
<1> QED BY <1>2, <1>3, <1>5, <1>8

(* A run is posted, after those of its commit there are, or one there is is    *)
(* written over: no list of runs gets shorter, and only one is another.        *)
Target(call) == IF Posts(call) THEN call.sha ELSE call.id[1]

LEMMA Upserts ==
  ASSUME CallTypes, NEW a \in Actors, IsAt(a, "send"), upsertCheckRun(actor[a])
  PROVE  LET call == actor[a]
             k == call.check
             h == Target(call)
         IN /\ k \in Check /\ h \in 1..MaxHead /\ runs' \in [Check -> [1..MaxHead -> Seq(BOOLEAN)]]
            /\ \A c \in Check, x \in 1..MaxHead :
                 /\ Len(runs[c][x]) <= Len(runs'[c][x])
                 /\ c # k \/ x # h => runs'[c][x] = runs[c][x]
            /\ Len(runs'[k][h]) >= 1
            /\ Len(runs'[k][h]) = 1 => runs'[k][h][1] = Verdict(call)
            /\ Posts(call) => Len(runs'[k][call.sha]) = Len(runs[k][call.sha]) + 1
<1> DEFINE call == actor[a]
           k == call.check
           h == Target(call)
           v == Verdict(call)
           old == runs[k][h]
           new == IF Posts(call) THEN Append(old, v) ELSE [old EXCEPT ![call.id[2]] = v]
<1>1. call \in Calls /\ CallInv(a) /\ runs \in [Check -> [1..MaxHead -> Seq(BOOLEAN)]]
  BY DEF CallTypes
<1>2. k \in Check /\ v \in BOOLEAN /\ call.id \in Nat \X Nat
  BY <1>1 DEF Calls, Verdict
<1>3. call.sha \in 1..MaxHead
  BY <1>1, ClaGateAssumption DEF CallInv, IsAt, Publishing, Calls
<1>4. ~ Posts(call) => call.id[1] \in 1..MaxHead /\ call.id[2] \in DOMAIN runs[k][call.id[1]]
  BY <1>1 DEF CallInv, IsRun, Posts
<1>5. h \in 1..MaxHead
  BY <1>3, <1>4 DEF Target
<1>6. old \in Seq(BOOLEAN)
  BY <1>1, <1>2, <1>5
<1>7. /\ new \in Seq(BOOLEAN) /\ Len(old) <= Len(new) /\ Len(new) >= 1
      /\ Len(new) = 1 => new[1] = v
      /\ Posts(call) => Len(new) = Len(old) + 1
  <2>1. CASE Posts(call)
    <3>1. new = Append(old, v)
      BY <2>1
    <3>2. /\ Append(old, v) \in Seq(BOOLEAN) /\ Len(Append(old, v)) = Len(old) + 1
          /\ Append(old, v)[Len(old) + 1] = v /\ Len(old) \in Nat
      <4> HIDE DEF old, v
      <4> QED BY <1>2, <1>6
    <3> HIDE DEF new, old, v
    <3> QED BY <3>1, <3>2
  <2>2. CASE ~ Posts(call)
    <3>1. call.id[2] \in DOMAIN old /\ new = [old EXCEPT ![call.id[2]] = v]
      BY <1>4, <2>2 DEF Target
    <3>2. call.id[2] \in 1..Len(old) /\ Len(old) \in Nat
      BY <1>6, <3>1
    <3>3. new \in Seq(BOOLEAN) /\ Len(new) = Len(old) /\ new[call.id[2]] = v
      <4> HIDE DEF old, v, new
      <4> QED BY <1>2, <1>6, <3>1, <3>2
    <3> HIDE DEF new, old, v
    <3> QED BY <2>2, <3>2, <3>3
  <2> QED BY <2>1, <2>2
<1> HIDE DEF new
<1>8. runs' = [runs EXCEPT ![k][h] = new]
  BY DEF upsertCheckRun, Target, new, On, Posts
<1>9. /\ runs' \in [Check -> [1..MaxHead -> Seq(BOOLEAN)]] /\ runs'[k][h] = new
      /\ \A c \in Check, x \in 1..MaxHead : c # k \/ x # h => runs'[c][x] = runs[c][x]
  <2> HIDE DEF k, h
  <2> QED BY <1>1, <1>2, <1>5, <1>7, <1>8
<1>10. ASSUME NEW c \in Check, NEW x \in 1..MaxHead
       PROVE  Len(runs[c][x]) <= Len(runs'[c][x])
  <2>1. runs[c][x] \in Seq(BOOLEAN)
    BY <1>1
  <2>2. Len(runs[c][x]) \in Nat
    BY <2>1
  <2>3. CASE c = k /\ x = h
    BY <1>7, <1>9, <2>3
  <2>4. CASE c # k \/ x # h
    BY <1>9, <2>2, <2>4
  <2> QED BY <2>3, <2>4
<1>11. Posts(call) => h = call.sha
  BY DEF Target
<1> QED BY <1>2, <1>5, <1>7, <1>9, <1>10, <1>11

(* The ids of runs stay ids of runs. *)
LEMMA StillRuns ==
  ASSUME CallTypes, runs' \in [Check -> [1..MaxHead -> Seq(BOOLEAN)]],
         \A c \in Check, x \in 1..MaxHead : Len(runs[c][x]) <= Len(runs'[c][x]),
         NEW c \in Check, NEW id \in Nat \X Nat, IsRun(c, id)
  PROVE  id = NoRun \/ (id[1] \in 1..MaxHead /\ id[2] \in DOMAIN runs'[c][id[1]])
<1>1. CASE id = NoRun
  BY <1>1
<1>2. CASE id # NoRun
  <2>1. id[1] \in 1..MaxHead /\ id[2] \in DOMAIN runs[c][id[1]]
    BY <1>2 DEF IsRun
  <2>2. runs[c][id[1]] \in Seq(BOOLEAN) /\ runs'[c][id[1]] \in Seq(BOOLEAN)
    BY <2>1 DEF CallTypes
  <2>3. /\ DOMAIN runs[c][id[1]] = 1..Len(runs[c][id[1]]) /\ Len(runs[c][id[1]]) \in Nat
        /\ DOMAIN runs'[c][id[1]] = 1..Len(runs'[c][id[1]]) /\ Len(runs'[c][id[1]]) \in Nat
    BY <2>2
  <2>4. Len(runs[c][id[1]]) <= Len(runs'[c][id[1]])
    BY <2>1
  <2>5. id[2] \in 1..Len(runs'[c][id[1]])
    BY <2>1, <2>3, <2>4
  <2> QED BY <2>1, <2>3, <2>5
<1> QED BY <1>1, <1>2

LEMMA SendDoes ==
  ASSUME CallTypes, NEW a \in Actors, Send(a)
  PROVE  /\ actor' \in [Actors -> Calls] /\ Others(a)
         /\ actor'[a].at = "write" /\ actor'[a].sha = actor[a].sha
         /\ actor'[a].pass = actor[a].pass /\ actor'[a].cla = actor[a].cla
         /\ actor'[a].check = actor[a].check /\ actor'[a].asked = actor[a].asked
         /\ actor'[a].id = IF Posts(actor[a]) THEN <<actor[a].sha, Len(On(actor[a])) + 1>>
                           ELSE actor[a].id
<1> DEFINE id == IF Posts(actor[a]) THEN <<actor[a].sha, Len(On(actor[a])) + 1>> ELSE actor[a].id
           call == [actor[a] EXCEPT !.at = "write", !.id = id]
<1>1. actor[a] \in Calls /\ CallInv(a)
  BY DEF CallTypes
<1>2. Becomes(a, call)
  BY DEF Send
<1>3. id \in Nat \X Nat
  <2>1. actor[a].sha \in 1..MaxHead /\ actor[a].check \in Check /\ actor[a].id \in Nat \X Nat
    BY <1>1, ClaGateAssumption DEF CallInv, Send, IsAt, Publishing, Calls
  <2>2. On(actor[a]) \in Seq(BOOLEAN)
    BY <2>1 DEF On, CallTypes
  <2>3. Len(On(actor[a])) + 1 \in Nat /\ actor[a].sha \in Nat
    BY <2>1, <2>2, ClaGateAssumption
  <2> QED BY <2>1, <2>3
<1> HIDE DEF id
<1>4. /\ call \in Calls /\ call.at = "write" /\ call.sha = actor[a].sha
      /\ call.pass = actor[a].pass /\ call.cla = actor[a].cla
      /\ call.check = actor[a].check /\ call.asked = actor[a].asked /\ call.id = id
  BY <1>1, <1>3 DEF Calls, CallSteps
<1> HIDE DEF call
<1>5. actor' \in [Actors -> Calls] /\ actor'[a] = call /\ Others(a)
  BY <1>2, <1>4, Becoming DEF CallTypes
<1> QED BY <1>4, <1>5 DEF id

(* The decision's check is followed by the CLA's, and that by the end, or the flip. *)
LEMMA PublishedDoes ==
  ASSUME CallTypes, NEW a \in Actors, Published(a), actor[a].at \in {"send", "write"}
  PROVE  /\ actor' \in [Actors -> Calls] /\ Others(a) /\ actor'[a].id = NoRun
         /\ \/ /\ actor[a].check = "decision" /\ actor'[a].check = "cla"
               /\ actor'[a].at = "read" /\ actor'[a].sha = actor[a].sha
               /\ a # "gate" => actor'[a].pass = actor[a].pass
               /\ actor'[a].cla = actor[a].cla /\ actor'[a].asked = actor[a].asked
            \/ /\ actor[a].check = "cla" /\ a = "gate" /\ actor'[a].at = "idle"
               /\ actor'[a].check = "decision" /\ actor'[a].asked = 0
            \/ /\ actor[a].check = "cla" /\ a # "gate" /\ actor'[a].at = "flip"
               /\ actor'[a].pass = actor[a].pass /\ actor'[a].asked = actor[a].asked
               /\ actor'[a].check = "decision"
<1>1. actor[a] \in Calls /\ CallInv(a) /\ actor[a].check \in Check
  BY DEF CallTypes, Calls
<1>2. CASE actor[a].check = "decision"
  <2> DEFINE pass == a # "gate" /\ actor[a].pass
             call == [actor[a] EXCEPT !.at = "read", !.check = "cla", !.id = NoRun, !.pass = pass]
  <2>1. Becomes(a, call)
    BY <1>2 DEF Published
  <2>2. pass \in BOOLEAN /\ (a # "gate" => pass = actor[a].pass)
    BY <1>1, Zenon DEF Calls
  <2> HIDE DEF pass
  <2>3. /\ call \in Calls /\ call.at = "read" /\ call.sha = actor[a].sha /\ call.pass = pass
        /\ call.cla = actor[a].cla /\ call.check = "cla" /\ call.asked = actor[a].asked
        /\ call.id = NoRun
    BY <1>1, <2>2 DEF Calls, CallSteps, Check, NoRun
  <2> HIDE DEF call
  <2>4. actor' \in [Actors -> Calls] /\ actor'[a] = call /\ Others(a)
    BY <2>1, <2>3, Becoming DEF CallTypes
  <2> QED BY <1>2, <2>2, <2>3, <2>4
<1>3. CASE actor[a].check = "cla" /\ a = "gate"
  <2>1. Becomes(a, Idle)
    BY <1>3 DEF Published
  <2>2. actor' \in [Actors -> Calls] /\ actor'[a] = Idle /\ Others(a)
    BY <2>1, IdleIs, Becoming DEF CallTypes
  <2> QED BY <1>3, <2>2 DEF Idle
<1>4. CASE actor[a].check = "cla" /\ a # "gate"
  <2> DEFINE call == [Idle EXCEPT !.at = "flip", !.as = actor[a].as, !.pass = actor[a].pass,
                                 !.asked = actor[a].asked]
  <2>1. Becomes(a, call)
    BY <1>4 DEF Published
  <2>2. call \in Calls
    <3>1. \A r \in Calls : [r EXCEPT !.at = "flip", !.as = actor[a].as, !.pass = actor[a].pass,
                                     !.asked = actor[a].asked] \in Calls
      BY <1>1 DEF Calls, CallSteps
    <3> QED BY <3>1, IdleIs, Zenon
  <2>3. /\ call.at = "flip" /\ call.pass = actor[a].pass /\ call.check = "decision"
        /\ call.asked = actor[a].asked /\ call.id = NoRun
    BY DEF Idle
  <2> HIDE DEF call
  <2>4. actor' \in [Actors -> Calls] /\ actor'[a] = call /\ Others(a)
    BY <2>1, <2>2, Becoming DEF CallTypes
  <2> QED BY <1>4, <2>3, <2>4
<1> QED BY <1>1, <1>2, <1>3, <1>4 DEF Check

LEMMA WritesRow ==
  ASSUME CallTypes, NEW a \in Actors, WriteRun(a)
  PROVE  /\ row' \in CheckRows /\ row'.status = row.status /\ row'.sha = actor[a].sha
         /\ row'.id[actor[a].check] = actor[a].id
         /\ \A c \in Check : c # actor[a].check => row'.id[c] = row.id[c]
<1>1. row \in CheckRows /\ actor[a] \in Calls /\ CallInv(a)
  BY DEF CallTypes
<1>2. actor[a].sha \in 1..MaxHead /\ actor[a].check \in Check /\ actor[a].id \in Nat \X Nat
  BY <1>1, ClaGateAssumption DEF CallInv, WriteRun, IsAt, Publishing, Calls
<1>3. row' = [row EXCEPT !.id[actor[a].check] = actor[a].id, !.sha = actor[a].sha]
  BY DEF WriteRun
<1> QED BY <1>1, <1>2, <1>3 DEF CheckRows

LEMMA FlipsRow ==
  ASSUME CallTypes, NEW a \in Actors, Flip(a)
  PROVE  /\ row' \in CheckRows /\ row'.status = StatusOf(actor[a].pass)
         /\ row'.sha = row.sha /\ row'.id = row.id
<1>1. row \in CheckRows /\ row' = [row EXCEPT !.status = StatusOf(actor[a].pass)]
  BY DEF CallTypes, Flip
<1>2. StatusOf(actor[a].pass) \in Statuses
  BY DEF StatusOf, Statuses
<1> QED BY <1>1, <1>2 DEF CheckRows

(* Every step is one of these. *)
LEMMA StepIsOf ==
  ASSUME CallTypes, ClaGateNext
  PROVE  \/ CoverageChangesUntold \/ Push \/ ReGate \/ TakeEvent \/ resolveClaState
         \/ ReadPrior \/ Upsert \/ ConvergeRetried
         \/ \E d \in Drives : CoverageChanges(d) \/ Sweep(d) \/ ListRow(d) \/ Flip(d) \/ DriveDies(d)
         \/ \E a \in Actors : decideForRepo(a) \/ ReadRun(a) \/ Send(a) \/ WriteRun(a) \/ SendFails(a)
<1>1. "gate" \in Actors /\ Drives \subseteq Actors
  BY DEF Actors
<1>2. actor["gate"].at \notin {"list", "flip"}
  BY <1>1 DEF CallTypes, CallInv, Before, Publishing
<1>3. ~ ListRow("gate") /\ ~ Flip("gate")
  BY <1>2 DEF ListRow, Flip, IsAt
<1>4. CASE Gate
  BY <1>1, <1>3, <1>4 DEF Gate, Step
<1>5. ASSUME NEW d \in Drives, CoverageChanges(d) \/ Sweep(d) \/ Step(d) \/ DriveDies(d)
      PROVE  \/ CoverageChanges(d) \/ Sweep(d) \/ ListRow(d) \/ Flip(d) \/ DriveDies(d)
             \/ decideForRepo(d) \/ ReadRun(d) \/ Send(d) \/ WriteRun(d)
  BY <1>5 DEF Step
<1> QED BY <1>1, <1>4, <1>5 DEF ClaGateNext

(* No list of runs gets shorter. *)
RunsGrow ==
  /\ runs' \in [Check -> [1..MaxHead -> Seq(BOOLEAN)]]
  /\ \A c \in Check, x \in 1..MaxHead : Len(runs[c][x]) <= Len(runs'[c][x])

LEMMA RunsStay ==
  ASSUME CallTypes, runs' = runs
  PROVE  RunsGrow
<1>1. \A c \in Check, x \in 1..MaxHead : runs[c][x] \in Seq(BOOLEAN)
  BY DEF CallTypes
<1>2. \A c \in Check, x \in 1..MaxHead : Len(runs[c][x]) \in Nat
  BY <1>1
<1> QED BY <1>2 DEF CallTypes, RunsGrow

LEMMA SendFailsRuns ==
  ASSUME CallTypes, NEW a \in Actors, SendFails(a)
  PROVE  RunsGrow
<1>1. IsAt(a, "send") /\ (runs' = runs \/ upsertCheckRun(actor[a]))
  BY DEF SendFails
<1>2. CASE runs' = runs
  BY <1>2, RunsStay
<1>3. CASE upsertCheckRun(actor[a])
  BY <1>1, <1>3, Upserts DEF RunsGrow
<1> QED BY <1>1, <1>2, <1>3

(* The rest of the calls are as they were. *)
LEMMA CallsKept ==
  ASSUME CallTypes, NEW a \in Actors, actor' \in [Actors -> Calls], Others(a), CallInv(a)',
         turns' \in Nat, turns <= turns', RunsGrow
  PROVE  \A b \in Actors : CallInv(b)'
<1> SUFFICES ASSUME NEW b \in Actors, b # a
             PROVE  CallInv(b)'
  OBVIOUS
<1>1. actor'[b] = actor[b] /\ actor[b] \in Calls /\ CallInv(b)
  BY DEF Others, CallTypes
<1>2. actor[b].check \in Check /\ actor[b].id \in Nat \X Nat /\ actor[b].asked \in Nat /\ turns \in Nat
  BY <1>1 DEF Calls, CallTypes
<1>3. IsRun(actor[b].check, actor[b].id)'
  BY <1>1, <1>2, StillRuns DEF CallInv, IsRun, RunsGrow
<1>4. actor[b].asked <= turns'
  BY <1>1, <1>2 DEF CallInv
<1> QED BY <1>1, <1>3, <1>4 DEF CallInv

LEMMA RowKept ==
  ASSUME CallTypes, row'.id = row.id, RunsGrow
  PROVE  \A c \in Check : IsRun(c, row.id[c])'
<1> SUFFICES ASSUME NEW c \in Check
             PROVE  IsRun(c, row.id[c])'
  OBVIOUS
<1>1. IsRun(c, row.id[c]) /\ row.id[c] \in Nat \X Nat
  BY DEF CallTypes, CheckRows
<1> QED BY <1>1, StillRuns DEF IsRun, RunsGrow

LEMMA CallTypesInit ==
  ASSUME ClaGateInit
  PROVE  CallTypes
<1>1. head \in 1..MaxHead /\ heard \in 0..head /\ covered \in BOOLEAN
  BY ClaGateAssumption DEF ClaGateInit
<1>2. <<covered>> \in Seq(BOOLEAN) /\ << >> \in Seq(BOOLEAN) /\ DOMAIN <<covered>> = 1..1
  BY <1>1
<1>3. runs \in [Check -> [1..MaxHead -> Seq(BOOLEAN)]]
  BY <1>2 DEF ClaGateInit
<1>4. row \in CheckRows
  BY ClaGateAssumption DEF ClaGateInit, CheckRows, Statuses, StatusOf
<1>5. \A c \in Check : row.id[c] = <<1, 1>> /\ runs[c][1] = <<covered>>
  BY ClaGateAssumption DEF ClaGateInit
<1>6. \A c \in Check : IsRun(c, row.id[c])
  BY <1>2, <1>5, ClaGateAssumption DEF IsRun
<1>7. actor \in [Actors -> Calls] /\ \A a \in Actors : actor[a] = Idle
  BY IdleIs DEF ClaGateInit
<1>8. \A a \in Actors : CallInv(a)
  BY <1>7 DEF ClaGateInit, CallInv, Idle, IsRun, Before, Publishing
<1>9. turns \in 1..(MaxTurns + 1) /\ others \in 0..MaxOthers /\ seen \subseteq {"stale", "displaced"}
  BY ClaGateAssumption DEF ClaGateInit
<1> QED BY <1>1, <1>3, <1>4, <1>6, <1>7, <1>8, <1>9 DEF CallTypes

LEMMA CallTypesStep ==
  ASSUME CallTypes, ClaGateNext \/ UNCHANGED claGateVars
  PROVE  CallTypes'
<1> USE ClaGateAssumption
<1> DEFINE Numbers == /\ head' \in 1..MaxHead /\ heard' \in 0..head' /\ covered' \in BOOLEAN
                      /\ turns' \in 1..(MaxTurns + 1) /\ others' \in 0..MaxOthers
                      /\ seen' \subseteq {"stale", "displaced"}
<1>1. "gate" \in Actors /\ Drives \subseteq Actors /\ "gate" \notin Drives
  BY DEF Actors
<1>2. ASSUME NEW a \in Actors, actor' \in [Actors -> Calls], Others(a), CallInv(a)', Numbers,
             turns <= turns', RunsGrow, row' = row
      PROVE  CallTypes'
  <2>1. \A b \in Actors : CallInv(b)'
    BY <1>2, CallsKept
  <2>2. row' \in CheckRows /\ \A c \in Check : IsRun(c, row.id[c])'
    BY <1>2, RowKept DEF CallTypes
  <2> QED BY <1>2, <2>1, <2>2 DEF CallTypes, RunsGrow
<1>3. CASE UNCHANGED claGateVars
  BY <1>3 DEF claGateVars, steps, CallTypes, CallInv, IsRun
<1>4. CASE CoverageChangesUntold \/ Push
  <2>1. Numbers /\ turns <= turns' /\ UNCHANGED <<runs, row, actor>>
    <3>1. CASE CoverageChangesUntold
      BY <3>1 DEF CoverageChangesUntold, Turn, CallTypes
    <3>2. CASE Push
      BY <3>2 DEF Push, steps, CallTypes
    <3> QED BY <1>4, <3>1, <3>2
  <2>2. \A b \in Actors : CallInv(b)'
    <3> SUFFICES ASSUME NEW b \in Actors
                 PROVE  CallInv(b)'
      OBVIOUS
    <3>1. CallInv(b) /\ actor[b] \in Calls
      BY DEF CallTypes
    <3> QED BY <2>1, <3>1 DEF CallInv, IsRun, Calls, CallTypes
  <2> QED BY <2>1, <2>2 DEF CallTypes, IsRun
<1>5. CASE ReGate
  <2>1. Numbers /\ UNCHANGED <<runs, row, turns>>
    BY <1>5 DEF ReGate, Other, CallTypes
  <2>2. CallInv("gate")'
    BY <1>5, <2>1, ReGateDoes DEF CallInv, IsRun, Before, Publishing, CallTypes
  <2>3. RunsGrow /\ turns <= turns'
    BY <2>1, RunsStay DEF CallTypes
  <2>4. actor' \in [Actors -> Calls] /\ Others("gate")
    BY <1>1, <1>5, <2>1, <2>2, ReGateDoes
  <2> QED BY <1>1, <1>2, <1>5, <2>1, <2>2, <2>3, <2>4
<1>6. CASE TakeEvent
  <2>1. Numbers /\ UNCHANGED <<runs, row, turns>>
    BY <1>6 DEF TakeEvent, steps, CallTypes
  <2>2. CallInv("gate")'
    BY <1>6, <2>1, TakeEventDoes DEF CallInv, IsRun, Before, Publishing, CallTypes
  <2>3. RunsGrow /\ turns <= turns'
    BY <2>1, RunsStay DEF CallTypes
  <2>4. actor' \in [Actors -> Calls] /\ Others("gate")
    BY <1>6, TakeEventDoes
  <2> QED BY <1>1, <1>2, <2>1, <2>2, <2>3, <2>4
<1>7. CASE resolveClaState
  <2>1. Numbers /\ UNCHANGED <<runs, row, turns>> /\ actor["gate"].at = "cover"
    BY <1>7 DEF resolveClaState, Other, steps, CallTypes, IsAt
  <2>2. CallInv("gate")'
    <3>1. actor["gate"] \in Calls /\ CallInv("gate") /\ turns \in Nat
      BY <1>1 DEF CallTypes
    <3>2. actor'["gate"].asked <= turns'
      BY <1>7, <2>1, <3>1, ResolveDoes DEF CallInv
    <3>3. IsRun(actor["gate"].check, actor["gate"].id)'
      BY <1>7, <2>1, <3>1, ResolveDoes DEF CallInv, IsRun
    <3> QED BY <1>7, <2>1, <3>1, <3>2, <3>3, ResolveDoes DEF CallInv, Before, Publishing
  <2>3. RunsGrow /\ turns <= turns'
    BY <2>1, RunsStay DEF CallTypes
  <2>4. actor' \in [Actors -> Calls] /\ Others("gate")
    BY <1>7, ResolveDoes
  <2> QED BY <1>1, <1>2, <2>1, <2>2, <2>3, <2>4
<1>8. CASE ReadPrior
  <2>1. Numbers /\ UNCHANGED <<runs, row, turns>> /\ actor["gate"].at = "prior"
    BY <1>8 DEF ReadPrior, steps, CallTypes, IsAt
  <2>2. CallInv("gate")'
    BY <1>1, <1>8, <2>1, ReadPriorDoes DEF CallInv, IsRun, Before, Publishing, CallTypes
  <2>3. RunsGrow /\ turns <= turns'
    BY <2>1, RunsStay DEF CallTypes
  <2>4. actor' \in [Actors -> Calls] /\ Others("gate")
    BY <1>1, <1>8, <2>1, <2>2, ReadPriorDoes
  <2> QED BY <1>1, <1>2, <1>8, <2>1, <2>2, <2>3, <2>4
<1>9. CASE ConvergeRetried
  <2>1. Numbers /\ UNCHANGED <<runs, row, turns>> /\ actor["gate"].at # "idle"
    BY <1>9 DEF ConvergeRetried, Other, CallTypes, IsAt
  <2>2. actor["gate"].sha # 0
    BY <1>1, <2>1 DEF CallTypes, CallInv
  <2>3. CallInv("gate")'
    BY <1>9, <2>1, <2>2, RetriedDoes DEF CallInv, IsRun, Before, Publishing, CallTypes
  <2>4. RunsGrow /\ turns <= turns'
    BY <2>1, RunsStay DEF CallTypes
  <2>5. actor' \in [Actors -> Calls] /\ Others("gate")
    BY <1>1, <1>9, <2>1, <2>3, RetriedDoes
  <2> QED BY <1>1, <1>2, <1>9, <2>1, <2>3, <2>4, <2>5
<1>10. CASE Upsert
  <2>1. UNCHANGED <<runs, turns>> /\ actor["gate"].at = "upsert"
    BY <1>10 DEF Upsert, steps, IsAt
  <2>2. Numbers
    BY <1>10 DEF Upsert, steps, CallTypes, Outdated
  <2>3. CallInv("gate")'
    BY <1>1, <1>10, <2>1, UpsertDoes DEF CallInv, IsRun, Before, Publishing, CallTypes
  <2>4. RunsGrow
    BY <2>1, RunsStay
  <2>5. \A b \in Actors : CallInv(b)'
    BY <1>1, <1>10, <2>1, <2>3, <2>4, UpsertDoes, CallsKept DEF CallTypes
  <2>6. \A c \in Check : IsRun(c, row.id[c])'
    <3>1. CASE row'.id = row.id
      BY <2>4, <3>1, RowKept
    <3>2. CASE row'.id = NoRuns
      BY <3>2 DEF NoRuns, IsRun
    <3> QED BY <1>10, <3>1, <3>2, UpsertDoes
  <2>7. row' \in CheckRows /\ actor' \in [Actors -> Calls]
    BY <1>10, UpsertDoes
  <2> QED BY <2>2, <2>4, <2>5, <2>6, <2>7 DEF CallTypes, RunsGrow
<1>11. ASSUME NEW d \in Drives, CoverageChanges(d)
       PROVE  CallTypes'
  <2>1. Numbers /\ UNCHANGED <<runs, row>> /\ turns <= turns'
    BY <1>11 DEF CoverageChanges, Turn, CallTypes
  <2>2. CallInv(d)'
    BY <1>1, <1>11, <2>1, CoverageChangesDoes DEF CallInv, IsRun, Before, Publishing, CallTypes, Gained, Lost
  <2>3. RunsGrow /\ turns <= turns'
    BY <2>1, RunsStay DEF CallTypes
  <2>4. actor' \in [Actors -> Calls] /\ Others(d)
    BY <1>1, <1>11, <2>1, <2>2, CoverageChangesDoes
  <2> QED BY <1>1, <1>2, <1>11, <2>1, <2>2, <2>3, <2>4
<1>12. ASSUME NEW d \in Drives, Sweep(d)
       PROVE  CallTypes'
  <2>1. Numbers /\ UNCHANGED <<runs, row, turns>>
    BY <1>12 DEF Sweep, steps, CallTypes
  <2>2. row.sha # 0
    BY DEF CallTypes, CheckRows
  <2>3. CallInv(d)'
    BY <1>1, <1>12, <2>1, <2>2, SweepDoes DEF CallInv, IsRun, Before, Publishing, CallTypes
  <2>4. RunsGrow /\ turns <= turns'
    BY <2>1, RunsStay DEF CallTypes
  <2>5. actor' \in [Actors -> Calls] /\ Others(d)
    BY <1>1, <1>12, <2>1, <2>3, SweepDoes
  <2> QED BY <1>1, <1>2, <1>12, <2>1, <2>3, <2>4, <2>5
<1>13. ASSUME NEW d \in Drives, DriveDies(d)
       PROVE  CallTypes'
  <2>1. Numbers /\ UNCHANGED <<runs, row, turns>>
    BY <1>13 DEF DriveDies, Other, CallTypes
  <2>2. CallInv(d)'
    BY <1>1, <1>13, <2>1, DiesDoes DEF CallInv, IsRun, Before, Publishing, CallTypes
  <2>3. RunsGrow /\ turns <= turns'
    BY <2>1, RunsStay DEF CallTypes
  <2>4. actor' \in [Actors -> Calls] /\ Others(d)
    BY <1>1, <1>13, <2>1, <2>2, DiesDoes
  <2> QED BY <1>1, <1>2, <1>13, <2>1, <2>2, <2>3, <2>4
<1>14. ASSUME NEW d \in Drives, Ends(d), turns' = turns, runs' = runs
       PROVE  CallInv(d)'
  BY <1>1, <1>14, EndsDoes DEF CallInv, IsRun, Before, Publishing, CallTypes, Gained
<1>15. ASSUME NEW d \in Drives, ListRow(d)
       PROVE  CallTypes'
  <2>1. Numbers /\ UNCHANGED <<runs, row, turns>> /\ actor[d].at = "list"
    BY <1>15 DEF ListRow, steps, CallTypes, IsAt
  <2>2. row.sha # 0 /\ d \in Actors
    BY <1>1 DEF CallTypes, CheckRows
  <2>3. CASE Ends(d)
    <3>1. RunsGrow /\ turns <= turns' /\ CallInv(d)'
      BY <1>14, <2>1, <2>3, RunsStay DEF CallTypes
    <3>2. actor' \in [Actors -> Calls] /\ Others(d)
      BY <2>2, <2>3, EndsDoes
    <3> QED BY <1>2, <2>1, <2>2, <3>1, <3>2
  <2>4. CASE ~ Ends(d)
    <3>1. CallInv(d)'
      BY <1>1, <1>15, <2>1, <2>2, <2>4, ListRowDoes DEF CallInv, IsRun, Before, Publishing, CallTypes
    <3>2. RunsGrow /\ turns <= turns'
      BY <2>1, RunsStay DEF CallTypes
    <3>3. actor' \in [Actors -> Calls] /\ Others(d)
      BY <1>15, <2>1, <2>2, <2>4, <3>1, ListRowDoes
    <3> QED BY <1>2, <1>15, <2>1, <2>2, <2>4, <3>1, <3>2, <3>3
  <2> QED BY <2>3, <2>4
<1>16. ASSUME NEW a \in Actors, decideForRepo(a)
       PROVE  CallTypes'
  <2>1. Numbers /\ UNCHANGED <<runs, row, turns>> /\ actor[a].at = "decide" /\ turns \in Nat
    BY <1>16 DEF decideForRepo, steps, CallTypes, IsAt
  <2>2. CASE a # "gate" /\ Ends(a)
    <3>1. a \in Drives
      BY <2>2 DEF Actors
    <3>2. RunsGrow /\ turns <= turns'
      BY <2>1, RunsStay DEF CallTypes
    <3>3. actor' \in [Actors -> Calls] /\ Others(a)
      BY <1>14, <2>1, <2>2, <3>1, EndsDoes
    <3> QED BY <1>2, <1>14, <2>1, <2>2, <3>1, <3>2, <3>3
  <2>3. CASE ~ (a # "gate" /\ Ends(a))
    <3>1. CallInv(a)'
      <4>1. /\ actor'[a].sha = actor[a].sha /\ actor'[a].check = actor[a].check
            /\ actor'[a].id = actor[a].id /\ actor'[a].asked = turns
            /\ actor'[a].at \in (IF a = "gate" THEN {"cover", "prior"} ELSE {"read"})
        BY <1>16, <2>3, DecideDoes
      <4>2. CallInv(a)
        BY DEF CallTypes
      <4> QED BY <2>1, <4>1, <4>2 DEF CallInv, IsRun, Before, Publishing
    <3>2. RunsGrow /\ turns <= turns'
      BY <2>1, RunsStay DEF CallTypes
    <3>3. actor' \in [Actors -> Calls] /\ Others(a)
      BY <1>16, <2>1, <2>3, <3>1, DecideDoes
    <3> QED BY <1>2, <1>16, <2>1, <2>3, <3>1, <3>2, <3>3
  <2> QED BY <2>2, <2>3
<1>17. ASSUME NEW a \in Actors, ReadRun(a)
       PROVE  CallTypes'
  <2>1. Numbers /\ UNCHANGED <<runs, row, turns>> /\ actor[a].at = "read" /\ turns \in Nat
    BY <1>17 DEF ReadRun, steps, CallTypes, IsAt
  <2>2. actor[a].check \in Check
    BY DEF CallTypes, Calls
  <2>3. IsRun(actor[a].check, Stored(actor[a]))
    BY <2>2 DEF CallTypes, Stored, IsRun
  <2>4. CallInv(a)'
    BY <1>17, <2>1, <2>3, ReadRunDoes DEF CallInv, IsRun, Before, Publishing, CallTypes
  <2>5. RunsGrow /\ turns <= turns'
    BY <2>1, RunsStay DEF CallTypes
  <2>6. actor' \in [Actors -> Calls] /\ Others(a)
    BY <1>17, <2>1, <2>4, ReadRunDoes
  <2> QED BY <1>2, <1>17, <2>1, <2>4, <2>5, <2>6
<1>18. ASSUME NEW a \in Actors, Send(a)
       PROVE  CallTypes'
  <2>1. Numbers /\ UNCHANGED <<row, turns>> /\ actor[a].at = "send" /\ turns \in Nat
    BY <1>18 DEF Send, steps, CallTypes, IsAt, Outdated
  <2>2. upsertCheckRun(actor[a]) /\ IsAt(a, "send")
    BY <1>18 DEF Send
  <2>3. RunsGrow
    BY <2>2, Upserts DEF RunsGrow
  <2>4. actor[a] \in Calls /\ CallInv(a)
    BY DEF CallTypes
  <2>5. actor[a].check \in Check /\ actor[a].sha \in 1..MaxHead /\ actor[a].id \in Nat \X Nat
    BY <2>1, <2>4 DEF Calls, CallInv, Publishing
  <2>6. IsRun(actor[a].check, actor[a].id)'
    <3>1. CASE ~ Posts(actor[a])
      <4>1. actor'[a].id = actor[a].id /\ actor'[a].check = actor[a].check
        BY <1>18, <3>1, SendDoes
      <4>2. IsRun(actor[a].check, actor[a].id)
        BY <2>4 DEF CallInv
      <4>3. actor[a].id = NoRun \/ (actor[a].id[1] \in 1..MaxHead /\ actor[a].id[2] \in DOMAIN runs'[actor[a].check][actor[a].id[1]])
        BY <2>3, <2>5, <4>2, StillRuns DEF RunsGrow
      <4> QED BY <4>1, <4>3 DEF IsRun
    <3>2. CASE Posts(actor[a])
      <4> DEFINE old == runs[actor[a].check][actor[a].sha]
                 new == runs'[actor[a].check][actor[a].sha]
      <4>1. old \in Seq(BOOLEAN) /\ new \in Seq(BOOLEAN)
        BY <2>3, <2>5 DEF RunsGrow, CallTypes
      <4>2. Len(new) = Len(old) + 1
        BY <2>2, <3>2, Upserts
      <4> HIDE DEF old, new
      <4>3. Len(old) + 1 \in DOMAIN new
        BY <4>1, <4>2
      <4>4. actor'[a].id = <<actor[a].sha, Len(old) + 1>> /\ actor'[a].check = actor[a].check
        BY <1>18, <3>2, SendDoes DEF On, old
      <4> QED BY <2>5, <4>3, <4>4 DEF IsRun, new
    <3> QED BY <3>1, <3>2
  <2>7. CallInv(a)'
    BY <1>18, <2>1, <2>4, <2>6, SendDoes DEF CallInv, Before, Publishing
  <2>8. actor' \in [Actors -> Calls] /\ Others(a)
    BY <1>18, SendDoes
  <2>9. turns <= turns'
    BY <2>1
  <2> QED BY <1>2, <2>1, <2>3, <2>7, <2>8, <2>9
<1>19. ASSUME NEW a \in Actors, Published(a), actor[a].at \in {"send", "write"}, turns' = turns
       PROVE  CallInv(a)'
  <2>1. actor[a] \in Calls /\ CallInv(a) /\ turns \in Nat
    BY DEF CallTypes
  <2>2. actor'[a].asked <= turns'
    BY <1>19, <2>1, PublishedDoes DEF CallInv
  <2>3. IsRun(actor[a].check, actor[a].id)'
    BY <1>19, PublishedDoes DEF IsRun
  <2> QED BY <1>19, <2>1, <2>2, <2>3, PublishedDoes DEF CallInv, Before, Publishing
<1>20. ASSUME NEW a \in Actors, SendFails(a)
       PROVE  CallTypes'
  <2>1. Numbers /\ UNCHANGED <<row, turns>> /\ actor[a].at = "send" /\ turns \in Nat /\ Published(a)
    BY <1>20 DEF SendFails, Other, CallTypes, IsAt
  <2>2. CallInv(a)'
    BY <1>19, <2>1
  <2> QED BY <1>2, <1>20, <2>1, <2>2, PublishedDoes, SendFailsRuns
<1>21. ASSUME NEW a \in Actors, WriteRun(a)
       PROVE  CallTypes'
  <2>1. Numbers /\ UNCHANGED <<runs, turns>> /\ actor[a].at = "write" /\ turns \in Nat /\ Published(a)
    BY <1>21 DEF WriteRun, steps, CallTypes, IsAt
  <2>2. CallInv(a)'
    BY <1>19, <2>1
  <2>3. RunsGrow
    BY <2>1, RunsStay
  <2>4. actor' \in [Actors -> Calls] /\ Others(a)
    BY <2>1, PublishedDoes
  <2>5. \A b \in Actors : CallInv(b)'
    BY <2>1, <2>2, <2>3, <2>4, CallsKept
  <2>6. \A c \in Check : IsRun(c, row.id[c])'
    <3> SUFFICES ASSUME NEW c \in Check
                 PROVE  IsRun(c, row.id[c])'
      OBVIOUS
    <3>1. row'.id[c] = IF c = actor[a].check THEN actor[a].id ELSE row.id[c]
      BY <1>21, WritesRow
    <3>2. IsRun(actor[a].check, actor[a].id) /\ IsRun(c, row.id[c])
      BY DEF CallTypes, CallInv
    <3> QED BY <2>1, <3>1, <3>2 DEF IsRun
  <2>7. row' \in CheckRows
    BY <1>21, WritesRow
  <2> QED BY <2>1, <2>3, <2>4, <2>5, <2>6, <2>7 DEF CallTypes, RunsGrow
<1>22. ASSUME NEW d \in Drives, Flip(d)
       PROVE  CallTypes'
  <2>1. Numbers /\ UNCHANGED <<runs, turns>> /\ Ends(d) /\ d \in Actors /\ turns \in Nat
    BY <1>22 DEF Flip, steps, CallTypes, Outdated, Actors
  <2>2. CallInv(d)'
    BY <1>14, <2>1
  <2>3. RunsGrow
    BY <2>1, RunsStay
  <2>4. actor' \in [Actors -> Calls] /\ Others(d)
    BY <2>1, EndsDoes
  <2>5. \A b \in Actors : CallInv(b)'
    BY <2>1, <2>2, <2>3, <2>4, CallsKept
  <2>6. row' \in CheckRows /\ \A c \in Check : IsRun(c, row.id[c])'
    BY <1>1, <1>22, <2>3, FlipsRow, RowKept
  <2> QED BY <2>1, <2>3, <2>4, <2>5, <2>6 DEF CallTypes, RunsGrow
<1> QED BY <1>3, <1>4, <1>5, <1>6, <1>7, <1>8, <1>9, <1>10, <1>11, <1>12, <1>13, <1>15, <1>16,
           <1>17, <1>18, <1>20, <1>21, <1>22, StepIsOf

(* The type invariant: it lasts because, beside the types, a call that is under    *)
(* way has the commit it is for, and the ids it and the row hold are of runs.      *)
THEOREM ClaGateTypes == ClaGateSpec => []ClaGateTypeOK
<1>1. CallTypes => ClaGateTypeOK
  BY ClaGateAssumption DEF CallTypes, ClaGateTypeOK, CallInv, CheckRows, Statuses, Calls, CallSteps, CallKinds
<1>2. CallTypes /\ [ClaGateNext]_claGateVars => CallTypes'
  BY CallTypesStep
<1> QED BY <1>1, <1>2, CallTypesInit, PTL DEF ClaGateSpec

-----------------------------------------------------------------------------
(* Whose step it is. *)
GateMoves ==
  \/ ReGate \/ TakeEvent \/ resolveClaState \/ ReadPrior \/ Upsert \/ ConvergeRetried
  \/ decideForRepo("gate") \/ ReadRun("gate") \/ Send("gate") \/ WriteRun("gate") \/ SendFails("gate")

DriveMoves(d) ==
  \/ CoverageChanges(d) \/ Sweep(d) \/ ListRow(d) \/ Flip(d) \/ DriveDies(d)
  \/ decideForRepo(d) \/ ReadRun(d) \/ Send(d) \/ WriteRun(d) \/ SendFails(d)

LEMMA WhoMoves ==
  ASSUME CallTypes, ClaGateNext
  PROVE  CoverageChangesUntold \/ Push \/ GateMoves \/ \E d \in Drives : DriveMoves(d)
<1>1. Actors = {"gate"} \cup Drives
  BY DEF Actors
<1>2. ASSUME NEW a \in Actors, decideForRepo(a) \/ ReadRun(a) \/ Send(a) \/ WriteRun(a) \/ SendFails(a)
      PROVE  GateMoves \/ \E d \in Drives : DriveMoves(d)
  <2>1. CASE a = "gate"
    BY <1>2, <2>1 DEF GateMoves
  <2>2. CASE a # "gate"
    BY <1>1, <1>2, <2>2 DEF DriveMoves
  <2> QED BY <2>1, <2>2
<1>3. CASE \E d \in Drives : CoverageChanges(d) \/ Sweep(d) \/ ListRow(d) \/ Flip(d) \/ DriveDies(d)
  BY <1>3 DEF DriveMoves
<1> QED BY <1>2, <1>3, StepIsOf DEF GateMoves

LEMMA GateIsNoDrive ==
  /\ "gate" \in Actors /\ "gate" \notin Drives /\ Drives \subseteq Actors
  /\ \A d \in Drives : d # "gate"
BY ClaGateAssumption DEF Actors

(* A drive leaves the gate's call alone, and the head; if it points the row to   *)
(* another commit, the observer notes it.                                        *)
LEMMA DriveLeaves ==
  ASSUME CallTypes, NEW d \in Drives, DriveMoves(d)
  PROVE  /\ Others(d) /\ actor'["gate"] = actor["gate"] /\ UNCHANGED <<head, heard>>
         /\ RunsGrow /\ seen \subseteq seen'
         /\ \/ "displaced" \in seen'
            \/ row'.sha = row.sha /\ (row'.id = row.id \/ WriteRun(d))
<1> USE GateIsNoDrive
<1>1. Others(d)
  <2>1. CASE Ends(d)
    BY <2>1, EndsDoes
  <2>2. CASE SendFails(d) \/ WriteRun(d)
    BY <2>2, PublishedDoes DEF SendFails, WriteRun, IsAt
  <2>3. CASE ~ Ends(d) /\ ~ (SendFails(d) \/ WriteRun(d))
    <3>1. ~ Flip(d)
      BY <2>3 DEF Flip
    <3> QED BY <2>3, <3>1, CoverageChangesDoes, SweepDoes, ListRowDoes, DiesDoes, DecideDoes, ReadRunDoes,
               SendDoes DEF DriveMoves
  <2> QED BY <2>1, <2>2, <2>3
<1>2. actor'["gate"] = actor["gate"]
  BY <1>1 DEF Others
<1>3. UNCHANGED <<head, heard>> /\ seen \subseteq seen'
  BY DEF DriveMoves, CoverageChanges, Sweep, ListRow, Flip, DriveDies, decideForRepo, ReadRun, Send, WriteRun,
         SendFails
<1>4. RunsGrow
  <2>1. CASE Send(d)
    <3>1. IsAt(d, "send") /\ upsertCheckRun(actor[d])
      BY <2>1 DEF Send
    <3> QED BY <3>1, Upserts DEF RunsGrow
  <2>2. CASE SendFails(d)
    BY <2>2, SendFailsRuns
  <2>3. CASE ~ Send(d) /\ ~ SendFails(d)
    <3>1. runs' = runs
      BY <2>3 DEF DriveMoves, CoverageChanges, Sweep, ListRow, Flip, DriveDies, decideForRepo, ReadRun, WriteRun
    <3> QED BY <3>1, RunsStay
  <2> QED BY <2>1, <2>2, <2>3
<1>5. \/ "displaced" \in seen'
      \/ row'.sha = row.sha /\ (row'.id = row.id \/ WriteRun(d))
  <2>1. CASE WriteRun(d)
    BY <2>1, WritesRow DEF WriteRun
  <2>2. CASE Flip(d)
    BY <2>2, FlipsRow
  <2>3. CASE ~ WriteRun(d) /\ ~ Flip(d)
    <3>1. row' = row
      BY <2>3 DEF DriveMoves, CoverageChanges, Sweep, ListRow, DriveDies, decideForRepo, ReadRun, Send, SendFails
    <3> QED BY <3>1
  <2> QED BY <2>1, <2>2, <2>3
<1> QED BY <1>1, <1>2, <1>3, <1>4, <1>5

(* The gate converges the head, once it has heard of it. *)
OnHead == ~ IsAt("gate", "idle") /\ heard = head => actor["gate"].sha = head

LEMMA OnHeadStep ==
  ASSUME CallTypes, OnHead, ClaGateNext \/ UNCHANGED claGateVars
  PROVE  OnHead'
<1> USE GateIsNoDrive
<1>1. CASE UNCHANGED claGateVars
  BY <1>1 DEF claGateVars, OnHead, IsAt
<1>2. CASE CoverageChangesUntold
  BY <1>2 DEF CoverageChangesUntold, OnHead, IsAt
<1>3. CASE Push
  <2>1. heard' # head'
    BY <1>3 DEF Push, CallTypes
  <2> QED BY <2>1 DEF OnHead
<1>4. CASE \E d \in Drives : DriveMoves(d)
  BY <1>4, DriveLeaves DEF OnHead, IsAt
<1>5. CASE GateMoves
  <2>1. CASE ReGate
    BY <2>1, ReGateDoes DEF ReGate, OnHead
  <2>2. CASE TakeEvent
    BY <2>2, TakeEventDoes DEF TakeEvent, OnHead
  <2>3. CASE ConvergeRetried
    BY <2>3, RetriedDoes DEF ConvergeRetried, OnHead, IsAt
  <2>4. CASE \/ resolveClaState \/ ReadPrior \/ Upsert
             \/ decideForRepo("gate") \/ ReadRun("gate") \/ Send("gate")
    <3>1. actor["gate"].at # "idle" /\ UNCHANGED <<head, heard>>
      BY <2>4 DEF resolveClaState, ReadPrior, Upsert, decideForRepo, ReadRun, Send, IsAt
    <3>2. actor'["gate"].sha = actor["gate"].sha
      BY <2>4, ResolveDoes, ReadPriorDoes, UpsertDoes, DecideDoes, ReadRunDoes, SendDoes
    <3> QED BY <3>1, <3>2 DEF OnHead, IsAt
  <2>5. CASE WriteRun("gate") \/ SendFails("gate")
    <3>1. /\ actor["gate"].at \in {"send", "write"} /\ Published("gate")
          /\ UNCHANGED <<head, heard>>
      BY <2>5 DEF WriteRun, SendFails, IsAt
    <3>2. actor'["gate"].sha = actor["gate"].sha \/ actor'["gate"].at = "idle"
      BY <3>1, PublishedDoes
    <3> QED BY <3>1, <3>2 DEF OnHead, IsAt
  <2> QED BY <1>5, <2>1, <2>2, <2>3, <2>4, <2>5 DEF GateMoves
<1> QED BY <1>1, <1>2, <1>3, <1>4, <1>5, WhoMoves

(* Nothing was left at another commit than the one it is for: a row's runs are    *)
(* of its commit, the gate still finds the row it read, a call sends to and        *)
(* writes back a run of the commit it publishes on.                                *)
RowHasItsRuns == \A c \in Check : row.id[c] # NoRun => row.id[c][1] = row.sha
PriorStands == IsAt("gate", "upsert") => actor["gate"].prior = row.sha
CallsHaveTheirRuns ==
  \A a \in Actors : /\ IsAt(a, "send") => Target(actor[a]) = actor[a].sha
                    /\ IsAt(a, "write") => actor[a].id[1] = actor[a].sha

(* The gate has yet to hear of the head, or to write the row; or to send a check. *)
GateAhead == heard < head \/ actor["gate"].at \in Before
Awaits(c) ==
  \/ GateAhead
  \/ actor["gate"].at \in {"read", "send"} /\ actor["gate"].check \in {c, "decision"}
  \/ IsAt("gate", "write") /\ actor["gate"].check = "decision" /\ c = "cla"

HeadServed == \A c \in Check : Awaits(c) \/ Len(runs[c][head]) >= 1
RowStands == row.sha = head \/ GateAhead

Placed ==
  "displaced" \notin seen =>
    RowHasItsRuns /\ PriorStands /\ CallsHaveTheirRuns /\ HeadServed /\ RowStands

LEMMA MovesOne ==
  ASSUME CallTypes, NEW a \in Actors,
         (a = "gate" /\ GateMoves) \/ (a \in Drives /\ DriveMoves(a))
  PROVE  /\ actor' \in [Actors -> Calls] /\ Others(a)
         /\ actor'[a].at \notin {"send", "write"} \/ ReadRun(a) \/ Send(a)
         /\ actor'[a].at # "upsert" \/ (a = "gate" /\ ReadPrior)
<1>1. CASE Ends(a)
  BY <1>1, EndsDoes
<1>2. CASE SendFails(a) \/ WriteRun(a)
  BY <1>2, PublishedDoes DEF SendFails, WriteRun, IsAt
<1>3. CASE ReadRun(a) \/ Send(a) \/ (decideForRepo(a) /\ ~ Ends(a))
  BY <1>3, ReadRunDoes, SendDoes, DecideDoes
<1>4. CASE a = "gate" /\ (ReGate \/ TakeEvent \/ resolveClaState \/ ReadPrior \/ Upsert \/ ConvergeRetried)
  BY <1>4, ReGateDoes, TakeEventDoes, ResolveDoes, ReadPriorDoes, UpsertDoes, RetriedDoes
<1>5. CASE a \in Drives /\ (CoverageChanges(a) \/ Sweep(a) \/ (ListRow(a) /\ ~ Ends(a)) \/ DriveDies(a))
  BY <1>5, CoverageChangesDoes, SweepDoes, ListRowDoes, DiesDoes
<1>6. CASE a \in Drives /\ Flip(a)
  BY <1>1, <1>6 DEF Flip
<1> QED BY <1>1, <1>2, <1>3, <1>4, <1>5, <1>6 DEF GateMoves, DriveMoves

(* On its way up to its writing the row, the gate has all before it; and after   *)
(* that what it has not sent.                                                     *)
LEMMA AwaitsAll ==
  ASSUME CallTypes,
         \/ ReGate \/ TakeEvent \/ ConvergeRetried \/ resolveClaState \/ ReadPrior
         \/ decideForRepo("gate") \/ Upsert
  PROVE  (\A c \in Check : Awaits(c)') /\ (Upsert \/ GateAhead')
<1>1. CASE Upsert
  <2>1. actor["gate"].at = "upsert"
    BY <1>1 DEF Upsert, IsAt
  <2>2. actor["gate"].check = "decision"
    BY <2>1, GateIsNoDrive DEF CallTypes, CallInv, Before
  <2>3. actor'["gate"].at = "read" /\ actor'["gate"].check = "decision"
    BY <1>1, <2>2, UpsertDoes
  <2> QED BY <1>1, <2>3 DEF Awaits
<1>2. CASE ReGate \/ TakeEvent \/ ConvergeRetried \/ resolveClaState \/ ReadPrior \/ decideForRepo("gate")
  <2>1. actor'["gate"].at \in Before
    BY <1>2, GateIsNoDrive, ReGateDoes, TakeEventDoes, RetriedDoes, ResolveDoes, ReadPriorDoes, DecideDoes DEF Before
  <2> QED BY <2>1 DEF Awaits, GateAhead
<1> QED BY <1>1, <1>2

LEMMA AwaitsStill ==
  ASSUME CallTypes, NEW c \in Check, Awaits(c), ReadRun("gate") \/ Send("gate") \/ WriteRun("gate"),
         Send("gate") => c # actor["gate"].check
  PROVE  Awaits(c)'
<1> USE GateIsNoDrive
<1>1. UNCHANGED <<head, heard>> /\ actor["gate"].at \notin Before
  BY DEF ReadRun, Send, WriteRun, IsAt, Before
<1>2. CASE heard < head
  BY <1>1, <1>2 DEF Awaits, GateAhead
<1>3. CASE ~ (heard < head)
  <2>1. \/ actor["gate"].at \in {"read", "send"} /\ actor["gate"].check \in {c, "decision"}
        \/ IsAt("gate", "write") /\ actor["gate"].check = "decision" /\ c = "cla"
    BY <1>1, <1>3 DEF Awaits, GateAhead
  <2>2. CASE ReadRun("gate")
    BY <2>1, <2>2, ReadRunDoes DEF Awaits, ReadRun, IsAt
  <2>3. CASE Send("gate")
    BY <2>1, <2>3, SendDoes DEF Awaits, Send, IsAt, Check
  <2>4. CASE WriteRun("gate")
    <3>1. actor["gate"].at = "write" /\ Published("gate")
      BY <2>4 DEF WriteRun, IsAt
    <3>2. actor["gate"].check = "decision" /\ c = "cla"
      BY <2>1, <3>1 DEF IsAt
    <3> QED BY <3>1, <3>2, PublishedDoes DEF Awaits
  <2> QED BY <2>2, <2>3, <2>4
<1> QED BY <1>2, <1>3

LEMMA AwaitsBeside ==
  ASSUME actor'["gate"] = actor["gate"], UNCHANGED <<head, heard>>
  PROVE  (GateAhead' <=> GateAhead) /\ \A c \in Check : Awaits(c)' <=> Awaits(c)
BY DEF GateAhead, Awaits, IsAt

(* Where a call's run goes to, once nothing is displaced: its own commit. *)
LEMMA SendsToItsCommit ==
  ASSUME CallTypes, CallsHaveTheirRuns, NEW a \in Actors, Send(a)
  PROVE  LET call == actor[a]
             k == call.check
             h == call.sha
         IN /\ k \in Check /\ h \in 1..MaxHead
            /\ \A c \in Check, x \in 1..MaxHead : c # k \/ x # h => runs'[c][x] = runs[c][x]
            /\ Len(runs'[k][h]) >= 1
            /\ Len(runs'[k][h]) = 1 => runs'[k][h][1] = Verdict(call)
<1>1. IsAt(a, "send") /\ upsertCheckRun(actor[a])
  BY DEF Send
<1>2. Target(actor[a]) = actor[a].sha
  BY <1>1 DEF CallsHaveTheirRuns
<1> QED BY <1>1, <1>2, Upserts

LEMMA CallsHaveTheirRunsStep ==
  ASSUME CallTypes, RowHasItsRuns, CallsHaveTheirRuns, NEW a \in Actors,
         (a = "gate" /\ GateMoves) \/ (a \in Drives /\ DriveMoves(a))
  PROVE  CallsHaveTheirRuns'
<1>1. Others(a) /\ (actor'[a].at \notin {"send", "write"} \/ ReadRun(a) \/ Send(a))
  BY MovesOne
<1>2. \A b \in Actors : b # a => actor'[b] = actor[b]
  BY <1>1 DEF Others
<1>3. actor[a] \in Calls /\ actor[a].check \in Check
  BY DEF CallTypes, Calls
<1>4. CASE ReadRun(a)
  <2>1. /\ actor'[a].at = "send" /\ actor'[a].sha = actor[a].sha
        /\ actor'[a].id = Stored(actor[a])
    BY <1>4, ReadRunDoes
  <2>2. Stored(actor[a]) = NoRun \/ Stored(actor[a])[1] = actor[a].sha
    BY <1>3 DEF Stored, RowHasItsRuns
  <2>3. Target(actor'[a]) = actor'[a].sha
    BY <2>1, <2>2 DEF Target, Posts
  <2> QED BY <1>2, <2>1, <2>3 DEF CallsHaveTheirRuns, IsAt, Target, Posts
<1>5. CASE Send(a)
  <2>1. /\ actor'[a].at = "write" /\ actor'[a].sha = actor[a].sha
        /\ actor'[a].id = IF Posts(actor[a]) THEN <<actor[a].sha, Len(On(actor[a])) + 1>>
                          ELSE actor[a].id
    BY <1>5, SendDoes
  <2>2. Target(actor[a]) = actor[a].sha
    BY <1>5 DEF Send, CallsHaveTheirRuns
  <2>3. actor'[a].id[1] = actor'[a].sha
    BY <2>1, <2>2 DEF Target
  <2> QED BY <1>2, <2>1, <2>3 DEF CallsHaveTheirRuns, IsAt, Target, Posts
<1>6. CASE actor'[a].at \notin {"send", "write"}
  BY <1>2, <1>6 DEF CallsHaveTheirRuns, IsAt, Target, Posts
<1> QED BY <1>1, <1>4, <1>5, <1>6

(* Every step of the gate but the ones that publish leaves the runs; and only     *)
(* those that write the row touch it.                                             *)
LEMMA GateLeaves ==
  ASSUME CallTypes, GateMoves
  PROVE  /\ head' = head /\ RunsGrow
         /\ Upsert \/ WriteRun("gate") \/ row' = row
         /\ Upsert \/ seen \subseteq seen'
         /\ Send("gate") \/ SendFails("gate") \/ runs' = runs
<1> USE GateIsNoDrive
<1>1. head' = head /\ (Upsert \/ WriteRun("gate") \/ row' = row) /\ (Upsert \/ seen \subseteq seen')
  BY DEF GateMoves, ReGate, TakeEvent, resolveClaState, ReadPrior, Upsert, ConvergeRetried, decideForRepo, ReadRun,
         Send, WriteRun, SendFails
<1>2. Send("gate") \/ SendFails("gate") \/ runs' = runs
  BY DEF GateMoves, ReGate, TakeEvent, resolveClaState, ReadPrior, Upsert, ConvergeRetried, decideForRepo, ReadRun,
         WriteRun
<1>3. CASE Send("gate")
  <2>1. IsAt("gate", "send") /\ upsertCheckRun(actor["gate"])
    BY <1>3 DEF Send
  <2> QED BY <1>1, <1>3, <2>1, Upserts DEF RunsGrow
<1> QED BY <1>1, <1>2, <1>3, SendFailsRuns, RunsStay

LEMMA LenKept ==
  ASSUME CallTypes, RunsGrow, head' = head, NEW c \in Check, Len(runs[c][head]) >= 1
  PROVE  Len(runs'[c][head']) >= 1
<1>1. runs[c][head] \in Seq(BOOLEAN) /\ runs'[c][head] \in Seq(BOOLEAN) /\ head \in 1..MaxHead
  BY DEF CallTypes, RunsGrow
<1>2. Len(runs[c][head]) \in Nat /\ Len(runs'[c][head]) \in Nat
  BY <1>1
<1> QED BY <1>1, <1>2 DEF RunsGrow

(* The gate writes its row: the old ids go, or are those of the commit it names.    *)
(* Where the note of displaced ones is taken back, no drive is about.              *)
LEMMA PlacedUpsert ==
  ASSUME CallTypes, OnHead, Placed, Upsert
  PROVE  Placed'
<1> USE GateIsNoDrive
<1> SUFFICES ASSUME "displaced" \notin seen'
             PROVE  RowHasItsRuns' /\ PriorStands' /\ CallsHaveTheirRuns' /\ HeadServed' /\ RowStands'
  BY DEF Placed
<1>1. /\ actor["gate"].at = "upsert" /\ UNCHANGED <<head, heard>>
      /\ actor'["gate"].at = "read" /\ actor'["gate"].sha = actor["gate"].sha
      /\ row'.sha = actor["gate"].sha
      /\ row'.id = IF actor["gate"].prior # actor["gate"].sha THEN NoRuns ELSE row.id
  BY UpsertDoes DEF Upsert, IsAt
<1>2. \/ Undisturbed /\ actor["gate"].prior # actor["gate"].sha
      \/ "displaced" \notin seen
  BY DEF Upsert
<1>3. RowHasItsRuns'
  <2>1. CASE actor["gate"].prior # actor["gate"].sha
    BY <1>1, <2>1 DEF RowHasItsRuns, NoRuns
  <2>2. CASE actor["gate"].prior = actor["gate"].sha
    <3>1. row.sha = actor["gate"].sha /\ RowHasItsRuns
      BY <1>1, <1>2, <2>2 DEF Placed, PriorStands, IsAt
    <3> QED BY <1>1, <2>2, <3>1 DEF RowHasItsRuns
  <2> QED BY <2>1, <2>2
<1>4. PriorStands'
  BY <1>1 DEF PriorStands, IsAt
<1>5. CallsHaveTheirRuns'
  <2>1. CASE "displaced" \notin seen
    BY <2>1, CallsHaveTheirRunsStep DEF Placed, GateMoves
  <2>2. CASE Undisturbed
    <3>1. \A d \in Drives : actor'[d].at = "idle"
      BY <2>2, UpsertDoes DEF Undisturbed, Others, IsAt
    <3> QED BY <1>1, <3>1 DEF CallsHaveTheirRuns, IsAt, Actors
  <2> QED BY <1>2, <2>1, <2>2
<1>6. HeadServed'
  BY AwaitsAll DEF HeadServed
<1>7. RowStands'
  <2>1. heard < head \/ heard = head
    BY DEF CallTypes
  <2> QED BY <1>1, <2>1 DEF RowStands, GateAhead, OnHead, IsAt
<1> QED BY <1>3, <1>4, <1>5, <1>6, <1>7

LEMMA PlacedGate ==
  ASSUME CallTypes, OnHead, Placed, GateMoves, ~ Upsert
  PROVE  Placed'
<1> USE GateIsNoDrive
<1> SUFFICES ASSUME "displaced" \notin seen'
             PROVE  RowHasItsRuns' /\ PriorStands' /\ CallsHaveTheirRuns' /\ HeadServed' /\ RowStands'
  BY DEF Placed
<1>1. /\ head' = head /\ RunsGrow /\ (WriteRun("gate") \/ row' = row) /\ seen \subseteq seen'
      /\ Send("gate") \/ SendFails("gate") \/ runs' = runs
  BY GateLeaves
<1>2. RowHasItsRuns /\ PriorStands /\ CallsHaveTheirRuns /\ HeadServed /\ RowStands
  BY <1>1 DEF Placed
<1>3. ~ SendFails("gate")
  BY DEF SendFails
<1>4. WriteRun("gate") => actor["gate"].at = "write" /\ row.sha = actor["gate"].sha /\ actor["gate"].check \in Check
  BY DEF WriteRun, IsAt, CallTypes, Calls
<1>5. row'.sha = row.sha
  BY <1>1, <1>4, WritesRow
<1>6. RowHasItsRuns'
  <2>1. CASE row' = row
    BY <1>2, <2>1 DEF RowHasItsRuns
  <2>2. CASE WriteRun("gate")
    <3>1. actor["gate"].id[1] = row.sha
      BY <1>2, <1>4, <2>2 DEF CallsHaveTheirRuns, IsAt
    <3>2. \A c \in Check : row'.id[c] = IF c = actor["gate"].check THEN actor["gate"].id ELSE row.id[c]
      BY <2>2, WritesRow
    <3> QED BY <1>2, <1>5, <3>1, <3>2 DEF RowHasItsRuns
  <2> QED BY <1>1, <2>1, <2>2
<1>7. PriorStands'
  <2>1. CASE ReadPrior
    BY <1>5, <2>1, ReadPriorDoes DEF PriorStands
  <2>2. CASE ~ ReadPrior
    BY <2>2, MovesOne DEF PriorStands, IsAt
  <2> QED BY <2>1, <2>2
<1>8. CallsHaveTheirRuns'
  BY <1>2, CallsHaveTheirRunsStep
<1>9. CASE ReGate \/ TakeEvent \/ ConvergeRetried \/ resolveClaState \/ ReadPrior \/ decideForRepo("gate")
  BY <1>6, <1>7, <1>8, <1>9, AwaitsAll DEF HeadServed, RowStands
<1>10. CASE ReadRun("gate") \/ Send("gate") \/ WriteRun("gate")
  <2>1. RowStands'
    <3>1. heard' = heard /\ actor["gate"].at \notin Before
      BY <1>10 DEF ReadRun, Send, WriteRun, IsAt, Before
    <3> QED BY <1>1, <1>2, <1>5, <3>1 DEF RowStands, GateAhead
  <2>2. ASSUME NEW c \in Check, Send("gate") => c # actor["gate"].check
        PROVE  Awaits(c)' \/ Len(runs'[c][head']) >= 1
    BY <1>1, <1>2, <1>10, <2>2, AwaitsStill, LenKept DEF HeadServed
  <2>3. ASSUME NEW c \in Check, Send("gate"), c = actor["gate"].check
        PROVE  Awaits(c)' \/ Len(runs'[c][head']) >= 1
    <3>1. actor["gate"].at = "send" /\ heard' = heard
      BY <2>3 DEF Send, IsAt
    <3>2. CASE heard < head
      BY <1>1, <3>1, <3>2 DEF Awaits, GateAhead
    <3>3. CASE ~ (heard < head)
      <4>1. actor["gate"].sha = head
        BY <3>1, <3>3 DEF OnHead, IsAt, CallTypes
      <4>2. Len(runs'[c][head]) >= 1
        BY <1>2, <2>3, <4>1, SendsToItsCommit
      <4> QED BY <1>1, <4>2
    <3> QED BY <3>2, <3>3
  <2>4. HeadServed'
    BY <2>2, <2>3 DEF HeadServed
  <2> QED BY <1>6, <1>7, <1>8, <2>1, <2>4
<1> QED BY <1>3, <1>9, <1>10 DEF GateMoves

LEMMA PlacedDrive ==
  ASSUME CallTypes, Placed, NEW d \in Drives, DriveMoves(d)
  PROVE  Placed'
<1> USE GateIsNoDrive
<1> SUFFICES ASSUME "displaced" \notin seen'
             PROVE  RowHasItsRuns' /\ PriorStands' /\ CallsHaveTheirRuns' /\ HeadServed' /\ RowStands'
  BY DEF Placed
<1>1. /\ actor'["gate"] = actor["gate"] /\ UNCHANGED <<head, heard>> /\ RunsGrow
      /\ seen \subseteq seen' /\ row'.sha = row.sha /\ (row'.id = row.id \/ WriteRun(d))
  BY DriveLeaves
<1>2. RowHasItsRuns /\ PriorStands /\ CallsHaveTheirRuns /\ HeadServed /\ RowStands
  BY <1>1 DEF Placed
<1>3. (GateAhead' <=> GateAhead) /\ \A c \in Check : Awaits(c)' <=> Awaits(c)
  BY <1>1, AwaitsBeside
<1>4. RowHasItsRuns'
  <2>1. CASE row'.id = row.id
    BY <1>1, <1>2, <2>1 DEF RowHasItsRuns
  <2>2. CASE WriteRun(d)
    <3>1. actor[d].at = "write" /\ row.sha = actor[d].sha
      BY <2>2 DEF WriteRun, IsAt
    <3>2. actor[d].id[1] = row.sha
      BY <1>2, <3>1 DEF CallsHaveTheirRuns, IsAt
    <3>3. \A c \in Check : row'.id[c] = IF c = actor[d].check THEN actor[d].id ELSE row.id[c]
      BY <2>2, WritesRow
    <3> QED BY <1>1, <1>2, <3>2, <3>3 DEF RowHasItsRuns
  <2> QED BY <1>1, <2>1, <2>2
<1>5. PriorStands'
  BY <1>1, <1>2 DEF PriorStands, IsAt
<1>6. CallsHaveTheirRuns'
  BY <1>2, CallsHaveTheirRunsStep
<1>7. HeadServed'
  BY <1>1, <1>2, <1>3, LenKept DEF HeadServed
<1>8. RowStands'
  BY <1>1, <1>2, <1>3 DEF RowStands
<1> QED BY <1>4, <1>5, <1>6, <1>7, <1>8

LEMMA PlacedStep ==
  ASSUME CallTypes, OnHead, Placed, ClaGateNext \/ UNCHANGED claGateVars
  PROVE  Placed'
<1>1. CASE UNCHANGED claGateVars \/ CoverageChangesUntold
  <2>1. UNCHANGED <<head, runs, row, heard, actor>> /\ seen \subseteq seen'
    BY <1>1 DEF claGateVars, CoverageChangesUntold
  <2> QED BY <2>1 DEF Placed, RowHasItsRuns, PriorStands, CallsHaveTheirRuns, HeadServed, RowStands, Awaits,
                      GateAhead, IsAt
<1>2. CASE Push
  <2>1. heard' < head' /\ UNCHANGED <<row, actor, seen>>
    BY <1>2 DEF Push, CallTypes
  <2> QED BY <2>1 DEF Placed, RowHasItsRuns, PriorStands, CallsHaveTheirRuns, HeadServed, RowStands, Awaits,
                      GateAhead, IsAt
<1> QED BY <1>1, <1>2, WhoMoves, PlacedUpsert, PlacedGate, PlacedDrive

LEMMA PlacedInit ==
  ASSUME ClaGateInit
  PROVE  OnHead /\ Placed
<1>1. /\ \A a \in Actors : actor[a].at = "idle"
      /\ \A c \in Check : row.id[c] = <<1, 1>> /\ runs[c][head] = <<covered>>
      /\ row.sha = 1 /\ head = 1
  BY ClaGateAssumption, GateIsNoDrive DEF ClaGateInit, Idle
<1>2. Len(<<covered>>) = 1
  OBVIOUS
<1>3. HeadServed
  BY <1>1, <1>2 DEF HeadServed
<1>4. RowHasItsRuns /\ RowStands
  BY <1>1 DEF RowHasItsRuns, RowStands
<1>5. PriorStands /\ CallsHaveTheirRuns /\ OnHead
  BY <1>1, GateIsNoDrive DEF PriorStands, CallsHaveTheirRuns, OnHead, IsAt
<1> QED BY <1>3, <1>4, <1>5 DEF Placed

(* When nothing is under way, both checks stand on the head. The gate still awaits *)
(* what it has not put there (HeadServed), and it puts it there, because it holds  *)
(* the head (OnHead) and patches no run of another commit (CallsHaveTheirRuns):    *)
(* for that the row must not be pointed back (RowHasItsRuns, PriorStands).         *)
THEOREM HeadIsServed == ClaGateSpec => []HeadHasItsChecks
<1>1. CallTypes /\ Placed => HeadHasItsChecks
  <2> SUFFICES ASSUME CallTypes, Placed, Quiet, "displaced" \notin seen, NEW c \in Check
               PROVE  runs[c][head] # << >>
    BY DEF HeadHasItsChecks
  <2>1. actor["gate"].at = "idle" /\ ~ (heard < head)
    BY GateIsNoDrive DEF Quiet, IsAt, CallTypes
  <2>2. ~ Awaits(c)
    BY <2>1 DEF Awaits, GateAhead, IsAt, Before
  <2>3. Len(runs[c][head]) >= 1
    BY <2>2 DEF Placed, HeadServed
  <2> QED BY <2>3
<1>2. CallTypes /\ OnHead /\ Placed /\ [ClaGateNext]_claGateVars => (CallTypes /\ OnHead /\ Placed)'
  BY CallTypesStep, OnHeadStep, PlacedStep
<1> QED BY <1>1, <1>2, CallTypesInit, PlacedInit, PTL DEF ClaGateSpec

-----------------------------------------------------------------------------
(* What a call has asked since coverage last changed is what coverage is. *)
Verdicts ==
  \A a \in Actors : LET call == actor[a] IN
    call.asked = turns /\ call.at \notin {"idle", "list", "decide"} =>
      /\ a # "gate" \/ call.check = "decision" => call.pass = covered
      /\ call.at # "flip" => call.cla = covered

LEMMA VerdictsStep ==
  ASSUME CallTypes, Verdicts, ClaGateNext \/ UNCHANGED claGateVars
  PROVE  Verdicts'
<1> USE GateIsNoDrive
<1> DEFINE Says(a) ==
      actor[a].asked = turns /\ actor[a].at \notin {"idle", "list", "decide"} =>
        /\ a # "gate" \/ actor[a].check = "decision" => actor[a].pass = covered
        /\ actor[a].at # "flip" => actor[a].cla = covered
<1>1. CASE UNCHANGED claGateVars \/ Push
  BY <1>1 DEF claGateVars, steps, Push, Verdicts
<1>2. CASE CoverageChangesUntold
  <2>1. turns' = turns + 1 /\ actor' = actor /\ turns \in Nat
    BY <1>2 DEF CoverageChangesUntold, Turn, CallTypes
  <2>2. \A a \in Actors : actor[a].asked <= turns /\ actor[a].asked \in Nat
    BY DEF CallTypes, CallInv, Calls
  <2>3. \A a \in Actors : actor'[a].asked # turns'
    BY <2>1, <2>2
  <2> QED BY <2>3 DEF Verdicts
<1>3. ASSUME NEW d \in Drives, CoverageChanges(d)
      PROVE  Verdicts'
  <2>1. turns' = turns + 1 /\ turns \in Nat
    BY <1>3 DEF CoverageChanges, Turn, CallTypes
  <2>2. \A a \in Actors : actor[a].asked <= turns /\ actor[a].asked \in Nat
    BY DEF CallTypes, CallInv, Calls
  <2>3. actor'[d].at = "list" /\ Others(d)
    BY <1>3, CoverageChangesDoes
  <2>4. \A a \in Actors : actor'[a].at = "list" \/ actor'[a].asked # turns'
    BY <2>1, <2>2, <2>3 DEF Others
  <2> QED BY <2>4 DEF Verdicts
<1>4. ASSUME NEW a \in Actors,
             (a = "gate" /\ GateMoves) \/ (a \in Drives /\ DriveMoves(a) /\ ~ CoverageChanges(a))
      PROVE  Verdicts'
  <2>1. Others(a) /\ UNCHANGED <<turns, covered>>
    <3>1. Others(a)
      BY <1>4, MovesOne
    <3>2. UNCHANGED <<turns, covered>>
      BY <1>4 DEF GateMoves, DriveMoves, ReGate, TakeEvent, resolveClaState, ReadPrior, Upsert, ConvergeRetried,
             Sweep, ListRow, Flip, DriveDies, decideForRepo, ReadRun, Send, WriteRun, SendFails, steps, Other
    <3> QED BY <3>1, <3>2
  <2>2. Says(a)
    BY DEF Verdicts
  <2>3. Says(a)'
    <3>1. CASE Ends(a)
      BY <3>1, EndsDoes
    <3>2. CASE SendFails(a) \/ WriteRun(a)
      <4>1. Published(a) /\ actor[a].at \in {"send", "write"}
        BY <3>2 DEF SendFails, WriteRun, IsAt
      <4>2. /\ actor[a].asked = turns => actor[a].cla = covered
            /\ actor[a].asked = turns /\ a # "gate" => actor[a].pass = covered
        BY <2>2, <4>1
      <4>3. actor'[a].at \notin {"idle", "list", "decide"} => actor'[a].asked = actor[a].asked
        BY <4>1, PublishedDoes
      <4>4. actor'[a].at \notin {"idle", "list", "decide", "flip"} => actor'[a].cla = actor[a].cla
        BY <4>1, PublishedDoes
      <4>5. actor'[a].at \notin {"idle", "list", "decide"} /\ a # "gate" => actor'[a].pass = actor[a].pass
        BY <4>1, PublishedDoes
      <4>6. actor'[a].at \notin {"idle", "list", "decide"} /\ a = "gate" => actor'[a].check # "decision"
        BY <4>1, PublishedDoes
      <4> QED BY <2>1, <4>2, <4>3, <4>4, <4>5, <4>6
    <3>3. CASE decideForRepo(a) /\ ~ Ends(a)
      BY <2>1, <3>3, DecideDoes
    <3>4. CASE ReadRun(a)
      BY <2>1, <2>2, <3>4, ReadRunDoes DEF ReadRun, IsAt
    <3>5. CASE Send(a)
      BY <2>1, <2>2, <3>5, SendDoes DEF Send, IsAt
    <3>6. CASE a = "gate" /\ (ReGate \/ TakeEvent \/ ConvergeRetried)
      BY <3>6, ReGateDoes, TakeEventDoes, RetriedDoes
    <3>7. CASE a = "gate" /\ resolveClaState
      BY <2>1, <2>2, <3>7, ResolveDoes DEF resolveClaState, IsAt, CallTypes
    <3>8. CASE a = "gate" /\ ReadPrior
      BY <2>1, <2>2, <3>8, ReadPriorDoes DEF ReadPrior, IsAt
    <3>9. CASE a = "gate" /\ Upsert
      BY <2>1, <2>2, <3>9, UpsertDoes DEF Upsert, IsAt
    <3>10. CASE a \in Drives /\ (Sweep(a) \/ (ListRow(a) /\ ~ Ends(a)) \/ DriveDies(a))
      BY <3>10, SweepDoes, ListRowDoes, DiesDoes
    <3>11. CASE a \in Drives /\ Flip(a)
      BY <3>1, <3>11 DEF Flip
    <3> QED BY <1>4, <3>1, <3>2, <3>3, <3>4, <3>5, <3>6, <3>7, <3>8, <3>9, <3>10, <3>11 DEF GateMoves, DriveMoves
  <2>4. ASSUME NEW b \in Actors
        PROVE  Says(b)'
    <3>1. CASE b = a
      BY <2>3, <3>1
    <3>2. CASE b # a
      <4>1. Says(b) /\ actor'[b] = actor[b]
        BY <2>1, <3>2 DEF Verdicts, Others
      <4> QED BY <2>1, <4>1
    <3> QED BY <3>1, <3>2
  <2> QED BY <2>4 DEF Verdicts
<1> QED BY <1>1, <1>2, <1>3, <1>4, WhoMoves

(* What an uncovered or covered author is still owed. A drive is after the row     *)
(* that is wrong, or carries what it decided.                                       *)
After(d) ==
  \/ actor[d].at \in {"list", "decide"} /\ (actor[d].as = "both" \/ (actor[d].as = "gain" <=> covered))
  \/ actor[d].at \in Publishing \cup {"flip"}
Carries(d) == actor[d].at \in Publishing \cup {"flip"}

(* Of a check that is alone on the head: whether it says what the row says, or     *)
(* what coverage is.                                                                *)
Alone(c) == Len(runs[c][head]) = 1
Agrees(c) == Alone(c) => StatusOf(runs[c][head][1]) = row.status
SaysSo(c) == Alone(c) => runs[c][head][1] = covered

(* The drive has sent this check of the row's commit. *)
HasSent(d, c) ==
  \/ actor[d].at = "flip"
  \/ /\ actor[d].sha = row.sha
     /\ \/ actor[d].at = "write" /\ (actor[d].check = c \/ c = "decision")
        \/ actor[d].at \in {"read", "send"} /\ actor[d].check = "cla" /\ c = "decision"

RowComes == row.status = StatusOf(covered) \/ actor["gate"].at \in Before \/ \E d \in Drives : After(d)
ChecksCome == \A c \in Check : Agrees(c) \/ Awaits(c) \/ \E d \in Drives : Carries(d)
SentSayIt ==
  \A d \in Drives, c \in Check : actor[d].asked = turns /\ HasSent(d, c) => SaysSo(c) \/ Awaits(c)
RowIsGates ==
  LET call == actor["gate"] IN
    call.asked = turns /\ (call.at \in {"read", "send"} \/ (call.at = "write" /\ call.check = "decision"))
      => row.status = StatusOf(covered)

Settles == seen = {} => RowComes /\ ChecksCome /\ SentSayIt /\ RowIsGates

LEMMA DriveTurnsNothing ==
  ASSUME NEW a, (a = "gate" /\ GateMoves) \/ (DriveMoves(a) /\ ~ CoverageChanges(a))
  PROVE  turns' = turns /\ covered' = covered
BY DEF GateMoves, DriveMoves, ReGate, TakeEvent, resolveClaState, ReadPrior, Upsert, ConvergeRetried,
       Sweep, ListRow, Flip, DriveDies, decideForRepo, ReadRun, Send, WriteRun, SendFails, steps, Other

(* What is sent says what coverage is; what is not sent to says what it said. *)
LEMMA SendSays ==
  ASSUME CallTypes, Verdicts, CallsHaveTheirRuns, NEW a \in Actors, Send(a), actor[a].asked = turns,
         NEW c \in Check, SaysSo(c) \/ (c = actor[a].check /\ actor[a].sha = head)
  PROVE  SaysSo(c)'
<1>1. head' = head /\ covered' = covered /\ actor[a].at = "send" /\ head \in 1..MaxHead
  BY DEF Send, CallTypes, IsAt
<1>2. CASE c = actor[a].check /\ actor[a].sha = head
  <2>1. Verdict(actor[a]) = covered
    BY <1>1 DEF Verdict, Verdicts
  <2> QED BY <1>1, <1>2, <2>1, SendsToItsCommit DEF SaysSo, Alone
<1>3. CASE c # actor[a].check \/ actor[a].sha # head
  <2>1. runs'[c][head] = runs[c][head]
    BY <1>1, <1>3, SendsToItsCommit
  <2> QED BY <1>1, <1>3, <2>1 DEF SaysSo, Alone
<1> QED BY <1>2, <1>3

LEMMA SaysAndAgrees ==
  ASSUME NEW c \in Check, SaysSo(c), row.status = StatusOf(covered)
  PROVE  Agrees(c)
BY DEF SaysSo, Agrees, Alone

LEMMA SettlesUpsert ==
  ASSUME CallTypes, Verdicts, Upsert
  PROVE  Settles'
<1> USE GateIsNoDrive
<1> SUFFICES ASSUME seen' = {}
             PROVE  RowComes' /\ ChecksCome' /\ SentSayIt' /\ RowIsGates'
  BY DEF Settles
<1>1. actor["gate"].asked = turns /\ actor["gate"].at = "upsert"
  BY DEF Upsert, Outdated, IsAt
<1>2. actor["gate"].check = "decision"
  BY <1>1 DEF CallTypes, CallInv, Before
<1>3. actor["gate"].pass = covered
  BY <1>1, <1>2 DEF Verdicts
<1>4. row'.status = StatusOf(covered) /\ covered' = covered
  BY <1>3, UpsertDoes DEF Upsert
<1>5. RowComes' /\ RowIsGates'
  BY <1>4 DEF RowComes, RowIsGates
<1>6. \A c \in Check : Awaits(c)'
  BY AwaitsAll
<1> QED BY <1>5, <1>6 DEF ChecksCome, SentSayIt

LEMMA SettlesGate ==
  ASSUME CallTypes, OnHead, Placed, Verdicts, Settles, GateMoves, ~ Upsert
  PROVE  Settles'
<1> USE GateIsNoDrive
<1> SUFFICES ASSUME seen' = {}
             PROVE  RowComes' /\ ChecksCome' /\ SentSayIt' /\ RowIsGates'
  BY DEF Settles
<1>1. /\ head' = head /\ (WriteRun("gate") \/ row' = row) /\ seen = {}
      /\ Send("gate") \/ SendFails("gate") \/ runs' = runs
  BY GateLeaves
<1>2. RowComes /\ ChecksCome /\ SentSayIt /\ RowIsGates /\ CallsHaveTheirRuns
  BY <1>1 DEF Settles, Placed
<1>3. turns' = turns /\ covered' = covered
  BY DriveTurnsNothing
<1>4. \A d \in Drives : actor'[d] = actor[d]
  BY MovesOne DEF Others
<1>5. ~ SendFails("gate")
  BY DEF SendFails
<1>6. CASE ReGate \/ TakeEvent \/ ConvergeRetried \/ resolveClaState \/ ReadPrior \/ decideForRepo("gate")
  <2>1. actor'["gate"].at \in Before
    BY <1>6, ReGateDoes, TakeEventDoes, RetriedDoes, ResolveDoes, ReadPriorDoes, DecideDoes DEF Before
  <2>2. \A c \in Check : Awaits(c)'
    BY <1>6, AwaitsAll
  <2> QED BY <2>1, <2>2 DEF RowComes, ChecksCome, SentSayIt, RowIsGates, Before
<1>7. CASE ReadRun("gate") \/ Send("gate") \/ WriteRun("gate")
  <2>1. row'.status = row.status /\ row'.sha = row.sha
    <3>1. CASE row' = row
      BY <3>1
    <3>2. CASE WriteRun("gate")
      BY <3>2, WritesRow DEF WriteRun
    <3> QED BY <1>1, <3>1, <3>2
  <2>2. actor["gate"].at \notin Before
    BY <1>7 DEF ReadRun, Send, WriteRun, IsAt, Before
  <2>3. RowComes'
    BY <1>2, <1>3, <1>4, <2>1, <2>2 DEF RowComes, After
  <2>4. RowIsGates'
    <3>1. CASE ReadRun("gate")
      BY <1>2, <1>3, <2>1, <3>1, ReadRunDoes DEF RowIsGates, ReadRun, IsAt
    <3>2. CASE Send("gate")
      BY <1>2, <1>3, <2>1, <3>2, SendDoes DEF RowIsGates, Send, IsAt
    <3>3. CASE WriteRun("gate")
      <4>1. actor["gate"].at = "write" /\ Published("gate")
        BY <3>3 DEF WriteRun, IsAt
      <4> QED BY <1>2, <1>3, <2>1, <4>1, PublishedDoes DEF RowIsGates
    <3> QED BY <1>7, <3>1, <3>2, <3>3
  <2>5. ASSUME NEW c \in Check, Send("gate") => c # actor["gate"].check
        PROVE  /\ Awaits(c) => Awaits(c)'
               /\ Agrees(c) => Agrees(c)'
               /\ SaysSo(c) => SaysSo(c)'
    <3>1. Awaits(c) => Awaits(c)'
      BY <1>7, <2>5, AwaitsStill
    <3>2. runs'[c][head] = runs[c][head]
      <4>1. CASE Send("gate")
        BY <1>2, <2>5, <4>1, SendsToItsCommit DEF CallTypes
      <4> QED BY <1>1, <1>5, <4>1
    <3> QED BY <1>1, <1>3, <2>1, <3>1, <3>2 DEF Agrees, SaysSo, Alone
  <2>6. ASSUME NEW c \in Check, Send("gate"), c = actor["gate"].check
        PROVE  Awaits(c)' \/ (Agrees(c)' /\ SaysSo(c)')
    <3>1. actor["gate"].at = "send" /\ heard' = heard /\ actor["gate"].asked = turns
      BY <2>6 DEF Send, IsAt, Outdated
    <3>2. CASE heard < head
      BY <1>1, <3>1, <3>2 DEF Awaits, GateAhead
    <3>3. CASE ~ (heard < head)
      <4>1. actor["gate"].sha = head
        BY <3>1, <3>3 DEF OnHead, IsAt, CallTypes
      <4>2. SaysSo(c)'
        BY <1>2, <2>6, <3>1, <4>1, SendSays
      <4>3. row'.status = StatusOf(covered')
        BY <1>2, <1>3, <2>1, <3>1 DEF RowIsGates
      <4>4. Agrees(c)'
        BY <4>2, <4>3 DEF SaysSo, Agrees, Alone
      <4> QED BY <4>2, <4>4
    <3> QED BY <3>2, <3>3
  <2>7. ChecksCome'
    <3>1. \A d \in Drives : Carries(d)' <=> Carries(d)
      BY <1>4 DEF Carries
    <3> QED BY <1>2, <2>5, <2>6, <3>1 DEF ChecksCome
  <2>8. SentSayIt'
    <3>1. \A d \in Drives, c \in Check : HasSent(d, c)' <=> HasSent(d, c)
      BY <1>4, <2>1 DEF HasSent
    <3> QED BY <1>2, <1>3, <1>4, <2>5, <2>6, <3>1 DEF SentSayIt
  <2> QED BY <2>3, <2>4, <2>7, <2>8
<1> QED BY <1>5, <1>6, <1>7 DEF GateMoves

LEMMA SettlesChange ==
  ASSUME CallTypes, Settles, NEW d \in Drives, CoverageChanges(d)
  PROVE  Settles'
<1> USE GateIsNoDrive
<1> SUFFICES ASSUME seen' = {}
             PROVE  RowComes' /\ ChecksCome' /\ SentSayIt' /\ RowIsGates'
  BY DEF Settles
<1>1. /\ turns' = turns + 1 /\ turns \in Nat /\ covered' = ~ covered /\ covered \in BOOLEAN
      /\ UNCHANGED <<head, runs, row, heard, seen>> /\ actor[d].at = "idle"
  BY DEF CoverageChanges, Turn, CallTypes, IsAt
<1>2. RowComes /\ ChecksCome /\ SentSayIt /\ RowIsGates
  BY <1>1 DEF Settles
<1>3. /\ actor'[d].at = "list" /\ actor'[d].as \in (IF covered THEN Lost ELSE Gained)
      /\ \A a \in Actors : a # d => actor'[a] = actor[a]
  BY CoverageChangesDoes DEF Others
<1>4. \A a \in Actors : actor[a].asked <= turns /\ actor[a].asked \in Nat
  BY DEF CallTypes, CallInv, Calls
<1>5. \A a \in Actors : a # d => actor'[a].asked # turns'
  BY <1>1, <1>3, <1>4
<1>6. RowComes'
  <2>1. After(d)'
    BY <1>1, <1>3 DEF After, Lost, Gained
  <2> QED BY <2>1 DEF RowComes
<1>7. ChecksCome'
  <2>1. \A c \in Check : (Agrees(c)' <=> Agrees(c)) /\ (Awaits(c)' <=> Awaits(c))
    BY <1>1, <1>3 DEF Agrees, Alone, Awaits, GateAhead, IsAt
  <2>2. \A e \in Drives : Carries(e) => Carries(e)'
    BY <1>1, <1>3 DEF Carries, Publishing
  <2> QED BY <1>2, <2>1, <2>2 DEF ChecksCome
<1>8. SentSayIt'
  BY <1>3, <1>5 DEF SentSayIt, HasSent
<1>9. RowIsGates'
  BY <1>5 DEF RowIsGates
<1> QED BY <1>6, <1>7, <1>8, <1>9

(* A drive that is after the row, finds it in the state it is not after or decides  *)
(* not to act, leaves the row as coverage is, or goes on to the gains.               *)
LEMMA AfterEnds ==
  ASSUME CallTypes, NEW d \in Drives, After(d), Ends(d),
         \/ ListRow(d) /\ row.status \notin Selects(actor[d].as)
         \/ decideForRepo(d) /\ ~ Acts(actor[d].as)
  PROVE  row.status = StatusOf(covered) \/ (actor'[d].at = "list" /\ (actor'[d].as = "gain" <=> covered))
<1> USE GateIsNoDrive
<1>1. actor[d] \in Calls /\ row.status \in Statuses /\ covered \in BOOLEAN
  BY DEF CallTypes, CheckRows
<1>2. actor[d].at \in {"list", "decide"}
  BY DEF ListRow, decideForRepo, IsAt
<1>3. actor[d].as = "both" \/ (actor[d].as = "gain" <=> covered)
  BY <1>2 DEF After, Publishing
<1>4. CASE ListRow(d) /\ row.status \notin Selects(actor[d].as)
  <2>1. actor[d].as \in {"gain", "loss", "both"}
    BY <1>4 DEF CallTypes, CallInv, ListRow, IsAt, Gained, Lost
  <2>2. CASE actor[d].as = "gain"
    <3>1. covered /\ row.status # "CHECK_REQUIRED"
      BY <1>3, <1>4, <2>2 DEF Selects, Lost
    <3> QED BY <1>1, <3>1 DEF StatusOf, Statuses
  <2>3. CASE actor[d].as = "loss"
    <3>1. ~ covered /\ row.status # "APPROVED"
      BY <1>3, <1>4, <2>3 DEF Selects, Lost
    <3> QED BY <1>1, <3>1 DEF StatusOf, Statuses
  <2>4. CASE actor[d].as = "both"
    <3>1. row.status = "CHECK_REQUIRED"
      BY <1>1, <1>4, <2>4 DEF Selects, Lost, Statuses
    <3>2. actor'[d].at = "list" /\ actor'[d].as = "gain"
      BY <2>4, EndsDoes
    <3>3. CASE covered
      BY <3>2, <3>3
    <3>4. CASE ~ covered
      BY <3>1, <3>4 DEF StatusOf
    <3> QED BY <3>3, <3>4
  <2> QED BY <2>1, <2>2, <2>3, <2>4
<1>5. CASE decideForRepo(d) /\ ~ Acts(actor[d].as)
  <2>1. ~ (covered <=> actor[d].as = "gain")
    BY <1>1, <1>5 DEF Acts
  <2>2. actor[d].as = "both" /\ covered
    BY <1>1, <1>3, <2>1
  <2>3. actor'[d].at = "list" /\ actor'[d].as = "gain"
    BY <2>2, EndsDoes
  <2> QED BY <2>2, <2>3
<1> QED BY <1>4, <1>5

LEMMA SettlesDrive ==
  ASSUME CallTypes, OnHead, Placed, Verdicts, Settles, NEW d \in Drives, DriveMoves(d), ~ CoverageChanges(d)
  PROVE  Settles'
<1> USE GateIsNoDrive
<1> SUFFICES ASSUME seen' = {}
             PROVE  RowComes' /\ ChecksCome' /\ SentSayIt' /\ RowIsGates'
  BY DEF Settles
<1>1. /\ actor'["gate"] = actor["gate"] /\ UNCHANGED <<head, heard>> /\ seen = {} /\ row'.sha = row.sha
      /\ \A e \in Drives : e # d => actor'[e] = actor[e]
  BY DriveLeaves DEF Others
<1>2. RowComes /\ ChecksCome /\ SentSayIt /\ RowIsGates /\ CallsHaveTheirRuns /\ RowStands
  BY <1>1 DEF Settles, Placed
<1>3. turns' = turns /\ covered' = covered
  BY DriveTurnsNothing
<1>4. (GateAhead' <=> GateAhead) /\ \A c \in Check : Awaits(c)' <=> Awaits(c)
  BY <1>1, AwaitsBeside
<1>5. ~ SendFails(d) /\ ~ DriveDies(d)
  BY DEF SendFails, DriveDies
<1>6. \A e \in Drives :
        e # d => /\ \A c \in Check : HasSent(e, c)' <=> HasSent(e, c)
                 /\ After(e)' <=> After(e)
                 /\ Carries(e)' <=> Carries(e)
  BY <1>1, <1>3 DEF HasSent, After, Carries
<1>7. ASSUME row'.status = row.status
      PROVE  RowIsGates' /\ ((\E e \in Drives : e # d /\ After(e)) => RowComes')
  <2>1. RowIsGates'
    BY <1>1, <1>2, <1>3, <1>7 DEF RowIsGates
  <2>2. ASSUME NEW e \in Drives, e # d, After(e)
        PROVE  RowComes'
    BY <1>6, <2>2 DEF RowComes
  <2> QED BY <2>1, <2>2
<1>8. ASSUME row'.status = StatusOf(covered)
      PROVE  RowIsGates' /\ RowComes'
  BY <1>3, <1>8 DEF RowIsGates, RowComes
<1>9. ASSUME runs' = runs
      PROVE  \A c \in Check : SaysSo(c)' <=> SaysSo(c)
  BY <1>1, <1>3, <1>9 DEF SaysSo, Alone
<1>10. CASE Flip(d)
  <2>1. actor[d].asked = turns /\ actor[d].at = "flip" /\ runs' = runs /\ Ends(d)
    BY <1>10 DEF Flip, Outdated, IsAt
  <2>2. actor[d].pass = covered
    BY <2>1 DEF Verdicts
  <2>3. row'.status = StatusOf(covered)
    BY <1>10, <2>2, FlipsRow
  <2>4. \A c \in Check : SaysSo(c)' \/ Awaits(c)'
    BY <1>2, <1>4, <1>9, <2>1 DEF SentSayIt, HasSent
  <2>5. \A c \in Check : SaysSo(c)' => Agrees(c)'
    BY <1>3, <2>3 DEF SaysSo, Agrees, Alone
  <2> QED BY <1>8, <2>3, <2>4, <2>5 DEF ChecksCome, SentSayIt
<1>11. CASE Sweep(d) \/ ListRow(d) \/ decideForRepo(d)
  <2>1. row' = row /\ runs' = runs /\ actor[d].at \in {"idle", "list", "decide"}
    BY <1>11 DEF Sweep, ListRow, decideForRepo, IsAt
  <2>2. ~ Carries(d) /\ \A c \in Check : Agrees(c)' <=> Agrees(c)
    BY <1>1, <2>1 DEF Carries, Publishing, Agrees, Alone
  <2>3. ChecksCome'
    BY <1>2, <1>4, <1>6, <2>2 DEF ChecksCome
  <2>4. \A c \in Check : ~ HasSent(d, c)'
    <3>1. CASE Ends(d)
      BY <3>1, EndsDoes DEF HasSent
    <3>2. CASE Sweep(d) \/ (ListRow(d) /\ ~ Ends(d))
      BY <3>2, SweepDoes, ListRowDoes DEF HasSent
    <3>3. CASE decideForRepo(d) /\ ~ Ends(d)
      <4>1. actor[d].check = "decision"
        BY <3>3 DEF decideForRepo, IsAt, CallTypes, CallInv, Before
      <4> QED BY <3>3, <4>1, DecideDoes DEF HasSent
    <3> QED BY <1>11, <3>1, <3>2, <3>3
  <2>5. SentSayIt'
    BY <1>2, <1>3, <1>4, <1>6, <1>1, <1>9, <2>1, <2>4 DEF SentSayIt
  <2>6. RowIsGates'
    BY <1>7, <2>1
  <2>7. RowComes'
    <3>1. CASE row.status = StatusOf(covered) \/ actor["gate"].at \in Before
      BY <1>1, <1>3, <2>1, <3>1 DEF RowComes
    <3>2. CASE \E e \in Drives : e # d /\ After(e)
      BY <1>7, <2>1, <3>2
    <3>3. CASE After(d) /\ row.status # StatusOf(covered)
      <4>1. CASE Sweep(d)
        BY <3>3, <4>1 DEF After, Sweep, IsAt, Publishing
      <4>2. CASE ListRow(d)
        <5>1. actor[d].at = "list"
          BY <4>2 DEF ListRow, IsAt
        <5>2. CASE row.status \notin Selects(actor[d].as) /\ Ends(d)
          <6>1. actor'[d].at = "list" /\ (actor'[d].as = "gain" <=> covered)
            BY <3>3, <4>2, <5>2, AfterEnds
          <6>2. After(d)'
            BY <1>3, <6>1 DEF After
          <6> QED BY <6>2 DEF RowComes
        <5>3. CASE actor'[d].at = "decide" /\ actor'[d].as = actor[d].as
          <6>1. After(d)'
            BY <1>3, <3>3, <5>1, <5>3 DEF After, Publishing
          <6> QED BY <6>1 DEF RowComes
        <5> QED BY <4>2, <5>2, <5>3, ListRowDoes
      <4>3. CASE decideForRepo(d)
        <5>1. CASE ~ Acts(actor[d].as) /\ Ends(d)
          <6>1. actor'[d].at = "list" /\ (actor'[d].as = "gain" <=> covered)
            BY <3>3, <4>3, <5>1, AfterEnds
          <6>2. After(d)'
            BY <1>3, <6>1 DEF After
          <6> QED BY <6>2 DEF RowComes
        <5>2. CASE actor'[d].at = "read"
          BY <5>2 DEF RowComes, After, Publishing
        <5> QED BY <4>3, <5>1, <5>2, DecideDoes
      <4> QED BY <1>11, <4>1, <4>2, <4>3
    <3> QED BY <1>2, <3>1, <3>2, <3>3 DEF RowComes
  <2> QED BY <2>3, <2>5, <2>6, <2>7
<1>12. CASE ReadRun(d) \/ Send(d) \/ WriteRun(d)
  <2>1. actor'[d].at \in Publishing \cup {"flip"}
    <3>1. CASE WriteRun(d)
      BY <3>1, PublishedDoes DEF WriteRun, IsAt, Publishing
    <3> QED BY <1>12, <3>1, ReadRunDoes, SendDoes DEF Publishing
  <2>2. RowComes' /\ ChecksCome'
    BY <2>1 DEF RowComes, ChecksCome, After, Carries
  <2>3. row'.status = row.status
    <3>1. CASE WriteRun(d)
      BY <3>1, WritesRow
    <3> QED BY <1>12, <3>1 DEF ReadRun, Send
  <2>4. RowIsGates'
    BY <1>7, <2>3
  <2>5. CASE ReadRun(d) \/ WriteRun(d)
    <3>1. actor'[d].asked = actor[d].asked /\ runs' = runs
      <4>1. CASE WriteRun(d)
        BY <4>1, PublishedDoes DEF WriteRun, IsAt
      <4> QED BY <2>5, <4>1, ReadRunDoes DEF ReadRun
    <3>2. ASSUME NEW c \in Check, HasSent(d, c)'
          PROVE  HasSent(d, c)
      <4>1. CASE ReadRun(d)
        BY <1>1, <3>2, <4>1, ReadRunDoes DEF HasSent, ReadRun, IsAt
      <4>2. CASE WriteRun(d)
        <5>1. actor[d].at = "write" /\ Published(d) /\ row.sha = actor[d].sha
          BY <4>2 DEF WriteRun, IsAt
        <5>2. \/ actor[d].check = "decision" /\ c = "decision"
              \/ actor[d].check = "cla"
          BY <3>2, <5>1, PublishedDoes DEF HasSent
        <5> QED BY <5>1, <5>2 DEF HasSent, Check
      <4> QED BY <2>5, <4>1, <4>2
    <3> QED BY <1>2, <1>3, <1>4, <1>6, <1>1, <1>9, <2>2, <2>4, <3>1, <3>2 DEF SentSayIt
  <2>6. CASE Send(d)
    <3>1. actor[d].asked = turns /\ actor[d].at = "send" /\ actor'[d].at = "write"
          /\ actor'[d].check = actor[d].check /\ actor'[d].sha = actor[d].sha /\ actor'[d].asked = turns
      BY <2>6, SendDoes DEF Send, Outdated, IsAt
    <3>2. \A c \in Check : SaysSo(c) => SaysSo(c)'
      BY <1>2, <2>6, <3>1, SendSays
    <3>3. ASSUME NEW c \in Check, HasSent(d, c)'
          PROVE  SaysSo(c)' \/ Awaits(c)'
      <4>1. actor[d].sha = row.sha
        BY <1>1, <3>1, <3>3 DEF HasSent
      <4>2. CASE c = actor[d].check
        <5>1. row.sha = head \/ Awaits(c)
          BY <1>2 DEF RowStands, Awaits
        <5> QED BY <1>2, <1>4, <2>6, <3>1, <4>1, <4>2, <5>1, SendSays
      <4>3. CASE c # actor[d].check
        <5>1. HasSent(d, c)
          BY <1>1, <3>1, <3>3, <4>1, <4>3 DEF HasSent, Check, CallTypes, Calls
        <5> QED BY <1>2, <1>4, <3>1, <3>2, <5>1 DEF SentSayIt
      <4> QED BY <4>2, <4>3
    <3>4. SentSayIt'
      BY <1>1, <1>2, <1>3, <1>4, <1>6, <3>2, <3>3 DEF SentSayIt
    <3> QED BY <2>2, <2>4, <3>4
  <2> QED BY <1>12, <2>5, <2>6
<1> QED BY <1>5, <1>10, <1>11, <1>12 DEF DriveMoves

LEMMA SettlesStep ==
  ASSUME CallTypes, OnHead, Placed, Verdicts, Settles, ClaGateNext \/ UNCHANGED claGateVars
  PROVE  Settles'
<1>1. CASE UNCHANGED claGateVars
  BY <1>1 DEF claGateVars, steps, Settles, RowComes, ChecksCome, SentSayIt, RowIsGates, Awaits, GateAhead, Agrees,
              SaysSo, Alone, HasSent, After, Carries, IsAt
<1>2. CASE CoverageChangesUntold
  BY <1>2 DEF CoverageChangesUntold, Settles
<1>3. CASE Push
  <2>1. heard' < head' /\ UNCHANGED <<covered, row, actor, turns, seen>>
    BY <1>3 DEF Push, steps, CallTypes
  <2>2. \A c \in Check : Awaits(c)'
    BY <2>1 DEF Awaits, GateAhead
  <2> QED BY <2>1, <2>2 DEF Settles, RowComes, ChecksCome, SentSayIt, RowIsGates, After
<1> QED BY <1>1, <1>2, <1>3, WhoMoves, SettlesUpsert, SettlesGate, SettlesChange, SettlesDrive

LEMMA SettlesInit ==
  ASSUME ClaGateInit
  PROVE  Verdicts /\ Settles
<1>1. /\ \A a \in Actors : actor[a].at = "idle"
      /\ \A c \in Check : runs[c][head] = <<covered>>
      /\ row.status = StatusOf(covered)
  BY ClaGateAssumption DEF ClaGateInit, Idle
<1>2. <<covered>>[1] = covered
  OBVIOUS
<1>3. Verdicts
  BY <1>1 DEF Verdicts
<1>4. RowComes /\ ChecksCome /\ RowIsGates
  BY <1>1, <1>2, GateIsNoDrive DEF RowComes, ChecksCome, RowIsGates, Agrees
<1>5. \A d \in Drives, c \in Check : ~ HasSent(d, c)
  BY <1>1, GateIsNoDrive DEF HasSent
<1> QED BY <1>3, <1>4, <1>5 DEF Settles, SentSayIt

(* When nothing is under way, row and checks say what the author's coverage is,    *)
(* unless an outdated verdict was carried out. A row that does not say it has       *)
(* someone after it (RowComes), a check that does not say what the row says is       *)
(* awaited of the gate or a drive has not come to its row (ChecksCome). And when it  *)
(* comes to it, it has sent both (SentSayIt), which say what it asked (Verdicts).    *)
THEOREM CoverageIsTold == ClaGateSpec => []ChecksTellTheCoverage
<1> DEFINE All == CallTypes /\ OnHead /\ Placed /\ Verdicts /\ Settles
<1>1. CallTypes /\ Settles => ChecksTellTheCoverage
  <2> SUFFICES ASSUME CallTypes, Settles, Quiet, seen = {}
               PROVE  /\ row.status = StatusOf(covered)
                      /\ \A c \in Check : Alone(c) => runs[c][head][1] = covered
    BY DEF ChecksTellTheCoverage, Alone
  <2>1. ~ (heard < head) /\ \A a \in Actors : actor[a].at = "idle"
    BY DEF Quiet, IsAt, CallTypes
  <2>2. actor["gate"].at = "idle" /\ \A d \in Drives : ~ After(d) /\ ~ Carries(d)
    BY <2>1, GateIsNoDrive DEF After, Carries, Publishing
  <2>3. \A c \in Check : ~ Awaits(c)
    BY <2>1, <2>2 DEF Awaits, GateAhead, IsAt, Before
  <2>4. row.status = StatusOf(covered) /\ \A c \in Check : Agrees(c)
    BY <2>2, <2>3 DEF Settles, RowComes, ChecksCome, Before
  <2>5. ASSUME NEW c \in Check, Alone(c)
        PROVE  runs[c][head][1] = covered
    <3>1. runs[c][head][1] \in BOOLEAN /\ covered \in BOOLEAN
      <4>1. runs[c][head] \in Seq(BOOLEAN)
        BY DEF CallTypes
      <4> QED BY <2>5, <4>1 DEF Alone, CallTypes
    <3>2. StatusOf(runs[c][head][1]) = StatusOf(covered)
      BY <2>4, <2>5 DEF Agrees
    <3> QED BY <3>1, <3>2 DEF StatusOf
  <2> QED BY <2>4, <2>5
<1>2. ClaGateInit => All
  BY CallTypesInit, PlacedInit, SettlesInit
<1>3. All /\ [ClaGateNext]_claGateVars => All'
  BY CallTypesStep, OnHeadStep, PlacedStep, VerdictsStep, SettlesStep
<1>4. All => ChecksTellTheCoverage
  BY <1>1
<1> HIDE DEF All
<1> QED BY <1>2, <1>3, <1>4, PTL DEF ClaGateSpec
=============================================================================
