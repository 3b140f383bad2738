-------------------------- MODULE ApplicationsProofs --------------------------
(***************************************************************************)
(* What an applicant can rely on, for any requests of reviewers and of the *)
(* applicant that overlap, any cooldown and any number of applications.    *)
(***************************************************************************)
EXTENDS Applications, FiniteSetTheorems, SequenceTheorems, TLAPS

-----------------------------------------------------------------------------
(* The rows, and the requests that will add to them: there is room for all. *)
App == [status : {"SUBMITTED", "APPROVED", "DENIED"}, allowResubmit : BOOLEAN,
        cooldownUntil : 0..OnCooldown,
        appeal : {"none", "PENDING", "GRANTED", "RESUBMIT_ALLOWED", "REJECTED"}]
Submitting == {d \in Desks : desk[d].op = "submit"}
AppsOK ==
  /\ apps \in Seq(App) /\ Len(apps) > 0
  /\ IsFiniteSet(Submitting) /\ Len(apps) + Cardinality(Submitting) <= MaxApps

(* A request is about an application there is, and at a step its kind has. *)
Request == [op : Ops \cup {"none"}, app : Nat, at : {"idle", "write", "mail", "resolve", "dispatch"}]
StepsOf(op) ==
  CASE op \in {"submit", "appeal"}           -> {"write"}
    [] op \in {"approve", "deny", "revoke"} -> {"write", "dispatch"}
    [] op = "allow"       -> {"write", "mail", "dispatch"}
    [] op = "grant"       -> {"write", "resolve", "dispatch"}
    [] op = "letResubmit" -> {"write", "mail", "resolve"}
    [] op = "reject"      -> {"resolve", "mail"}
UnderWay(q) == q.op \in Ops /\ q.at \in StepsOf(q.op) /\ q.app \in DOMAIN apps
DeskOK ==
  /\ desk \in [Desks -> Request]
  /\ \A d \in Desks : desk[d] = NoRequest \/ UnderWay(desk[d])

(* The head task is the one in hand; the timer in hand is one that was set. *)
TaskUpTo(n) == [kind : Decisions \cup {"refresh"}, app : 1..n]
TasksOK ==
  /\ tasks \in Seq(TaskUpTo(Len(apps)))
  /\ gpc \in {"idle", "elapse", "elapsing", "notify", "arm"}
  /\ gpc \in {"notify", "arm"} => tasks # <<>>
  /\ gpc = "notify" => Head(tasks).kind \in Decisions
TimerOK ==
  /\ cooldown \in [app : 1..Len(apps), deadline : 1..OnCooldown] \cup {NoTimer}
  /\ gpc \in {"elapse", "elapsing"} => cooldown # NoTimer

RestOK ==
  /\ told \in [1..MaxApps -> Decisions \cup Mails \cup {"nothing"}] /\ mistold \subseteq 1..MaxApps
  /\ untimed \subseteq 1..Len(apps)
  /\ requests \in 0..MaxRequests /\ faults \in 0..MaxFaults

TypeInv == AppsOK /\ DeskOK /\ TasksOK /\ TimerOK /\ RestOK

(* A decision is coming: written by its request, which has not sent it yet, or *)
(* in line at the gate, and not yet at the point where the applicant was told.  *)
Decides(op, kind) ==
  \/ kind = "approved" /\ op \in {"approve", "grant"}
  \/ kind = "denied" /\ op = "deny"
  \/ kind = "revoked" /\ op = "revoke"
Carried(kind, i) ==
  \E d \in Desks :
    desk[d].at \in {"resolve", "dispatch"} /\ desk[d].app = i /\ Decides(desk[d].op, kind)
InLine(kind, i) ==
  \E n \in 1..Len(tasks) :
    tasks[n].kind = kind /\ tasks[n].app = i /\ (n > 1 \/ gpc # "arm")
Coming(kind, i) == Carried(kind, i) \/ InLine(kind, i)

(* Until a fault, what was said last is true or what stands is coming. *)
Told(i) == i \in mistold \/ (apps[i].status = "APPROVED" <=> told[i] = "approved")
WordComes(i) ==
  Told(i) \/ \E kind \in Decisions : StillStands(kind, apps[i].status) /\ Coming(kind, i)
WordInv ==
  faults = 0 =>
    /\ \A i \in DOMAIN apps : WordComes(i)
    /\ \A i \in 1..MaxApps : i > Len(apps) => told[i] = "nothing"

-----------------------------------------------------------------------------
(* The numbers every step needs. *)
LEMMA Numbers ==
  ASSUME TypeInv
  PROVE  /\ Len(apps) \in Nat \ {0} /\ DOMAIN apps = 1..Len(apps) /\ MaxApps \in Nat
         /\ Cardinality(Submitting) \in Nat /\ Len(apps) <= MaxApps
         /\ OnCooldown \in Nat \ {0} /\ MaxRequests \in Nat /\ MaxFaults \in Nat
         /\ 0 \in 0..OnCooldown /\ OnCooldown \in 0..OnCooldown
<1>1. Cardinality(Submitting) \in Nat
  BY FS_CardinalityType DEF TypeInv, AppsOK
<1> QED BY <1>1, ApplicationsAssumption DEF TypeInv, AppsOK, OnCooldown

(* A row written over is a row, and the others stay. *)
LEMMA RowReplaced ==
  ASSUME NEW s \in Seq(App), NEW i \in DOMAIN s, NEW row \in App, NEW t,
         t = [s EXCEPT ![i] = row]
  PROVE  /\ t \in Seq(App) /\ Len(t) = Len(s) /\ DOMAIN t = DOMAIN s
         /\ t[i] = row /\ \A j \in DOMAIN s : j # i => t[j] = s[j]
<1>1. s \in [1..Len(s) -> App] /\ Len(s) \in Nat /\ DOMAIN s = 1..Len(s)
  OBVIOUS
<1>2. t \in [1..Len(s) -> App]
  BY <1>1
<1>3. t \in Seq(App) /\ Len(t) = Len(s)
  BY <1>1, <1>2
<1> QED BY <1>1, <1>3

(* A desk is freed, or goes on with a request that is under way. *)
LEMMA DeskStep ==
  ASSUME TypeInv, NEW d \in Desks, NEW q, desk' = [desk EXCEPT ![d] = q],
         q = NoRequest \/ (q \in Request /\ UnderWay(q)),
         DOMAIN apps \subseteq DOMAIN apps'
  PROVE  DeskOK'
<1>1. q \in Request
  BY DEF NoRequest, Request
<1>2. desk' \in [Desks -> Request]
  BY <1>1 DEF TypeInv, DeskOK
<1>3. ASSUME NEW c \in Desks PROVE (desk[c] = NoRequest \/ UnderWay(desk[c]))'
  <2>1. desk'[c] = IF c = d THEN q ELSE desk[c]
    BY DEF TypeInv, DeskOK
  <2>2. desk'[c] = NoRequest \/ UnderWay(desk'[c])
    BY <2>1 DEF TypeInv, DeskOK
  <2> QED BY <2>2 DEF UnderWay
<1> QED BY <1>2, <1>3 DEF DeskOK

(* A request that does not submit makes no one wait for room. *)
LEMMA SubmittingLess ==
  ASSUME TypeInv, NEW d \in Desks, NEW q, desk' = [desk EXCEPT ![d] = q], q.op # "submit"
  PROVE  /\ IsFiniteSet(Submitting') /\ Cardinality(Submitting') \in Nat
         /\ Cardinality(Submitting') =
              IF desk[d].op = "submit" THEN Cardinality(Submitting) - 1
              ELSE Cardinality(Submitting)
<1>1. Submitting' = Submitting \ {d} /\ (d \in Submitting <=> desk[d].op = "submit")
  BY DEF Submitting, TypeInv, DeskOK
<1> QED BY <1>1, FS_RemoveElement, FS_CardinalityType DEF TypeInv, AppsOK

LEMMA RestKept ==
  ASSUME TypeInv, UNCHANGED <<told, mistold>>, untimed' \subseteq 1..Len(apps'),
         requests' \in 0..MaxRequests, faults' \in 0..MaxFaults
  PROVE  RestOK'
  BY DEF TypeInv, RestOK

LEMMA SeqGrows ==
  ASSUME NEW S, NEW T, S \subseteq T, NEW s \in Seq(S)
  PROVE  s \in Seq(T)
<1>1. s \in [1..Len(s) -> S] /\ Len(s) \in Nat
  OBVIOUS
<1>2. s \in [1..Len(s) -> T]
  BY <1>1
<1> QED BY <1>1, <1>2

(* Where the gate does not move, its tasks and its timer keep their types as rows are added. *)
LEMMA GateKept ==
  ASSUME TypeInv, UNCHANGED <<tasks, cooldown, gpc>>,
         Len(apps') \in Nat, Len(apps) <= Len(apps')
  PROVE  TasksOK' /\ TimerOK'
<1>1. 1..Len(apps) \subseteq 1..Len(apps')
  BY Numbers
<1>2. tasks \in Seq(TaskUpTo(Len(apps')))
  <2>1. TaskUpTo(Len(apps)) \subseteq TaskUpTo(Len(apps'))
    BY <1>1 DEF TaskUpTo
  <2> QED BY <2>1, SeqGrows DEF TypeInv, TasksOK
<1>3. TasksOK'
  BY <1>2 DEF TypeInv, TasksOK, TaskUpTo
<1>4. TimerOK'
  BY <1>1 DEF TypeInv, TimerOK
<1> QED BY <1>3, <1>4

LEMMA TypeInit == Init => TypeInv
<1> SUFFICES ASSUME Init PROVE TypeInv
  OBVIOUS
<1>1. /\ OnCooldown \in Nat \ {0} /\ 0 \in 0..OnCooldown /\ MaxApps \in Nat \ {0}
      /\ MaxRequests \in Nat /\ MaxFaults \in Nat
  BY ApplicationsAssumption DEF OnCooldown
<1>2. FreshApp \in App
  BY <1>1 DEF FreshApp, App
<1>3. apps \in Seq(App) /\ Len(apps) = 1
  BY <1>2 DEF Init
<1>4. Submitting = {}
  BY DEF Init, Submitting, NoRequest
<1>5. AppsOK
  BY <1>1, <1>3, <1>4, FS_EmptySet DEF AppsOK
<1>6. DeskOK
  BY DEF Init, DeskOK, NoRequest, Request
<1>7. TasksOK /\ TimerOK
  BY DEF Init, TasksOK, TimerOK
<1>8. RestOK
  BY <1>1 DEF Init, RestOK
<1> QED BY <1>5, <1>6, <1>7, <1>8 DEF TypeInv

-----------------------------------------------------------------------------
(* A request begins: one that submits waits with the room it has found. *)
LEMMA TypeBegin ==
  ASSUME TypeInv, NEW d \in Desks, Begin(d) PROVE TypeInv'
<1> USE Numbers
<1>1. PICK op \in Ops, i \in DOMAIN apps :
        /\ Checks(op, i)
        /\ desk' = [desk EXCEPT ![d] =
             [op |-> op, app |-> i, at |-> IF op = "reject" THEN "resolve" ELSE "write"]]
  BY DEF Begin
<1>2. /\ desk[d] = NoRequest /\ requests < MaxRequests /\ requests' = requests + 1
      /\ UNCHANGED <<apps, tasks, cooldown, gpc, told, mistold, untimed, faults>>
  BY DEF Begin, gateVars, heard
<1> DEFINE q == [op |-> op, app |-> i, at |-> IF op = "reject" THEN "resolve" ELSE "write"]
<1>3. q \in Request /\ UnderWay(q)
  BY DEF Request, UnderWay, Ops, StepsOf
<1>4. DeskOK'
  BY <1>1, <1>2, <1>3, DeskStep
<1>5. ASSUME op = "submit" PROVE AppsOK'
  <2>1. Len(apps) + Cardinality(Submitting) < MaxApps
    BY <1>1, <1>5 DEF Checks, MaySubmit, Submitting
  <2>2. Submitting' = Submitting \cup {d} /\ d \notin Submitting
    BY <1>1, <1>2, <1>5 DEF Submitting, NoRequest, TypeInv, DeskOK
  <2>3. IsFiniteSet(Submitting') /\ Cardinality(Submitting') = Cardinality(Submitting) + 1
    BY <2>2, FS_AddElement DEF TypeInv, AppsOK
  <2> QED BY <1>2, <2>1, <2>3 DEF TypeInv, AppsOK
<1>6. ASSUME op # "submit" PROVE AppsOK'
  <2>1. IsFiniteSet(Submitting') /\ Cardinality(Submitting') = Cardinality(Submitting)
    <3>1. q.op # "submit" /\ desk' = [desk EXCEPT ![d] = q] /\ desk[d].op # "submit"
      BY <1>1, <1>2, <1>6 DEF NoRequest
    <3> HIDE DEF q
    <3> QED BY <3>1, SubmittingLess
  <2> QED BY <1>2, <2>1 DEF TypeInv, AppsOK
<1>7. AppsOK'
  BY <1>5, <1>6
<1>8. TasksOK' /\ TimerOK'
  BY <1>2, GateKept
<1>9. RestOK'
  BY <1>2, RestKept DEF TypeInv, RestOK
<1> QED BY <1>4, <1>7, <1>8, <1>9 DEF TypeInv

(* What a write leaves of its application: a decision goes on to be sent, and *)
(* nothing else changes where the application stands.                         *)
Sends(d) ==
  \E at \in {"resolve", "dispatch"} : desk' = [desk EXCEPT ![d] = [desk[d] EXCEPT !.at = at]]

LEMMA SettledRow ==
  ASSUME TypeInv, NEW i \in DOMAIN apps, NEW st \in {"SUBMITTED", "APPROVED", "DENIED"},
         NEW allow \in BOOLEAN, NEW until \in 0..OnCooldown, Settle(i, st, allow, until)
  PROVE  \E row \in App : apps' = [apps EXCEPT ![i] = row] /\ row.status = st
<1>1. apps[i] \in App
  BY DEF TypeInv, AppsOK
<1> DEFINE row == [apps[i] EXCEPT !.status = st, !.allowResubmit = allow, !.cooldownUntil = until]
<1>2. row \in App /\ row.status = st
  BY <1>1 DEF App
<1>3. apps' = [apps EXCEPT ![i] = row]
  BY DEF Settle
<1> QED BY <1>2, <1>3

LEMMA WrittenRow ==
  ASSUME TypeInv, NEW d \in Desks, Write(d), desk[d].op # "submit"
  PROVE  /\ desk[d].app \in DOMAIN apps /\ UnderWay(desk[d])
         /\ untimed' \subseteq untimed \cup {desk[d].app}
         /\ \E row \in App :
              /\ apps' = [apps EXCEPT ![desk[d].app] = row]
              /\ \/ row.status = apps[desk[d].app].status
                 \/ \E kind \in Decisions :
                      Sends(d) /\ Decides(desk[d].op, kind) /\ StillStands(kind, row.status)
<1> DEFINE i == desk[d].app
           op == desk[d].op
<1>1. UnderWay(desk[d]) /\ desk[d] \in Request /\ desk[d].at = "write"
  BY DEF Write, TypeInv, DeskOK, NoRequest
<1>2. i \in DOMAIN apps /\ op \in Ops \ {"submit", "reject"} /\ apps[i] \in App
  BY <1>1 DEF UnderWay, StepsOf, TypeInv, AppsOK
<1>3. 0 \in 0..OnCooldown /\ OnCooldown \in 0..OnCooldown
  BY Numbers
<1>4. ASSUME NEW st, NEW kind, kind \in Decisions, Decides(op, kind), StillStands(kind, st),
             Sends(d), \E row \in App : apps' = [apps EXCEPT ![i] = row] /\ row.status = st,
             UNCHANGED untimed
      PROVE  /\ untimed' \subseteq untimed \cup {i}
             /\ \E row \in App :
                  /\ apps' = [apps EXCEPT ![i] = row]
                  /\ \/ row.status = apps[i].status
                     \/ \E k \in Decisions :
                          Sends(d) /\ Decides(op, k) /\ StillStands(k, row.status)
  BY <1>4
<1>5. CASE op \in {"approve", "grant"}
  <2>1. approveApplication(i) /\ Sends(d)
    BY <1>1, <1>5 DEF Write, Sends
  <2>2. Settle(i, "APPROVED", TRUE, 0) /\ UNCHANGED untimed
    BY <2>1 DEF approveApplication
  <2>3. \E row \in App : apps' = [apps EXCEPT ![i] = row] /\ row.status = "APPROVED"
    BY <1>2, <1>3, <2>2, SettledRow
  <2>4. "approved" \in Decisions /\ Decides(op, "approved") /\ StillStands("approved", "APPROVED")
    BY <1>5 DEF Decisions, Decides, StillStands
  <2> QED BY <1>1, <1>2, <1>4, <2>1, <2>2, <2>3, <2>4
<1>6. CASE op = "deny"
  <2>1. denyApplication(i) /\ Sends(d)
    BY <1>1, <1>6 DEF Write, Sends
  <2>2. (Settle(i, "DENIED", TRUE, OnCooldown) \/ Settle(i, "DENIED", FALSE, 0)) /\ UNCHANGED untimed
    BY <2>1 DEF denyApplication
  <2>3. \E row \in App : apps' = [apps EXCEPT ![i] = row] /\ row.status = "DENIED"
    BY <1>2, <1>3, <2>2, SettledRow
  <2>4. "denied" \in Decisions /\ Decides(op, "denied") /\ StillStands("denied", "DENIED")
    BY <1>6 DEF Decisions, Decides, StillStands
  <2> QED BY <1>1, <1>2, <1>4, <2>1, <2>2, <2>3, <2>4
<1>7. CASE op = "revoke"
  <2>1. revokeApplication(i) /\ Sends(d)
    BY <1>1, <1>7 DEF Write, Sends
  <2>2. /\ \/ Settle(i, "DENIED", TRUE, OnCooldown) \/ Settle(i, "DENIED", TRUE, 0)
           \/ Settle(i, "SUBMITTED", TRUE, 0)
        /\ UNCHANGED untimed
    BY <2>1 DEF revokeApplication
  <2>3. \E st \in {"DENIED", "SUBMITTED"} :
          \E row \in App : apps' = [apps EXCEPT ![i] = row] /\ row.status = st
    BY <1>2, <1>3, <2>2, SettledRow
  <2>4. /\ "revoked" \in Decisions /\ Decides(op, "revoked")
        /\ StillStands("revoked", "DENIED") /\ StillStands("revoked", "SUBMITTED")
    BY <1>7 DEF Decisions, Decides, StillStands
  <2> QED BY <1>1, <1>2, <1>4, <2>1, <2>2, <2>3, <2>4
<1>8. CASE op \in {"allow", "letResubmit"}
  <2> DEFINE row == [apps[i] EXCEPT !.allowResubmit = TRUE, !.cooldownUntil = OnCooldown]
  <2>1. allowApplicationResubmit(i, TRUE) \/ allowApplicationResubmit(i, FALSE)
    BY <1>1, <1>8 DEF Write
  <2>2. apps' = [apps EXCEPT ![i] = row] /\ untimed' \subseteq untimed \cup {i}
    BY <2>1 DEF allowApplicationResubmit
  <2>3. row \in App /\ row.status = apps[i].status
    BY <1>2, <1>3 DEF App
  <2> QED BY <1>1, <1>2, <2>2, <2>3
<1>9. CASE op = "appeal"
  <2> DEFINE row == IF apps[i].appeal = "none" THEN [apps[i] EXCEPT !.appeal = "PENDING"] ELSE apps[i]
  <2>1. submitAppeal(i)
    BY <1>1, <1>9 DEF Write
  <2>2. apps' = [apps EXCEPT ![i] = row] /\ untimed' = untimed
    <3>1. apps = [apps EXCEPT ![i] = apps[i]]
      BY <1>2 DEF TypeInv, AppsOK
    <3>2. CASE apps[i].appeal = "none"
      BY <2>1, <3>2 DEF submitAppeal
    <3>3. CASE apps[i].appeal # "none"
      BY <2>1, <3>1, <3>3 DEF submitAppeal
    <3> QED BY <3>2, <3>3
  <2>3. row \in App /\ row.status = apps[i].status
    BY <1>2 DEF App
  <2> QED BY <1>1, <1>2, <2>2, <2>3
<1> QED BY <1>2, <1>5, <1>6, <1>7, <1>8, <1>9 DEF Ops

(* The desk after a write: free, or on to the next step of its kind. *)
LEMMA WrittenDesk ==
  ASSUME TypeInv, NEW d \in Desks, Write(d)
  PROVE  \E q : /\ desk' = [desk EXCEPT ![d] = q] /\ q.op # "submit"
                /\ q = NoRequest \/ (q \in Request /\ UnderWay(q))
<1>1. UnderWay(desk[d]) /\ desk[d] \in Request /\ desk[d].at = "write"
  BY DEF Write, TypeInv, DeskOK, NoRequest
<1>2. CASE desk[d].op \in {"submit", "appeal"}
  <2>1. desk' = [desk EXCEPT ![d] = NoRequest]
    BY <1>2 DEF Write
  <2> QED BY <2>1 DEF NoRequest
<1>3. CASE desk[d].op = "grant"
  <2> DEFINE q == [desk[d] EXCEPT !.at = "resolve"]
  <2>1. desk' = [desk EXCEPT ![d] = q]
    BY <1>3 DEF Write
  <2>2. q \in Request /\ UnderWay(q) /\ q.op # "submit"
    BY <1>1, <1>3 DEF Request, UnderWay, StepsOf
  <2> QED BY <2>1, <2>2
<1>5. CASE desk[d].op \in {"allow", "letResubmit"}
  <2> DEFINE q == [desk[d] EXCEPT !.at = "mail"]
  <2>1. desk' = [desk EXCEPT ![d] = q]
    BY <1>5 DEF Write
  <2>2. q \in Request /\ UnderWay(q) /\ q.op # "submit"
    BY <1>1, <1>5 DEF Request, UnderWay, StepsOf
  <2> QED BY <2>1, <2>2
<1>4. CASE desk[d].op \notin {"submit", "appeal", "grant", "allow", "letResubmit"}
  <2> DEFINE q == [desk[d] EXCEPT !.at = "dispatch"]
  <2>1. desk' = [desk EXCEPT ![d] = q]
    BY <1>4 DEF Write
  <2>2. desk[d].op \in {"approve", "deny", "revoke"}
    BY <1>1, <1>4 DEF UnderWay, StepsOf, Ops
  <2>3. q \in Request /\ UnderWay(q) /\ q.op # "submit"
    BY <1>1, <2>2 DEF Request, UnderWay, StepsOf
  <2> QED BY <2>1, <2>3
<1> QED BY <1>2, <1>3, <1>4, <1>5

LEMMA TypeWrite ==
  ASSUME TypeInv, NEW d \in Desks, Write(d) PROVE TypeInv'
<1> USE Numbers
<1>1. PICK q : /\ desk' = [desk EXCEPT ![d] = q] /\ q.op # "submit"
               /\ q = NoRequest \/ (q \in Request /\ UnderWay(q))
  BY WrittenDesk
<1>2. UNCHANGED <<tasks, cooldown, gpc, told, mistold, requests, faults>>
  BY DEF Write, gateVars, heard
<1>3. /\ IsFiniteSet(Submitting') /\ Cardinality(Submitting') \in Nat
      /\ Cardinality(Submitting') =
           IF desk[d].op = "submit" THEN Cardinality(Submitting) - 1 ELSE Cardinality(Submitting)
  BY <1>1, SubmittingLess
<1>4. CASE desk[d].op = "submit"
  <2>1. apps' = Append(apps, FreshApp) /\ untimed' = untimed
    BY <1>4 DEF Write, submitApplication
  <2>2. FreshApp \in App
    BY DEF FreshApp, App
  <2>3. apps' \in Seq(App) /\ Len(apps') = Len(apps) + 1
    BY <2>1, <2>2 DEF TypeInv, AppsOK
  <2>4. AppsOK'
    BY <1>3, <1>4, <2>3 DEF TypeInv, AppsOK
  <2>5. DOMAIN apps \subseteq DOMAIN apps'
    BY <2>3
  <2>6. RestOK'
    BY <1>2, <2>1, <2>5, <2>3, RestKept DEF TypeInv, RestOK
  <2>7. DeskOK'
    BY <1>1, <2>5, DeskStep
  <2>8. TasksOK' /\ TimerOK'
    BY <1>2, <2>3, GateKept
  <2> QED BY <2>4, <2>6, <2>7, <2>8 DEF TypeInv
<1>5. CASE desk[d].op # "submit"
  <2>1. PICK row \in App : apps' = [apps EXCEPT ![desk[d].app] = row]
    BY <1>5, WrittenRow
  <2>2. desk[d].app \in DOMAIN apps /\ untimed' \subseteq untimed \cup {desk[d].app}
    BY <1>5, WrittenRow
  <2>3. apps' \in Seq(App) /\ Len(apps') = Len(apps) /\ DOMAIN apps' = DOMAIN apps
    BY <2>1, <2>2, RowReplaced DEF TypeInv, AppsOK
  <2>4. AppsOK'
    BY <1>3, <1>5, <2>3 DEF TypeInv, AppsOK
  <2>5. RestOK'
    BY <1>2, <2>2, <2>3, RestKept DEF TypeInv, RestOK
  <2>6. DeskOK'
    BY <1>1, <2>3, DeskStep
  <2>7. TasksOK' /\ TimerOK'
    BY <1>2, <2>3, GateKept
  <2> QED BY <2>4, <2>5, <2>6, <2>7 DEF TypeInv
<1> QED BY <1>4, <1>5

(* An appeal is marked: the application stands where it stood. *)
LEMMA ResolvedRow ==
  ASSUME TypeInv, NEW d \in Desks, ResolveAppeal(d)
  PROVE  /\ desk[d].app \in DOMAIN apps /\ UnderWay(desk[d]) /\ desk[d] \in Request
         /\ desk[d].op \in {"grant", "letResubmit", "reject"}
         /\ \E row \in App :
              apps' = [apps EXCEPT ![desk[d].app] = row] /\ row.status = apps[desk[d].app].status
<1> DEFINE i == desk[d].app
<1>1. UnderWay(desk[d]) /\ desk[d] \in Request /\ desk[d].at = "resolve"
  BY DEF ResolveAppeal, TypeInv, DeskOK, NoRequest
<1>2. i \in DOMAIN apps /\ desk[d].op \in {"grant", "letResubmit", "reject"} /\ apps[i] \in App
  BY <1>1 DEF UnderWay, StepsOf, Ops, TypeInv, AppsOK
<1> DEFINE row == [apps[i] EXCEPT !.appeal =
                     CASE desk[d].op = "grant"       -> "GRANTED"
                       [] desk[d].op = "letResubmit" -> "RESUBMIT_ALLOWED"
                       [] desk[d].op = "reject"      -> "REJECTED"]
<1>3. apps' = [apps EXCEPT ![i] = row]
  BY DEF ResolveAppeal
<1>4. row \in App /\ row.status = apps[i].status
  BY <1>2 DEF App
<1> QED BY <1>1, <1>2, <1>3, <1>4

LEMMA TypeResolve ==
  ASSUME TypeInv, NEW d \in Desks, ResolveAppeal(d) PROVE TypeInv'
<1> USE Numbers
<1>1. /\ desk[d].app \in DOMAIN apps /\ UnderWay(desk[d]) /\ desk[d] \in Request
      /\ desk[d].op \in {"grant", "letResubmit", "reject"}
  BY ResolvedRow
<1>2. UNCHANGED <<tasks, cooldown, gpc, told, mistold, untimed, requests, faults>>
  BY DEF ResolveAppeal, gateVars, heard
<1>3. PICK row \in App : apps' = [apps EXCEPT ![desk[d].app] = row]
  BY ResolvedRow
<1>4. apps' \in Seq(App) /\ Len(apps') = Len(apps) /\ DOMAIN apps' = DOMAIN apps
  BY <1>1, <1>3, RowReplaced DEF TypeInv, AppsOK
<1>5. \E q : /\ desk' = [desk EXCEPT ![d] = q] /\ q.op # "submit"
             /\ q = NoRequest \/ (q \in Request /\ UnderWay(q))
  <2>1. ASSUME NEW at, \/ desk[d].op = "grant" /\ at = "dispatch"
                       \/ desk[d].op = "reject" /\ at = "mail"
        PROVE  \E q : /\ desk' = [desk EXCEPT ![d] = q] /\ q.op # "submit"
                      /\ q \in Request /\ UnderWay(q)
    <3> DEFINE q == [desk[d] EXCEPT !.at = at]
    <3>1. desk' = [desk EXCEPT ![d] = q]
      BY <2>1 DEF ResolveAppeal
    <3>2. q \in Request /\ UnderWay(q) /\ q.op # "submit"
      BY <1>1, <2>1 DEF Request, UnderWay, StepsOf
    <3> QED BY <3>1, <3>2
  <2>2. CASE desk[d].op = "letResubmit"
    <3>1. desk' = [desk EXCEPT ![d] = NoRequest]
      BY <2>2 DEF ResolveAppeal
    <3> QED BY <3>1 DEF NoRequest
  <2>3. CASE desk[d].op = "grant"
    BY <2>1, <2>3
  <2>4. CASE desk[d].op = "reject"
    BY <2>1, <2>4
  <2> QED BY <1>1, <2>2, <2>3, <2>4
<1>6. PICK q : /\ desk' = [desk EXCEPT ![d] = q] /\ q.op # "submit"
               /\ q = NoRequest \/ (q \in Request /\ UnderWay(q))
  BY <1>5
<1>7. DeskOK'
  BY <1>4, <1>6, DeskStep
<1>8. /\ IsFiniteSet(Submitting') /\ Cardinality(Submitting') \in Nat
      /\ Cardinality(Submitting') = Cardinality(Submitting)
  BY <1>1, <1>6, SubmittingLess
<1>9. AppsOK'
  BY <1>4, <1>8 DEF TypeInv, AppsOK
<1>10. TasksOK' /\ TimerOK'
  BY <1>2, <1>4, GateKept
<1>11. RestOK'
  BY <1>2, <1>4, RestKept DEF TypeInv, RestOK
<1> QED BY <1>7, <1>9, <1>10, <1>11 DEF TypeInv

(* A mail goes out: the request ends, or goes on to its signal or its appeal. *)
LEMMA MailedDesk ==
  ASSUME TypeInv, NEW d \in Desks, Mail(d)
  PROVE  /\ desk[d].app \in 1..Len(apps) /\ desk[d].at = "mail"
         /\ desk[d].op \in {"allow", "letResubmit", "reject"}
         /\ \E q : /\ desk' = [desk EXCEPT ![d] = q] /\ q.op # "submit"
                   /\ q = NoRequest \/ (q \in Request /\ UnderWay(q))
<1>1. /\ UnderWay(desk[d]) /\ desk[d] \in Request /\ desk[d].at = "mail"
      /\ desk[d].op \in {"allow", "letResubmit", "reject"}
  BY DEF Mail, TypeInv, DeskOK, NoRequest, UnderWay, StepsOf, Ops
<1>2. ASSUME NEW at, \/ desk[d].op = "letResubmit" /\ at = "resolve"
                     \/ desk[d].op = "allow" /\ at = "dispatch"
      PROVE  \E q : /\ desk' = [desk EXCEPT ![d] = q] /\ q.op # "submit"
                    /\ q \in Request /\ UnderWay(q)
  <2> DEFINE q == [desk[d] EXCEPT !.at = at]
  <2>1. desk' = [desk EXCEPT ![d] = q]
    BY <1>2 DEF Mail
  <2>2. q \in Request /\ UnderWay(q) /\ q.op # "submit"
    BY <1>1, <1>2 DEF Request, UnderWay, StepsOf
  <2> QED BY <2>1, <2>2
<1>3. ASSUME desk[d].op = "reject"
      PROVE  \E q : desk' = [desk EXCEPT ![d] = q] /\ q.op # "submit" /\ q = NoRequest
  <2>1. desk' = [desk EXCEPT ![d] = NoRequest]
    BY <1>3 DEF Mail
  <2>2. NoRequest.op # "submit"
    BY DEF NoRequest
  <2> QED BY <2>1, <2>2
<1>4. \E q : /\ desk' = [desk EXCEPT ![d] = q] /\ q.op # "submit"
             /\ q = NoRequest \/ (q \in Request /\ UnderWay(q))
  <2>1. CASE desk[d].op = "letResubmit"
    BY <1>2, <2>1
  <2>2. CASE desk[d].op = "allow"
    BY <1>2, <2>2
  <2>3. CASE desk[d].op = "reject"
    BY <1>3, <2>3
  <2> QED BY <1>1, <2>1, <2>2, <2>3
<1>5. desk[d].app \in 1..Len(apps)
  BY <1>1, Numbers DEF UnderWay
<1> QED BY <1>1, <1>4, <1>5

LEMMA TypeMail ==
  ASSUME TypeInv, NEW d \in Desks, Mail(d) PROVE TypeInv'
<1> USE Numbers
<1>1. UNCHANGED <<apps, tasks, cooldown, gpc, untimed, requests, faults>>
  BY DEF Mail, gateVars
<1>2. PICK q : /\ desk' = [desk EXCEPT ![d] = q] /\ q.op # "submit"
               /\ q = NoRequest \/ (q \in Request /\ UnderWay(q))
  BY MailedDesk
<1>3. desk[d].app \in 1..MaxApps /\ desk[d].op # "submit"
  BY MailedDesk DEF TypeInv, AppsOK
<1>4. DeskOK'
  BY <1>1, <1>2, DeskStep
<1>5. IsFiniteSet(Submitting') /\ Cardinality(Submitting') = Cardinality(Submitting)
  BY <1>2, <1>3, SubmittingLess
<1>6. AppsOK'
  BY <1>1, <1>5 DEF TypeInv, AppsOK
<1>7. TasksOK' /\ TimerOK'
  BY <1>1, GateKept
<1>8. /\ told' \in [1..MaxApps -> Decisions \cup Mails \cup {"nothing"}]
      /\ mistold' \subseteq 1..MaxApps
  BY <1>3 DEF Mail, Mails, TypeInv, RestOK
<1>9. RestOK'
  BY <1>1, <1>8 DEF TypeInv, RestOK
<1> QED BY <1>4, <1>6, <1>7, <1>9 DEF TypeInv

(* A request that ends, with its task sent or not. *)
LEMMA DeskFreed ==
  ASSUME TypeInv, NEW d \in Desks, desk[d].at \in {"resolve", "mail", "dispatch"},
         desk' = [desk EXCEPT ![d] = NoRequest], UNCHANGED apps
  PROVE  /\ AppsOK' /\ DeskOK' /\ desk[d].app \in DOMAIN apps /\ UnderWay(desk[d])
         /\ desk[d].at = "dispatch" =>
              desk[d].op \in {"approve", "grant", "deny", "revoke", "allow"}
<1> USE Numbers
<1>1. /\ UnderWay(desk[d]) /\ desk[d].op # "submit"
      /\ desk[d].at = "dispatch" =>
           desk[d].op \in {"approve", "grant", "deny", "revoke", "allow"}
  BY DEF TypeInv, DeskOK, NoRequest, UnderWay, StepsOf, Ops
<1>2. DeskOK'
  BY DeskStep
<1>3. NoRequest.op # "submit"
  BY DEF NoRequest
<1>4. IsFiniteSet(Submitting') /\ Cardinality(Submitting') = Cardinality(Submitting)
  BY <1>1, <1>3, SubmittingLess
<1>5. AppsOK'
  BY <1>4 DEF TypeInv, AppsOK
<1> QED BY <1>1, <1>2, <1>5 DEF UnderWay

LEMMA TypeDispatch ==
  ASSUME TypeInv, NEW d \in Desks, Dispatch(d) PROVE TypeInv'
<1> USE Numbers
<1> DEFINE task == [kind |-> TaskOf(desk[d].op), app |-> desk[d].app]
<1>1. /\ desk[d].at = "dispatch" /\ desk' = [desk EXCEPT ![d] = NoRequest]
      /\ tasks' = Append(tasks, task)
      /\ UNCHANGED <<apps, cooldown, gpc, told, mistold, untimed, requests, faults>>
  BY DEF Dispatch, heard
<1>2. /\ AppsOK' /\ DeskOK' /\ desk[d].app \in DOMAIN apps
      /\ desk[d].op \in {"approve", "grant", "deny", "revoke", "allow"}
  BY <1>1, DeskFreed
<1>3. task \in TaskUpTo(Len(apps))
  BY <1>2 DEF TaskUpTo, TaskOf, Decisions
<1>4. tasks \in Seq(TaskUpTo(Len(apps)))
  BY DEF TypeInv, TasksOK
<1> HIDE DEF task
<1>5. /\ tasks' \in Seq(TaskUpTo(Len(apps))) /\ tasks' # <<>>
      /\ tasks # <<>> => Head(tasks') = Head(tasks)
  BY <1>1, <1>3, <1>4
<1>6. TasksOK'
  BY <1>1, <1>5 DEF TypeInv, TasksOK, TaskUpTo
<1>7. TimerOK' /\ RestOK'
  BY <1>1 DEF TypeInv, TimerOK, RestOK
<1> QED BY <1>2, <1>6, <1>7 DEF TypeInv

LEMMA TypeRequestDies ==
  ASSUME TypeInv, NEW d \in Desks, RequestDies(d) PROVE TypeInv'
<1> USE Numbers
<1>1. /\ desk[d].at \in {"resolve", "mail", "dispatch"} /\ desk' = [desk EXCEPT ![d] = NoRequest]
      /\ faults < MaxFaults /\ faults' = faults + 1 /\ untimed' \subseteq untimed \cup {desk[d].app}
      /\ UNCHANGED <<apps, tasks, cooldown, gpc, told, mistold, requests>>
  BY DEF RequestDies, gateVars, heard
<1>2. AppsOK' /\ DeskOK' /\ desk[d].app \in DOMAIN apps
  BY <1>1, DeskFreed
<1>3. TasksOK' /\ TimerOK'
  BY <1>1, GateKept
<1>4. untimed' \subseteq 1..Len(apps') /\ requests' \in 0..MaxRequests /\ faults' \in 0..MaxFaults
  <2>1. untimed \subseteq 1..Len(apps) /\ requests \in 0..MaxRequests /\ faults \in 0..MaxFaults
    BY DEF TypeInv, RestOK
  <2>2. desk[d].app \in 1..Len(apps) /\ MaxFaults \in Nat
    BY <1>2, Numbers
  <2>3. faults' \in 0..MaxFaults
    BY <1>1, <2>1, <2>2
  <2> QED BY <1>1, <2>1, <2>2, <2>3
<1>5. RestOK'
  BY <1>1, <1>4, RestKept
<1> QED BY <1>2, <1>3, <1>5 DEF TypeInv

-----------------------------------------------------------------------------
(* The gate. *)
LEMMA DesksAlone ==
  ASSUME TypeInv, UNCHANGED <<apps, desk>> PROVE AppsOK' /\ DeskOK'
<1>1. Submitting' = Submitting
  BY DEF Submitting
<1> QED BY <1>1 DEF TypeInv, AppsOK, DeskOK, UnderWay

LEMMA TaskInHand ==
  ASSUME TypeInv, tasks # <<>>
  PROVE  /\ Task \in TaskUpTo(Len(apps)) /\ Task = tasks[1] /\ Len(tasks) \in Nat \ {0}
         /\ Tail(tasks) \in Seq(TaskUpTo(Len(apps)))
  BY HeadTailProperties DEF Task, TypeInv, TasksOK

LEMMA TypeGateReads ==
  ASSUME TypeInv, TimerFires \/ ElapseReads \/ TakeTask \/ Notify PROVE TypeInv'
<1> USE Numbers
<1>1. AppsOK' /\ DeskOK'
  BY DesksAlone DEF TimerFires, ElapseReads, TakeTask, Notify
<1>2. Len(apps') = Len(apps) /\ UNCHANGED <<tasks, untimed, requests, faults>>
  BY DEF TimerFires, ElapseReads, TakeTask, Notify
<1>3. TasksOK'
  <2>1. CASE TakeTask
    <3>1. tasks # <<>> /\ Task.kind \in Decisions \cup {"refresh"}
      BY <2>1, TaskInHand DEF TakeTask, TaskUpTo
    <3> QED BY <1>2, <2>1, <3>1 DEF TakeTask, TypeInv, TasksOK, Task
  <2>2. CASE TimerFires \/ ElapseReads \/ Notify
    BY <1>2, <2>2 DEF TimerFires, ElapseReads, Notify, TypeInv, TasksOK
  <2> QED BY <2>1, <2>2
<1>4. TimerOK'
  <2>1. CASE TimerFires
    BY <1>2, <2>1 DEF TimerFires, Due, NoTimer, TypeInv, TimerOK
  <2>2. CASE ElapseReads
    BY <1>2, <2>2 DEF ElapseReads, TypeInv, TimerOK
  <2>3. CASE TakeTask \/ Notify
    BY <1>2, <2>3 DEF TakeTask, Notify, TypeInv, TimerOK
  <2> QED BY <2>1, <2>2, <2>3
<1>5. RestOK'
  <2>1. /\ told' \in [1..MaxApps -> Decisions \cup Mails \cup {"nothing"}]
        /\ mistold' \subseteq mistold
    <3>1. CASE Notify
      <4>1. Task.kind \in Decisions
        BY <3>1 DEF Notify, TypeInv, TasksOK, Task
      <4> QED BY <3>1, <4>1 DEF Notify, Tell, heard, TypeInv, RestOK
    <3>2. CASE ~Notify
      BY <3>2 DEF TimerFires, ElapseReads, TakeTask, heard, TypeInv, RestOK
    <3> QED BY <3>1, <3>2
  <2> QED BY <1>2, <2>1 DEF TypeInv, RestOK
<1> QED BY <1>1, <1>3, <1>4, <1>5 DEF TypeInv

LEMMA TypeArm == ASSUME TypeInv, Arm PROVE TypeInv'
<1> USE Numbers
<1>1. /\ gpc' = "idle" /\ tasks # <<>> /\ tasks' = Tail(tasks)
      /\ cooldown' = ReadCooldown(Task.app)
      /\ untimed' = (untimed \ {Task.app}) \cup ({cooldown.app} \ {0, Task.app})
      /\ UNCHANGED <<apps, desk, told, mistold, requests, faults>>
  BY DEF Arm, UntimedBy, TypeInv, TasksOK, heard
<1>2. AppsOK' /\ DeskOK'
  BY <1>1, DesksAlone
<1>3. Task.app \in 1..Len(apps) /\ tasks' \in Seq(TaskUpTo(Len(apps)))
  BY <1>1, TaskInHand DEF TaskUpTo
<1>4. TasksOK'
  BY <1>1, <1>3 DEF TasksOK, TaskUpTo
<1>5. TimerOK'
  <2>1. apps[Task.app].cooldownUntil \in 0..OnCooldown
    <3>1. apps[Task.app] \in App
      BY <1>3 DEF TypeInv, AppsOK
    <3> QED BY <3>1 DEF App
  <2>2. cooldown' \in [app : 1..Len(apps), deadline : 1..OnCooldown] \cup {NoTimer}
    BY <1>1, <1>3, <2>1 DEF ReadCooldown
  <2> QED BY <1>1, <2>2 DEF TimerOK
<1>6. cooldown.app \in 0..Len(apps)
  BY DEF TypeInv, TimerOK, NoTimer
<1>7. untimed' \subseteq 1..Len(apps')
  <2>1. untimed \subseteq 1..Len(apps) /\ apps' = apps /\ Len(apps) \in Nat
    BY <1>1, Numbers DEF TypeInv, RestOK
  <2>2. {cooldown.app} \ {0, Task.app} \subseteq 1..Len(apps)
    BY <1>6, <2>1
  <2> QED BY <1>1, <2>1, <2>2
<1>8. RestOK'
  BY <1>1, <1>7, RestKept DEF TypeInv, RestOK
<1> QED BY <1>2, <1>4, <1>5, <1>8 DEF TypeInv

LEMMA TypeElapse == ASSUME TypeInv, ElapseWrites PROVE TypeInv'
<1> USE Numbers
<1> DEFINE i == cooldown.app
           row == [apps[i] EXCEPT !.allowResubmit = TRUE, !.cooldownUntil = 0]
<1>1. /\ gpc = "elapsing" /\ gpc' = "idle" /\ cooldown' = NoTimer
      /\ apps' = [apps EXCEPT ![i] = row]
      /\ UNCHANGED <<desk, tasks, told, mistold, untimed, requests, faults>>
  BY DEF ElapseWrites, heard
<1>2. i \in DOMAIN apps
  BY <1>1 DEF TypeInv, TimerOK
<1>3. row \in App
  <2>1. apps[i] \in App
    BY <1>2 DEF TypeInv, AppsOK
  <2> QED BY <2>1, Numbers DEF App
<1> HIDE DEF row
<1>4. apps' \in Seq(App) /\ Len(apps') = Len(apps) /\ DOMAIN apps' = DOMAIN apps
  BY <1>1, <1>2, <1>3, RowReplaced DEF TypeInv, AppsOK
<1>5. Submitting' = Submitting
  BY <1>1 DEF Submitting
<1>6. AppsOK' /\ DeskOK'
  BY <1>1, <1>4, <1>5 DEF TypeInv, AppsOK, DeskOK, UnderWay
<1>7. TasksOK' /\ TimerOK' /\ RestOK'
  BY <1>1, <1>4 DEF TypeInv, TasksOK, TimerOK, RestOK
<1> QED BY <1>6, <1>7 DEF TypeInv

LEMMA TypeGateFails == ASSUME TypeInv, GateFails PROVE TypeInv'
<1> USE Numbers
<1>1. AppsOK' /\ DeskOK'
  BY DesksAlone DEF GateFails
<1>2. TasksOK' /\ TimerOK'
  BY DEF GateFails, TypeInv, TasksOK, TimerOK
<1>3. RestOK'
  BY DEF GateFails, TypeInv, RestOK, heard
<1> QED BY <1>1, <1>2, <1>3 DEF TypeInv

(* Time brings every date nearer, and takes none away. *)
LEMMA TickedRow ==
  ASSUME NEW row \in App, OnCooldown \in Nat
  PROVE  /\ [row EXCEPT !.cooldownUntil = Sooner(row.cooldownUntil)] \in App
         /\ [row EXCEPT !.cooldownUntil = Sooner(row.cooldownUntil)].status = row.status
<1>1. Sooner(row.cooldownUntil) \in 0..OnCooldown
  BY DEF App, Sooner
<1> QED BY <1>1 DEF App

LEMMA TypeTick == ASSUME TypeInv, Tick PROVE TypeInv'
<1> USE Numbers
<1>1. /\ apps' = [i \in DOMAIN apps |-> [apps[i] EXCEPT !.cooldownUntil = Sooner(apps[i].cooldownUntil)]]
      /\ cooldown' = [cooldown EXCEPT !.deadline = Sooner(cooldown.deadline)]
      /\ UNCHANGED <<desk, tasks, gpc, told, mistold, untimed, requests, faults>>
  BY DEF Tick, heard
<1>2. apps' \in Seq(App) /\ Len(apps') = Len(apps) /\ DOMAIN apps' = DOMAIN apps
  <2>1. \A i \in DOMAIN apps : apps[i] \in App
    BY DEF TypeInv, AppsOK
  <2>2. apps' \in [1..Len(apps) -> App]
    BY <1>1, <2>1, TickedRow
  <2> QED BY <2>2
<1>3. Submitting' = Submitting
  BY <1>1 DEF Submitting
<1>4. AppsOK' /\ DeskOK'
  BY <1>1, <1>2, <1>3 DEF TypeInv, AppsOK, DeskOK, UnderWay
<1>5. TimerOK'
  <2>1. CASE cooldown = NoTimer
    <3>1. cooldown' = NoTimer
      BY <1>1, <2>1 DEF NoTimer, Sooner
    <3> QED BY <1>1, <2>1, <3>1 DEF TypeInv, TimerOK
  <2>2. CASE cooldown \in [app : 1..Len(apps), deadline : 1..OnCooldown]
    <3>1. Sooner(cooldown.deadline) \in 1..OnCooldown
      BY <2>2 DEF Sooner
    <3>2. cooldown' \in [app : 1..Len(apps), deadline : 1..OnCooldown]
      BY <1>1, <2>2, <3>1
    <3>3. cooldown' # NoTimer
      BY <3>2 DEF NoTimer
    <3> QED BY <1>1, <1>2, <3>2, <3>3 DEF TimerOK
  <2> QED BY <2>1, <2>2 DEF TypeInv, TimerOK
<1>6. TasksOK' /\ RestOK'
  BY <1>1, <1>2 DEF TypeInv, TasksOK, RestOK
<1> QED BY <1>4, <1>5, <1>6 DEF TypeInv

LEMMA TypeStep == TypeInv /\ [Next]_vars => TypeInv'
<1> SUFFICES ASSUME TypeInv, [Next]_vars PROVE TypeInv'
  OBVIOUS
<1>1. CASE UNCHANGED vars
  <2>1. AppsOK' /\ DeskOK'
    BY <1>1, DesksAlone DEF vars, gateVars, heard
  <2> QED BY <1>1, <2>1 DEF vars, gateVars, heard, TypeInv, TasksOK, TimerOK, RestOK
<1>2. ASSUME NEW d \in Desks, Begin(d) \/ Serve(d) \/ RequestDies(d) PROVE TypeInv'
  BY <1>2, TypeBegin, TypeWrite, TypeMail, TypeResolve, TypeDispatch, TypeRequestDies DEF Serve
<1>3. CASE Gate
  BY <1>3, TypeGateReads, TypeArm, TypeElapse DEF Gate
<1>4. CASE GateFails
  BY <1>4, TypeGateFails
<1>5. CASE Tick
  BY <1>5, TypeTick
<1> QED BY <1>1, <1>2, <1>3, <1>4, <1>5 DEF Next

LEMMA TypesAlways == Spec => []TypeInv
  BY TypeInit, TypeStep, PTL DEF Spec

(* decide.ts and lifecycle.ts: however requests overlap, an application, an appeal *)
(* and a cooldown keep to their values, no task is about an application there is   *)
(* not, and the gate's one timer is off or has a date (contributor-gate.ts).        *)
THEOREM ApplicationTypes == Spec => []TypeOK
<1>1. TypeInv => TypeOK
  <2> SUFFICES ASSUME TypeInv PROVE TypeOK
    OBVIOUS
  <2> USE Numbers
  <2>1. Len(apps) \in 1..MaxApps /\ \A i \in DOMAIN apps : apps[i] \in App
    BY DEF TypeInv, AppsOK
  <2>2. \A n \in 1..Len(apps) : n \in 1..MaxApps
    OBVIOUS
  <2>3. desk \in [Desks -> [op : Ops \cup {"none"}, app : 0..MaxApps,
                            at : {"idle", "write", "mail", "resolve", "dispatch"}]]
    <3>1. \A d \in Desks : desk[d].app \in 0..MaxApps /\ desk[d] \in Request
      BY DEF TypeInv, DeskOK, NoRequest, UnderWay
    <3> QED BY <3>1 DEF TypeInv, DeskOK, Request
  <2>4. tasks \in Seq([kind : Decisions \cup {"refresh"}, app : 1..MaxApps])
    <3>1. TaskUpTo(Len(apps)) \subseteq TaskUpTo(MaxApps)
      BY <2>2 DEF TaskUpTo
    <3>2. tasks \in Seq(TaskUpTo(MaxApps))
      BY <3>1, SeqGrows DEF TypeInv, TasksOK
    <3> QED BY <3>2 DEF TaskUpTo
  <2>5. cooldown \in [app : 1..MaxApps, deadline : 1..OnCooldown] \cup {NoTimer}
    BY <2>2 DEF TypeInv, TimerOK
  <2>6. untimed \subseteq 1..MaxApps
    BY <2>2 DEF TypeInv, RestOK
  <2> QED BY <2>1, <2>3, <2>4, <2>5, <2>6 DEF TypeOK, App, TypeInv, TasksOK, RestOK
<1> QED BY <1>1, TypesAlways, PTL

-----------------------------------------------------------------------------
(* The last word.  What comes is kept by every step that neither tells the  *)
(* applicant nor loses a task; a write that changes where an application      *)
(* stands is on its way; and a telling is of what stands.                     *)
LEMMA CarriedOn ==
  ASSUME TypeInv, NEW d \in Desks, NEW q, desk' = [desk EXCEPT ![d] = q],
         \A kind \in Decisions : ~Decides(desk[d].op, kind) \/ desk[d].at \notin {"resolve", "dispatch"}
  PROVE  \A kind \in Decisions, i \in 1..MaxApps : Carried(kind, i) => Carried(kind, i)'
<1> SUFFICES ASSUME NEW kind \in Decisions, NEW i \in 1..MaxApps, Carried(kind, i)
             PROVE  Carried(kind, i)'
  OBVIOUS
<1>1. PICK c \in Desks :
        desk[c].at \in {"resolve", "dispatch"} /\ desk[c].app = i /\ Decides(desk[c].op, kind)
  BY DEF Carried
<1>2. c # d /\ desk'[c] = desk[c]
  BY <1>1 DEF TypeInv, DeskOK
<1> QED BY <1>1, <1>2 DEF Carried, Decides

(* Nothing is told and nothing that was coming is lost; what stands elsewhere than *)
(* before is coming.                                                                *)
LEMMA WordKept ==
  ASSUME TypeInv, TypeInv', WordInv, UNCHANGED <<told, mistold>>, faults' = faults,
         DOMAIN apps \subseteq DOMAIN apps',
         \A kind \in Decisions, i \in 1..MaxApps : Coming(kind, i) => Coming(kind, i)',
         \A i \in DOMAIN apps :
           \/ apps'[i].status = apps[i].status
           \/ \E kind \in Decisions : StillStands(kind, apps'[i].status) /\ Coming(kind, i)',
         \A i \in DOMAIN apps' \ DOMAIN apps : apps'[i].status = "SUBMITTED"
  PROVE  WordInv'
<1> USE Numbers
<1> SUFFICES ASSUME faults = 0 PROVE WordInv'
  BY DEF WordInv
<1>1. /\ Len(apps') \in Nat /\ Len(apps) <= Len(apps') /\ Len(apps') <= MaxApps
      /\ DOMAIN apps' = 1..Len(apps') /\ DOMAIN apps = 1..Len(apps)
  <2>1. Len(apps') \in Nat /\ DOMAIN apps' = 1..Len(apps') /\ Len(apps') <= MaxApps
    BY FS_CardinalityType DEF TypeInv, AppsOK
  <2>2. Len(apps) \in 1..Len(apps')
    BY <2>1
  <2> QED BY <2>1, <2>2
<1>2. ASSUME NEW i \in DOMAIN apps' PROVE WordComes(i)'
  <2>1. CASE i \in DOMAIN apps /\ apps'[i].status = apps[i].status
    <3>1. WordComes(i) /\ i \in 1..MaxApps
      BY <1>1, <2>1 DEF WordInv
    <3>2. Told(i) => Told(i)'
      BY <2>1 DEF Told
    <3>3. ASSUME NEW kind \in Decisions, StillStands(kind, apps[i].status), Coming(kind, i)
          PROVE  StillStands(kind, apps'[i].status) /\ Coming(kind, i)'
      BY <2>1, <3>1, <3>3
    <3> QED BY <3>1, <3>2, <3>3 DEF WordComes
  <2>2. CASE /\ i \in DOMAIN apps
             /\ \E kind \in Decisions : StillStands(kind, apps'[i].status) /\ Coming(kind, i)'
    BY <2>2 DEF WordComes
  <2>3. CASE i \notin DOMAIN apps
    <3>1. told[i] = "nothing" /\ apps'[i].status = "SUBMITTED"
      BY <1>1, <2>3 DEF WordInv
    <3> QED BY <3>1 DEF WordComes, Told
  <2> QED BY <2>1, <2>2, <2>3
<1>3. \A i \in 1..MaxApps : i > Len(apps') => told'[i] = "nothing"
  BY <1>1 DEF WordInv
<1> QED BY <1>2, <1>3 DEF WordInv

(* Where neither the tasks nor the loop move, what is in line is in line. *)
LEMMA LineKept ==
  ASSUME UNCHANGED <<tasks, gpc>>, NEW kind, NEW i
  PROVE  InLine(kind, i) => InLine(kind, i)'
  BY DEF InLine

LEMMA WordInit == Init => WordInv
<1> SUFFICES ASSUME Init PROVE WordInv
  OBVIOUS
<1>1. \A i \in 1..MaxApps : told[i] = "nothing"
  BY DEF Init
<1>2. \A i \in DOMAIN apps : i \in 1..MaxApps /\ apps[i].status = "SUBMITTED"
  BY ApplicationsAssumption DEF Init, FreshApp
<1> QED BY <1>1, <1>2 DEF WordInv, WordComes, Told

LEMMA WordBegin ==
  ASSUME TypeInv, TypeInv', WordInv, NEW d \in Desks, Begin(d) PROVE WordInv'
<1>1. /\ \E q : desk' = [desk EXCEPT ![d] = q]
      /\ desk[d].at = "idle" /\ UNCHANGED <<apps, tasks, gpc, told, mistold, faults>>
  <2>1. desk[d] = NoRequest /\ UNCHANGED <<apps, tasks, gpc, told, mistold, faults>>
    BY DEF Begin, gateVars, heard
  <2>2. \E q : desk' = [desk EXCEPT ![d] = q]
    BY DEF Begin
  <2>3. desk[d].at = "idle"
    BY <2>1 DEF NoRequest
  <2> QED BY <2>1, <2>2, <2>3
<1>2. \A kind \in Decisions, i \in 1..MaxApps : Carried(kind, i) => Carried(kind, i)'
  BY <1>1, CarriedOn
<1>3. \A kind \in Decisions, i \in 1..MaxApps : Coming(kind, i) => Coming(kind, i)'
  BY <1>1, <1>2, LineKept DEF Coming
<1> QED BY <1>1, <1>3, WordKept

LEMMA WordWrite ==
  ASSUME TypeInv, TypeInv', WordInv, NEW d \in Desks, Write(d) PROVE WordInv'
<1> USE Numbers
<1>1. desk[d].at = "write" /\ UNCHANGED <<tasks, gpc, told, mistold, faults>>
  BY DEF Write, gateVars, heard
<1>2. \A kind \in Decisions, i \in 1..MaxApps : Carried(kind, i) => Carried(kind, i)'
  BY <1>1, WrittenDesk, CarriedOn
<1>3. \A kind \in Decisions, i \in 1..MaxApps : Coming(kind, i) => Coming(kind, i)'
  BY <1>1, <1>2, LineKept DEF Coming
<1>4. CASE desk[d].op = "submit"
  <2>1. apps' = Append(apps, FreshApp)
    BY <1>1, <1>4 DEF Write, submitApplication
  <2>2. /\ DOMAIN apps' = 1..(Len(apps) + 1) /\ apps'[Len(apps) + 1] = FreshApp
        /\ \A i \in DOMAIN apps : apps'[i] = apps[i]
    BY <2>1 DEF TypeInv, AppsOK
  <2>3. /\ DOMAIN apps \subseteq DOMAIN apps'
        /\ \A i \in DOMAIN apps' \ DOMAIN apps : apps'[i].status = "SUBMITTED"
    BY <2>2 DEF FreshApp
  <2> QED BY <1>1, <1>3, <2>2, <2>3, WordKept
<1>5. CASE desk[d].op # "submit"
  <2> DEFINE a == desk[d].app
  <2>1. a \in DOMAIN apps /\ UnderWay(desk[d])
    BY <1>5, WrittenRow
  <2>2. PICK row \in App :
          /\ apps' = [apps EXCEPT ![a] = row]
          /\ \/ row.status = apps[a].status
             \/ \E kind \in Decisions :
                  Sends(d) /\ Decides(desk[d].op, kind) /\ StillStands(kind, row.status)
    BY <1>5, WrittenRow
  <2>3. DOMAIN apps' = DOMAIN apps /\ apps'[a] = row /\ \A i \in DOMAIN apps : i # a => apps'[i] = apps[i]
    BY <2>1, <2>2, RowReplaced DEF TypeInv, AppsOK
  <2>4. ASSUME NEW kind \in Decisions, Sends(d), Decides(desk[d].op, kind), NEW i, i = a
        PROVE  Coming(kind, i)'
    <3>1. PICK at \in {"resolve", "dispatch"} : desk' = [desk EXCEPT ![d] = [desk[d] EXCEPT !.at = at]]
      BY <2>4 DEF Sends
    <3>2. desk'[d].at = at /\ desk'[d].op = desk[d].op /\ desk'[d].app = a
      BY <3>1 DEF TypeInv, DeskOK, Request
    <3> QED BY <2>4, <3>2 DEF Coming, Carried, Decides
  <2>5. \A i \in DOMAIN apps :
          \/ apps'[i].status = apps[i].status
          \/ \E kind \in Decisions : StillStands(kind, apps'[i].status) /\ Coming(kind, i)'
    <3> SUFFICES ASSUME NEW i \in DOMAIN apps, i = a
                 PROVE  \/ apps'[i].status = apps[i].status
                        \/ \E kind \in Decisions : StillStands(kind, apps'[i].status) /\ Coming(kind, i)'
      BY <2>3
    <3>1. apps'[i] = row
      BY <2>3
    <3> QED BY <2>2, <2>4, <3>1
  <2> QED BY <1>1, <1>3, <2>3, <2>5, WordKept
<1> QED BY <1>4, <1>5

LEMMA WordResolve ==
  ASSUME TypeInv, TypeInv', WordInv, NEW d \in Desks, ResolveAppeal(d) PROVE WordInv'
<1>1. /\ desk[d].app \in DOMAIN apps /\ desk[d] \in Request
      /\ desk[d].op \in {"grant", "letResubmit", "reject"}
      /\ UNCHANGED <<tasks, gpc, told, mistold, faults>>
  BY ResolvedRow DEF ResolveAppeal, gateVars, heard
<1>2. PICK row \in App :
        apps' = [apps EXCEPT ![desk[d].app] = row] /\ row.status = apps[desk[d].app].status
  BY ResolvedRow
<1>3. DOMAIN apps' = DOMAIN apps /\ \A i \in DOMAIN apps : apps'[i].status = apps[i].status
  <2>1. /\ DOMAIN apps' = DOMAIN apps /\ apps'[desk[d].app] = row
        /\ \A i \in DOMAIN apps : i # desk[d].app => apps'[i] = apps[i]
    BY <1>1, <1>2, RowReplaced DEF TypeInv, AppsOK
  <2> QED BY <1>2, <2>1
<1>4. \A kind \in Decisions, i \in 1..MaxApps : Carried(kind, i) => Carried(kind, i)'
  <2>1. CASE desk[d].op # "grant"
    <3>1. \A kind \in Decisions : ~Decides(desk[d].op, kind)
      BY <1>1, <2>1 DEF Decides
    <3>2. \E q : desk' = [desk EXCEPT ![d] = q]
      BY DEF ResolveAppeal
    <3> QED BY <3>1, <3>2, CarriedOn
  <2>2. CASE desk[d].op = "grant"
    <3>1. desk' = [desk EXCEPT ![d] = [desk[d] EXCEPT !.at = "dispatch"]]
      BY <2>2 DEF ResolveAppeal
    <3>2. /\ desk'[d].at = "dispatch" /\ desk'[d].op = desk[d].op /\ desk'[d].app = desk[d].app
          /\ \A c \in Desks : c # d => desk'[c] = desk[c]
      BY <1>1, <3>1 DEF TypeInv, DeskOK, Request
    <3> QED BY <3>2 DEF Carried, Decides
  <2> QED BY <2>1, <2>2
<1>5. \A kind \in Decisions, i \in 1..MaxApps : Coming(kind, i) => Coming(kind, i)'
  BY <1>1, <1>4, LineKept DEF Coming
<1> QED BY <1>1, <1>3, <1>5, WordKept

(* A mail is no approval: what was last heard is true, or heard of an application *)
(* that stood approved.                                                           *)
LEMMA WordMail ==
  ASSUME TypeInv, TypeInv', WordInv, NEW d \in Desks, Mail(d) PROVE WordInv'
<1> USE Numbers
<1> SUFFICES ASSUME faults = 0 PROVE WordInv'
  BY DEF WordInv, Mail
<1> DEFINE a == desk[d].app
<1>1. /\ a \in 1..Len(apps) /\ a \in 1..MaxApps /\ desk[d].at = "mail"
      /\ UNCHANGED <<apps, tasks, gpc, faults>>
  <2>1. a \in 1..Len(apps) /\ desk[d].at = "mail"
    BY MailedDesk
  <2>2. UNCHANGED <<apps, tasks, gpc, faults>>
    BY DEF Mail, gateVars
  <2> QED BY <2>1, <2>2
<1>2. \A kind \in Decisions, i \in 1..MaxApps : Carried(kind, i) => Carried(kind, i)'
  BY <1>1, MailedDesk, CarriedOn
<1>3. \A kind \in Decisions, i \in 1..MaxApps : Coming(kind, i) => Coming(kind, i)'
  BY <1>1, <1>2, LineKept DEF Coming
<1>4. PICK word \in Mails : told' = [told EXCEPT ![a] = word]
  BY DEF Mail, Mails
<1>5. /\ mistold \ {a} \subseteq mistold' /\ (apps[a].status = "APPROVED" => a \in mistold')
      /\ told \in [1..MaxApps -> Decisions \cup Mails \cup {"nothing"}]
  BY DEF Mail, TypeInv, RestOK
<1>6. ASSUME NEW i \in DOMAIN apps PROVE WordComes(i)'
  <2>1. WordComes(i) /\ i \in 1..MaxApps
    BY DEF WordInv
  <2>2. CASE i = a
    <3>1. told'[i] # "approved"
      BY <1>1, <1>4, <1>5, <2>2 DEF Mails
    <3> QED BY <1>1, <1>5, <2>2, <3>1 DEF WordComes, Told
  <2>3. CASE i # a
    <3>1. told'[i] = told[i] /\ (i \in mistold => i \in mistold')
      BY <1>4, <1>5, <2>1, <2>3
    <3>2. Told(i) => Told(i)'
      BY <1>1, <3>1 DEF Told
    <3> QED BY <1>1, <1>3, <2>1, <3>2 DEF WordComes
  <2> QED BY <2>2, <2>3
<1>7. \A i \in 1..MaxApps : i > Len(apps) => told'[i] = "nothing"
  BY <1>1, <1>4, <1>5 DEF WordInv
<1> QED BY <1>1, <1>6, <1>7 DEF WordInv

(* What was carried is in line: at the end, and not at the point of being told. *)
LEMMA WordDispatch ==
  ASSUME TypeInv, TypeInv', WordInv, NEW d \in Desks, Dispatch(d) PROVE WordInv'
<1> DEFINE task == [kind |-> TaskOf(desk[d].op), app |-> desk[d].app]
<1>1. /\ desk[d].at = "dispatch" /\ desk' = [desk EXCEPT ![d] = NoRequest]
      /\ tasks' = Append(tasks, task) /\ UNCHANGED <<apps, gpc, told, mistold, faults>>
  BY DEF Dispatch, heard
<1>2. desk[d].op \in {"approve", "grant", "deny", "revoke", "allow"}
  BY <1>1, DeskFreed
<1>3. tasks \in Seq(TaskUpTo(Len(apps))) /\ (gpc = "arm" => Len(tasks) > 0)
  BY DEF TypeInv, TasksOK
<1>4. ASSUME NEW kind \in Decisions, Decides(desk[d].op, kind), NEW i, i = desk[d].app
      PROVE  InLine(kind, i)'
  <2>1. task.kind = kind /\ task.app = i
    BY <1>2, <1>4 DEF Decides, TaskOf, Decisions
  <2> HIDE DEF task
  <2>2. /\ Len(tasks') = Len(tasks) + 1 /\ tasks'[Len(tasks) + 1] = task
        /\ Len(tasks) \in Nat
    BY <1>1, <1>3
  <2>3. Len(tasks) + 1 \in 1..Len(tasks') /\ (Len(tasks) + 1 > 1 \/ gpc' # "arm")
    BY <1>1, <1>3, <2>2
  <2> QED BY <2>1, <2>2, <2>3 DEF InLine
<1>5. ASSUME NEW kind \in Decisions, NEW i, InLine(kind, i) PROVE InLine(kind, i)'
  <2> HIDE DEF task
  <2>1. /\ Len(tasks') = Len(tasks) + 1 /\ Len(tasks) \in Nat
        /\ \A n \in 1..Len(tasks) : tasks'[n] = tasks[n]
    BY <1>1, <1>3
  <2> QED BY <1>1, <1>5, <2>1 DEF InLine
<1>6. ASSUME NEW kind \in Decisions, NEW i \in 1..MaxApps, Carried(kind, i) PROVE Coming(kind, i)'
  <2>1. PICK c \in Desks :
          desk[c].at \in {"resolve", "dispatch"} /\ desk[c].app = i /\ Decides(desk[c].op, kind)
    BY <1>6 DEF Carried
  <2>2. CASE c = d
    BY <1>4, <2>1, <2>2 DEF Coming
  <2>3. CASE c # d
    <3>1. desk'[c] = desk[c]
      BY <1>1, <2>3 DEF TypeInv, DeskOK
    <3> QED BY <2>1, <3>1 DEF Coming, Carried, Decides
  <2> QED BY <2>2, <2>3
<1>7. \A kind \in Decisions, i \in 1..MaxApps : Coming(kind, i) => Coming(kind, i)'
  BY <1>5, <1>6 DEF Coming
<1> QED BY <1>1, <1>7, WordKept

(* A refresh is no decision: to take it is to lose nothing of what is coming. *)
LEMMA WordLoop ==
  ASSUME TypeInv, TypeInv', WordInv, TimerFires \/ ElapseReads \/ TakeTask PROVE WordInv'
<1>1. UNCHANGED <<apps, desk, tasks, told, mistold, faults>> /\ gpc # "arm"
  BY DEF TimerFires, ElapseReads, TakeTask, heard
<1>2. gpc' = "arm" => tasks # <<>> /\ Task.kind = "refresh" /\ Task = tasks[1]
  BY TaskInHand DEF TimerFires, ElapseReads, TakeTask
<1>3. ASSUME NEW kind \in Decisions, NEW i, InLine(kind, i) PROVE InLine(kind, i)'
  <2>1. PICK n \in 1..Len(tasks) : tasks[n].kind = kind /\ tasks[n].app = i
    BY <1>3 DEF InLine
  <2>2. n > 1 \/ gpc' # "arm"
    BY <1>2, <2>1 DEF Decisions, TypeInv, TasksOK
  <2> QED BY <1>1, <2>1, <2>2 DEF InLine
<1>4. ASSUME NEW kind, NEW i, Carried(kind, i) PROVE Carried(kind, i)'
  BY <1>1, <1>4 DEF Carried, Decides
<1>5. \A kind \in Decisions, i \in 1..MaxApps : Coming(kind, i) => Coming(kind, i)'
  BY <1>3, <1>4 DEF Coming
<1> QED BY <1>1, <1>5, WordKept

(* The applicant is told what stands; of what no longer does, another is coming. *)
LEMMA WordNotify ==
  ASSUME TypeInv, TypeInv', WordInv, Notify PROVE WordInv'
<1> USE Numbers
<1> SUFFICES ASSUME faults = 0 PROVE WordInv'
  BY DEF WordInv, Notify
<1> DEFINE a == Task.app
           stands == StillStands(Task.kind, apps[a].status)
<1>1. /\ gpc = "notify" /\ gpc' = "arm" /\ UNCHANGED <<apps, desk, tasks, faults>>
      /\ stands => told' = [told EXCEPT ![a] = Task.kind] /\ mistold' = mistold \ {a}
      /\ ~stands => UNCHANGED <<told, mistold>>
  BY DEF Notify, Tell, heard
<1>2. tasks # <<>> /\ Task.kind \in Decisions
  BY <1>1 DEF TypeInv, TasksOK, Task
<1>3. Task = tasks[1] /\ a \in 1..Len(apps) /\ Len(tasks) \in Nat
  BY <1>2, TaskInHand DEF TaskUpTo
<1>4. told \in [1..MaxApps -> Decisions \cup Mails \cup {"nothing"}]
  BY DEF TypeInv, RestOK
<1>5. ASSUME NEW kind \in Decisions, NEW i \in DOMAIN apps, Coming(kind, i),
             i # a \/ kind # Task.kind
      PROVE  Coming(kind, i)'
  <2>1. CASE Carried(kind, i)
    BY <1>1, <2>1 DEF Coming, Carried, Decides
  <2>2. CASE InLine(kind, i)
    <3>1. PICK n \in 1..Len(tasks) : tasks[n].kind = kind /\ tasks[n].app = i
      BY <2>2 DEF InLine
    <3>2. n > 1
      BY <1>3, <1>5, <3>1
    <3> QED BY <1>1, <3>1, <3>2 DEF Coming, InLine
  <2> QED BY <1>5, <2>1, <2>2 DEF Coming
<1>6. ASSUME NEW i \in DOMAIN apps PROVE WordComes(i)'
  <2>1. WordComes(i) /\ i \in 1..MaxApps
    BY DEF WordInv
  <2>2. CASE i = a /\ stands
    <3>1. told'[i] = Task.kind
      BY <1>1, <1>4, <2>1, <2>2
    <3>2. Task.kind = "approved" <=> apps[i].status = "APPROVED"
      BY <1>2, <2>2 DEF StillStands, Decisions
    <3> QED BY <1>1, <3>1, <3>2 DEF WordComes, Told
  <2>3. CASE i # a \/ ~stands
    <3>1. told'[i] = told[i] /\ (i \in mistold => i \in mistold')
      BY <1>1, <1>4, <2>1, <2>3
    <3>2. Told(i) => Told(i)'
      BY <1>1, <3>1 DEF Told
    <3>3. ASSUME NEW kind \in Decisions, StillStands(kind, apps[i].status), Coming(kind, i)
          PROVE  StillStands(kind, apps'[i].status) /\ Coming(kind, i)'
      <4>1. i # a \/ kind # Task.kind
        BY <2>3, <3>3
      <4> QED BY <1>1, <1>5, <3>3, <4>1
    <3> QED BY <2>1, <3>2, <3>3 DEF WordComes
  <2> QED BY <2>2, <2>3
<1>7. \A i \in 1..MaxApps : i > Len(apps) => told'[i] = "nothing"
  BY <1>1, <1>3, <1>4 DEF WordInv
<1> QED BY <1>1, <1>6, <1>7 DEF WordInv

(* The task in hand is done, and the rest of the line comes one nearer. *)
LEMMA WordArm ==
  ASSUME TypeInv, TypeInv', WordInv, Arm PROVE WordInv'
<1>1. /\ gpc = "arm" /\ gpc' = "idle" /\ tasks' = Tail(tasks) /\ tasks # <<>>
      /\ UNCHANGED <<apps, desk, told, mistold, faults>>
  BY DEF Arm, TypeInv, TasksOK, heard
<1>2. /\ Len(tasks) \in Nat /\ Len(tasks') = Len(tasks) - 1
      /\ \A n \in 1..Len(tasks') : tasks'[n] = tasks[n + 1]
  BY <1>1 DEF TypeInv, TasksOK
<1>3. ASSUME NEW kind, NEW i, InLine(kind, i) PROVE InLine(kind, i)'
  <2>1. PICK n \in 1..Len(tasks) : tasks[n].kind = kind /\ tasks[n].app = i /\ n > 1
    BY <1>1, <1>3 DEF InLine
  <2>2. n - 1 \in 1..Len(tasks') /\ tasks'[n - 1] = tasks[n]
    BY <1>2, <2>1
  <2> QED BY <1>1, <2>1, <2>2 DEF InLine
<1>4. ASSUME NEW kind, NEW i, Carried(kind, i) PROVE Carried(kind, i)'
  BY <1>1, <1>4 DEF Carried, Decides
<1>5. \A kind \in Decisions, i \in 1..MaxApps : Coming(kind, i) => Coming(kind, i)'
  BY <1>3, <1>4 DEF Coming
<1> QED BY <1>1, <1>5, WordKept

(* Dates change nothing of where an application stands. *)
LEMMA WordDates ==
  ASSUME TypeInv, TypeInv', WordInv, ElapseWrites \/ Tick PROVE WordInv'
<1> USE Numbers
<1>1. UNCHANGED <<desk, tasks, told, mistold, faults>> /\ (gpc' = "arm" => gpc = "arm")
  BY DEF ElapseWrites, Tick, heard
<1>2. DOMAIN apps' = DOMAIN apps /\ \A i \in DOMAIN apps : apps'[i].status = apps[i].status
  <2>1. \A i \in DOMAIN apps : apps[i] \in App
    BY DEF TypeInv, AppsOK
  <2>2. CASE ElapseWrites
    <3> DEFINE row == [apps[cooldown.app] EXCEPT !.allowResubmit = TRUE, !.cooldownUntil = 0]
    <3>1. cooldown.app \in DOMAIN apps /\ apps' = [apps EXCEPT ![cooldown.app] = row]
      BY <2>2 DEF ElapseWrites, TypeInv, TimerOK
    <3>2. row \in App /\ row.status = apps[cooldown.app].status
      BY <2>1, <3>1 DEF App
    <3> HIDE DEF row
    <3>3. /\ DOMAIN apps' = DOMAIN apps /\ apps'[cooldown.app] = row
          /\ \A i \in DOMAIN apps : i # cooldown.app => apps'[i] = apps[i]
      BY <3>1, <3>2, RowReplaced DEF TypeInv, AppsOK
    <3> QED BY <3>2, <3>3
  <2>3. CASE Tick
    <3>1. apps' = [i \in DOMAIN apps |-> [apps[i] EXCEPT !.cooldownUntil = Sooner(apps[i].cooldownUntil)]]
      BY <2>3 DEF Tick
    <3> QED BY <2>1, <3>1, TickedRow
  <2> QED BY <2>2, <2>3
<1>3. ASSUME NEW kind, NEW i, InLine(kind, i) PROVE InLine(kind, i)'
  BY <1>1, <1>3 DEF InLine
<1>4. ASSUME NEW kind, NEW i, Carried(kind, i) PROVE Carried(kind, i)'
  BY <1>1, <1>4 DEF Carried, Decides
<1>5. \A kind \in Decisions, i \in 1..MaxApps : Coming(kind, i) => Coming(kind, i)'
  BY <1>3, <1>4 DEF Coming
<1> QED BY <1>1, <1>2, <1>5, WordKept

LEMMA WordStep == TypeInv /\ TypeInv' /\ WordInv /\ [Next]_vars => WordInv'
<1> SUFFICES ASSUME TypeInv, TypeInv', WordInv, [Next]_vars PROVE WordInv'
  OBVIOUS
<1>1. CASE UNCHANGED vars
  <2>1. UNCHANGED <<apps, desk, tasks, gpc, told, mistold, faults>>
    BY <1>1 DEF vars, gateVars, heard
  <2>2. \A kind, i : Coming(kind, i) => Coming(kind, i)'
    BY <2>1 DEF Coming, Carried, InLine, Decides
  <2> QED BY <2>1, <2>2, WordKept
<1>2. ASSUME NEW d \in Desks, Begin(d) \/ Serve(d) PROVE WordInv'
  BY <1>2, WordBegin, WordWrite, WordMail, WordResolve, WordDispatch DEF Serve
<1>3. CASE GateFails \/ \E d \in Desks : RequestDies(d)
  <2>1. faults \in Nat /\ faults' = faults + 1
    BY <1>3 DEF GateFails, RequestDies, TypeInv, RestOK
  <2> QED BY <2>1 DEF WordInv
<1>4. CASE Gate
  BY <1>4, WordLoop, WordNotify, WordArm, WordDates DEF Gate
<1>5. CASE Tick
  BY <1>5, WordDates
<1> QED BY <1>1, <1>2, <1>3, <1>4, <1>5 DEF Next

(* notify-decision.ts:29-31: however many requests decide on an application, in      *)
(* whatever order their writes, their mails and their tasks follow one another, when  *)
(* all is quiet the last thing its owner was told is an approval if and only if it     *)
(* stands approved, or is one of the unchecked mails of decide.ts (:313, :525) sent     *)
(* when it stood approved.                                                              *)
THEOREM LastWord == Spec => []LastWordIsTrue
<1>1. TypeInv /\ WordInv => LastWordIsTrue
  <2> SUFFICES ASSUME TypeInv, WordInv, Quiet, faults = 0, NEW i \in DOMAIN apps \ mistold
               PROVE  apps[i].status = "APPROVED" <=> told[i] = "approved"
    BY DEF LastWordIsTrue
  <2>1. \A kind \in Decisions : ~Carried(kind, i)
    BY DEF Quiet, Carried, NoRequest
  <2>2. \A kind \in Decisions : ~InLine(kind, i)
    BY DEF Quiet, InLine
  <2>3. WordComes(i)
    BY DEF WordInv
  <2> QED BY <2>1, <2>2, <2>3 DEF WordComes, Told, Coming
<1>2. Spec => []WordInv
  BY WordInit, WordStep, TypesAlways, PTL DEF Spec
<1> QED BY <1>1, <1>2, TypesAlways, PTL
=============================================================================
