---------------------------- MODULE RequestBudget ----------------------------
(***************************************************************************)
(* The request budget of one installation (src/src/lib/github/budget.ts):   *)
(* what one process believes of GitHub's hourly quota, and the two lanes    *)
(* that share it.  Calls overlap, their answers come in any order and       *)
(* however late, other processes spend too, and clocks differ.              *)
(*                                                                         *)
(* Times are ticks from now on this process's clock, so time has no end.    *)
(***************************************************************************)
EXTENDS Integers, FiniteSets

CONSTANTS
  Calls,          \* requests that may be under way at once
  Limit,          \* GitHub's quota
  DEFAULT_LIMIT,  \* what a window takes it for before the first answer
  Hour,           \* WINDOW_MS, which is GitHub's too
  Lags,           \* by how much this process's clock may be behind GitHub's, or ahead (< 0)
  MaxMishaps      \* bound: calls lost, restarts of the process, and answers of this
                  \* hour that name a reset the clock is past

ASSUME BudgetAssumption ==
  /\ IsFiniteSet(Calls) /\ Lags \subseteq Int /\ MaxMishaps \in Nat
  /\ Limit \in Nat /\ DEFAULT_LIMIT \in 0..Limit /\ Hour \in Nat \ {0}

VARIABLES
  spent, left,   \* GitHub: requests counted this hour, ticks until it resets
  window,        \* the process's Window
  calls,         \* calls[c]: the request under way there, or its answer
  lag,           \* the clock's
  \* What an observer remembers of GitHub's hour; no step reads these
  bulkSent,      \* requests of the bulk lane let through
  forgotten,     \* restarts, answers of an earlier hour or with a reset that is over,
                 \* windows no answer put right
  lost,          \* calls that never reached GitHub
  mishaps

github == <<spent, left>>
tally == <<bulkSent, forgotten, lost>>
budgetVars == <<github, window, calls, lag, tally, mishaps>>

Lane == {"interactive", "bulk"}
Unknown == -1   \* remaining: null

Idle == [at |-> "idle", remaining |-> 0, reset |-> 0, old |-> FALSE]
Sent == [Idle EXCEPT !.at = "sent"]

(* end is windowEnd(w) and known whether it is a reset GitHub named. *)
freshWindow(limit) ==
  [limit |-> limit, remaining |-> Unknown, known |-> FALSE, end |-> Hour,
   used |-> [l \in Lane |-> 0]]

(* A process that has sent nothing has no window; the first call makes one. *)
NoWindow == [freshWindow(DEFAULT_LIMIT) EXCEPT !.end = 0]

BudgetInit ==
  /\ spent \in 0..Limit /\ left \in 1..Hour
  /\ window = NoWindow /\ calls = [c \in Calls |-> Idle] /\ lag \in Lags
  /\ bulkSent = 0 /\ forgotten = 0 /\ lost = 0 /\ mishaps = 0

Mishap == mishaps < MaxMishaps /\ mishaps' = mishaps + 1
Answers(c, call) == calls' = [calls EXCEPT ![c] = call]

-----------------------------------------------------------------------------
(* Mutant of getWindow: a window that is over only has its counts cleared. *)
getWindowKept ==
  IF window.end = 0 THEN [freshWindow(window.limit) EXCEPT !.remaining = window.remaining]
  ELSE window

getWindow == IF window.end = 0 THEN freshWindow(window.limit) ELSE window

bulkCap(limit) == limit \div 4

(* What the interactive lane has not used of its share is spoken for. *)
Reserved(w) == w.limit - bulkCap(w.limit) - w.used["interactive"]

Refuses(w, lane) ==
  \/ w.remaining = 0
  \/ /\ lane = "bulk"
     /\ \/ w.used["bulk"] >= bulkCap(w.limit)
        \/ w.remaining # Unknown /\ w.remaining <= Reserved(w)

(* Mutant of Counted: an unknown remainder is counted down too. *)
CountedBlindly(w, lane) ==
  [w EXCEPT !.used[lane] = @ + 1, !.remaining = @ - 1]

Counted(w, lane) ==
  [w EXCEPT !.used[lane] = @ + 1, !.remaining = IF @ = Unknown THEN @ ELSE @ - 1]

(* A refused request is thrown back before it is sent; the window it asked *)
(* for is there all the same.                                              *)
reserveRequest(c, lane) ==
  /\ calls[c] = Idle
  /\ IF Refuses(getWindow, lane)
     THEN window' = getWindow /\ UNCHANGED <<calls, bulkSent>>
     ELSE /\ window' = Counted(getWindow, lane) /\ Answers(c, Sent)
          /\ bulkSent' = IF lane = "bulk" THEN bulkSent + 1 ELSE bulkSent
  /\ UNCHANGED <<github, lag, forgotten, lost, mishaps>>

(* Mutant of Reset: the first reset a window hears of clears its counts as well. *)
ResetCleared(w, reset) ==
  IF w.known /\ reset = w.end THEN w
  ELSE [w EXCEPT !.known = TRUE, !.end = reset, !.used = [l \in Lane |-> 0], !.remaining = Unknown]

(* A reset not seen before: the window's first, or another window. *)
Reset(w, reset) ==
  IF w.known /\ reset > w.end
  THEN [freshWindow(w.limit) EXCEPT !.known = TRUE, !.end = reset]
  ELSE [w EXCEPT !.known = TRUE, !.end = reset]

(* Within a window the lower remainder wins. *)
Lower(w, remaining) ==
  [w EXCEPT !.remaining = IF @ = Unknown \/ remaining < @ THEN remaining ELSE @]

(* An answer or an error with headers, whenever the process gets to it. *)
observeResponse(c) ==
  /\ calls[c].at = "answered" /\ Answers(c, Idle)
  /\ window' = Lower(Reset([getWindow EXCEPT !.limit = Limit], calls[c].reset), calls[c].remaining)
  /\ forgotten' = IF calls[c].old \/ calls[c].reset = 0 THEN forgotten + 1 ELSE forgotten
  /\ IF ~calls[c].old /\ calls[c].reset = 0 THEN Mishap ELSE UNCHANGED mishaps
  /\ UNCHANGED <<github, lag, bulkSent, lost>>

-----------------------------------------------------------------------------
(* When GitHub's hour is over by this clock: from then on, if that is early, the *)
(* process drops the window as soon as an answer names its reset.                *)
NamedReset == IF left + lag > 0 THEN left + lag ELSE 0

(* GitHub counts what reaches it and refuses what is over the quota; both    *)
(* answers tell what is left and when it resets.                             *)
Lands(c) ==
  /\ calls[c].at = "sent"
  /\ spent' = IF spent < Limit THEN spent + 1 ELSE spent
  /\ Answers(c, [at |-> "answered", remaining |-> Limit - spent', reset |-> NamedReset, old |-> FALSE])
  /\ UNCHANGED <<left, window, lag, tally, mishaps>>

(* Another process of the installation. *)
OthersSpend ==
  /\ spent < Limit /\ spent' = spent + 1
  /\ UNCHANGED <<left, window, calls, lag, tally, mishaps>>

(* The connection breaks on the way there or back. *)
Breaks(c) ==
  /\ calls[c] # Idle /\ Mishap /\ Answers(c, Idle)
  /\ lost' = IF calls[c].at = "sent" THEN lost + 1 ELSE lost
  /\ UNCHANGED <<github, window, lag, bulkSent, forgotten>>

(* What was under way may still reach GitHub; nobody waits for its answer. *)
Restart ==
  /\ Mishap /\ window' = NoWindow /\ calls' = [c \in Calls |-> Idle]
  /\ forgotten' = forgotten + 1
  /\ \E arrive \in 0..Cardinality({c \in Calls : calls[c].at = "sent"}) :
       spent' = IF spent + arrive < Limit THEN spent + arrive ELSE Limit
  /\ UNCHANGED <<left, lag, bulkSent, lost>>

Earlier(t) == IF t = 0 THEN 0 ELSE t - 1

Tick ==
  /\ window' = [window EXCEPT !.end = Earlier(@)]
  /\ calls' = [c \in Calls |-> [calls[c] EXCEPT !.reset = Earlier(@),
                                               !.old = @ \/ (left = 1 /\ calls[c].at = "answered")]]
  /\ IF left = 1
     THEN left' = Hour /\ spent' = 0 /\ bulkSent' = 0 /\ forgotten' = 0 /\ lost' = 0
     ELSE /\ left' = left - 1 /\ UNCHANGED <<spent, bulkSent, lost>>
          /\ forgotten' = IF window.end = 1 /\ ~window.known THEN forgotten + 1 ELSE forgotten
  /\ UNCHANGED <<lag, mishaps>>

-----------------------------------------------------------------------------
BudgetNext ==
  \/ \E c \in Calls :
       \/ \E lane \in Lane : reserveRequest(c, lane)
       \/ observeResponse(c) \/ Lands(c) \/ Breaks(c)
  \/ OthersSpend \/ Restart \/ Tick

BudgetSpec == BudgetInit /\ [][BudgetNext]_budgetVars

-----------------------------------------------------------------------------
Window == [limit : {DEFAULT_LIMIT, Limit}, remaining : {Unknown} \cup 0..Limit, known : BOOLEAN,
           end : Nat, used : [Lane -> Nat]]
Call == [at : {"idle", "sent", "answered"}, remaining : 0..Limit, reset : Nat, old : BOOLEAN]

BudgetTypeOK ==
  /\ spent \in 0..Limit /\ left \in 1..Hour /\ lag \in Lags
  /\ window \in Window /\ calls \in [Calls -> Call]
  /\ bulkSent \in Nat /\ forgotten \in Nat /\ lost \in Nat /\ mishaps \in 0..MaxMishaps

(* budget.ts:18 "Bulk is capped at its share", :158-160 however many calls overlap:   *)
(* in one hour of GitHub's the lane sends a quarter of the quota, and at most a        *)
(* quarter more for each time the process forgot its counts: by a restart, an answer   *)
(* of an earlier hour, a window that ran out unanswered, once by a clock that is off,  *)
(* and by each answer whose reset is over on a clock that is ahead, so that the last   *)
(* stretch of the hour has no cap then (:141-143).                                    *)
BulkWithinItsShare ==
  bulkSent <= bulkCap(Limit) * (1 + forgotten + (IF lag = 0 THEN 0 ELSE 1))

(* budget.ts:22-23 "It stops only when GitHub itself says the quota is gone": with    *)
(* clocks that agree, a window that refuses everyone is one whose quota is taken, up   *)
(* to the calls that are on their way or were lost on it, whatever answers came late.  *)
StopsOnlyWhenSpent ==
  lag = 0 /\ window.end > 0 /\ window.remaining = 0 =>
    Limit - spent <= Cardinality({c \in Calls : calls[c].at = "sent"}) + lost
=============================================================================
