--------------------------- MODULE CashierSessions ---------------------------
(***************************************************************************)
(* Cashiers going on and off duty: dw.cashier_status, dw.cashier_sessions, *)
(* the functions set_cashier_status and expire_cashier and the worker      *)
(* cashier_idle that calls the latter.                                     *)
(*                                                                         *)
(* set_cashier_status locks the cashier's status row and is atomic, except *)
(* for a cashier who has no row yet: there is nothing to lock, so calls    *)
(* that overlap all see NULL and their upserts go through one after the    *)
(* other.  A session row is its cashier and whether it is still open; only *)
(* the number of a cashier's open rows is kept.                            *)
(***************************************************************************)
EXTENDS Integers, Sequences, FiniteSets, SequencesExt

CONSTANTS
  Cashiers,
  Players,                     \* cashiers who have a row in core.users
  MaxCalls                     \* bound on overlapping first calls of a cashier

ASSUME SessionsAssumption ==
  /\ Players \subseteq Cashiers
  /\ MaxCalls \in Nat

VARIABLES
  status,                      \* dw.cashier_status.status; "never" without a row
  open,                        \* number of session rows with ended_at NULL
  first,                       \* status -> calls that found no row and have yet to upsert
  activity,                    \* cashiers by last_active_at, oldest first
  idle,                        \* cashiers with last_active_at more than 1 h ago
  list, ticking                \* the cashier_idle worker

rows == <<status, open, activity, idle>>
vars == <<rows, first, list, ticking>>

-----------------------------------------------------------------------------
Statuses == {"online", "offline", "break"}

TypeOK ==
  /\ status \in [Cashiers -> Statuses \cup {"never"}]
  /\ open \in [Cashiers -> Nat]
  /\ first \in [Cashiers -> [Statuses -> 0 .. MaxCalls]]
  /\ IsInjective(activity) /\ ToSet(activity) = {c \in Cashiers : status[c] # "never"}
  /\ idle \subseteq ToSet(activity)
  /\ IsInjective(list) /\ ToSet(list) \subseteq Cashiers
  /\ ticking \in BOOLEAN

Init ==
  /\ status = [c \in Cashiers |-> "never"]
  /\ open = [c \in Cashiers |-> 0]
  /\ first = [c \in Cashiers |-> [s \in Statuses |-> 0]]
  /\ activity = <<>> /\ idle = {}
  /\ list = <<>> /\ ticking = FALSE

-----------------------------------------------------------------------------
\* last_active_at = NOW().
Touch(c) ==
  /\ activity' = Append(SelectSeq(activity, LAMBDA x : x # c), c)
  /\ idle' = idle \ {c}

\* Mutant of Opens: in SQL, NULL <> 'online' is not true.
OpensUnlessNull(old, new) == new = "online" /\ old \notin {"online", "never"}

\* A session row is inserted on the way into 'online'.
Opens(old, new) == new = "online" /\ old # "online"

\* Every open session row is ended on the way out of 'online'.
Closes(old, new) == old = "online" /\ new # "online"

\* The upsert of cashier_status and the session row, given the status read.
Write(c, old, new) ==
  /\ status' = [status EXCEPT ![c] = new]
  /\ open' = [open EXCEPT ![c] = IF Opens(old, new) THEN @ + 1
                                 ELSE IF Closes(old, new) THEN 0 ELSE @]
  /\ Touch(c)

SetCashierStatus(c, s) ==
  /\ status[c] # "never"
  /\ Write(c, status[c], s)
  /\ UNCHANGED <<first, list, ticking>>

\* The function finds no row to lock ...
BeginFirstStatus(c, s) ==
  /\ status[c] = "never"
  /\ first[c]["online"] + first[c]["offline"] + first[c]["break"] < MaxCalls
  /\ first' = [first EXCEPT ![c][s] = @ + 1]
  /\ UNCHANGED <<rows, list, ticking>>

\* ... and upserts one, with the old status NULL whatever is there by now.
EndFirstStatus(c, s) ==
  /\ first[c][s] > 0
  /\ first' = [first EXCEPT ![c][s] = @ - 1]
  /\ Write(c, "never", s)
  /\ UNCHANGED <<list, ticking>>

\* An hour passes since last_active_at, for the oldest first.
GoIdle(c) ==
  /\ c \in ToSet(activity) \ idle
  /\ \A i \in 1 .. Len(activity) :
       activity[i] # c => activity[i] \in idle \/ \E j \in 1 .. i : activity[j] = c
  /\ idle' = idle \cup {c}
  /\ UNCHANGED <<status, open, activity, first, list, ticking>>

-----------------------------------------------------------------------------
(* The cashier_idle worker.                                                *)

\* Mutant of IdleOnline: cashiers on break are taken for off duty.
IdleOnBreak(c) == status[c] = "break" /\ c \in idle

\* status = 'online' AND last_active_at older than an hour.
IdleOnline(c) == status[c] = "online" /\ c \in idle

FetchIdle ==
  /\ ~ ticking
  /\ ticking' = TRUE
  /\ list' = SelectSeq(activity, IdleOnline)
  /\ UNCHANGED <<rows, first>>

\* expire_cashier: cashier_not_online is swallowed; the idle hour is not
\* checked again.
ExpireOne ==
  /\ list # <<>>
  /\ LET c == Head(list) IN
     /\ status[c] = "online" => c \in Players
     /\ IF status[c] = "online" THEN Write(c, "online", "offline") ELSE UNCHANGED rows
  /\ list' = Tail(list)
  /\ UNCHANGED <<first, ticking>>

\* The audit row's target_id is a foreign key to core.users: for a cashier who
\* is no player the call fails, with an error that is no BalanceError, and the
\* tick ends.  So it does when the database is away.
FailTick ==
  /\ ticking
  /\ ticking' = FALSE /\ list' = <<>>
  /\ UNCHANGED <<rows, first>>

EndTick ==
  /\ ticking /\ list = <<>>
  /\ ticking' = FALSE
  /\ UNCHANGED <<rows, first, list>>

\* The process dies; calls in the database are rolled back.
Crash ==
  /\ first' = [c \in Cashiers |-> [s \in Statuses |-> 0]]
  /\ list' = <<>> /\ ticking' = FALSE
  /\ UNCHANGED rows

Next ==
  \/ \E c \in Cashiers : GoIdle(c)
  \/ \E c \in Cashiers, s \in Statuses :
       SetCashierStatus(c, s) \/ BeginFirstStatus(c, s) \/ EndFirstStatus(c, s)
  \/ FetchIdle \/ ExpireOne \/ FailTick \/ EndTick \/ Crash

Spec == Init /\ [][Next]_vars

\* The worker ticks again and again, and what a tick can do it does in some of
\* them: the failures that are not certain are passing.
FairSpec ==
  /\ Spec
  /\ WF_vars(FetchIdle) /\ WF_vars(FailTick \/ EndTick)
  /\ \A c \in Cashiers : SF_vars(ExpireOne /\ Head(list) = c)

-----------------------------------------------------------------------------
(* Properties.                                                             *)

\* A cashier shown online has a session that is counting: whatever calls
\* overlapped, no time on duty is lost.
OnlineHasSession ==
  \A c \in Cashiers : status[c] = "online" => open[c] > 0

\* An online cashier who does nothing for an hour is taken off the roster, or
\* does something: nobody stays listed for ever.  It holds when every cashier is
\* a player too; a cashier who is not ends each tick before those who went idle
\* later are reached.
IdleCashiersLeave ==
  \A c \in Players : (status[c] = "online" /\ c \in idle) ~> ~ (status[c] = "online" /\ c \in idle)

=============================================================================
