----------------------------- MODULE TicketDesk -----------------------------
(***************************************************************************)
(* The ticket desk: the slash commands of cogs/ticket.py, the admins'      *)
(* force-cancel and the two deadline workers (ticket_timeout, claim_idle), *)
(* all calling the ticket functions of schema dw concurrently.             *)
(*                                                                         *)
(* A function call is atomic; what surrounds it is not.  A handler awaits  *)
(* between the row it reads and the call it makes, and a worker works      *)
(* through a list it fetched earlier.  The process may crash at any time:  *)
(* the database keeps the tickets, everything else here is lost.  What the *)
(* handlers post in the tickets' threads is added by module TicketThread.  *)
(*                                                                         *)
(* Deadlines are flags that time raises and the functions clear: the three *)
(* ages of a claim (no function touches last_activity_at of a claimed      *)
(* ticket, so both deadlines of claim_idle count from the claim) and the   *)
(* passing of expires_at.                                                  *)
(***************************************************************************)
EXTENDS FiniteSets

CONSTANTS
  Cashiers,
  Deposits, Withdraws,         \* the tickets of the instance
  Null

Tickets == Deposits \cup Withdraws

ASSUME DeskAssumption ==
  /\ Deposits \cap Withdraws = {}
  /\ Null \notin Cashiers

VARIABLES
  status, claimedBy,           \* the ticket rows
  expired,                     \* tickets whose expires_at has passed
  age,                         \* of the current claim: "fresh", "idle" (> 30 min), "overdue" (> 2 h)
  modals,                      \* /confirm modals open on cashiers' screens
  cancelling,                  \* /cancel-mine handlers past their status check
  timeout, idler               \* the workers: where they are and their lists

rows == <<status, claimedBy, expired, age>>
handlers == <<modals, cancelling>>
vars == <<rows, handlers, timeout, idler>>

-----------------------------------------------------------------------------
Statuses == {"none", "open", "claimed", "confirmed", "cancelled"}
Final == {"confirmed", "cancelled"}
Asleep == [at |-> "sleep", list |-> {}]

\* Mutant of IsLive: a confirmed ticket may be cancelled.
NotCancelled(t) == status[t] \notin {"none", "cancelled"}

\* Not in a terminal status: what cancel_deposit and cancel_withdraw accept.
IsLive(t) == status[t] \in {"open", "claimed"}

\* Mutant of HeldBy: wrong_cashier is not checked.
Claimed(t, c) == status[t] = "claimed"

\* What confirm_* and release_ticket demand of their caller.
HeldBy(t, c) == status[t] = "claimed" /\ claimedBy[t] = c

TypeOK ==
  /\ status \in [Tickets -> Statuses]
  /\ claimedBy \in [Tickets -> Cashiers \cup {Null}]
  /\ expired \subseteq Tickets
  /\ age \in [Tickets -> {"fresh", "idle", "overdue"}]
  /\ modals \subseteq Cashiers \X Tickets
  /\ cancelling \subseteq Tickets
  /\ timeout \in [at : {"sleep", "deposits", "withdraws"}, list : SUBSET Tickets]
  /\ idler \in [at : {"sleep", "release", "cancel"}, list : SUBSET (Tickets \X Cashiers)]

Init ==
  /\ status = [t \in Tickets |-> "none"]
  /\ claimedBy = [t \in Tickets |-> Null]
  /\ expired = {}
  /\ age = [t \in Tickets |-> "fresh"]
  /\ modals = {} /\ cancelling = {}
  /\ timeout = Asleep /\ idler = Asleep

-----------------------------------------------------------------------------
(* The functions' effect on a ticket row.                                  *)

DoClaim(t, c) ==
  /\ status' = [status EXCEPT ![t] = "claimed"]
  /\ claimedBy' = [claimedBy EXCEPT ![t] = c]
  /\ age' = [age EXCEPT ![t] = "fresh"]
  /\ UNCHANGED expired

DoRelease(t) ==
  /\ status' = [status EXCEPT ![t] = "open"]
  /\ claimedBy' = [claimedBy EXCEPT ![t] = Null]
  /\ age' = [age EXCEPT ![t] = "fresh"]
  /\ UNCHANGED expired

DoFinish(t, s) ==
  /\ status' = [status EXCEPT ![t] = s]
  /\ UNCHANGED <<claimedBy, expired, age>>

-----------------------------------------------------------------------------
(* Commands.  A call that the function refuses changes nothing.            *)

\* create_deposit_ticket or create_withdraw_ticket, at the end of the intake.
OpenTicket(t) ==
  /\ status[t] = "none"
  /\ status' = [status EXCEPT ![t] = "open"]
  /\ UNCHANGED <<claimedBy, expired, age, handlers, timeout, idler>>

Claim(t, c) ==
  /\ status[t] = "open"
  /\ DoClaim(t, c)
  /\ UNCHANGED <<handlers, timeout, idler>>

Release(t, c) ==
  /\ HeldBy(t, c)
  /\ DoRelease(t)
  /\ UNCHANGED <<handlers, timeout, idler>>

\* /cancel calls the function for whoever runs it, as does the admins'
\* /admin-force-cancel-ticket.
Cancel(t) ==
  /\ IsLive(t)
  /\ DoFinish(t, "cancelled")
  /\ UNCHANGED <<handlers, timeout, idler>>

\* /confirm looks the ticket up and opens the modal, whatever the status.
AskConfirm(t, c) ==
  /\ status[t] # "none"
  /\ modals' = modals \cup {<<c, t>>}
  /\ UNCHANGED <<rows, cancelling, timeout, idler>>

\* The submitted modal calls confirm_deposit or confirm_withdraw.  A repeated
\* confirm by the same cashier succeeds without effect.
SubmitConfirm(t, c) ==
  /\ <<c, t>> \in modals
  /\ modals' = modals \ {<<c, t>>}
  /\ IF HeldBy(t, c) THEN DoFinish(t, "confirmed") ELSE UNCHANGED rows
  /\ UNCHANGED <<cancelling, timeout, idler>>

DismissConfirm(t, c) ==
  /\ <<c, t>> \in modals
  /\ modals' = modals \ {<<c, t>>}
  /\ UNCHANGED <<rows, cancelling, timeout, idler>>

\* /cancel-mine reads the row and checks that it is open ...
CheckCancelMine(t) ==
  /\ status[t] = "open"
  /\ cancelling' = cancelling \cup {t}
  /\ UNCHANGED <<rows, modals, timeout, idler>>

\* ... and then calls the function, which accepts a claimed ticket too.
CallCancelMine(t) ==
  /\ t \in cancelling
  /\ cancelling' = cancelling \ {t}
  /\ IF IsLive(t) THEN DoFinish(t, "cancelled") ELSE UNCHANGED rows
  /\ UNCHANGED <<modals, timeout, idler>>

-----------------------------------------------------------------------------
(* Time.                                                                   *)

\* expires_at passes.
Expire(t) ==
  /\ IsLive(t) /\ t \notin expired
  /\ expired' = expired \cup {t}
  /\ UNCHANGED <<status, claimedBy, age, handlers, timeout, idler>>

\* 30 minutes, then two hours pass since the cashier's claim.
Age(t, c) ==
  /\ HeldBy(t, c) /\ age[t] # "overdue"
  /\ age' = [age EXCEPT ![t] = IF @ = "fresh" THEN "idle" ELSE "overdue"]
  /\ UNCHANGED <<status, claimedBy, expired, handlers, timeout, idler>>

-----------------------------------------------------------------------------
(* The ticket_timeout worker: first the deposits, then the withdraws.      *)

\* Mutant of Overtime: claimed tickets are left to their cashiers.
OvertimeOpen(S) == {t \in S : status[t] = "open" /\ t \in expired}

\* status IN ('open', 'claimed') AND expires_at < NOW().
Overtime(S) == {t \in S : IsLive(t) /\ t \in expired}

FetchExpired(from, to, S) ==
  /\ timeout.at = from /\ timeout.list = {}
  /\ timeout' = [at |-> to, list |-> Overtime(S)]
  /\ UNCHANGED <<rows, handlers, idler>>

FetchExpiredDeposits == FetchExpired("sleep", "deposits", Deposits)

\* Mutant of FetchExpiredWithdraws: the deposits' query, pasted.
FetchDepositsAgain == FetchExpired("deposits", "withdraws", Deposits)

FetchExpiredWithdraws == FetchExpired("deposits", "withdraws", Withdraws)

\* ticket_already_terminal is swallowed.
CancelExpired(t) ==
  /\ t \in timeout.list
  /\ timeout' = [timeout EXCEPT !.list = @ \ {t}]
  /\ IF IsLive(t) THEN DoFinish(t, "cancelled") ELSE UNCHANGED rows
  /\ UNCHANGED <<handlers, idler>>

EndTimeoutTick ==
  /\ timeout.at = "withdraws" /\ timeout.list = {}
  /\ timeout' = Asleep
  /\ UNCHANGED <<rows, handlers, idler>>

\* Any other error ends the tick; the loop goes on.
FailTimeoutTick ==
  /\ timeout.at # "sleep"
  /\ timeout' = Asleep
  /\ UNCHANGED <<rows, handlers, idler>>

-----------------------------------------------------------------------------
(* The claim_idle worker: first the releases, then the cancellations.      *)

\* Mutant of IdleClaims: only what has been held for two hours.
OverdueClaims == {t \in Tickets : status[t] = "claimed" /\ age[t] = "overdue"}

\* status = 'claimed' AND last_activity_at older than 30 minutes.
IdleClaims == {t \in Tickets : status[t] = "claimed" /\ age[t] # "fresh"}

FetchIdleClaims ==
  /\ idler.at = "sleep"
  /\ idler' = [at |-> "release", list |-> {<<t, claimedBy[t]>> : t \in IdleClaims}]
  /\ UNCHANGED <<rows, handlers, timeout>>

\* The release is asked for in the name of the claimer on the list.
ReleaseIdle(t, c) ==
  /\ idler.at = "release" /\ <<t, c>> \in idler.list
  /\ idler' = [idler EXCEPT !.list = @ \ {<<t, c>>}]
  /\ IF HeldBy(t, c) THEN DoRelease(t) ELSE UNCHANGED rows
  /\ UNCHANGED <<handlers, timeout>>

FetchLongClaims ==
  /\ idler.at = "release" /\ idler.list = {}
  /\ idler' = [at |-> "cancel",
               list |-> {<<t, claimedBy[t]>> : t \in {x \in IdleClaims : age[x] = "overdue"}}]
  /\ UNCHANGED <<rows, handlers, timeout>>

CancelLong(t, c) ==
  /\ idler.at = "cancel" /\ <<t, c>> \in idler.list
  /\ idler' = [idler EXCEPT !.list = @ \ {<<t, c>>}]
  /\ IF IsLive(t) THEN DoFinish(t, "cancelled") ELSE UNCHANGED rows
  /\ UNCHANGED <<handlers, timeout>>

EndIdleTick ==
  /\ idler.at = "cancel" /\ idler.list = {}
  /\ idler' = Asleep
  /\ UNCHANGED <<rows, handlers, timeout>>

\* Any other error ends the tick; so does one of the queries behind the alert
\* for a released ticket (only the alert's own send is guarded).
FailIdleTick ==
  /\ idler.at # "sleep"
  /\ idler' = Asleep
  /\ UNCHANGED <<rows, handlers, timeout>>

-----------------------------------------------------------------------------
\* The process dies and is started again: the workers begin a new first tick.
Crash ==
  /\ modals' = {} /\ cancelling' = {}
  /\ timeout' = Asleep /\ idler' = Asleep
  /\ UNCHANGED rows

TimeoutStep ==
  \/ FetchExpiredDeposits \/ FetchExpiredWithdraws \/ EndTimeoutTick \/ FailTimeoutTick
  \/ \E t \in Tickets : CancelExpired(t)

IdleStep ==
  \/ FetchIdleClaims \/ FetchLongClaims \/ EndIdleTick \/ FailIdleTick
  \/ \E t \in Tickets, c \in Cashiers : ReleaseIdle(t, c) \/ CancelLong(t, c)

\* Steps of the bot's users and of time.
DeskStep(t) ==
  \/ OpenTicket(t) \/ Cancel(t) \/ CheckCancelMine(t) \/ CallCancelMine(t)
  \/ Expire(t)
  \/ \E c \in Cashiers : \/ Claim(t, c) \/ Release(t, c) \/ Age(t, c)
                         \/ AskConfirm(t, c) \/ SubmitConfirm(t, c) \/ DismissConfirm(t, c)

Next ==
  \/ \E t \in Tickets : DeskStep(t)
  \/ TimeoutStep \/ IdleStep \/ Crash

Spec == Init /\ [][Next]_vars

\* PeriodicWorker: a loop that ticks, sleeps and ticks again whatever the tick
\* raised; an iteration that is repeated does not fail (or die in a crash) at
\* the same place for ever.
TimeoutFairness ==
  /\ WF_vars(FetchExpiredDeposits) /\ SF_vars(FetchExpiredWithdraws)
  /\ \A t \in Tickets : SF_vars(CancelExpired(t))
  /\ WF_vars(EndTimeoutTick)

IdleFairness ==
  /\ WF_vars(FetchIdleClaims) /\ SF_vars(FetchLongClaims)
  /\ \A t \in Tickets, c \in Cashiers : SF_vars(ReleaseIdle(t, c)) /\ SF_vars(CancelLong(t, c))
  /\ WF_vars(EndIdleTick)

FairSpec == Spec /\ TimeoutFairness /\ IdleFairness

-----------------------------------------------------------------------------
(* Properties.                                                             *)

Lifecycle == INSTANCE TicketLifecycle WITH holder <- claimedBy

\* Whatever the order in which cashiers, owners, admins and the two workers get
\* through, the desk keeps a ticket's promise: one holder at a time, confirmed
\* and released only in the holder's name, never moved once finished.
KeepsLifecycle == Lifecycle!Spec

\* A worker that acts on its list late takes nothing from another cashier: if
\* the ticket on the release list has changed hands since the list was fetched,
\* the row is left alone.
ReleasesOnlyListed ==
  \A t \in Tickets, c \in Cashiers :
    /\ idler.at = "release" /\ <<t, c>> \in idler.list /\ claimedBy[t] # c
    /\ idler'.at = "release" /\ <<t, c>> \notin idler'.list
    => rows' = rows

WorkerNeverStealsClaim == [][ReleasesOnlyListed]_vars

\* Migration 0003's lifecycle invariant kept by ticket_timeout: a ticket whose
\* expires_at has passed ends, although ticks fail, the process crashes and
\* cashiers go on claiming and releasing it.
ExpiredTicketsEnd == \A t \in Tickets : t \in expired ~> status[t] \in Final

\* The invariant kept by claim_idle: a claim that has been idle for 30 minutes
\* does not last.
IdleClaimsEnd ==
  \A t \in Tickets : LET idle == status[t] = "claimed" /\ age[t] # "fresh" IN idle ~> ~ idle

=============================================================================
