------------------------------ MODULE DwLedger ------------------------------
(***************************************************************************)
(* The deposit/withdraw ledger: the SECURITY DEFINER functions of schema   *)
(* dw (migrations 0006-0013 and 0015) over the ticket, dispute, cashier    *)
(* and configuration tables and core's accounts.                           *)
(*                                                                         *)
(* Every function is one transaction.  The rows it changes, it takes FOR   *)
(* UPDATE before it reads them, so most functions are one atomic action    *)
(* here.  create_deposit_ticket is two steps: it reads core.users.banned   *)
(* without a lock, and a ban can commit before its INSERT does.  Limits,   *)
(* fee rates and the cashiers' characters are read without a lock too; no  *)
(* property relates a ticket to their present values, and they are read in *)
(* the step that uses them.                                                *)
(*                                                                         *)
(* A call the function rejects (RAISE EXCEPTION) or answers idempotently   *)
(* (a repeated confirm by the same cashier) changes no row: it is a        *)
(* stuttering step.  Any actor may call any function at any time: the      *)
(* bot's commands, their retries and the background workers are all        *)
(* instances of these actions.                                             *)
(***************************************************************************)
EXTENDS CoreAccounts

CONSTANTS
  Cashiers,                    \* Discord ids that act as cashiers
  Deposits, Withdraws,         \* the ticket_uids the two sequences can issue
  Characters,                  \* (char_name, realm) pairs of cashier characters
  Regions,                     \* regions of tickets and characters
  Amounts,                     \* amounts that players type
  SeedConfig,                  \* dw.global_config as migration 0005 seeds it
  FeeRates, Limits,            \* values admins write over the seeded ones
  Null                         \* SQL NULL

Tickets == Deposits \cup Withdraws

ConfigKeys ==
  {"min_deposit_g", "max_deposit_g", "min_withdraw_g", "max_withdraw_g",
   "withdraw_fee_bps"}

\* Basis points in the whole: the divisor of the fee.
BpsScale == 10000

\* Limits are positive and the fee rate is at most 100 %: the admin commands
\* refuse other values before they write dw.global_config.
ASSUME DwAssumption ==
  /\ IsFiniteSet(Cashiers) /\ IsFiniteSet(Deposits) /\ IsFiniteSet(Withdraws)
  /\ Deposits \cap Withdraws = {}
  /\ Amounts \subseteq Nat
  /\ Null \notin Users \cup Cashiers \cup Regions
  /\ SeedConfig \in [ConfigKeys -> Nat] /\ SeedConfig["withdraw_fee_bps"] <= BpsScale
  /\ FeeRates \subseteq 0 .. BpsScale
  /\ Limits \subseteq Nat \ {0}

VARIABLES
  tickets,                     \* dw.deposit_tickets and dw.withdraw_tickets
  chars,                       \* active rows of dw.cashier_characters
  stats,                       \* dw.cashier_stats
  disputes,                    \* dw.disputes, by the ticket disputed
  config,                      \* dw.global_config
  swept,                       \* gold recorded by 'treasury_swept' audit rows
  opening                      \* calls of create_deposit_ticket past their ban check:
                               \* the player, by the uid the call will draw

dwVars == <<tickets, chars, stats, disputes, config, swept, opening>>
vars == <<accounts, dwVars>>

-----------------------------------------------------------------------------
(* Rows.  Nothing in the repository writes the ticket statuses 'expired'   *)
(* and 'disputed' or the dispute status 'investigating', although the      *)
(* tables' CHECKs allow them; "none" is a uid not issued yet.              *)

Statuses == {"none", "open", "claimed", "confirmed", "cancelled"}

NewTicket(u, a, fee, r) ==
  [status |-> "open", discord_id |-> u, amount |-> a, fee |-> fee,
   amount_delivered |-> 0, region |-> r, claimed_by |-> Null]

NoTicket == [NewTicket(Null, 0, 0, Null) EXCEPT !.status = "none"]

TicketRows ==
  [status : Statuses, discord_id : Users \cup {Null}, amount : Nat, fee : Nat,
   amount_delivered : Nat, region : Regions \cup {Null},
   claimed_by : Cashiers \cup {Null}]

StatsRows ==
  [deposits_completed : Nat, withdraws_completed : Nat,
   withdraws_cancelled : Nat, total_volume_g : Nat]

Resolutions == {"no-action", "refund-full", "force-confirm", "partial-refund"}

DisputeRows ==
  [status : {"none", "open", "resolved", "rejected"}, resolution : Resolutions \cup {Null}]

TypeOK ==
  /\ AccountsTypeOK
  /\ tickets \in [Tickets -> TicketRows]
  /\ chars \subseteq Cashiers \X Characters \X Regions
  /\ stats \in [Cashiers -> StatsRows]
  /\ disputes \in [Tickets -> DisputeRows]
  /\ config \in [ConfigKeys -> Nat] /\ config["withdraw_fee_bps"] <= BpsScale
  /\ swept \in Nat
  /\ opening \in [Deposits -> Users \cup {Null}]

Init ==
  /\ AccountsInit
  /\ tickets = [t \in Tickets |-> NoTicket]
  /\ chars = {}
  /\ stats = [c \in Cashiers |-> [deposits_completed |-> 0, withdraws_completed |-> 0,
                                  withdraws_cancelled |-> 0, total_volume_g |-> 0]]
  /\ disputes = [t \in Tickets |-> [status |-> "none", resolution |-> Null]]
  /\ config = SeedConfig
  /\ swept = 0
  /\ opening = [t \in Deposits |-> Null]

-----------------------------------------------------------------------------
(* Conditions the functions check and amounts they compute.  A definition  *)
(* marked as a mutant is the one after it with a slip: the specification   *)
(* never uses it, it shows which property would notice the slip.           *)

\* Mutant of HeldBy: a retry that finds the ticket 'confirmed' updates again.
HeldByUnchecked(t, c) == tickets[t].claimed_by = c

\* status = 'claimed' and claimed_by = p_cashier_id.
HeldBy(t, c) == tickets[t].status = "claimed" /\ tickets[t].claimed_by = c

\* Mutant of IsLive: one of the terminal statuses is forgotten.
IsLiveOrConfirmed(t) == tickets[t].status \notin {"none", "cancelled"}

\* The row exists and its status is not terminal.
IsLive(t) == tickets[t].status \notin {"none", "confirmed", "cancelled"}

\* The cashier has an active character in the ticket's region.
CanServe(c, r) == \E ch \in Characters : <<c, ch, r>> \in chars

InRange(a, min, max) == config[min] <= a /\ a <= config[max]

\* (p_amount * withdraw_fee_bps) / 10000 in BIGINT arithmetic.
Fee(a) == (a * config["withdraw_fee_bps"]) \div BpsScale

\* Mutant of FeeDue: the fee is recomputed from today's configuration.
FeeToday(tk) == Fee(tk.amount)

\* The fee credited at confirmation is the one stored when the ticket was opened.
FeeDue(tk) == tk.fee

\* Mutant of DeliveredNet: the fee is handed over as well.
DeliveredGross(tk) == tk.amount

\* amount_delivered = amount - fee.
DeliveredNet(tk) == tk.amount - tk.fee

\* Mutant of Refund: the fee is kept.
RefundLessFee(tk) == tk.amount - tk.fee

\* The refund of a cancelled withdraw is the whole locked amount.
Refund(tk) == tk.amount

\* Mutant of Unlock: the locked gold is left behind.
KeepLocked(u, a) == locked[u] >= a /\ UNCHANGED locked

\* locked_balance - amount, refused when less than the amount is locked.
Unlock(u, a) == locked[u] >= a /\ locked' = [locked EXCEPT ![u] = @ - a]

\* Mutant of Spend: without the insufficient_treasury check.
SpendUnchecked(a) == a > 0 /\ treasury' = treasury - a

\* treasury_sweep and treasury_withdraw_to_user debit only what is there.
Spend(a) == a > 0 /\ treasury >= a /\ treasury' = treasury - a

\* Mutant of Reopen: the previous claimer stays on the ticket.
ReopenClaimed(t) == tickets' = [tickets EXCEPT ![t].status = "open"]

\* Back to the pool: status 'open', claimed_by NULL.
Reopen(t) == tickets' = [tickets EXCEPT ![t].status = "open", ![t].claimed_by = Null]

\* A withdraw row once the cashier has handed the gold over.
HandedOver(tk) ==
  [tk EXCEPT !.status = "confirmed", !.amount_delivered = DeliveredNet(tk)]

\* The upserts of dw.cashier_stats.
CountDeposit(s, a) == [s EXCEPT !.deposits_completed = @ + 1, !.total_volume_g = @ + a]
CountWithdraw(s, a) == [s EXCEPT !.withdraws_completed = @ + 1, !.total_volume_g = @ + a]

SetStatus(t, s) == tickets' = [tickets EXCEPT ![t].status = s]

-----------------------------------------------------------------------------
(* Deposits.                                                               *)

\* Mutant of MayDeposit: the ban is not looked at.
MayDepositBanned(u) == TRUE

\* v_banned IS TRUE raises; a player without a row cannot be banned.
MayDeposit(u) == u \notin banned

\* create_deposit_ticket reads the ban ...
BeginDeposit(t, u) ==
  /\ tickets[t].status = "none" /\ opening[t] = Null
  /\ MayDeposit(u)
  /\ opening' = [opening EXCEPT ![t] = u]
  /\ UNCHANGED <<accounts, tickets, chars, stats, disputes, config, swept>>

\* ... and then inserts the row; no gold moves.
CreateDepositTicket(t, a, r) ==
  /\ tickets[t].status = "none" /\ opening[t] # Null
  /\ InRange(a, "min_deposit_g", "max_deposit_g")
  /\ tickets' = [tickets EXCEPT ![t] = NewTicket(opening[t], a, 0, r)]
  /\ opening' = [opening EXCEPT ![t] = Null]
  /\ UNCHANGED <<accounts, chars, stats, disputes, config, swept>>

\* A later check raises, or the connection is lost.
AbortDeposit(t) ==
  /\ opening[t] # Null
  /\ opening' = [opening EXCEPT ![t] = Null]
  /\ UNCHANGED <<accounts, tickets, chars, stats, disputes, config, swept>>

\* The first confirmed deposit creates the player's rows.
ConfirmDeposit(t, c) ==
  /\ HeldBy(t, c)
  /\ EnsureRows(tickets[t].discord_id)
  /\ Credit(tickets[t].discord_id, tickets[t].amount)
  /\ SetStatus(t, "confirmed")
  /\ stats' = [stats EXCEPT ![c] = CountDeposit(stats[c], tickets[t].amount)]
  /\ UNCHANGED <<banned, locked, treasury, chars, disputes, config, swept, opening>>

CancelDeposit(t) ==
  /\ IsLive(t)
  /\ SetStatus(t, "cancelled")
  /\ UNCHANGED <<accounts, chars, stats, disputes, config, swept, opening>>

-----------------------------------------------------------------------------
(* Withdraws.                                                              *)

\* The amount moves from balance to locked_balance; the fee is fixed here.
CreateWithdrawTicket(t, u, a, r) ==
  /\ tickets[t].status = "none"
  /\ InRange(a, "min_withdraw_g", "max_withdraw_g")
  /\ u \in registered \ banned
  /\ balance[u] >= a
  /\ balance' = [balance EXCEPT ![u] = @ - a]
  /\ locked' = [locked EXCEPT ![u] = @ + a]
  /\ tickets' = [tickets EXCEPT ![t] = NewTicket(u, a, Fee(a), r)]
  /\ UNCHANGED <<registered, banned, treasury, chars, stats, disputes, config, swept, opening>>

\* The locked gold leaves the bot, except the fee, which the treasury keeps.
ConfirmWithdraw(t, c) ==
  /\ HeldBy(t, c)
  /\ Unlock(tickets[t].discord_id, tickets[t].amount)
  /\ treasury' = treasury + FeeDue(tickets[t])
  /\ tickets' = [tickets EXCEPT ![t] = HandedOver(tickets[t])]
  /\ stats' = [stats EXCEPT ![c] = CountWithdraw(stats[c], tickets[t].amount)]
  /\ UNCHANGED <<registered, banned, balance, chars, disputes, config, swept, opening>>

\* Whoever cancels a claimed withdraw that is not their own charges it to the
\* claimer's statistics.
CancelWithdraw(t, byOwner) ==
  /\ IsLive(t)
  /\ Unlock(tickets[t].discord_id, tickets[t].amount)
  /\ Credit(tickets[t].discord_id, Refund(tickets[t]))
  /\ SetStatus(t, "cancelled")
  /\ stats' = IF byOwner \/ tickets[t].claimed_by = Null THEN stats
              ELSE [stats EXCEPT ![tickets[t].claimed_by].withdraws_cancelled = @ + 1]
  /\ UNCHANGED <<registered, banned, treasury, chars, disputes, config, swept, opening>>

-----------------------------------------------------------------------------
(* Claims, and the cashiers' characters that entitle to them.              *)

ClaimTicket(t, c) ==
  /\ tickets[t].status = "open"
  /\ CanServe(c, tickets[t].region)
  /\ tickets' = [tickets EXCEPT ![t].status = "claimed", ![t].claimed_by = c]
  /\ UNCHANGED <<accounts, chars, stats, disputes, config, swept, opening>>

ReleaseTicket(t, c) ==
  /\ HeldBy(t, c)
  /\ Reopen(t)
  /\ UNCHANGED <<accounts, chars, stats, disputes, config, swept, opening>>

\* Registering a removed character again reactivates its row.
AddCashierCharacter(c, ch, r) ==
  /\ chars' = chars \cup {<<c, ch, r>>}
  /\ UNCHANGED <<accounts, tickets, stats, disputes, config, swept, opening>>

RemoveCashierCharacter(c, ch, r) ==
  /\ <<c, ch, r>> \in chars
  /\ chars' = chars \ {<<c, ch, r>>}
  /\ UNCHANGED <<accounts, tickets, stats, disputes, config, swept, opening>>

-----------------------------------------------------------------------------
(* Treasury, disputes, bans and configuration: the admins' operations.     *)

TreasurySweep(a) ==
  /\ Spend(a)
  /\ swept' = swept + a
  /\ UNCHANGED <<registered, banned, balance, locked, tickets, chars, stats, disputes, config, opening>>

PayFromTreasury(a, u) ==
  /\ Spend(a)
  /\ EnsureRows(u)
  /\ Credit(u, a)
  /\ UNCHANGED <<banned, locked>>

TreasuryWithdrawToUser(a, u) ==
  /\ PayFromTreasury(a, u)
  /\ UNCHANGED dwVars

\* One dispute per ticket, ever (UNIQUE).  The audit row's target is a foreign
\* key to core.users, so a dispute over the ticket of a player who has no row
\* there fails and is rolled back.
OpenDispute(t) ==
  /\ tickets[t].status # "none"
  /\ disputes[t].status = "none"
  /\ tickets[t].discord_id \in registered
  /\ disputes' = [disputes EXCEPT ![t].status = "open"]
  /\ UNCHANGED <<accounts, tickets, chars, stats, config, swept, opening>>

\* 'refund-full' looks at the ticket's type and amount, never at its status.
ResolveDispute(t, action, a) ==
  /\ disputes[t].status = "open"
  /\ \/ /\ action = "partial-refund"
        /\ PayFromTreasury(a, tickets[t].discord_id)
     \/ /\ action = "refund-full"
        /\ t \in Withdraws
        /\ PayFromTreasury(tickets[t].amount, tickets[t].discord_id)
     \/ /\ action \in {"no-action", "force-confirm"}
        /\ UNCHANGED accounts
  /\ disputes' = [disputes EXCEPT ![t] = [status |-> "resolved", resolution |-> action]]
  /\ UNCHANGED <<tickets, chars, stats, config, swept, opening>>

RejectDispute(t) ==
  /\ disputes[t].status = "open"
  /\ disputes' = [disputes EXCEPT ![t].status = "rejected"]
  /\ UNCHANGED <<accounts, tickets, chars, stats, config, swept, opening>>

BanUser(u) ==
  /\ EnsureRows(u)
  /\ banned' = banned \cup {u}
  /\ UNCHANGED <<balance, locked, treasury, dwVars>>

UnbanUser(u) ==
  /\ u \in registered
  /\ banned' = banned \ {u}
  /\ UNCHANGED <<registered, balance, locked, treasury, dwVars>>

\* Each key is its own UPSERT: a min/max pair is written in two steps.
SetConfig(k, v) ==
  /\ config' = [config EXCEPT ![k] = v]
  /\ UNCHANGED <<accounts, tickets, chars, stats, disputes, swept, opening>>

-----------------------------------------------------------------------------
Next ==
  \/ \E t \in Deposits, u \in Users : BeginDeposit(t, u)
  \/ \E t \in Deposits, a \in Amounts, r \in Regions : CreateDepositTicket(t, a, r)
  \/ \E t \in Deposits : AbortDeposit(t)
  \/ \E t \in Deposits, c \in Cashiers : ConfirmDeposit(t, c)
  \/ \E t \in Deposits : CancelDeposit(t)
  \/ \E t \in Withdraws, u \in Users, a \in Amounts, r \in Regions :
       CreateWithdrawTicket(t, u, a, r)
  \/ \E t \in Withdraws, c \in Cashiers : ConfirmWithdraw(t, c)
  \/ \E t \in Withdraws, byOwner \in BOOLEAN : CancelWithdraw(t, byOwner)
  \/ \E t \in Tickets, c \in Cashiers : ClaimTicket(t, c) \/ ReleaseTicket(t, c)
  \/ \E c \in Cashiers, ch \in Characters, r \in Regions :
       AddCashierCharacter(c, ch, r) \/ RemoveCashierCharacter(c, ch, r)
  \/ \E a \in Amounts : TreasurySweep(a)
  \/ \E a \in Amounts, u \in Users : TreasuryWithdrawToUser(a, u)
  \/ \E t \in Tickets : OpenDispute(t) \/ RejectDispute(t)
  \/ \E t \in Tickets, action \in Resolutions, a \in Amounts : ResolveDispute(t, action, a)
  \/ \E u \in Users : BanUser(u) \/ UnbanUser(u)
  \/ \E v \in FeeRates : SetConfig("withdraw_fee_bps", v)
  \/ \E k \in ConfigKeys \ {"withdraw_fee_bps"}, v \in Limits : SetConfig(k, v)

Spec == Init /\ [][Next]_vars

-----------------------------------------------------------------------------
(* Properties.                                                             *)

ConfirmedAmount(t) == IF tickets[t].status = "confirmed" THEN tickets[t].amount ELSE 0

\* Gold brought in by confirmed deposits, and handed out by confirmed withdraws.
DepositColumn == [t \in Deposits |-> ConfirmedAmount(t)]
DeliveredColumn == [t \in Withdraws |-> tickets[t].amount_delivered]
Deposited == Total(DepositColumn)
Delivered == Total(DeliveredColumn)

\* No gold is created or destroyed: whatever the functions are called with and
\* in whatever order, the gold that confirmed deposits brought in is in a
\* balance, locked, in the treasury, swept by an admin or handed out in game.
Conservation ==
  Total(balance) + Total(locked) + treasury + swept + Delivered = Deposited

LockedFor(u) ==
  [t \in Withdraws |-> IF IsLive(t) /\ tickets[t].discord_id = u THEN tickets[t].amount ELSE 0]

\* A player's locked_balance is exactly what the player's unfinished withdraw
\* tickets will take or give back, so confirm_withdraw and cancel_withdraw
\* never raise invariant_violation_locked_too_low.
LockedBacksWithdraws == \A u \in Users : locked[u] = Total(LockedFor(u))

CompletedBy(c, S) == {t \in S : tickets[t].status = "confirmed" /\ tickets[t].claimed_by = c}
VolumeOf(c) == [t \in Tickets |-> IF tickets[t].claimed_by = c THEN ConfirmedAmount(t) ELSE 0]

\* dw.cashier_stats agrees with the tickets it summarises: retried confirms are
\* not counted twice, and only tickets a cashier held count against the cashier.
StatsMatchTickets ==
  \A c \in Cashiers :
    /\ stats[c].deposits_completed = Cardinality(CompletedBy(c, Deposits))
    /\ stats[c].withdraws_completed = Cardinality(CompletedBy(c, Withdraws))
    /\ stats[c].total_volume_g = Total(VolumeOf(c))
    /\ stats[c].withdraws_cancelled <=
         Cardinality({t \in Withdraws : tickets[t].status = "cancelled"
                                          /\ tickets[t].claimed_by = c})

\* The rows agree with one another: a ticket that is not issued is blank, one
\* that is has an owner (with an account, if it is a withdraw or disputed); it
\* names a claimer exactly from its claim to its release or end; its fee fits
\* in its amount, and only a confirmed withdraw delivered something; players
\* without an account have no gold.
RowsConsistent ==
  /\ \A t \in Tickets : LET tk == tickets[t] IN
       /\ tk.status = "none" => tk = NoTicket
       /\ tk.status # "none" => tk.discord_id \in Users
       /\ t \in Withdraws /\ tk.status # "none" => tk.discord_id \in registered
       /\ tk.status = "open" => tk.claimed_by = Null
       /\ tk.status \in {"claimed", "confirmed"} => tk.claimed_by \in Cashiers
       /\ tk.fee <= tk.amount
       /\ tk.amount_delivered =
            IF t \in Withdraws /\ tk.status = "confirmed" THEN tk.amount - tk.fee ELSE 0
       /\ disputes[t].status # "none" => tk.status # "none" /\ tk.discord_id \in registered
  /\ \A u \in Users \ registered : balance[u] = 0 /\ locked[u] = 0

\* Ticket t moves to status s in this step.
Becomes(t, s) == tickets[t].status # s /\ tickets'[t].status = s

\* A step that raises a player's balance is the confirmation of one deposit of
\* that player, the cancellation of one withdraw of that player, or a payment
\* that the treasury loses; the amount is the ticket's, to the last coin.
CreditAccounted(u) ==
  LET gain == balance'[u] - balance[u] IN
  gain > 0 =>
    \/ \E t \in Deposits : /\ Becomes(t, "confirmed")
                           /\ tickets[t].discord_id = u /\ tickets[t].amount = gain
                           /\ treasury' = treasury
    \/ \E t \in Withdraws : /\ Becomes(t, "cancelled")
                            /\ tickets[t].discord_id = u /\ tickets[t].amount = gain
                            /\ treasury' = treasury
    \/ treasury' = treasury - gain /\ tickets' = tickets

CreditsAccounted == [][\A u \in Users : CreditAccounted(u)]_vars

\* Confirming a withdraw honours the quote of its creation: the player loses
\* the quoted amount, the treasury gains the quoted fee and the rest is handed
\* over, even when an admin changed the fee rate in between.
HonoursQuote(t) ==
  Becomes(t, "confirmed") =>
    /\ treasury' - treasury = tickets[t].fee
    /\ tickets'[t].amount_delivered + tickets[t].fee = tickets[t].amount
    /\ \A u \in Users : (balance'[u] + locked'[u]) - (balance[u] + locked[u])
                        = IF u = tickets[t].discord_id THEN - tickets[t].amount ELSE 0

PayoutHonoursQuote == [][\A t \in Withdraws : HonoursQuote(t)]_vars

FinishedRowKept(t) ==
  tickets[t].status \in {"confirmed", "cancelled"} => tickets'[t] = tickets[t]

\* A finished ticket is never touched again: no later claim, release, cancel,
\* confirm or retry changes its row (the trigger of migration 0003 guards the
\* status; this says it of the whole row).
TerminalRowsFrozen == [][\A t \in Tickets : FinishedRowKept(t)]_vars

Lifecycle == INSTANCE TicketLifecycle
  WITH status <- [t \in Tickets |-> tickets[t].status],
       holder <- [t \in Tickets |-> tickets[t].claimed_by]

\* The functions keep a ticket's promise: one claimer at a time, confirmed and
\* released by the claimer only, cancelled at most once and never afterwards.
KeepsLifecycle == Lifecycle!Spec

=============================================================================
