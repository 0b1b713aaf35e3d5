------------------------------ MODULE LuckBets ------------------------------
(***************************************************************************)
(* The betting functions of schema luck over the same accounts as the      *)
(* deposit/withdraw ledger: apply_bet in the form migration 0023 gives it, *)
(* resolve_bet, refund_bet and cashout_mines.                              *)
(*                                                                         *)
(* resolve_bet, refund_bet and cashout_mines take the bet's row FOR UPDATE *)
(* first and are atomic here.  apply_bet is three steps.  It looks for a   *)
(* bet with the caller's idempotency key, and reads the game's             *)
(* configuration, before it locks anything, so two calls with one key can  *)
(* both get past the check.  It takes the player's core.balances row, and  *)
(* reads core.users.banned, which that lock does not cover: a ban can      *)
(* commit before the bet does.  A CHECK (... >= 0) that a function would   *)
(* violate rolls the whole call back: it is a guard.                       *)
(*                                                                         *)
(* No code of the repository opens or closes a raffle period or changes    *)
(* the rake rate: those steps are the operators'.                          *)
(***************************************************************************)
EXTENDS CoreAccounts

CONSTANTS
  Bets,                        \* the ids luck.bets can issue
  Keys,                        \* idempotency keys
  Games,                       \* rows of luck.game_config; "mines" has a cash-out
  Commission,                  \* extra_config's commission_bps, by game
  RakeRates,                   \* values of raffle_rake_bps
  BetAmounts,                  \* amounts within min_bet .. max_bet
  Payouts, Multipliers,        \* what games pay; a multiplier is a fraction <<n, d>>
  Periods,                     \* ids of raffle periods
  NoPeriod,                    \* rake_period_id IS NULL
  Calls                        \* calls of apply_bet that can be under way at once

ASSUME LuckAssumption ==
  /\ IsFiniteSet(Bets) /\ IsFiniteSet(Periods) /\ IsFiniteSet(Calls)
  /\ Periods \subseteq Nat /\ NoPeriod \notin Periods
  /\ BetAmounts \subseteq Nat \ {0} /\ Payouts \subseteq Nat
  /\ Multipliers \subseteq (Nat \ {0}) \X (Nat \ {0})
  /\ RakeRates \subseteq Nat /\ RakeRates # {}
  /\ Commission \in [Games -> Nat]
  /\ \A g \in Games, r \in RakeRates : Commission[g] + r <= 10000

VARIABLES
  bets,                        \* luck.bets
  wagered, won,                \* core.balances.total_wagered, total_won
  period, pool,                \* luck.raffle_periods: status and pool_amount
  rakeBps,                     \* luck.global_config raffle_rake_bps
  placing                      \* calls of apply_bet past their unlocked reads

luckVars == <<bets, wagered, won, period, pool, rakeBps, placing>>

-----------------------------------------------------------------------------
Resolved == {"resolved_win", "resolved_loss", "resolved_tie"}

\* A bet as apply_bet inserts it: c is the call, p the period its rake goes to.
NewBet(c, p) ==
  [status |-> "open", discord_id |-> c.user, key |-> c.key, game |-> c.game,
   amount |-> c.amount, stake |-> c.amount - c.commission - c.rake,
   commission |-> c.commission, rake |-> c.rake, rake_period |-> p, payout |-> 0]

NoBet == [status |-> "none"]
NoCall == [at |-> "none"]

BetRows ==
  [status : {"open", "refunded"} \cup Resolved, discord_id : Users, key : Keys,
   game : Games, amount : Nat, stake : Nat, commission : Nat, rake : Nat,
   rake_period : Periods \cup {NoPeriod}, payout : Nat]

PendingCalls ==
  [at : {"read", "locked"}, user : Users, key : Keys, game : Games, amount : Nat,
   commission : Nat, rake : Nat]

LuckTypeOK ==
  /\ bets \in [Bets -> BetRows \cup {NoBet}]
  /\ wagered \in [Users -> Nat] /\ won \in [Users -> Nat]
  /\ period \in [Periods -> {"none", "active", "closed"}]
  /\ pool \in [Periods -> Nat]
  /\ rakeBps \in RakeRates
  /\ placing \in [Calls -> PendingCalls \cup {NoCall}]

LuckInit ==
  /\ bets = [b \in Bets |-> NoBet]
  /\ wagered = [u \in Users |-> 0] /\ won = [u \in Users |-> 0]
  /\ period = [p \in Periods |-> "none"]
  /\ pool = [p \in Periods |-> 0]
  /\ rakeBps \in RakeRates
  /\ placing = [c \in Calls |-> NoCall]

-----------------------------------------------------------------------------
(* apply_bet.                                                              *)

\* Rows with the caller's key: at most one, by UNIQUE (discord_id, idempotency_key).
WithKey(u, k) == {b \in Bets : bets[b] # NoBet /\ bets[b].discord_id = u /\ bets[b].key = k}

Share(a, bps) == (a * bps) \div 10000

\* The unlocked reads.  A call that finds the key answers with that bet and ends.
BeginBet(c, u, k, g, a) ==
  /\ placing[c] = NoCall
  /\ WithKey(u, k) = {}
  /\ placing' = [placing EXCEPT ![c] =
       [at |-> "read", user |-> u, key |-> k, game |-> g, amount |-> a,
        commission |-> Share(a, Commission[g]), rake |-> Share(a, rakeBps)]]
  /\ UNCHANGED <<accounts, bets, wagered, won, period, pool, rakeBps>>

\* Mutant of KeyUnused: the check of the first step is relied upon.
KeyTrusted(c) == TRUE

\* The INSERT meets no row with the same key.
KeyUnused(c) == WithKey(c.user, c.key) = {}

\* Mutant of MayBet: the ban is not looked at.
MayBetBanned(u) == u \in registered

\* user_not_registered, user_banned.
MayBet(u) == u \in registered \ banned

\* The calls that hold the player's core.balances row; there is one at most.
LockedCalls(u) == {c \in Calls : placing[c].at = "locked" /\ placing[c].user = u}

Held(u) == LockedCalls(u) # {}

\* The player's row is taken FOR UPDATE, and then the ban is read.
LockBalance(c) ==
  /\ placing[c].at = "read"
  /\ ~ Held(placing[c].user) /\ MayBet(placing[c].user)
  /\ placing' = [placing EXCEPT ![c].at = "locked"]
  /\ UNCHANGED <<accounts, bets, wagered, won, period, pool, rakeBps>>

\* The active period with the highest id, if there is one.
ActivePeriod ==
  LET active == {p \in Periods : period[p] = "active"}
  IN  IF active = {} THEN NoPeriod ELSE CHOOSE p \in active : \A q \in active : q <= p

\* pool_amount + a, of a period.
Fund(p, a) == pool' = IF p = NoPeriod THEN pool ELSE [pool EXCEPT ![p] = @ + a]

\* The rest of the call.  The balance is still the one it has locked.
PlaceBet(c, b) ==
  LET call == placing[c] IN
  /\ call.at = "locked" /\ bets[b] = NoBet
  /\ balance[call.user] >= call.amount /\ KeyUnused(call)
  /\ bets' = [bets EXCEPT ![b] = NewBet(call, ActivePeriod)]
  /\ balance' = [balance EXCEPT ![call.user] = @ - call.amount]
  /\ locked' = [locked EXCEPT ![call.user] = @ + NewBet(call, ActivePeriod).stake]
  /\ wagered' = [wagered EXCEPT ![call.user] = @ + call.amount]
  /\ Fund(ActivePeriod, call.rake)
  /\ treasury' = treasury + call.commission + (IF ActivePeriod = NoPeriod THEN call.rake ELSE 0)
  /\ placing' = [placing EXCEPT ![c] = NoCall]
  /\ UNCHANGED <<registered, banned, won, period, rakeBps>>

\* A check raises, the INSERT meets the key, or the connection is lost.
AbortBet(c) ==
  /\ placing[c] # NoCall
  /\ placing' = [placing EXCEPT ![c] = NoCall]
  /\ UNCHANGED <<accounts, bets, wagered, won, period, pool, rakeBps>>

-----------------------------------------------------------------------------
(* Settlement.                                                             *)

\* Mutant of IsOpen: only a refund is final.
NotRefunded(b) == bets[b] # NoBet /\ bets[b].status # "refunded"

IsOpen(b) == bets[b] # NoBet /\ bets[b].status = "open"

\* Mutant of CheckBalance: the treasury row without its CHECK.
NoCheck(a) == TRUE

\* CHECK (balance >= 0) on the treasury's row.
CheckBalance(a) == a >= 0

\* What the player is credited.
CreditOf(bet, s, p) ==
  CASE s = "resolved_win"  -> p
    [] s = "resolved_loss" -> 0
    [] s = "resolved_tie"  -> bet.stake

\* Mutant of HouseGain: the whole bet, of which the commission is paid already.
HouseGainGross(bet, s, p) == IF s = "resolved_tie" THEN 0 ELSE bet.amount - CreditOf(bet, s, p)

\* What the treasury gains (or, below zero, pays).
HouseGain(bet, s, p) == IF s = "resolved_tie" THEN 0 ELSE bet.stake - CreditOf(bet, s, p)

\* A repeated call with the same status and payout succeeds without effect.
ResolveBet(b, s, p) ==
  /\ IsOpen(b) /\ ~ Held(bets[b].discord_id)
  /\ CheckBalance(treasury + HouseGain(bets[b], s, p))
  /\ LET u == bets[b].discord_id IN
       /\ Credit(u, CreditOf(bets[b], s, p))
       /\ locked' = [locked EXCEPT ![u] = @ - bets[b].stake]
       /\ won' = [won EXCEPT ![u] = @ + CreditOf(bets[b], s, p)]
  /\ treasury' = treasury + HouseGain(bets[b], s, p)
  /\ bets' = [bets EXCEPT ![b].status = s, ![b].payout = p]
  /\ UNCHANGED <<registered, banned, wagered, period, pool, rakeBps, placing>>

\* A win of the stake times the multiplier, rounded down.
CashoutMines(b, m) ==
  /\ IsOpen(b) /\ bets[b].game = "mines"
  /\ ResolveBet(b, "resolved_win", (bets[b].stake * m[1]) \div m[2])

\* Mutant of RakeSource: wherever rakes go today.
RakeSourceToday(bet) == ActivePeriod

\* The rake comes back from the period it was paid into, or from the treasury.
RakeSource(bet) == bet.rake_period

\* Mutant of Unwind: total_wagered is forgotten.
UnwindBalance(u, bet) ==
  /\ Credit(u, bet.amount)
  /\ locked' = [locked EXCEPT ![u] = @ - bet.stake]
  /\ UNCHANGED wagered

\* The player's side of a refund.
Unwind(u, bet) ==
  /\ Credit(u, bet.amount)
  /\ locked' = [locked EXCEPT ![u] = @ - bet.stake]
  /\ wagered' = [wagered EXCEPT ![u] = @ - bet.amount]

\* Commission and rake come back from where apply_bet put them.  If the treasury
\* has been swept below them, the refund is refused and the bet stays open.
RefundBet(b) ==
  LET bet == bets[b]
      source == RakeSource(bet)
      fromHouse == bet.commission + (IF source = NoPeriod THEN bet.rake ELSE 0)
  IN
  /\ IsOpen(b) /\ ~ Held(bet.discord_id)
  /\ CheckBalance(treasury - fromHouse)
  /\ source # NoPeriod => pool[source] >= bet.rake
  /\ Unwind(bet.discord_id, bet)
  /\ Fund(source, - bet.rake)
  /\ treasury' = treasury - fromHouse
  /\ bets' = [bets EXCEPT ![b].status = "refunded"]
  /\ UNCHANGED <<registered, banned, won, period, rakeBps, placing>>

-----------------------------------------------------------------------------
(* The operators.                                                          *)

OpenPeriod(p) ==
  /\ period[p] = "none"
  /\ period' = [period EXCEPT ![p] = "active"]
  /\ UNCHANGED <<accounts, bets, wagered, won, pool, rakeBps, placing>>

ClosePeriod(p) ==
  /\ period[p] = "active"
  /\ period' = [period EXCEPT ![p] = "closed"]
  /\ UNCHANGED <<accounts, bets, wagered, won, pool, rakeBps, placing>>

SetRake(r) ==
  /\ rakeBps' = r
  /\ UNCHANGED <<accounts, bets, wagered, won, period, pool, placing>>

-----------------------------------------------------------------------------
LuckNext ==
  \/ \E c \in Calls, u \in Users, k \in Keys, g \in Games, a \in BetAmounts :
       BeginBet(c, u, k, g, a)
  \/ \E c \in Calls, b \in Bets : PlaceBet(c, b)
  \/ \E c \in Calls : LockBalance(c) \/ AbortBet(c)
  \/ \E b \in Bets, s \in Resolved, p \in Payouts : ResolveBet(b, s, p)
  \/ \E b \in Bets, m \in Multipliers : CashoutMines(b, m)
  \/ \E b \in Bets : RefundBet(b)
  \/ \E p \in Periods : OpenPeriod(p) \/ ClosePeriod(p)
  \/ \E r \in RakeRates : SetRake(r)

-----------------------------------------------------------------------------
(* Properties of the bets themselves; module Casino has the shared ones.   *)

Charged(b) == bets[b] # NoBet /\ bets[b].status # "refunded"

\* A bet is charged once however often, and however close together, apply_bet is
\* called with its idempotency key.
ChargedOncePerKey == \A u \in Users, k \in Keys : Cardinality(WithKey(u, k)) <= 1

WageredBy(u) ==
  [b \in Bets |-> IF Charged(b) /\ bets[b].discord_id = u THEN bets[b].amount ELSE 0]

WonBy(u) ==
  [b \in Bets |-> IF bets[b] # NoBet /\ bets[b].discord_id = u /\ bets[b].status \in Resolved
                  THEN CreditOf(bets[b], bets[b].status, bets[b].payout) ELSE 0]

\* total_wagered is the sum of the player's bets that were not refunded, total_won
\* what the settled ones paid: nothing is counted twice by a retried call.
TotalsMatchBets ==
  \A u \in Users : wagered[u] = Total(WageredBy(u)) /\ won[u] = Total(WonBy(u))

RakedInto(p) ==
  [b \in Bets |-> IF Charged(b) /\ bets[b].rake_period = p THEN bets[b].rake ELSE 0]

\* A period's pool is the rake of its bets, and a refund takes back what the bet
\* paid in, from where it paid it, although the rate has changed or the period closed.
PoolBacksRakes == \A p \in Periods : pool[p] = Total(RakedInto(p))

=============================================================================
