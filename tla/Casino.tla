------------------------------- MODULE Casino -------------------------------
(***************************************************************************)
(* The two bots on one database.  The deposit/withdraw functions           *)
(* (DwLedger) and the betting functions (LuckBets) change the same rows of *)
(* core.balances: a player's balance, the locked_balance that holds both   *)
(* withdraws under way and stakes of open bets, and the treasury.          *)
(***************************************************************************)
EXTENDS DwLedger, LuckBets

casinoVars == <<accounts, dwVars, luckVars>>

CasinoInit == Init /\ LuckInit

\* The ledger's functions wait for a row that a bet being placed has locked.
DwStep ==
  /\ Next
  /\ \A u \in Users : Held(u) => balance'[u] = balance[u] /\ locked'[u] = locked[u]
  /\ UNCHANGED luckVars

LuckStep == LuckNext /\ UNCHANGED dwVars

CasinoNext == DwStep \/ LuckStep

CasinoSpec == CasinoInit /\ [][CasinoNext]_casinoVars

-----------------------------------------------------------------------------
(* Properties.                                                             *)

CasinoTypeOK == TypeOK /\ LuckTypeOK

\* No gold is created or destroyed by deposits, withdraws, bets, payouts, refunds
\* and sweeps together: what came in is in a balance, locked, in the treasury, in
\* a raffle pool, swept or handed out.
CasinoConservation ==
  Total(balance) + Total(locked) + treasury + Total(pool) + swept + Delivered = Deposited

BetsOf(u) == {b \in Bets : bets[b] # NoBet /\ bets[b].discord_id = u}

StakedBy(u) ==
  [b \in Bets |-> IF b \in BetsOf(u) /\ bets[b].status = "open" THEN bets[b].stake ELSE 0]

\* locked_balance, one number that both bots add to and take from, is exactly the
\* player's live withdraws and open stakes: settling a bet never eats into the gold
\* of a withdraw, nor the other way round.
LockedBacksBoth == \A u \in Users : locked[u] = Total(LockedFor(u)) + Total(StakedBy(u))

TicketsOf(u) == {t \in Tickets : tickets[t].discord_id = u}

\* Tickets of the player, and deposits that a call past its ban check may yet open.
TicketsInReach(u) == TicketsOf(u) \cup {t \in Deposits : opening[t] = u}

\* Bets of the player, and calls of apply_bet past their ban check.
BetsInReach(u) == Cardinality(BetsOf(u)) + Cardinality(LockedCalls(u))

\* A ban stops a player with both bots, except for calls that had read the ban flag,
\* which neither 0015 nor 0023 locks, before the ban was committed: from then on each of
\* these opens one deposit or bet at most, and no withdraw is opened (0007 locks the
\* flag).
BanOvertakenOnce ==
  [][\A u \in banned :
       /\ TicketsInReach(u)' \subseteq TicketsInReach(u)
       /\ TicketsOf(u)' \cap Withdraws = TicketsOf(u) \cap Withdraws
       /\ BetsInReach(u)' <= BetsInReach(u)]_casinoVars

\* A banned player opens nothing new with either bot (create_deposit_ticket's comment
\* claims "parity with create_withdraw_ticket"): violated, see BanOvertakenOnce.
BannedOpenNothing ==
  [][\A u \in banned : TicketsOf(u)' = TicketsOf(u) /\ BetsOf(u)' = BetsOf(u)]_casinoVars

=============================================================================
