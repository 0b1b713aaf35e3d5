------------------------------ MODULE MCCasino ------------------------------
(***************************************************************************)
(* A small instance of Casino for TLC.                                     *)
(***************************************************************************)
EXTENDS Casino, TLC

\* One deposit pays for a withdraw and a bet, or for two bets.
MCSeedConfig ==
  [min_deposit_g |-> 8, max_deposit_g |-> 8, min_withdraw_g |-> 1,
   max_withdraw_g |-> 4, withdraw_fee_bps |-> 5000]

\* A quarter of the bet is commission.
MCCommission == [g \in Games |-> 2500]

\* One and a half times the stake.
MCMultipliers == {<<3, 2>>}

\* The disputes, which touch the accounts only as a payment out of the treasury
\* does, are left to the ledger's own instances.
MCNoDisputes == \A t \in Tickets : disputes[t].status = "none"

MCSymmetry == Permutations(Bets) \cup Permutations(Calls) \cup Permutations(Keys)

=============================================================================
