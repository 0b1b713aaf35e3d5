----------------------------- MODULE MCDwLedger -----------------------------
(***************************************************************************)
(* Small instances of DwLedger for TLC.                                    *)
(***************************************************************************)
EXTENDS DwLedger, TLC

\* Limits wide enough for every amount of the instance, a 50 % fee.
MCSeedConfig ==
  [min_deposit_g |-> 1, max_deposit_g |-> 3, min_withdraw_g |-> 1,
   max_withdraw_g |-> 3, withdraw_fee_bps |-> 5000]

\* The ids are interchangeable: no action or property compares them.
MCSymmetry ==
  Permutations(Users) \cup Permutations(Cashiers)
    \cup Permutations(Deposits) \cup Permutations(Withdraws)

=============================================================================
