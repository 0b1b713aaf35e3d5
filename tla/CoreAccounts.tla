---------------------------- MODULE CoreAccounts ----------------------------
(***************************************************************************)
(* core.users and core.balances: the rows that the deposit/withdraw        *)
(* functions (module DwLedger) move gold between.                          *)
(*                                                                         *)
(* The treasury is the row discord_id = 0 that migration 0001 seeds; it is *)
(* kept apart as the variable treasury.  A player's two rows are created   *)
(* together, by the first operation that credits or bans the player: until *)
(* then the player is not in registered and the amounts are zero.          *)
(***************************************************************************)
EXTENDS Gold

CONSTANT Users                 \* the players' Discord ids (never 0)

ASSUME UsersAssumption == IsFiniteSet(Users)

VARIABLES
  registered,                  \* players with rows in core.users and core.balances
  banned,                      \* core.users.banned
  balance,                     \* core.balances.balance, the spendable gold
  locked,                      \* core.balances.locked_balance
  treasury                     \* core.balances.balance of discord_id = 0

accounts == <<registered, banned, balance, locked, treasury>>

AccountsTypeOK ==
  /\ registered \subseteq Users
  /\ banned \subseteq registered
  /\ balance \in [Users -> Nat]
  /\ locked \in [Users -> Nat]
  /\ treasury \in Nat

AccountsInit ==
  /\ registered = {}
  /\ banned = {}
  /\ balance = [u \in Users |-> 0]
  /\ locked = [u \in Users |-> 0]
  /\ treasury = 0

-----------------------------------------------------------------------------
(* What the functions do to a player's row, each inside one transaction.   *)

\* INSERT ... ON CONFLICT DO NOTHING into both tables.
EnsureRows(u) == registered' = registered \cup {u}

\* UPDATE core.balances SET balance = balance + a.
Credit(u, a) == balance' = [balance EXCEPT ![u] = @ + a]

=============================================================================
