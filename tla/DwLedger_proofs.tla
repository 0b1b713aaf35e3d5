--------------------------- MODULE DwLedger_proofs ---------------------------
(***************************************************************************)
(* Proofs about the deposit/withdraw ledger, for any number of players,    *)
(* cashiers and tickets, any amounts, fee rates and limits.                *)
(*                                                                         *)
(* TypeOK and RowsConsistent are inductive together (neither is alone: the *)
(* type of a balance update needs the ticket's owner to be a player, which *)
(* RowsConsistent says).  Conservation and LockedBacksWithdraws are each   *)
(* preserved by every step from a state with that invariant; the sums are  *)
(* followed with lemma TotalUpdate, one changed row at a time.  The action *)
(* properties and the refinement of TicketLifecycle follow, step by step,  *)
(* from the same invariant.                                                *)
(***************************************************************************)
EXTENDS DwLedger, FiniteSetTheorems, TLAPS

-----------------------------------------------------------------------------
(* Sums of gold: Total is a natural number, at least each of its summands, *)
(* zero for an all-zero column, and changing one row changes it by the     *)
(* difference.                                                             *)

\* A coin of a column is a row paired with an index up to the row's amount.
LEMMA CoinsMember ==
  ASSUME NEW f, NEW p
  PROVE  p \in Coins(f) <=> \E x \in DOMAIN f : \E i \in 1 .. f[x] : p = <<x, i>>
BY DEF Coins

\* One row's coins: finitely many, as many as its amount.
LEMMA RowCoins ==
  ASSUME NEW x, NEW n \in Nat
  PROVE  /\ IsFiniteSet({x} \X (1 .. n))
         /\ Cardinality({x} \X (1 .. n)) = n
<1> DEFINE g == [i \in 1 .. n |-> <<x, i>>]
<1>1. g \in Bijection(1 .. n, {x} \X (1 .. n))
  BY DEF Bijection, Injection, Surjection, IsInjective
<1>2. ExistsBijection(1 .. n, {x} \X (1 .. n))
  BY <1>1 DEF ExistsBijection
<1>3. IsFiniteSet(1 .. n) /\ Cardinality(1 .. n) = n
  BY FS_Interval
<1> QED
  BY <1>2, <1>3, FS_Bijection

\* A column over finitely many rows has finitely many coins.
LEMMA CoinsFinite ==
  ASSUME NEW S, IsFiniteSet(S), NEW f \in [S -> Nat]
  PROVE  IsFiniteSet(Coins(f))
<1> DEFINE R == {{x} \X (1 .. f[x]) : x \in S}
           g == [x \in S |-> {x} \X (1 .. f[x])]
<1>1. g \in Surjection(S, R)
  BY DEF Surjection
<1>2. IsFiniteSet(R)
  BY <1>1, FS_Surjection
<1>3. \A T \in R : IsFiniteSet(T)
  <2>1. ASSUME NEW x \in S PROVE IsFiniteSet({x} \X (1 .. f[x]))
    <3>1. f[x] \in Nat
      OBVIOUS
    <3> QED
      BY <3>1, RowCoins
  <2> QED
    BY <2>1
<1>4. Coins(f) = UNION R
  BY DEF Coins
<1> QED
  BY <1>2, <1>3, <1>4, FS_UNION

\* A sum of amounts is an amount.
LEMMA TotalType ==
  ASSUME NEW S, IsFiniteSet(S), NEW f \in [S -> Nat]
  PROVE  Total(f) \in Nat
BY CoinsFinite, FS_CardinalityType DEF Total

\* An all-zero column sums to zero.
LEMMA TotalZero ==
  ASSUME NEW S, NEW f \in [S -> Nat], \A x \in S : f[x] = 0
  PROVE  Total(f) = 0
<1>1. Coins(f) = {}
  BY CoinsMember
<1> QED
  BY <1>1, FS_EmptySet DEF Total

\* The sum splits into one row and the coins of all the others.
LEMMA TotalSplit ==
  ASSUME NEW S, IsFiniteSet(S), NEW f \in [S -> Nat], NEW y \in S
  PROVE  /\ IsFiniteSet({p \in Coins(f) : p[1] # y})
         /\ Total(f) = Cardinality({p \in Coins(f) : p[1] # y}) + f[y]
<1> DEFINE A == {p \in Coins(f) : p[1] # y}
           B == {y} \X (1 .. f[y])
<1>1. Coins(f) = A \cup B
  <2>1. ASSUME NEW p \in B PROVE p \in Coins(f)
    BY CoinsMember
  <2>2. ASSUME NEW p \in Coins(f), p \notin A PROVE p \in B
    BY <2>2, CoinsMember
  <2> QED
    BY <2>1, <2>2
<1>2. A \cap B = {}
  OBVIOUS
<1>3. IsFiniteSet(A)
  BY CoinsFinite, FS_Subset
<1>4. IsFiniteSet(B) /\ Cardinality(B) = f[y]
  BY RowCoins
<1>5. Cardinality(A \cap B) = 0
  BY <1>2, FS_EmptySet
<1>6. Cardinality(A) \in Nat
  BY <1>3, FS_CardinalityType
<1>7. Cardinality(A \cup B) = Cardinality(A) + Cardinality(B) - Cardinality(A \cap B)
  BY <1>3, <1>4, FS_Union
<1>8. Cardinality(Coins(f)) = Cardinality(A) + f[y]
  <2>1. f[y] \in Nat
    OBVIOUS
  <2> HIDE DEF A, B
  <2> QED
    BY <2>1, <1>1, <1>4, <1>5, <1>6, <1>7
<1> QED
  BY <1>3, <1>8 DEF Total

\* UPDATE ... SET f = v WHERE row = y changes SUM(f) by v - f[y].
LEMMA TotalUpdate ==
  ASSUME NEW S, IsFiniteSet(S), NEW f \in [S -> Nat], NEW y \in S, NEW v \in Nat
  PROVE  Total([f EXCEPT ![y] = v]) = Total(f) - f[y] + v
<1> DEFINE g == [f EXCEPT ![y] = v]
<1>1. g \in [S -> Nat] /\ g[y] = v
  OBVIOUS
<1>2. {p \in Coins(g) : p[1] # y} = {p \in Coins(f) : p[1] # y}
  <2>1. ASSUME NEW p, p[1] # y PROVE p \in Coins(g) <=> p \in Coins(f)
    <3>1. p \in Coins(g) <=> \E x \in S : \E i \in 1 .. g[x] : p = <<x, i>>
      BY <1>1, CoinsMember
    <3>2. p \in Coins(f) <=> \E x \in S : \E i \in 1 .. f[x] : p = <<x, i>>
      BY CoinsMember
    <3>3. \A x \in S : x # y => g[x] = f[x]
      OBVIOUS
    <3> HIDE DEF g
    <3>4. ASSUME NEW x \in S, NEW i, p = <<x, i>> PROVE x # y
      BY <2>1, <3>4
    <3> QED
      BY <3>1, <3>2, <3>3, <3>4
  <2> QED
    BY <2>1
<1>3. Total(g) = Cardinality({p \in Coins(f) : p[1] # y}) + v
  BY <1>1, <1>2, TotalSplit
<1>4. Total(f) = Cardinality({p \in Coins(f) : p[1] # y}) + f[y]
  BY TotalSplit
<1>5. Cardinality({p \in Coins(f) : p[1] # y}) \in Nat
  BY TotalSplit, FS_CardinalityType
<1> QED
  BY <1>3, <1>4, <1>5

\* No summand exceeds the sum.
LEMMA TotalBound ==
  ASSUME NEW S, IsFiniteSet(S), NEW f \in [S -> Nat], NEW y \in S
  PROVE  f[y] <= Total(f)
<1>1. Cardinality({p \in Coins(f) : p[1] # y}) \in Nat
  BY TotalSplit, FS_CardinalityType
<1> QED
  BY <1>1, TotalSplit

-----------------------------------------------------------------------------
(* The rows.                                                               *)

\* The inductive invariant of the rows.
IInv == TypeOK /\ RowsConsistent

-----------------------------------------------------------------------------
(* Facts about the helpers.                                                *)

\* The fee of a non-negative amount is between zero and the amount.
LEMMA FeeBounds ==
  ASSUME TypeOK, NEW a \in Nat
  PROVE  Fee(a) \in Nat /\ Fee(a) <= a
<1> DEFINE b == config["withdraw_fee_bps"]
<1>1. b \in Nat /\ b <= BpsScale
  BY DEF TypeOK, ConfigKeys, BpsScale
<1>2. a * b \in Nat /\ a * b <= a * BpsScale
  BY <1>1 DEF BpsScale
<1>3. \A x \in Nat : x <= a * 10000 => (x \div 10000) \in Nat /\ (x \div 10000) <= a
  OBVIOUS
<1> QED
  BY <1>2, <1>3 DEF Fee, BpsScale

\* The cashier's counters stay counters when a confirmed deposit is added.
LEMMA DepositCounted ==
  ASSUME NEW s \in StatsRows, NEW n \in Nat
  PROVE  CountDeposit(s, n) \in StatsRows
<1> DEFINE s1 == [s EXCEPT !.deposits_completed = @ + 1]
<1>1. s1 \in StatsRows
  BY DEF StatsRows
<1>2. CountDeposit(s, n) = [s1 EXCEPT !.total_volume_g = @ + n]
  BY DEF CountDeposit
<1> HIDE DEF s1
<1> QED
  BY <1>1, <1>2 DEF StatsRows

\* The same when a confirmed withdraw is added.
LEMMA WithdrawCounted ==
  ASSUME NEW s \in StatsRows, NEW n \in Nat
  PROVE  CountWithdraw(s, n) \in StatsRows
<1> DEFINE s1 == [s EXCEPT !.withdraws_completed = @ + 1]
<1>1. s1 \in StatsRows
  BY DEF StatsRows
<1>2. CountWithdraw(s, n) = [s1 EXCEPT !.total_volume_g = @ + n]
  BY DEF CountWithdraw
<1> HIDE DEF s1
<1> QED
  BY <1>1, <1>2 DEF StatsRows

\* A ticket row stays a ticket row when its withdraw is confirmed.
LEMMA ConfirmedRow ==
  ASSUME NEW tk \in TicketRows, DeliveredNet(tk) \in Nat
  PROVE  HandedOver(tk) \in TicketRows
<1> DEFINE r1 == [tk EXCEPT !.status = "confirmed"]
<1>1. r1 \in TicketRows
  BY DEF TicketRows, Statuses
<1>2. HandedOver(tk) = [r1 EXCEPT !.amount_delivered = DeliveredNet(tk)]
  BY DEF HandedOver
<1> HIDE DEF r1
<1> QED
  BY <1>1, <1>2 DEF TicketRows

-----------------------------------------------------------------------------
(* The rows.                                                               *)

\* Every function, called in a consistent state, leaves a consistent state.
LEMMA IInvStep == IInv /\ [Next]_vars => IInv'
<1> SUFFICES ASSUME TypeOK, RowsConsistent, [Next]_vars PROVE TypeOK' /\ RowsConsistent'
  BY DEF IInv
<1> USE DwAssumption
<1> USE DEF TypeOK, AccountsTypeOK, RowsConsistent, accounts, dwVars, Tickets, TicketRows,
            StatsRows, DisputeRows, Statuses, NoTicket, NewTicket
<1>0. ASSUME NEW t \in Deposits, AbortDeposit(t) \/ \E u \in Users : BeginDeposit(t, u)
      PROVE  TypeOK' /\ RowsConsistent'
  <2>1. opening' \in [Deposits -> Users \cup {Null}]
    BY <1>0 DEF BeginDeposit, AbortDeposit
  <2>2. UNCHANGED <<accounts, tickets, chars, stats, disputes, config, swept>>
    BY <1>0 DEF BeginDeposit, AbortDeposit
  <2> HIDE DEF TicketRows, StatsRows, DisputeRows
  <2> QED
    BY <2>1, <2>2
<1>1. ASSUME NEW t \in Deposits, NEW a \in Amounts, NEW r \in Regions,
             CreateDepositTicket(t, a, r)
      PROVE  TypeOK' /\ RowsConsistent'
  <2>1. opening[t] \in Users
    BY <1>1 DEF CreateDepositTicket
  <2> QED
    BY <1>1, <2>1 DEF CreateDepositTicket, InRange
<1>2. ASSUME NEW t \in Deposits, NEW c \in Cashiers, ConfirmDeposit(t, c)
      PROVE  TypeOK' /\ RowsConsistent'
  <2>1. /\ tickets[t] \in TicketRows
        /\ tickets[t].discord_id \in Users
        /\ tickets[t].amount \in Nat /\ tickets[t].fee \in Nat
        /\ tickets[t].fee <= tickets[t].amount
    BY <1>2 DEF ConfirmDeposit, HeldBy, EnsureRows, Credit, SetStatus
  <2>2. stats' \in [Cashiers -> StatsRows]
    <3> HIDE DEF StatsRows, TicketRows
    <3> QED
      BY <1>2, <2>1, DepositCounted DEF ConfirmDeposit
  <2>3. tickets' \in [Tickets -> TicketRows]
    BY <1>2, <2>1 DEF ConfirmDeposit, HeldBy, EnsureRows, Credit, SetStatus
  <2>4. AccountsTypeOK'
    BY <1>2, <2>1 DEF ConfirmDeposit, HeldBy, EnsureRows, Credit, SetStatus
  <2>5. TypeOK'
    BY <1>2, <2>2, <2>3, <2>4 DEF ConfirmDeposit
  <2>6. RowsConsistent'
    BY <1>2 DEF ConfirmDeposit, HeldBy, EnsureRows, Credit, SetStatus
  <2> QED
    BY <2>5, <2>6
<1>3. ASSUME NEW t \in Deposits, CancelDeposit(t)
      PROVE  TypeOK' /\ RowsConsistent'
  BY <1>3 DEF CancelDeposit, IsLive, SetStatus
<1>4. ASSUME NEW t \in Withdraws, NEW u \in Users, NEW a \in Amounts, NEW r \in Regions,
             CreateWithdrawTicket(t, u, a, r)
      PROVE  TypeOK' /\ RowsConsistent'
  BY <1>4, FeeBounds DEF CreateWithdrawTicket
<1>5. ASSUME NEW t \in Withdraws, NEW c \in Cashiers, ConfirmWithdraw(t, c)
      PROVE  TypeOK' /\ RowsConsistent'
  <2>1. /\ tickets[t] \in TicketRows
        /\ tickets[t].discord_id \in Users
        /\ tickets[t].amount \in Nat /\ tickets[t].fee \in Nat
        /\ tickets[t].fee <= tickets[t].amount
    BY <1>5 DEF ConfirmWithdraw, HeldBy, Unlock, FeeDue, DeliveredNet, HandedOver
  <2>2. stats' \in [Cashiers -> StatsRows]
    <3> HIDE DEF StatsRows, TicketRows
    <3> QED
      BY <1>5, <2>1, WithdrawCounted DEF ConfirmWithdraw
  <2>3. tickets' \in [Tickets -> TicketRows]
    <3>1. DeliveredNet(tickets[t]) \in Nat
      BY <2>1 DEF DeliveredNet
    <3> HIDE DEF StatsRows, TicketRows
    <3> QED
      BY <1>5, <2>1, <3>1, ConfirmedRow DEF ConfirmWithdraw
  <2>4. AccountsTypeOK'
    BY <1>5, <2>1 DEF ConfirmWithdraw, HeldBy, Unlock, FeeDue, DeliveredNet, HandedOver
  <2>5. TypeOK'
    BY <1>5, <2>2, <2>3, <2>4 DEF ConfirmWithdraw
  <2>6. RowsConsistent'
    BY <1>5 DEF ConfirmWithdraw, HeldBy, Unlock, FeeDue, DeliveredNet, HandedOver
  <2> QED
    BY <2>5, <2>6
<1>6. ASSUME NEW t \in Withdraws, NEW byOwner \in BOOLEAN, CancelWithdraw(t, byOwner)
      PROVE  TypeOK' /\ RowsConsistent'
  <2>1. /\ tickets[t] \in TicketRows
        /\ tickets[t].discord_id \in Users
        /\ tickets[t].amount \in Nat /\ tickets[t].fee \in Nat
        /\ tickets[t].fee <= tickets[t].amount
    BY <1>6 DEF CancelWithdraw, IsLive, Unlock, Credit, Refund, SetStatus
  <2>2. stats' \in [Cashiers -> StatsRows]
    <3>1. \/ stats' = stats
          \/ \E c \in Cashiers : stats' = [stats EXCEPT ![c].withdraws_cancelled = @ + 1]
      BY <1>6, <2>1 DEF CancelWithdraw, IsLive
    <3> QED
      BY <3>1
  <2>3. tickets' \in [Tickets -> TicketRows]
    BY <1>6, <2>1 DEF CancelWithdraw, IsLive, Unlock, Credit, Refund, SetStatus
  <2>4. AccountsTypeOK'
    BY <1>6, <2>1 DEF CancelWithdraw, IsLive, Unlock, Credit, Refund, SetStatus
  <2>5. TypeOK'
    BY <1>6, <2>2, <2>3, <2>4 DEF CancelWithdraw
  <2>6. RowsConsistent'
    BY <1>6 DEF CancelWithdraw, IsLive, Unlock, Credit, Refund, SetStatus
  <2> QED
    BY <2>5, <2>6
<1>7. ASSUME NEW t \in Tickets, NEW c \in Cashiers, ClaimTicket(t, c)
      PROVE  TypeOK' /\ RowsConsistent'
  <2>1. tickets' \in [Tickets -> TicketRows] /\ RowsConsistent'
    <3> HIDE DEF StatsRows, DisputeRows
    <3> QED
      BY <1>7 DEF ClaimTicket
  <2> HIDE DEF TicketRows, StatsRows, DisputeRows, RowsConsistent
  <2> QED
    BY <1>7, <2>1 DEF ClaimTicket
<1>8. ASSUME NEW t \in Tickets, NEW c \in Cashiers, ReleaseTicket(t, c)
      PROVE  TypeOK' /\ RowsConsistent'
  BY <1>8 DEF ReleaseTicket, HeldBy, Reopen
<1>9. ASSUME NEW c \in Cashiers, NEW ch \in Characters, NEW r \in Regions,
             AddCashierCharacter(c, ch, r)
      PROVE  TypeOK' /\ RowsConsistent'
  BY <1>9 DEF AddCashierCharacter
<1>10. ASSUME NEW c \in Cashiers, NEW ch \in Characters, NEW r \in Regions,
              RemoveCashierCharacter(c, ch, r)
      PROVE  TypeOK' /\ RowsConsistent'
  BY <1>10 DEF RemoveCashierCharacter
<1>11. ASSUME NEW a \in Amounts, TreasurySweep(a)
      PROVE  TypeOK' /\ RowsConsistent'
  BY <1>11 DEF TreasurySweep, Spend
<1>12. ASSUME NEW a \in Amounts, NEW u \in Users, TreasuryWithdrawToUser(a, u)
      PROVE  TypeOK' /\ RowsConsistent'
  <2> HIDE DEF TicketRows, StatsRows, DisputeRows
  <2> QED
    BY <1>12 DEF TreasuryWithdrawToUser, PayFromTreasury, Spend, EnsureRows, Credit
<1>13. ASSUME NEW t \in Tickets, OpenDispute(t)
      PROVE  TypeOK' /\ RowsConsistent'
  BY <1>13 DEF OpenDispute
<1>14. ASSUME NEW t \in Tickets, RejectDispute(t)
      PROVE  TypeOK' /\ RowsConsistent'
  BY <1>14 DEF RejectDispute
<1>15. ASSUME NEW t \in Tickets, NEW action \in Resolutions, NEW a \in Amounts,
              ResolveDispute(t, action, a)
      PROVE  TypeOK' /\ RowsConsistent'
  <2>0. /\ tickets[t].discord_id \in Users /\ tickets[t].amount \in Nat /\ a \in Nat
        /\ disputes' \in [Tickets -> DisputeRows]
        /\ \A x \in Tickets : disputes'[x].status # "none" => disputes[x].status # "none"
        /\ UNCHANGED <<tickets, chars, stats, config, swept, opening>>
    <3> HIDE DEF StatsRows
    <3> QED
      BY <1>15 DEF ResolveDispute, Resolutions
  <2> HIDE DEF TicketRows, StatsRows, DisputeRows
  <2>1. ASSUME NEW n \in Nat, PayFromTreasury(n, tickets[t].discord_id)
        PROVE  TypeOK' /\ RowsConsistent'
    BY <2>0, <2>1 DEF PayFromTreasury, Spend, EnsureRows, Credit
  <2>2. CASE PayFromTreasury(a, tickets[t].discord_id)
    BY <2>0, <2>1, <2>2
  <2>2a. CASE PayFromTreasury(tickets[t].amount, tickets[t].discord_id)
    BY <2>0, <2>1, <2>2a
  <2>3. CASE UNCHANGED accounts
    BY <2>0, <2>3
  <2> HIDE DEF TypeOK, RowsConsistent
  <2> QED
    BY <1>15, <2>2, <2>2a, <2>3 DEF ResolveDispute
<1>16. ASSUME NEW u \in Users, BanUser(u)
      PROVE  TypeOK' /\ RowsConsistent'
  BY <1>16 DEF BanUser, EnsureRows
<1>17. ASSUME NEW u \in Users, UnbanUser(u)
      PROVE  TypeOK' /\ RowsConsistent'
  BY <1>17 DEF UnbanUser
<1>18. ASSUME NEW v \in FeeRates, SetConfig("withdraw_fee_bps", v)
      PROVE  TypeOK' /\ RowsConsistent'
  BY <1>18 DEF SetConfig, ConfigKeys
<1>19. ASSUME NEW k \in ConfigKeys \ {"withdraw_fee_bps"}, NEW v \in Limits, SetConfig(k, v)
      PROVE  TypeOK' /\ RowsConsistent'
  BY <1>19 DEF SetConfig, ConfigKeys
<1>20. CASE UNCHANGED vars
  BY <1>20 DEF vars
<1> HIDE DEF TypeOK, RowsConsistent
<1> QED
  BY <1>0, <1>1, <1>2, <1>3, <1>4, <1>5, <1>6, <1>7, <1>8, <1>9, <1>10, <1>11,
     <1>12, <1>13, <1>14, <1>15, <1>16, <1>17, <1>18, <1>19, <1>20 DEF Next

\* The empty database is consistent.
LEMMA RowsCorrectInit == Init => IInv
BY DwAssumption DEF Init, AccountsInit, IInv, TypeOK, AccountsTypeOK, RowsConsistent,
       Tickets, NoTicket, NewTicket, TicketRows, StatsRows, DisputeRows, Statuses

\* The rows of every reachable state are well typed and agree with one another:
\* no balance, locked balance or treasury is ever negative, an issued ticket
\* always has its owner, claimer, fee and delivered amount in step with its
\* status, whatever functions are called in whatever order.
THEOREM RowsCorrect == Spec => [](TypeOK /\ RowsConsistent)
<1>1. Init => IInv
  BY RowsCorrectInit
<1>2. IInv /\ [Next]_vars => IInv'
  BY IInvStep
<1> QED
  BY <1>1, <1>2, PTL DEF Spec, IInv

\* Every column keeps its type, at any number of players and tickets: no CHECK
\* of the tables is ever reached by a wrong update.
THEOREM LedgerTyped == Spec => []TypeOK
BY RowsCorrect, PTL

-----------------------------------------------------------------------------
(* Conservation of gold.                                                   *)

\* The columns that Conservation sums are columns of amounts.
LEMMA Columns ==
  ASSUME IInv
  PROVE  /\ DepositColumn \in [Deposits -> Nat] /\ DeliveredColumn \in [Withdraws -> Nat]
         /\ Total(balance) \in Nat /\ Total(locked) \in Nat
         /\ Deposited \in Nat /\ Delivered \in Nat
         /\ treasury \in Nat /\ swept \in Nat
<1>1. DepositColumn \in [Deposits -> Nat] /\ DeliveredColumn \in [Withdraws -> Nat]
  BY DEF IInv, TypeOK, TicketRows, Tickets, DepositColumn, DeliveredColumn, ConfirmedAmount
<1>2. balance \in [Users -> Nat] /\ locked \in [Users -> Nat] /\ treasury \in Nat /\ swept \in Nat
  BY DEF IInv, TypeOK, AccountsTypeOK
<1>3. IsFiniteSet(Users) /\ IsFiniteSet(Deposits) /\ IsFiniteSet(Withdraws)
  BY UsersAssumption, DwAssumption
<1>4. Total(balance) \in Nat /\ Total(locked) \in Nat
  BY <1>2, <1>3, TotalType
<1>5. Deposited \in Nat /\ Delivered \in Nat
  BY <1>1, <1>3, TotalType DEF Deposited, Delivered
<1> QED
  BY <1>1, <1>2, <1>4, <1>5

\* The same of the next state, when that is consistent too.
LEMMA ColumnsNext ==
  IInv' => /\ Total(balance') \in Nat /\ Total(locked') \in Nat
           /\ Deposited' \in Nat /\ Delivered' \in Nat
           /\ treasury' \in Nat /\ swept' \in Nat
<1> DEFINE Typed == /\ Total(balance) \in Nat /\ Total(locked) \in Nat
                    /\ Deposited \in Nat /\ Delivered \in Nat
                    /\ treasury \in Nat /\ swept \in Nat
<1>1. IInv => Typed
  BY Columns
<1>2. IInv' => Typed'
  BY <1>1, PTL
<1> QED
  BY <1>2

\* Crediting a player raises the sum of the balances by the amount.
LEMMA CreditTotal ==
  ASSUME IInv, NEW u \in Users, NEW a \in Nat, Credit(u, a)
  PROVE  Total(balance') = Total(balance) + a
<1>1. balance \in [Users -> Nat] /\ balance[u] \in Nat /\ balance[u] + a \in Nat
  BY DEF IInv, TypeOK, AccountsTypeOK
<1>2. Total([balance EXCEPT ![u] = balance[u] + a]) = Total(balance) - balance[u] + (balance[u] + a)
  BY <1>1, UsersAssumption, TotalUpdate
<1>3. Total(balance) \in Nat
  BY Columns
<1> QED
  BY <1>1, <1>2, <1>3 DEF Credit

\* Unlocking lowers the sum of the locked balances by the amount.
LEMMA UnlockTotal ==
  ASSUME IInv, NEW u \in Users, NEW a \in Nat, Unlock(u, a)
  PROVE  Total(locked') = Total(locked) - a
<1>1. locked \in [Users -> Nat] /\ locked[u] \in Nat /\ locked[u] - a \in Nat
  BY DEF IInv, TypeOK, AccountsTypeOK, Unlock
<1>2. Total([locked EXCEPT ![u] = locked[u] - a]) = Total(locked) - locked[u] + (locked[u] - a)
  BY <1>1, UsersAssumption, TotalUpdate
<1>3. Total(locked) \in Nat
  BY Columns
<1> QED
  BY <1>1, <1>2, <1>3 DEF Unlock

\* A ticket that is issued has an owner, an amount and a fee that fits in it.
LEMMA IssuedTicket ==
  ASSUME IInv, NEW t \in Tickets, tickets[t].status # "none"
  PROVE  /\ tickets[t].discord_id \in Users
         /\ tickets[t].amount \in Nat /\ tickets[t].fee \in Nat
         /\ tickets[t].fee <= tickets[t].amount
BY DEF IInv, TypeOK, RowsConsistent, TicketRows

\* The books' gold beyond what confirmed deposits brought in: Conservation says
\* it is zero, and every function leaves it alone whatever it is.  (Module
\* Casino_proofs uses the same fact when bets have moved gold out of these books.)
Surplus == Total(balance) + Total(locked) + treasury + swept + Delivered - Deposited

\* A step that neither confirms a ticket nor moves gold conserves it.
LEMMA QuietStep ==
  ASSUME DepositColumn' = DepositColumn, DeliveredColumn' = DeliveredColumn,
         balance' = balance, locked' = locked, treasury' = treasury, swept' = swept
  PROVE  Surplus' = Surplus
BY DEF Surplus, Deposited, Delivered

\* A payment out of the treasury moves gold, and changes no ticket.
LEMMA PaymentStep ==
  ASSUME IInv, NEW u \in Users, NEW a \in Nat, PayFromTreasury(a, u),
         tickets' = tickets, swept' = swept
  PROVE  Surplus' = Surplus
<1>1. Total(balance') = Total(balance) + a
  BY CreditTotal DEF PayFromTreasury
<1>2. DepositColumn' = DepositColumn /\ DeliveredColumn' = DeliveredColumn
  BY DEF DepositColumn, DeliveredColumn, ConfirmedAmount
<1>3. treasury' = treasury - a /\ locked' = locked
  BY DEF PayFromTreasury, Spend
<1> QED
  BY <1>1, <1>2, <1>3, Columns DEF Surplus, Deposited, Delivered

\* No function changes the difference: gold in the books against gold brought in.
LEMMA SurplusStep == IInv /\ [Next]_vars => Surplus' = Surplus
<1> SUFFICES ASSUME IInv, [Next]_vars PROVE Surplus' = Surplus
  OBVIOUS
<1>f. IsFiniteSet(Users) /\ IsFiniteSet(Deposits) /\ IsFiniteSet(Withdraws)
  BY UsersAssumption, DwAssumption
<1>0. /\ Total(balance) \in Nat /\ Total(locked) \in Nat /\ Total(DepositColumn) \in Nat
      /\ Total(DeliveredColumn) \in Nat /\ treasury \in Nat /\ swept \in Nat
  BY Columns DEF Deposited, Delivered
<1>1. ASSUME NEW t \in Deposits, NEW a \in Amounts, NEW r \in Regions,
             CreateDepositTicket(t, a, r)
      PROVE  Surplus' = Surplus
  <2>1. DepositColumn' = DepositColumn /\ DeliveredColumn' = DeliveredColumn
    BY <1>1, DwAssumption DEF CreateDepositTicket, NewTicket, DepositColumn, DeliveredColumn,
                ConfirmedAmount, IInv, TypeOK, Tickets
  <2> QED
    BY <1>1, <2>1, QuietStep DEF CreateDepositTicket, accounts
<1>2. ASSUME NEW t \in Deposits, NEW c \in Cashiers, ConfirmDeposit(t, c)
      PROVE  Surplus' = Surplus
  <2> DEFINE a == tickets[t].amount
  <2>1. tickets[t].discord_id \in Users /\ a \in Nat
    BY <1>2, IssuedTicket DEF ConfirmDeposit, HeldBy, Tickets
  <2>2. Total(balance') = Total(balance) + a
    BY <1>2, <2>1, CreditTotal DEF ConfirmDeposit
  <2>3. DepositColumn[t] = 0 /\ DepositColumn' = [DepositColumn EXCEPT ![t] = a]
    BY <1>2 DEF ConfirmDeposit, HeldBy, SetStatus, DepositColumn, ConfirmedAmount, IInv, TypeOK,
                TicketRows, Tickets
  <2>4. Total(DepositColumn') = Total(DepositColumn) + a
    <3> HIDE DEF a
    <3>1. DepositColumn \in [Deposits -> Nat]
      BY Columns
    <3>2. Total([DepositColumn EXCEPT ![t] = a]) = Total(DepositColumn) - DepositColumn[t] + a
      BY <1>f, <2>1, <3>1, TotalUpdate
    <3> QED
      BY <3>2, <2>1, <2>3, <1>0
  <2>5. DeliveredColumn' = DeliveredColumn
    BY <1>2 DEF ConfirmDeposit, SetStatus, DeliveredColumn, IInv, TypeOK, TicketRows, Tickets
  <2> HIDE DEF a
  <2> QED
    BY <1>0, <1>2, <2>1, <2>2, <2>4, <2>5 DEF ConfirmDeposit, Surplus, Deposited, Delivered
<1>3. ASSUME NEW t \in Deposits, CancelDeposit(t)
      PROVE  Surplus' = Surplus
  <2>1. DepositColumn' = DepositColumn /\ DeliveredColumn' = DeliveredColumn
    BY <1>3 DEF CancelDeposit, IsLive, SetStatus, DepositColumn, DeliveredColumn, ConfirmedAmount,
                IInv, TypeOK, TicketRows, Tickets
  <2> QED
    BY <1>3, <2>1, QuietStep DEF CancelDeposit, accounts
<1>4. ASSUME NEW t \in Withdraws, NEW u \in Users, NEW a \in Amounts, NEW r \in Regions,
             CreateWithdrawTicket(t, u, a, r)
      PROVE  Surplus' = Surplus
  <2>1. /\ balance[u] \in Nat /\ a \in Nat /\ balance[u] - a \in Nat
        /\ locked[u] \in Nat /\ locked[u] + a \in Nat
    BY <1>4, DwAssumption DEF IInv, TypeOK, AccountsTypeOK, CreateWithdrawTicket
  <2>2. balance \in [Users -> Nat] /\ locked \in [Users -> Nat]
    BY DEF IInv, TypeOK, AccountsTypeOK
  <2>3. Total([balance EXCEPT ![u] = balance[u] - a])
          = Total(balance) - balance[u] + (balance[u] - a)
    BY <1>f, <2>1, <2>2, TotalUpdate
  <2>4. Total([locked EXCEPT ![u] = locked[u] + a]) = Total(locked) - locked[u] + (locked[u] + a)
    BY <1>f, <2>1, <2>2, TotalUpdate
  <2>5. DepositColumn' = DepositColumn /\ DeliveredColumn' = DeliveredColumn
    BY <1>4, DwAssumption DEF CreateWithdrawTicket, NewTicket, NoTicket, DepositColumn,
                DeliveredColumn, ConfirmedAmount, IInv, TypeOK, RowsConsistent, TicketRows, Tickets
  <2> QED
    BY <1>0, <1>4, <2>1, <2>3, <2>4, <2>5
       DEF CreateWithdrawTicket, Surplus, Deposited, Delivered
<1>5. ASSUME NEW t \in Withdraws, NEW c \in Cashiers, ConfirmWithdraw(t, c)
      PROVE  Surplus' = Surplus
  <2> DEFINE a == tickets[t].amount
             f == tickets[t].fee
  <2>1. tickets[t].discord_id \in Users /\ a \in Nat /\ f \in Nat /\ f <= a
    BY <1>5, IssuedTicket DEF ConfirmWithdraw, HeldBy, Tickets
  <2>2. Total(locked') = Total(locked) - a
    BY <1>5, <2>1, UnlockTotal DEF ConfirmWithdraw
  <2>3. DeliveredColumn[t] = 0 /\ DeliveredColumn' = [DeliveredColumn EXCEPT ![t] = a - f]
    BY <1>5 DEF ConfirmWithdraw, HeldBy, HandedOver, DeliveredNet, DeliveredColumn, IInv, TypeOK,
                RowsConsistent, TicketRows, Tickets
  <2>4. Total(DeliveredColumn') = Total(DeliveredColumn) + (a - f)
    <3>1. a - f \in Nat
      BY <2>1
    <3> HIDE DEF a, f
    <3>2. DeliveredColumn \in [Withdraws -> Nat]
      BY Columns
    <3>3. Total([DeliveredColumn EXCEPT ![t] = a - f])
            = Total(DeliveredColumn) - DeliveredColumn[t] + (a - f)
      BY <1>f, <3>1, <3>2, TotalUpdate
    <3> QED
      BY <3>3, <2>1, <2>3, <1>0
  <2>5. DepositColumn' = DepositColumn
    BY <1>5, DwAssumption DEF ConfirmWithdraw, HandedOver, DepositColumn, ConfirmedAmount, IInv,
                TypeOK, TicketRows, Tickets
  <2>6. treasury' = treasury + f /\ balance' = balance /\ swept' = swept
    BY <1>5 DEF ConfirmWithdraw, FeeDue
  <2> HIDE DEF a, f
  <2> QED
    BY <1>0, <2>1, <2>2, <2>4, <2>5, <2>6 DEF Surplus, Deposited, Delivered
<1>6. ASSUME NEW t \in Withdraws, NEW byOwner \in BOOLEAN, CancelWithdraw(t, byOwner)
      PROVE  Surplus' = Surplus
  <2> DEFINE a == tickets[t].amount
  <2>1. tickets[t].discord_id \in Users /\ a \in Nat
    BY <1>6, IssuedTicket DEF CancelWithdraw, IsLive, Tickets
  <2>2. Total(locked') = Total(locked) - a
    BY <1>6, <2>1, UnlockTotal DEF CancelWithdraw
  <2>3. Total(balance') = Total(balance) + a
    BY <1>6, <2>1, CreditTotal DEF CancelWithdraw, Refund
  <2>4. DepositColumn' = DepositColumn /\ DeliveredColumn' = DeliveredColumn
    BY <1>6, DwAssumption DEF CancelWithdraw, IsLive, SetStatus, DepositColumn, DeliveredColumn,
                ConfirmedAmount, IInv, TypeOK, TicketRows, Tickets
  <2>5. treasury' = treasury /\ swept' = swept
    BY <1>6 DEF CancelWithdraw
  <2> HIDE DEF a
  <2> QED
    BY <1>0, <2>1, <2>2, <2>3, <2>4, <2>5 DEF Surplus, Deposited, Delivered
<1>7. ASSUME NEW t \in Tickets, NEW c \in Cashiers, ClaimTicket(t, c) \/ ReleaseTicket(t, c)
      PROVE  Surplus' = Surplus
  <2>1. DepositColumn' = DepositColumn /\ DeliveredColumn' = DeliveredColumn
    BY <1>7 DEF ClaimTicket, ReleaseTicket, HeldBy, Reopen, DepositColumn, DeliveredColumn,
                ConfirmedAmount, IInv, TypeOK, TicketRows, Tickets
  <2> QED
    BY <1>7, <2>1, QuietStep DEF ClaimTicket, ReleaseTicket, accounts
<1>8. ASSUME NEW a \in Amounts, TreasurySweep(a)
      PROVE  Surplus' = Surplus
  <2>1. DepositColumn' = DepositColumn /\ DeliveredColumn' = DeliveredColumn
    BY <1>8 DEF TreasurySweep, DepositColumn, DeliveredColumn, ConfirmedAmount
  <2> QED
    BY <1>0, <1>8, <2>1, DwAssumption DEF TreasurySweep, Spend, Surplus, Deposited, Delivered
<1>9. ASSUME NEW a \in Amounts, NEW u \in Users, TreasuryWithdrawToUser(a, u)
      PROVE  Surplus' = Surplus
  BY <1>9, DwAssumption, PaymentStep DEF TreasuryWithdrawToUser, dwVars
<1>10. ASSUME NEW t \in Tickets, NEW action \in Resolutions, NEW a \in Amounts,
              ResolveDispute(t, action, a)
       PROVE  Surplus' = Surplus
  <2>1. tickets[t].discord_id \in Users /\ tickets[t].amount \in Nat /\ a \in Nat
    BY <1>10, IssuedTicket, DwAssumption DEF ResolveDispute, IInv, RowsConsistent
  <2>2. tickets' = tickets /\ swept' = swept
    BY <1>10 DEF ResolveDispute
  <2>3. CASE PayFromTreasury(a, tickets[t].discord_id)
    BY <2>1, <2>2, <2>3, PaymentStep
  <2>4. CASE PayFromTreasury(tickets[t].amount, tickets[t].discord_id)
    BY <2>1, <2>2, <2>4, PaymentStep
  <2>5. CASE UNCHANGED accounts
    BY <2>2, <2>5, QuietStep DEF accounts, DepositColumn, DeliveredColumn, ConfirmedAmount
  <2> QED
    BY <1>10, <2>3, <2>4, <2>5 DEF ResolveDispute
<1>11. ASSUME tickets' = tickets, balance' = balance, locked' = locked, treasury' = treasury,
              swept' = swept
       PROVE  Surplus' = Surplus
  BY <1>11, QuietStep DEF DepositColumn, DeliveredColumn, ConfirmedAmount
<1>12. ASSUME \/ \E t \in Deposits : AbortDeposit(t) \/ \E u \in Users : BeginDeposit(t, u)
              \/ \E c \in Cashiers, ch \in Characters, r \in Regions :
                   AddCashierCharacter(c, ch, r) \/ RemoveCashierCharacter(c, ch, r)
              \/ \E t \in Tickets : OpenDispute(t) \/ RejectDispute(t)
              \/ \E u \in Users : BanUser(u) \/ UnbanUser(u)
              \/ \E v \in FeeRates : SetConfig("withdraw_fee_bps", v)
              \/ \E k \in ConfigKeys \ {"withdraw_fee_bps"}, v \in Limits : SetConfig(k, v)
              \/ UNCHANGED vars
       PROVE  Surplus' = Surplus
  BY <1>11, <1>12 DEF BeginDeposit, AbortDeposit, AddCashierCharacter, RemoveCashierCharacter,
                      OpenDispute, RejectDispute, BanUser, UnbanUser, SetConfig, accounts, dwVars, vars
<1> QED
  BY <1>1, <1>2, <1>3, <1>4, <1>5, <1>6, <1>7, <1>8, <1>9, <1>10, <1>12 DEF Next

\* Gold is conserved in every reachable state, for any number of players,
\* tickets and cashiers: what confirmed deposits brought in is in balances,
\* locked, in the treasury, swept or handed out.
THEOREM GoldConserved == Spec => []Conservation
<1>1. Init => IInv /\ Conservation
  <2> SUFFICES ASSUME Init PROVE IInv /\ Conservation
    OBVIOUS
  <2>1. IInv
    BY RowsCorrectInit
  <2>2. /\ \A u \in Users : balance[u] = 0 /\ locked[u] = 0
        /\ \A t \in Deposits : DepositColumn[t] = 0
        /\ \A t \in Withdraws : DeliveredColumn[t] = 0
    BY DEF Init, AccountsInit, DepositColumn, DeliveredColumn, ConfirmedAmount, NoTicket,
           NewTicket, Tickets
  <2>3. balance \in [Users -> Nat] /\ locked \in [Users -> Nat]
    BY <2>1 DEF IInv, TypeOK, AccountsTypeOK
  <2>4. Total(balance) = 0 /\ Total(locked) = 0
    BY <2>2, <2>3, TotalZero
  <2>5. Deposited = 0 /\ Delivered = 0
    BY <2>1, <2>2, Columns, TotalZero DEF Deposited, Delivered
  <2> QED
    BY <2>1, <2>4, <2>5 DEF Conservation, Init, AccountsInit
<1>2. IInv /\ Conservation /\ [Next]_vars => (IInv /\ Conservation)'
  <2> SUFFICES ASSUME IInv, Conservation, [Next]_vars PROVE IInv' /\ Conservation'
    OBVIOUS
  <2>1. IInv' /\ Surplus' = Surplus
    BY IInvStep, SurplusStep
  <2>2. Surplus = 0
    BY Columns DEF Conservation, Surplus
  <2>3. /\ Total(balance)' \in Nat /\ Total(locked)' \in Nat /\ Deposited' \in Nat
        /\ Delivered' \in Nat /\ treasury' \in Nat /\ swept' \in Nat
    BY <2>1, ColumnsNext
  <2> QED
    BY <2>1, <2>2, <2>3 DEF Conservation, Surplus
<1> QED
  BY <1>1, <1>2, PTL DEF Spec

-----------------------------------------------------------------------------
(* The locked balances.                                                    *)

\* A player's locked gold beyond the unfinished withdraws: LockedBacksWithdraws
\* says it is zero; every function of the ledger leaves it alone.
Unbacked(u) == locked[u] - Total(LockedFor(u))
UnbackedKept == \A u \in Users : Unbacked(u)' = Unbacked(u)

\* What the unfinished withdraws of a player will take is an amount of gold.
LEMMA LockedTyped ==
  ASSUME IInv, NEW u \in Users
  PROVE  LockedFor(u) \in [Withdraws -> Nat] /\ Total(LockedFor(u)) \in Nat /\ locked[u] \in Nat
<1>1. LockedFor(u) \in [Withdraws -> Nat] /\ locked[u] \in Nat
  BY DEF IInv, TypeOK, AccountsTypeOK, TicketRows, Tickets, LockedFor
<1> QED
  BY <1>1, DwAssumption, TotalType

\* The same of the next state.
LEMMA LockedTypedNext ==
  IInv' => \A u \in Users : Total(LockedFor(u)') \in Nat /\ locked'[u] \in Nat
<1> DEFINE Typed == \A u \in Users : Total(LockedFor(u)) \in Nat /\ locked[u] \in Nat
<1>1. IInv => Typed
  BY LockedTyped
<1>2. IInv' => Typed'
  BY <1>1, PTL
<1> QED
  BY <1>2

\* A step that changes neither the locked balances nor what the unfinished
\* withdraws will take preserves the agreement between the two.
LEMMA LockedQuiet ==
  ASSUME locked' = locked,
         \A u \in Users : LockedFor(u)' = LockedFor(u)
  PROVE  UnbackedKept
BY DEF UnbackedKept, Unbacked

\* The sum of a column of the withdraw tickets follows a change of one row.
LEMMA WithdrawTotal ==
  \A f \in [Withdraws -> Nat] : \A t \in Withdraws, a \in Nat :
    Total([f EXCEPT ![t] = a]) = Total(f) - f[t] + a
BY DwAssumption, TotalUpdate

\* A step that changes what one ticket will take, and the owner's locked
\* balance by the difference, preserves the agreement.
LEMMA LockedMoves ==
  ASSUME IInv, NEW t \in Withdraws, NEW u \in Users, NEW a \in Nat,
         locked' = [locked EXCEPT ![u] = locked[u] - LockedFor(u)[t] + a],
         LockedFor(u)' = [LockedFor(u) EXCEPT ![t] = a],
         \A v \in Users \ {u} : LockedFor(v)' = LockedFor(v)
  PROVE  UnbackedKept
<1>1. LockedFor(u) \in [Withdraws -> Nat]
  BY LockedTyped
<1>2. Total([LockedFor(u) EXCEPT ![t] = a]) = Total(LockedFor(u)) - LockedFor(u)[t] + a
  BY <1>1, WithdrawTotal
<1>t. Total(LockedFor(u)) \in Nat /\ LockedFor(u)[t] \in Nat
  BY <1>1, LockedTyped
<1>3. locked \in [Users -> Nat]
  BY DEF IInv, TypeOK, AccountsTypeOK
<1>4. Unbacked(u)' = Unbacked(u)
  BY <1>2, <1>3, <1>t DEF Unbacked
<1>5. ASSUME NEW v \in Users \ {u} PROVE Unbacked(v)' = Unbacked(v)
  BY <1>3, <1>5 DEF Unbacked
<1> QED
  BY <1>4, <1>5 DEF UnbackedKept

\* Every function keeps the locked balances equal to the unfinished withdraws.
LEMMA UnbackedStep == IInv /\ [Next]_vars => UnbackedKept
<1> SUFFICES ASSUME IInv, [Next]_vars PROVE UnbackedKept
  OBVIOUS
<1> USE DEF IInv, TypeOK, AccountsTypeOK, TicketRows, Tickets
<1>1. ASSUME NEW t \in Withdraws, NEW u \in Users, NEW a \in Amounts, NEW r \in Regions,
             CreateWithdrawTicket(t, u, a, r)
      PROVE  UnbackedKept
  <2>1. LockedFor(u)[t] = 0 /\ LockedFor(u)' = [LockedFor(u) EXCEPT ![t] = a]
    BY <1>1 DEF CreateWithdrawTicket, NewTicket, LockedFor, IsLive
  <2>2. \A v \in Users \ {u} : LockedFor(v)' = LockedFor(v)
    BY <1>1 DEF CreateWithdrawTicket, NewTicket, LockedFor, IsLive
  <2>3. a \in Nat /\ locked[u] \in Nat /\ locked' = [locked EXCEPT ![u] = locked[u] + a]
    BY <1>1, DwAssumption DEF CreateWithdrawTicket
  <2>4. locked[u] - LockedFor(u)[t] + a = locked[u] + a
    BY <2>1, <2>3
  <2> QED
    BY <2>1, <2>2, <2>3, <2>4, LockedMoves
<1>2. ASSUME NEW t \in Withdraws, IsLive(t),
             Unlock(tickets[t].discord_id, tickets[t].amount),
             ~ IsLive(t)', tickets'[t].amount = tickets[t].amount,
             \A s \in Withdraws \ {t} : tickets'[s] = tickets[s]
      PROVE  UnbackedKept
  <2>1. PICK u \in Users : u = tickets[t].discord_id
    BY <1>2, IssuedTicket DEF IsLive
  <2>2. LockedFor(u)[t] = tickets[t].amount /\ LockedFor(u)' = [LockedFor(u) EXCEPT ![t] = 0]
    BY <1>2, <2>1 DEF LockedFor, IsLive
  <2>3. \A v \in Users \ {u} : LockedFor(v)' = LockedFor(v)
    BY <1>2, <2>1 DEF LockedFor, IsLive
  <2>4. locked[u] - LockedFor(u)[t] + 0 = locked[u] - tickets[t].amount
    BY <2>2
  <2>5. locked' = [locked EXCEPT ![u] = locked[u] - LockedFor(u)[t] + 0]
    BY <1>2, <2>1, <2>4 DEF Unlock
  <2> QED
    BY <2>2, <2>3, <2>5, LockedMoves
<1>3. ASSUME NEW t \in Withdraws, NEW c \in Cashiers, ConfirmWithdraw(t, c)
      PROVE  UnbackedKept
  BY <1>2, <1>3 DEF ConfirmWithdraw, HeldBy, HandedOver, IsLive
<1>4. ASSUME NEW t \in Withdraws, NEW byOwner \in BOOLEAN, CancelWithdraw(t, byOwner)
      PROVE  UnbackedKept
  BY <1>2, <1>4 DEF CancelWithdraw, SetStatus, IsLive
<1>5. ASSUME NEW t \in Tickets, NEW c \in Cashiers, ClaimTicket(t, c) \/ ReleaseTicket(t, c)
      PROVE  UnbackedKept
  <2>1. \A v \in Users : LockedFor(v)' = LockedFor(v)
    BY <1>5 DEF ClaimTicket, ReleaseTicket, HeldBy, Reopen, LockedFor, IsLive
  <2> QED
    BY <1>5, <2>1, LockedQuiet DEF ClaimTicket, ReleaseTicket, accounts
<1>6. ASSUME locked' = locked, \A t \in Withdraws : tickets'[t] = tickets[t]
      PROVE  UnbackedKept
  <2>1. \A v \in Users : LockedFor(v)' = LockedFor(v)
    BY <1>6 DEF LockedFor, IsLive
  <2> QED
    BY <1>6, <2>1, LockedQuiet
<1>7. ASSUME NEW t \in Deposits,
             \/ AbortDeposit(t) \/ \E u \in Users : BeginDeposit(t, u)
             \/ \E a \in Amounts, r \in Regions : CreateDepositTicket(t, a, r)
             \/ \E c \in Cashiers : ConfirmDeposit(t, c)
             \/ CancelDeposit(t)
      PROVE  UnbackedKept
  BY <1>6, <1>7, DwAssumption DEF BeginDeposit, AbortDeposit, CreateDepositTicket, ConfirmDeposit,
                                  CancelDeposit, SetStatus, accounts
<1>8. ASSUME \/ \E c \in Cashiers, ch \in Characters, r \in Regions :
                  AddCashierCharacter(c, ch, r) \/ RemoveCashierCharacter(c, ch, r)
             \/ \E a \in Amounts : TreasurySweep(a)
             \/ \E a \in Amounts, u \in Users : TreasuryWithdrawToUser(a, u)
             \/ \E t \in Tickets : OpenDispute(t) \/ RejectDispute(t)
             \/ \E t \in Tickets, action \in Resolutions, a \in Amounts :
                  ResolveDispute(t, action, a)
             \/ \E u \in Users : BanUser(u) \/ UnbanUser(u)
             \/ \E v \in FeeRates : SetConfig("withdraw_fee_bps", v)
             \/ \E k \in ConfigKeys \ {"withdraw_fee_bps"}, v \in Limits : SetConfig(k, v)
             \/ UNCHANGED vars
      PROVE  UnbackedKept
  <2>1. locked' = locked /\ tickets' = tickets
    BY <1>8 DEF AddCashierCharacter, RemoveCashierCharacter, TreasurySweep,
                TreasuryWithdrawToUser, PayFromTreasury, OpenDispute, RejectDispute,
                ResolveDispute, BanUser, UnbanUser, SetConfig, accounts, dwVars, vars
  <2> QED
    BY <2>1, <1>6
<1> QED
  BY <1>1, <1>3, <1>4, <1>5, <1>7, <1>8 DEF Next

\* In every reachable state a player's locked balance is exactly what the
\* player's unfinished withdraws will take: no confirm or cancel can find too
\* little locked, and no locked gold is stranded.
THEOREM LockedGoldBacked == Spec => []LockedBacksWithdraws
<1>1. Init => IInv
  BY RowsCorrectInit
<1>2. Init => LockedBacksWithdraws
  <2> SUFFICES ASSUME Init, NEW u \in Users PROVE locked[u] = Total(LockedFor(u))
    BY DEF LockedBacksWithdraws
  <2>1. LockedFor(u) \in [Withdraws -> Nat] /\ \A t \in Withdraws : LockedFor(u)[t] = 0
    BY DEF Init, LockedFor, IsLive, NoTicket, NewTicket, Tickets
  <2>2. Total(LockedFor(u)) = 0
    BY <2>1, TotalZero
  <2> QED
    BY <2>2 DEF Init, AccountsInit
<1>3. IInv /\ LockedBacksWithdraws /\ [Next]_vars => (IInv /\ LockedBacksWithdraws)'
  <2> SUFFICES ASSUME IInv, LockedBacksWithdraws, [Next]_vars PROVE IInv' /\ LockedBacksWithdraws'
    OBVIOUS
  <2>1. IInv' /\ UnbackedKept
    BY IInvStep, UnbackedStep
  <2>2. ASSUME NEW u \in Users PROVE locked'[u] = Total(LockedFor(u))'
    <3>1. Unbacked(u) = 0 /\ Unbacked(u)' = 0
      BY <2>1, LockedTyped DEF UnbackedKept, LockedBacksWithdraws, Unbacked
    <3> QED
      BY <2>1, <3>1, LockedTypedNext DEF Unbacked
  <2> QED
    BY <2>1, <2>2 DEF LockedBacksWithdraws
<1> QED
  BY <1>1, <1>2, <1>3, PTL DEF Spec

-----------------------------------------------------------------------------
(* The cashiers' statistics.                                               *)

CancelledOn(c) == {t \in Withdraws : tickets[t].status = "cancelled" /\ tickets[t].claimed_by = c}

\* One cashier's share of StatsMatchTickets.
StatsMatch(c) ==
  /\ stats[c].deposits_completed = Cardinality(CompletedBy(c, Deposits))
  /\ stats[c].withdraws_completed = Cardinality(CompletedBy(c, Withdraws))
  /\ stats[c].total_volume_g = Total(VolumeOf(c))
  /\ stats[c].withdraws_cancelled <= Cardinality(CancelledOn(c))

\* The sets and the column that the statistics summarise are finite and typed.
LEMMA StatsColumns ==
  ASSUME IInv, NEW c \in Cashiers
  PROVE  /\ IsFiniteSet(CompletedBy(c, Deposits)) /\ IsFiniteSet(CompletedBy(c, Withdraws))
         /\ IsFiniteSet(CancelledOn(c)) /\ IsFiniteSet(Tickets)
         /\ VolumeOf(c) \in [Tickets -> Nat]
         /\ Total(VolumeOf(c)) \in Nat
<1>1. /\ IsFiniteSet(CompletedBy(c, Deposits)) /\ IsFiniteSet(CompletedBy(c, Withdraws))
      /\ IsFiniteSet(CancelledOn(c))
  BY DwAssumption, FS_Subset DEF CompletedBy, CancelledOn
<1>2. IsFiniteSet(Tickets)
  BY DwAssumption, FS_Union DEF Tickets
<1>3. VolumeOf(c) \in [Tickets -> Nat]
  BY DEF IInv, TypeOK, TicketRows, VolumeOf, ConfirmedAmount
<1> QED
  BY <1>1, <1>2, <1>3, TotalType

\* A step that counts nothing for a cashier, and finishes none of the tickets
\* the cashier holds, keeps the cashier's statistics right.
LEMMA StatsQuiet ==
  ASSUME IInv, NEW c \in Cashiers, StatsMatch(c), stats'[c] = stats[c],
         \A t \in Tickets :
           \/ tickets'[t] = tickets[t]
           \/ /\ tickets[t].status \notin {"confirmed", "cancelled"}
              /\ tickets'[t].status \notin {"confirmed", "cancelled"}
           \/ /\ tickets[t].status \notin {"confirmed", "cancelled"}
              /\ tickets'[t].claimed_by # c
  PROVE  StatsMatch(c)'
<1>1. CompletedBy(c, Deposits)' = CompletedBy(c, Deposits)
  BY DEF CompletedBy, Tickets
<1>2. CompletedBy(c, Withdraws)' = CompletedBy(c, Withdraws)
  BY DEF CompletedBy, Tickets
<1>3. CancelledOn(c)' = CancelledOn(c)
  BY DEF CancelledOn, Tickets
<1>4. VolumeOf(c)' = VolumeOf(c)
  BY DEF VolumeOf, ConfirmedAmount
<1> QED
  BY <1>1, <1>2, <1>3, <1>4 DEF StatsMatch

\* Adding one element to a finite set adds one to its cardinality.
LEMMA OneMore ==
  ASSUME NEW S, IsFiniteSet(S), NEW x, x \notin S
  PROVE  Cardinality(S \cup {x}) = Cardinality(S) + 1 /\ Cardinality(S) \in Nat
BY FS_AddElement, FS_CardinalityType

\* The sum of a column of all the tickets follows a change of one row.
LEMMA TicketTotal ==
  \A f \in [Tickets -> Nat] : \A t \in Tickets, a \in Nat :
    Total([f EXCEPT ![t] = a]) = Total(f) - f[t] + a
<1>1. IsFiniteSet(Tickets)
  BY DwAssumption, FS_Union DEF Tickets
<1> QED
  BY <1>1, TotalUpdate

\* The volume of a cashier grows by the amount of the ticket that is confirmed.
LEMMA VolumeGrows ==
  ASSUME IInv, NEW t \in Tickets, NEW c \in Cashiers, HeldBy(t, c), NEW a \in Nat,
         VolumeOf(c)' = [VolumeOf(c) EXCEPT ![t] = a]
  PROVE  Total(VolumeOf(c)') = Total(VolumeOf(c)) + a
<1>1. /\ VolumeOf(c) \in [Tickets -> Nat] /\ IsFiniteSet(Tickets)
      /\ Total(VolumeOf(c)) \in Nat
  BY StatsColumns
<1>2. VolumeOf(c)[t] = 0
  BY DEF VolumeOf, ConfirmedAmount, HeldBy
<1>3. Total([VolumeOf(c) EXCEPT ![t] = a]) = Total(VolumeOf(c)) - VolumeOf(c)[t] + a
  BY <1>1, TicketTotal
<1> QED
  BY <1>1, <1>2, <1>3

\* Every function keeps every cashier's statistics right.
LEMMA StatsStep ==
  IInv /\ StatsMatchTickets /\ [Next]_vars => StatsMatchTickets'
<1> SUFFICES ASSUME IInv, StatsMatchTickets, [Next]_vars, NEW c \in Cashiers PROVE StatsMatch(c)'
  BY DEF StatsMatchTickets, StatsMatch, CancelledOn
<1> DEFINE Kept == StatsMatch(c)'
<1>0. /\ StatsMatch(c)
      /\ tickets \in [Tickets -> TicketRows] /\ stats \in [Cashiers -> StatsRows]
  BY DEF StatsMatchTickets, StatsMatch, CancelledOn, IInv, TypeOK
<1>1. ASSUME NEW t \in Deposits, NEW d \in Cashiers, ConfirmDeposit(t, d)
      PROVE  Kept
  <2>0. t \in Tickets /\ t \notin Withdraws
    BY DwAssumption DEF Tickets
  <2>1. \A s \in Tickets \ {t} : tickets'[s] = tickets[s]
    BY <1>0, <1>1 DEF ConfirmDeposit, SetStatus
  <2>2. /\ tickets[t].status = "claimed" /\ tickets[t].claimed_by = d
        /\ tickets'[t].status = "confirmed" /\ tickets'[t].claimed_by = d
        /\ tickets'[t].amount = tickets[t].amount
    BY <1>0, <1>1, <2>0 DEF ConfirmDeposit, HeldBy, SetStatus, TicketRows
  <2>3. CASE d # c
    <3>1. stats'[c] = stats[c]
      BY <1>0, <1>1, <2>3 DEF ConfirmDeposit
    <3> QED
      BY <1>0, <2>1, <2>2, <2>3, <3>1, StatsQuiet
  <2>4. CASE d = c
    <3> DEFINE a == tickets[t].amount
    <3>1. a \in Nat
      BY <1>0, <2>0 DEF TicketRows
    <3>2. /\ stats'[c].deposits_completed = stats[c].deposits_completed + 1
          /\ stats'[c].withdraws_completed = stats[c].withdraws_completed
          /\ stats'[c].withdraws_cancelled = stats[c].withdraws_cancelled
          /\ stats'[c].total_volume_g = stats[c].total_volume_g + a
      BY <1>0, <1>1, <2>4 DEF ConfirmDeposit, CountDeposit, StatsRows
    <3>3. /\ CompletedBy(c, Deposits)' = CompletedBy(c, Deposits) \cup {t}
          /\ t \notin CompletedBy(c, Deposits)
      BY <2>1, <2>2, <2>4 DEF CompletedBy, Tickets
    <3>4. CompletedBy(c, Withdraws)' = CompletedBy(c, Withdraws) /\ CancelledOn(c)' = CancelledOn(c)
      BY <2>0, <2>1 DEF CompletedBy, CancelledOn, Tickets
    <3>5. VolumeOf(c)' = [VolumeOf(c) EXCEPT ![t] = a]
      BY <2>0, <2>1, <2>2, <2>4 DEF VolumeOf, ConfirmedAmount
    <3>6. Total(VolumeOf(c)') = Total(VolumeOf(c)) + a
      BY <1>1, <2>0, <2>4, <3>1, <3>5, VolumeGrows DEF ConfirmDeposit
    <3>7. Cardinality(CompletedBy(c, Deposits)') = Cardinality(CompletedBy(c, Deposits)) + 1
      BY <3>3, OneMore, StatsColumns
    <3> HIDE DEF a
    <3> QED
      BY <1>0, <3>2, <3>4, <3>6, <3>7 DEF StatsMatch
  <2> QED
    BY <2>3, <2>4
<1>2. ASSUME NEW t \in Withdraws, NEW d \in Cashiers, ConfirmWithdraw(t, d)
      PROVE  Kept
  <2>0. t \in Tickets /\ t \notin Deposits
    BY DwAssumption DEF Tickets
  <2>1. \A s \in Tickets \ {t} : tickets'[s] = tickets[s]
    BY <1>0, <1>2 DEF ConfirmWithdraw
  <2>2. /\ tickets[t].status = "claimed" /\ tickets[t].claimed_by = d
        /\ tickets'[t].status = "confirmed" /\ tickets'[t].claimed_by = d
        /\ tickets'[t].amount = tickets[t].amount
    BY <1>0, <1>2, <2>0 DEF ConfirmWithdraw, HeldBy, HandedOver, TicketRows
  <2>3. CASE d # c
    <3>1. stats'[c] = stats[c]
      BY <1>0, <1>2, <2>3 DEF ConfirmWithdraw
    <3> QED
      BY <1>0, <2>1, <2>2, <2>3, <3>1, StatsQuiet
  <2>4. CASE d = c
    <3> DEFINE a == tickets[t].amount
    <3>1. a \in Nat
      BY <1>0, <2>0 DEF TicketRows
    <3>2. /\ stats'[c].deposits_completed = stats[c].deposits_completed
          /\ stats'[c].withdraws_completed = stats[c].withdraws_completed + 1
          /\ stats'[c].withdraws_cancelled = stats[c].withdraws_cancelled
          /\ stats'[c].total_volume_g = stats[c].total_volume_g + a
      BY <1>0, <1>2, <2>4 DEF ConfirmWithdraw, CountWithdraw, StatsRows
    <3>3. /\ CompletedBy(c, Withdraws)' = CompletedBy(c, Withdraws) \cup {t}
          /\ t \notin CompletedBy(c, Withdraws)
      BY <2>1, <2>2, <2>4 DEF CompletedBy, Tickets
    <3>4. CompletedBy(c, Deposits)' = CompletedBy(c, Deposits) /\ CancelledOn(c)' = CancelledOn(c)
      BY <2>0, <2>1, <2>2 DEF CompletedBy, CancelledOn, Tickets
    <3>5. VolumeOf(c)' = [VolumeOf(c) EXCEPT ![t] = a]
      BY <2>0, <2>1, <2>2, <2>4 DEF VolumeOf, ConfirmedAmount
    <3>6. Total(VolumeOf(c)') = Total(VolumeOf(c)) + a
      BY <1>2, <2>0, <2>4, <3>1, <3>5, VolumeGrows DEF ConfirmWithdraw
    <3>7. Cardinality(CompletedBy(c, Withdraws)') = Cardinality(CompletedBy(c, Withdraws)) + 1
      BY <3>3, OneMore, StatsColumns
    <3> HIDE DEF a
    <3> QED
      BY <1>0, <3>2, <3>4, <3>6, <3>7 DEF StatsMatch
  <2> QED
    BY <2>3, <2>4
<1>3. ASSUME NEW t \in Withdraws, NEW byOwner \in BOOLEAN, CancelWithdraw(t, byOwner)
      PROVE  Kept
  <2>0. t \in Tickets /\ t \notin Deposits
    BY DwAssumption DEF Tickets
  <2>1. \A s \in Tickets \ {t} : tickets'[s] = tickets[s]
    BY <1>0, <1>3 DEF CancelWithdraw, SetStatus
  <2>2. /\ tickets[t].status \notin {"confirmed", "cancelled"} /\ tickets'[t].status = "cancelled"
        /\ tickets'[t].claimed_by = tickets[t].claimed_by
    BY <1>0, <1>3, <2>0 DEF CancelWithdraw, IsLive, SetStatus, TicketRows
  <2>3. CASE tickets[t].claimed_by # c
    <3>1. stats'[c] = stats[c]
      BY <1>0, <1>3, <2>3 DEF CancelWithdraw
    <3> QED
      BY <1>0, <2>1, <2>2, <2>3, <3>1, StatsQuiet
  <2>4. CASE tickets[t].claimed_by = c
    <3>1. /\ stats'[c].deposits_completed = stats[c].deposits_completed
          /\ stats'[c].withdraws_completed = stats[c].withdraws_completed
          /\ stats'[c].total_volume_g = stats[c].total_volume_g
          /\ \/ stats'[c].withdraws_cancelled = stats[c].withdraws_cancelled + 1
             \/ stats'[c].withdraws_cancelled = stats[c].withdraws_cancelled
      BY <1>0, <1>3, <2>4 DEF CancelWithdraw, StatsRows
    <3>2. CancelledOn(c)' = CancelledOn(c) \cup {t} /\ t \notin CancelledOn(c)
      BY <2>1, <2>2, <2>4 DEF CancelledOn, Tickets
    <3>3. CompletedBy(c, Deposits)' = CompletedBy(c, Deposits)
      BY <2>0, <2>1 DEF CompletedBy, Tickets
    <3>4. CompletedBy(c, Withdraws)' = CompletedBy(c, Withdraws) /\ VolumeOf(c)' = VolumeOf(c)
      BY <2>1, <2>2 DEF CompletedBy, VolumeOf, ConfirmedAmount, Tickets
    <3>5. /\ Cardinality(CancelledOn(c)') = Cardinality(CancelledOn(c)) + 1
          /\ Cardinality(CancelledOn(c)) \in Nat
      BY <3>2, OneMore, StatsColumns
    <3>6. stats[c].withdraws_cancelled \in Nat
      BY <1>0 DEF StatsRows
    <3> QED
      BY <1>0, <3>1, <3>3, <3>4, <3>5, <3>6 DEF StatsMatch
  <2> QED
    BY <2>3, <2>4
<1>4. ASSUME stats' = stats, NEW t \in Tickets, \A s \in Tickets \ {t} : tickets'[s] = tickets[s],
             tickets[t].status \notin {"confirmed", "cancelled"},
             \/ tickets'[t].status \notin {"confirmed", "cancelled"}
             \/ tickets'[t].status = "cancelled" /\ t \in Deposits
      PROVE  Kept
  <2>1. /\ CompletedBy(c, Deposits)' = CompletedBy(c, Deposits)
        /\ CompletedBy(c, Withdraws)' = CompletedBy(c, Withdraws)
    BY <1>4 DEF CompletedBy, Tickets
  <2>2. CancelledOn(c)' = CancelledOn(c)
    BY <1>4, DwAssumption DEF CancelledOn, Tickets
  <2>3. VolumeOf(c)' = VolumeOf(c)
    BY <1>4 DEF VolumeOf, ConfirmedAmount
  <2> QED
    BY <1>0, <1>4, <2>1, <2>2, <2>3 DEF StatsMatch
<1>5. ASSUME NEW t \in Deposits, NEW a \in Amounts, NEW r \in Regions,
             CreateDepositTicket(t, a, r)
      PROVE  Kept
  BY <1>0, <1>4, <1>5 DEF CreateDepositTicket, NewTicket, Tickets
<1>6. ASSUME NEW t \in Withdraws, NEW u \in Users, NEW a \in Amounts, NEW r \in Regions,
             CreateWithdrawTicket(t, u, a, r)
      PROVE  Kept
  BY <1>0, <1>4, <1>6 DEF CreateWithdrawTicket, NewTicket, Tickets
<1>7. ASSUME NEW t \in Deposits, CancelDeposit(t)
      PROVE  Kept
  BY <1>0, <1>4, <1>7 DEF CancelDeposit, IsLive, SetStatus, TicketRows, Tickets
<1>8. ASSUME NEW t \in Tickets, NEW d \in Cashiers, ClaimTicket(t, d) \/ ReleaseTicket(t, d)
      PROVE  Kept
  <2>1. /\ stats' = stats /\ \A s \in Tickets \ {t} : tickets'[s] = tickets[s]
        /\ tickets[t].status \in {"open", "claimed"} /\ tickets'[t].status \in {"open", "claimed"}
    BY <1>0, <1>8 DEF ClaimTicket, ReleaseTicket, HeldBy, Reopen, TicketRows
  <2> QED
    BY <1>4, <2>1
<1>9. ASSUME tickets' = tickets, stats' = stats
      PROVE  Kept
  BY <1>0, <1>9, StatsQuiet
<1>10. ASSUME \/ \E t \in Deposits : AbortDeposit(t) \/ \E u \in Users : BeginDeposit(t, u)
              \/ \E d \in Cashiers, ch \in Characters, r \in Regions :
                   AddCashierCharacter(d, ch, r) \/ RemoveCashierCharacter(d, ch, r)
              \/ \E a \in Amounts : TreasurySweep(a)
              \/ \E a \in Amounts, u \in Users : TreasuryWithdrawToUser(a, u)
              \/ \E t \in Tickets : OpenDispute(t) \/ RejectDispute(t)
              \/ \E t \in Tickets, action \in Resolutions, a \in Amounts :
                   ResolveDispute(t, action, a)
              \/ \E u \in Users : BanUser(u) \/ UnbanUser(u)
              \/ \E v \in FeeRates : SetConfig("withdraw_fee_bps", v)
              \/ \E k \in ConfigKeys \ {"withdraw_fee_bps"}, v \in Limits : SetConfig(k, v)
              \/ UNCHANGED vars
      PROVE  Kept
  <2>1. tickets' = tickets /\ stats' = stats
    BY <1>10 DEF BeginDeposit, AbortDeposit, AddCashierCharacter, RemoveCashierCharacter, TreasurySweep,
                TreasuryWithdrawToUser, PayFromTreasury, OpenDispute, RejectDispute,
                ResolveDispute, BanUser, UnbanUser, SetConfig, accounts, dwVars, vars
  <2> QED
    BY <2>1, <1>9
<1> HIDE DEF Kept
<1>11. ASSUME Next PROVE Kept
  BY <1>11, <1>1, <1>2, <1>3, <1>5, <1>6, <1>7, <1>8, <1>10 DEF Next
<1>12. Kept
  BY <1>10, <1>11
<1> QED
  BY <1>12 DEF Kept

\* Nothing is counted and nothing finished at the start.
LEMMA StatsStart == Init => StatsMatchTickets
<1> SUFFICES ASSUME Init, NEW c \in Cashiers PROVE StatsMatch(c)
  BY DEF StatsMatchTickets, StatsMatch, CancelledOn
<1>1. \A t \in Tickets : tickets[t].status = "none"
  BY DEF Init, NoTicket, NewTicket
<1>2. /\ CompletedBy(c, Deposits) = {} /\ CompletedBy(c, Withdraws) = {}
      /\ CancelledOn(c) = {}
  BY <1>1 DEF CompletedBy, CancelledOn, Tickets
<1>3. VolumeOf(c) \in [Tickets -> Nat] /\ \A t \in Tickets : VolumeOf(c)[t] = 0
  BY <1>1 DEF VolumeOf, ConfirmedAmount
<1>4. Total(VolumeOf(c)) = 0
  BY <1>3, TotalZero
<1>5. Cardinality({}) = 0
  BY FS_EmptySet
<1> QED
  BY <1>2, <1>4, <1>5 DEF StatsMatch, Init

\* In every reachable state each cashier's statistics are the tickets the cashier
\* completed: no retried confirmation is counted twice, no cashier is charged for
\* the cancellation of a ticket somebody else held.
THEOREM StatsAccurate == Spec => []StatsMatchTickets
<1>1. Init => IInv
  BY RowsCorrectInit
<1>2. IInv /\ StatsMatchTickets /\ [Next]_vars => (IInv /\ StatsMatchTickets)'
  BY IInvStep, StatsStep
<1> QED
  BY <1>1, <1>2, StatsStart, PTL DEF Spec

-----------------------------------------------------------------------------
(* What a step may do to tickets and balances.                             *)

\* Every guard is on the status of the row that the function writes.
LEMMA FrozenStep ==
  TypeOK /\ [Next]_vars => [\A t \in Tickets : FinishedRowKept(t)]_vars
<1> SUFFICES ASSUME TypeOK, Next, NEW s \in Tickets,
                    tickets[s].status \in {"confirmed", "cancelled"}
             PROVE  tickets'[s] = tickets[s]
  BY DEF FinishedRowKept
<1>0. tickets \in [Tickets -> TicketRows]
  BY DEF TypeOK
<1>1. ASSUME NEW t \in Tickets, tickets[t].status \notin {"confirmed", "cancelled"},
             NEW row, tickets' = [tickets EXCEPT ![t] = row]
      PROVE  tickets'[s] = tickets[s]
  BY <1>0, <1>1
<1>2. ASSUME NEW t \in Tickets, tickets[t].status \notin {"confirmed", "cancelled"},
             \/ \E a \in Amounts, r \in Regions :
                  \/ CreateDepositTicket(t, a, r)
                  \/ \E u \in Users : CreateWithdrawTicket(t, u, a, r)
             \/ \E c \in Cashiers : \/ ConfirmDeposit(t, c) \/ ConfirmWithdraw(t, c)
                                    \/ ClaimTicket(t, c) \/ ReleaseTicket(t, c)
             \/ CancelDeposit(t)
             \/ \E b \in BOOLEAN : CancelWithdraw(t, b)
      PROVE  tickets'[s] = tickets[s]
  BY <1>1, <1>2 DEF CreateDepositTicket, CreateWithdrawTicket, ConfirmDeposit, ConfirmWithdraw,
                    ClaimTicket, ReleaseTicket, CancelDeposit, CancelWithdraw, SetStatus, Reopen
<1>3. ASSUME NEW t \in Tickets,
             \/ \E a \in Amounts, r \in Regions :
                  \/ CreateDepositTicket(t, a, r)
                  \/ \E u \in Users : CreateWithdrawTicket(t, u, a, r)
             \/ \E c \in Cashiers : \/ ConfirmDeposit(t, c) \/ ConfirmWithdraw(t, c)
                                    \/ ClaimTicket(t, c) \/ ReleaseTicket(t, c)
             \/ CancelDeposit(t)
             \/ \E b \in BOOLEAN : CancelWithdraw(t, b)
      PROVE  tickets[t].status \notin {"confirmed", "cancelled"}
  BY <1>3 DEF CreateDepositTicket, CreateWithdrawTicket, ConfirmDeposit, ConfirmWithdraw,
              ClaimTicket, ReleaseTicket, CancelDeposit, CancelWithdraw, HeldBy, IsLive
<1>4. ASSUME tickets' = tickets PROVE tickets'[s] = tickets[s]
  BY <1>4
<1> QED
  BY <1>2, <1>3, <1>4
     DEF Next, Tickets, BeginDeposit, AbortDeposit, AddCashierCharacter, RemoveCashierCharacter,
         TreasurySweep, TreasuryWithdrawToUser, OpenDispute, RejectDispute, ResolveDispute, BanUser,
         UnbanUser, SetConfig, dwVars

\* No function touches the row of a finished ticket, for any number of tickets
\* and cashiers: every guard is on the status of the row that the function
\* writes, and no function writes the row of another ticket.
THEOREM FinishedTicketsFrozen == Spec => TerminalRowsFrozen
BY FrozenStep, RowsCorrect, PTL DEF TerminalRowsFrozen, Spec

\* A withdraw becomes confirmed in no step but its own confirmation.
LEMMA OnlyConfirmConfirms ==
  ASSUME TypeOK, Next, NEW w \in Withdraws, Becomes(w, "confirmed")
  PROVE  \E c \in Cashiers : ConfirmWithdraw(w, c)
<1>0. tickets \in [Tickets -> TicketRows] /\ w \in Tickets
  BY DEF TypeOK, Tickets
<1>1. ASSUME NEW t \in Tickets, t # w, NEW row, tickets' = [tickets EXCEPT ![t] = row]
      PROVE  FALSE
  BY <1>0, <1>1 DEF Becomes
<1>2. ASSUME NEW t \in Tickets, tickets' = [tickets EXCEPT ![t].status = "cancelled"]
      PROVE  FALSE
  BY <1>0, <1>1, <1>2 DEF Becomes, TicketRows
<1>3. ASSUME NEW t \in Tickets, NEW u, NEW a, NEW f, NEW r,
             tickets' = [tickets EXCEPT ![t] = NewTicket(u, a, f, r)]
      PROVE  FALSE
  BY <1>0, <1>1, <1>3 DEF Becomes, NewTicket
<1>4. ASSUME NEW t \in Tickets, NEW c \in Cashiers, ClaimTicket(t, c) \/ ReleaseTicket(t, c)
      PROVE  FALSE
  BY <1>0, <1>1, <1>4 DEF ClaimTicket, ReleaseTicket, Reopen, Becomes, TicketRows
<1>5. ASSUME NEW t \in Deposits, NEW c \in Cashiers, ConfirmDeposit(t, c)
      PROVE  FALSE
  BY <1>1, <1>5, DwAssumption DEF ConfirmDeposit, SetStatus, Tickets
<1>6. ASSUME NEW t \in Withdraws, NEW c \in Cashiers, ConfirmWithdraw(t, c), t # w
      PROVE  FALSE
  BY <1>1, <1>6 DEF ConfirmWithdraw, Tickets
<1>7. ASSUME NEW t \in Tickets, NEW a \in Amounts, NEW r \in Regions,
             CreateDepositTicket(t, a, r) \/ \E u \in Users : CreateWithdrawTicket(t, u, a, r)
      PROVE  FALSE
  BY <1>3, <1>7 DEF CreateDepositTicket, CreateWithdrawTicket
<1>8. ASSUME NEW t \in Tickets, CancelDeposit(t) \/ \E b \in BOOLEAN : CancelWithdraw(t, b)
      PROVE  FALSE
  BY <1>2, <1>8 DEF CancelDeposit, CancelWithdraw, SetStatus
<1>9. ASSUME tickets' = tickets PROVE FALSE
  BY <1>9 DEF Becomes
<1> QED
  BY <1>4, <1>5, <1>6, <1>7, <1>8, <1>9
     DEF Next, Tickets, BeginDeposit, AbortDeposit, AddCashierCharacter, RemoveCashierCharacter,
         TreasurySweep, TreasuryWithdrawToUser, OpenDispute, RejectDispute, ResolveDispute, BanUser,
         UnbanUser, SetConfig, dwVars

\* The gold that one confirmation of a withdraw moves.
LEMMA QuoteStep ==
  IInv /\ [Next]_vars => [\A t \in Withdraws : HonoursQuote(t)]_vars
<1> SUFFICES ASSUME IInv, Next, NEW w \in Withdraws, Becomes(w, "confirmed")
             PROVE  /\ treasury' - treasury = tickets[w].fee
                    /\ tickets'[w].amount_delivered + tickets[w].fee = tickets[w].amount
                    /\ \A u \in Users :
                         (balance'[u] + locked'[u]) - (balance[u] + locked[u])
                           = IF u = tickets[w].discord_id THEN - tickets[w].amount ELSE 0
  BY DEF HonoursQuote
<1>1. PICK c \in Cashiers : ConfirmWithdraw(w, c)
  BY OnlyConfirmConfirms DEF IInv
<1>2. /\ tickets[w].discord_id \in Users
      /\ tickets[w].amount \in Nat /\ tickets[w].fee \in Nat
  BY <1>1, IssuedTicket DEF ConfirmWithdraw, HeldBy, Tickets
<1>3. treasury' - treasury = tickets[w].fee
  BY <1>1, <1>2 DEF ConfirmWithdraw, FeeDue, IInv, TypeOK, AccountsTypeOK
<1>4. tickets'[w].amount_delivered + tickets[w].fee = tickets[w].amount
  BY <1>1, <1>2 DEF ConfirmWithdraw, HandedOver, DeliveredNet, IInv, TypeOK, TicketRows, Tickets
<1>5. ASSUME NEW u \in Users
      PROVE  (balance'[u] + locked'[u]) - (balance[u] + locked[u])
               = IF u = tickets[w].discord_id THEN - tickets[w].amount ELSE 0
  BY <1>1, <1>2, <1>5 DEF ConfirmWithdraw, Unlock, IInv, TypeOK, AccountsTypeOK
<1> QED
  BY <1>3, <1>4, <1>5

\* Confirming any withdraw, of any player, at any later fee rate, moves exactly
\* the quoted gold: the amount from the owner's locked balance, the stored fee
\* to the treasury, the rest to the player in game, and nothing of anyone else.
THEOREM QuoteHonoured == Spec => PayoutHonoursQuote
BY QuoteStep, RowsCorrect, PTL DEF PayoutHonoursQuote, Spec, IInv

\* The cause of a credit that a ledger function makes.
LEMMA CreditStep ==
  IInv /\ [Next]_vars => [\A u \in Users : CreditAccounted(u)]_vars
<1> SUFFICES ASSUME IInv, Next, NEW v \in Users, balance'[v] - balance[v] > 0
             PROVE  CreditAccounted(v)
  BY DEF CreditAccounted
<1>0. balance \in [Users -> Nat] /\ locked \in [Users -> Nat] /\ treasury \in Nat
  BY DEF IInv, TypeOK, AccountsTypeOK
<1>1. ASSUME NEW u \in Users, NEW a \in Nat, Credit(u, a)
      PROVE  v = u /\ balance'[v] - balance[v] = a
  BY <1>0, <1>1 DEF Credit
<1>2. ASSUME NEW t \in Deposits, NEW c \in Cashiers, ConfirmDeposit(t, c)
      PROVE  CreditAccounted(v)
  <2>1. tickets[t].discord_id \in Users /\ tickets[t].amount \in Nat
    BY <1>2, IssuedTicket DEF ConfirmDeposit, HeldBy, Tickets
  <2>2. v = tickets[t].discord_id /\ balance'[v] - balance[v] = tickets[t].amount
    BY <1>1, <1>2, <2>1 DEF ConfirmDeposit
  <2>3. Becomes(t, "confirmed") /\ treasury' = treasury
    BY <1>2 DEF ConfirmDeposit, HeldBy, SetStatus, Becomes, IInv, TypeOK, TicketRows, Tickets
  <2> QED
    BY <2>2, <2>3 DEF CreditAccounted
<1>3. ASSUME NEW t \in Withdraws, NEW byOwner \in BOOLEAN, CancelWithdraw(t, byOwner)
      PROVE  CreditAccounted(v)
  <2>1. tickets[t].discord_id \in Users /\ tickets[t].amount \in Nat
    BY <1>3, IssuedTicket DEF CancelWithdraw, IsLive, Tickets
  <2>2. v = tickets[t].discord_id /\ balance'[v] - balance[v] = tickets[t].amount
    BY <1>1, <1>3, <2>1 DEF CancelWithdraw, Refund
  <2>3. Becomes(t, "cancelled") /\ treasury' = treasury
    BY <1>3 DEF CancelWithdraw, IsLive, SetStatus, Becomes, IInv, TypeOK, TicketRows, Tickets
  <2> QED
    BY <2>2, <2>3 DEF CreditAccounted
<1>4. ASSUME NEW u \in Users, NEW a \in Nat, PayFromTreasury(a, u), tickets' = tickets
      PROVE  CreditAccounted(v)
  BY <1>1, <1>4 DEF PayFromTreasury, Spend, CreditAccounted
<1>5. ASSUME NEW a \in Amounts, NEW u \in Users, TreasuryWithdrawToUser(a, u)
      PROVE  CreditAccounted(v)
  BY <1>4, <1>5, DwAssumption DEF TreasuryWithdrawToUser, dwVars
<1>6. ASSUME balance' = balance PROVE FALSE
  BY <1>0, <1>6
<1>7. ASSUME NEW t \in Tickets, NEW action \in Resolutions, NEW a \in Amounts,
             ResolveDispute(t, action, a)
      PROVE  CreditAccounted(v)
  <2>1. tickets[t].discord_id \in Users /\ tickets[t].amount \in Nat /\ a \in Nat
    BY <1>7, IssuedTicket, DwAssumption DEF ResolveDispute, IInv, RowsConsistent
  <2> QED
    BY <1>4, <1>6, <1>7, <2>1 DEF ResolveDispute, accounts
<1>8. ASSUME NEW t \in Withdraws, NEW u \in Users, NEW a \in Amounts, NEW r \in Regions,
             CreateWithdrawTicket(t, u, a, r)
      PROVE  FALSE
  BY <1>0, <1>8, DwAssumption DEF CreateWithdrawTicket
<1> QED
  BY <1>2, <1>3, <1>5, <1>6, <1>7, <1>8
     DEF Next, accounts, BeginDeposit, AbortDeposit, CreateDepositTicket, CancelDeposit, ConfirmWithdraw, ClaimTicket,
         ReleaseTicket, AddCashierCharacter, RemoveCashierCharacter, TreasurySweep, OpenDispute,
         RejectDispute, BanUser, UnbanUser, SetConfig

\* Every credit of every player is accounted for: one confirmed deposit or one
\* cancelled withdraw of that player, for that amount, or a payment that the
\* treasury loses.
THEOREM EveryCreditAccounted == Spec => CreditsAccounted
BY CreditStep, RowsCorrect, PTL DEF CreditsAccounted, Spec, IInv

-----------------------------------------------------------------------------
(* The ledger implements TicketLifecycle.                                  *)

StatusOf == [t \in Tickets |-> tickets[t].status]
HolderOf == [t \in Tickets |-> tickets[t].claimed_by]

\* A function that agrees with another except at t is that function updated at t.
LEMMA UpdatedAt ==
  ASSUME NEW S, NEW f, NEW g, NEW t \in S, NEW v,
         f = [x \in S |-> f[x]], g = [x \in S |-> g[x]],
         \A x \in S : g[x] = IF x = t THEN v ELSE f[x]
  PROVE  g = [f EXCEPT ![t] = v] /\ (v = f[t] => g = f)
OBVIOUS

\* A step that replaces one row changes the mapped functions at one place.
LEMMA OneRowMapped ==
  ASSUME TypeOK, NEW t \in Tickets, NEW row \in TicketRows,
         tickets' = [tickets EXCEPT ![t] = row]
  PROVE  /\ StatusOf' = [StatusOf EXCEPT ![t] = row.status]
         /\ HolderOf' = [HolderOf EXCEPT ![t] = row.claimed_by]
         /\ row.claimed_by = tickets[t].claimed_by => HolderOf' = HolderOf
<1>1. \A x \in Tickets : tickets'[x] = IF x = t THEN row ELSE tickets[x]
  BY DEF TypeOK
<1>2. /\ StatusOf = [x \in Tickets |-> StatusOf[x]]
      /\ StatusOf' = [x \in Tickets |-> StatusOf'[x]]
      /\ \A x \in Tickets : StatusOf'[x] = IF x = t THEN row.status ELSE StatusOf[x]
  BY <1>1 DEF StatusOf
<1>3. /\ HolderOf = [x \in Tickets |-> HolderOf[x]]
      /\ HolderOf' = [x \in Tickets |-> HolderOf'[x]]
      /\ \A x \in Tickets : HolderOf'[x] = IF x = t THEN row.claimed_by ELSE HolderOf[x]
      /\ HolderOf[t] = tickets[t].claimed_by
  BY <1>1 DEF HolderOf
<1>4. StatusOf' = [StatusOf EXCEPT ![t] = row.status]
  BY <1>2, UpdatedAt
<1>5. /\ HolderOf' = [HolderOf EXCEPT ![t] = row.claimed_by]
      /\ row.claimed_by = HolderOf[t] => HolderOf' = HolderOf
  BY <1>3, UpdatedAt
<1> QED
  BY <1>3, <1>4, <1>5

\* A ledger function makes one of the abstract moves, or none.
LEMMA LifecycleStep ==
  IInv /\ [Next]_vars => [Lifecycle!Next]_<<StatusOf, HolderOf>>
<1> SUFFICES ASSUME IInv, [Next]_vars, <<StatusOf, HolderOf>>' # <<StatusOf, HolderOf>>
             PROVE  Lifecycle!Next
  OBVIOUS
<1>1. tickets' # tickets
  BY DEF StatusOf, HolderOf
<1>2. TypeOK
  BY DEF IInv
<1>3. \A t \in Tickets : tickets[t] \in TicketRows
  BY DEF IInv, TypeOK
<1>4. \A t \in Tickets : StatusOf[t] = tickets[t].status /\ HolderOf[t] = tickets[t].claimed_by
  BY DEF StatusOf, HolderOf
<1>5. ASSUME NEW t \in Tickets, NEW u \in Users, NEW a \in Nat, NEW fee \in Nat,
             NEW r \in Regions, tickets[t].status = "none",
             tickets' = [tickets EXCEPT ![t] = NewTicket(u, a, fee, r)]
      PROVE  Lifecycle!Open(t)
  <2> DEFINE row == NewTicket(u, a, fee, r)
  <2>1. row \in TicketRows
    BY DEF NewTicket, TicketRows, Statuses
  <2>2. tickets[t].claimed_by = Null
    BY <1>5 DEF IInv, RowsConsistent, NoTicket, NewTicket
  <2>3. row.status = "open" /\ row.claimed_by = Null
    BY DEF NewTicket
  <2>4. tickets' = [tickets EXCEPT ![t] = row]
    BY <1>5
  <2> HIDE DEF row
  <2>5. StatusOf' = [StatusOf EXCEPT ![t] = "open"] /\ HolderOf' = HolderOf
    <3>1. /\ StatusOf' = [StatusOf EXCEPT ![t] = row.status]
          /\ row.claimed_by = tickets[t].claimed_by => HolderOf' = HolderOf
      BY <1>2, <2>1, <2>4, OneRowMapped, Zenon
    <3> QED
      BY <2>2, <2>3, <3>1
  <2> QED
    BY <1>4, <1>5, <2>5
       DEF Lifecycle!Open, Lifecycle!Move, StatusOf, HolderOf
<1>6. ASSUME NEW t \in Tickets, NEW s \in Statuses, SetStatus(t, s)
      PROVE  StatusOf' = [StatusOf EXCEPT ![t] = s] /\ HolderOf' = HolderOf
  <2>1. [tickets[t] EXCEPT !.status = s] \in TicketRows
    BY <1>3 DEF TicketRows
  <2>2. tickets' = [tickets EXCEPT ![t] = [tickets[t] EXCEPT !.status = s]]
    BY <1>6 DEF SetStatus
  <2> QED
    BY <1>2, <1>3, <2>1, <2>2, OneRowMapped DEF TicketRows
<1>7. ASSUME NEW t \in Tickets, IsLive(t), SetStatus(t, "cancelled")
      PROVE  Lifecycle!Cancel(t)
  <2>1. tickets[t].status \in {"open", "claimed"}
    BY <1>3, <1>7 DEF IsLive, TicketRows, Statuses
  <2> QED
    BY <1>4, <1>6, <1>7, <2>1 DEF Lifecycle!Cancel, Lifecycle!Move, StatusOf, HolderOf, Statuses
<1>8. ASSUME NEW t \in Deposits, NEW c \in Cashiers, ConfirmDeposit(t, c)
      PROVE  Lifecycle!Confirm(t, c)
  BY <1>4, <1>6, <1>8
     DEF ConfirmDeposit, HeldBy, Tickets, Statuses, Lifecycle!Confirm, Lifecycle!Holds,
         Lifecycle!Move, StatusOf, HolderOf
<1>9. ASSUME NEW t \in Withdraws, NEW c \in Cashiers, ConfirmWithdraw(t, c)
      PROVE  Lifecycle!Confirm(t, c)
  <2>1. t \in Tickets
    BY DEF Tickets
  <2>2. /\ HandedOver(tickets[t]) \in TicketRows
        /\ HandedOver(tickets[t]).status = "confirmed"
        /\ HandedOver(tickets[t]).claimed_by = tickets[t].claimed_by
    <3>1. tickets[t].fee <= tickets[t].amount
      BY <2>1 DEF IInv, RowsConsistent
    <3>2. DeliveredNet(tickets[t]) \in Nat
      BY <1>3, <2>1, <3>1 DEF DeliveredNet, TicketRows
    <3> QED
      BY <1>3, <2>1, <3>2 DEF HandedOver, TicketRows, Statuses
  <2>3. StatusOf' = [StatusOf EXCEPT ![t] = "confirmed"] /\ HolderOf' = HolderOf
    <3> DEFINE row == HandedOver(tickets[t])
    <3>1. /\ tickets' = [tickets EXCEPT ![t] = row] /\ row \in TicketRows
          /\ row.status = "confirmed" /\ row.claimed_by = tickets[t].claimed_by
      BY <1>9, <2>2 DEF ConfirmWithdraw
    <3> HIDE DEF row
    <3>2. /\ StatusOf' = [StatusOf EXCEPT ![t] = row.status]
          /\ row.claimed_by = tickets[t].claimed_by => HolderOf' = HolderOf
      BY <1>2, <2>1, <3>1, OneRowMapped, Zenon
    <3> QED
      BY <3>1, <3>2
  <2> QED
    BY <1>4, <1>9, <2>1, <2>3
       DEF ConfirmWithdraw, HeldBy, Lifecycle!Confirm, Lifecycle!Holds, Lifecycle!Move,
           StatusOf, HolderOf
<1>10. ASSUME NEW t \in Tickets, NEW c \in Cashiers, ClaimTicket(t, c)
       PROVE  Lifecycle!Claim(t, c)
  <2> DEFINE row == [tickets[t] EXCEPT !.status = "claimed", !.claimed_by = c]
  <2>1. row \in TicketRows /\ row.status = "claimed" /\ row.claimed_by = c
    BY <1>3 DEF TicketRows, Statuses
  <2>2. tickets' = [tickets EXCEPT ![t] = row]
    BY <1>10 DEF ClaimTicket, IInv, TypeOK
  <2> HIDE DEF row
  <2>3. /\ StatusOf' = [StatusOf EXCEPT ![t] = "claimed"]
        /\ HolderOf' = [HolderOf EXCEPT ![t] = c]
    BY <1>2, <2>1, <2>2, OneRowMapped
  <2> QED
    BY <1>4, <1>10, <2>3
       DEF ClaimTicket, Lifecycle!Claim, Lifecycle!Move, StatusOf, HolderOf
<1>11. ASSUME NEW t \in Tickets, NEW c \in Cashiers, ReleaseTicket(t, c)
       PROVE  Lifecycle!Release(t, c)
  <2> DEFINE row == [tickets[t] EXCEPT !.status = "open", !.claimed_by = Null]
  <2>1. row \in TicketRows /\ row.status = "open" /\ row.claimed_by = Null
    BY <1>3 DEF TicketRows, Statuses
  <2>2. tickets' = [tickets EXCEPT ![t] = row]
    BY <1>11 DEF ReleaseTicket, Reopen, IInv, TypeOK
  <2> HIDE DEF row
  <2>3. /\ StatusOf' = [StatusOf EXCEPT ![t] = "open"]
        /\ HolderOf' = [HolderOf EXCEPT ![t] = Null]
    BY <1>2, <2>1, <2>2, OneRowMapped
  <2> QED
    BY <1>4, <1>11, <2>3
       DEF ReleaseTicket, HeldBy, Lifecycle!Release, Lifecycle!Holds, Lifecycle!Move,
           StatusOf, HolderOf
<1>12. ASSUME NEW t \in Deposits, NEW a \in Amounts, NEW r \in Regions,
              CreateDepositTicket(t, a, r)
       PROVE  Lifecycle!Open(t)
  <2>1. opening[t] \in Users
    BY <1>12 DEF CreateDepositTicket, IInv, TypeOK
  <2> QED
    BY <1>5, <1>12, <2>1, DwAssumption DEF CreateDepositTicket, Tickets
<1>13. ASSUME NEW t \in Withdraws, NEW u \in Users, NEW a \in Amounts, NEW r \in Regions,
              CreateWithdrawTicket(t, u, a, r)
       PROVE  Lifecycle!Open(t)
  BY <1>5, <1>13, FeeBounds, DwAssumption DEF CreateWithdrawTicket, Tickets, IInv
<1>14. ASSUME NEW t \in Tickets, CancelDeposit(t) \/ \E b \in BOOLEAN : CancelWithdraw(t, b)
       PROVE  Lifecycle!Cancel(t)
  BY <1>7, <1>14 DEF CancelDeposit, CancelWithdraw
<1> QED
  BY <1>1, <1>8, <1>9, <1>10, <1>11, <1>12, <1>13, <1>14
     DEF Next, vars, dwVars, Lifecycle!Next, Tickets, BeginDeposit, AbortDeposit, AddCashierCharacter,
         RemoveCashierCharacter, TreasurySweep, TreasuryWithdrawToUser, OpenDispute,
         RejectDispute, ResolveDispute, BanUser, UnbanUser, SetConfig

\* Every function moves a ticket as TicketLifecycle allows, or leaves it alone:
\* the only claimer of a ticket is the one who claimed it last, nobody else can
\* confirm or release it, and a finished ticket is final.
THEOREM LedgerKeepsLifecycle == Spec => KeepsLifecycle
<1>1. Init => Lifecycle!Init
  BY DEF Init, Lifecycle!Init, NoTicket, NewTicket
<1> QED
  BY <1>1, LifecycleStep, RowsCorrect, PTL
     DEF KeepsLifecycle, Lifecycle!Spec, Spec, IInv, StatusOf, HolderOf
=============================================================================
