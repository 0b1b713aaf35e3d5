---------------------------- MODULE Casino_proofs ----------------------------
(***************************************************************************)
(* Proofs about the two bots on one database, for any number of players,   *)
(* tickets, bets, games, raffle periods and calls under way.               *)
(*                                                                         *)
(* A deposit/withdraw function leaves the difference between a player's    *)
(* locked gold and the player's live withdraws alone, and the surplus of   *)
(* the books (module DwLedger_proofs); a betting function changes them by  *)
(* exactly the stake and the rake it moves.  The inductive invariant has   *)
(* to hold the agreement of locked balances, total_wagered and raffle      *)
(* pools with the bets next to the types: that no settlement drives one of *)
(* them below zero follows only from that agreement.                       *)
(*                                                                         *)
(* The last part shows what of the ledger's own theorems survives beside   *)
(* the bets, that bets end once, and where every credit comes from.        *)
(***************************************************************************)
EXTENDS Casino, DwLedger_proofs, WellFoundedInduction

\* A call under way has computed shares that fit in its amount, and the player whose
\* balance it has locked has one.
CallsConsistent ==
  \A c \in Calls : placing[c] # NoCall =>
    /\ placing[c].commission + placing[c].rake <= placing[c].amount
    /\ placing[c].at = "locked" => placing[c].user \in registered

\* Every bet belongs to a registered player and splits into stake, commission
\* and rake; the calls under way are consistent.
BetsConsistent ==
  /\ \A b \in Bets : bets[b] # NoBet =>
       /\ bets[b].discord_id \in registered
       /\ bets[b].stake + bets[b].commission + bets[b].rake = bets[b].amount
  /\ CallsConsistent

\* The inductive invariant of the composition.
CasinoInv ==
  /\ IInv /\ LuckTypeOK /\ BetsConsistent
  /\ LockedBacksBoth /\ TotalsMatchBets /\ PoolBacksRakes

-----------------------------------------------------------------------------
(* Least and greatest elements.                                            *)

\* Every non-empty set of naturals has a least element.
LEMMA LeastNatural ==
  ASSUME NEW T, T \subseteq Nat, T # {}
  PROVE  \E m \in T : \A n \in T : m <= n
<1>1. PICK m \in T : \A n \in T : ~ (<<n, m>> \in OpToRel(<, Nat))
  BY NatLessThanWellFounded, WFMin
<1>2. \A n \in T : ~ (n < m)
  BY <1>1 DEF OpToRel
<1> QED
  BY <1>2

\* Every finite non-empty set of naturals has a greatest element.
LEMMA GreatestNatural ==
  ASSUME NEW S, S \subseteq Nat, S # {}, IsFiniteSet(S)
  PROVE  \E m \in S : \A n \in S : n <= m
<1> DEFINE Above(p) == {q \in S : q > p}
           T == {Cardinality(Above(p)) : p \in S}
<1>1. \A p \in S : IsFiniteSet(Above(p)) /\ Cardinality(Above(p)) \in Nat
  BY FS_Subset, FS_CardinalityType
<1>2. PICK k \in T : \A n \in T : k <= n
  <2>1. T \subseteq Nat /\ T # {}
    BY <1>1
  <2> HIDE DEF T
  <2> QED
    BY <2>1, LeastNatural
<1>3. PICK m \in S : k = Cardinality(Above(m))
  OBVIOUS
<1>4. ASSUME NEW q \in S, q > m PROVE FALSE
  <2>1. Above(q) \subseteq Above(m) /\ Above(q) # Above(m)
    <3>1. m \in Nat /\ q \in Nat /\ q \in Above(m) /\ q \notin Above(q)
      BY <1>4
    <3>2. ASSUME NEW x \in Above(q) PROVE x \in Above(m)
      BY <1>4
    <3> QED
      BY <3>1, <3>2
  <2>2. Cardinality(Above(q)) < Cardinality(Above(m))
    BY <1>1, <2>1, FS_Subset
  <2>3. Cardinality(Above(m)) <= Cardinality(Above(q))
    BY <1>2, <1>3
  <2> HIDE DEF Above
  <2> QED
    BY <1>1, <2>2, <2>3
<1> QED
  BY <1>4

-----------------------------------------------------------------------------
(* Rows and shares.                                                        *)

\* Commission and rake, each rounded down, fit in the amount when their rates
\* together are at most the whole.
LEMMA SharesFit ==
  \A a, c, r \in Nat : c + r <= 10000 =>
    /\ Share(a, c) \in Nat /\ Share(a, r) \in Nat
    /\ Share(a, c) + Share(a, r) <= a
<1> TAKE a, c, r \in Nat
<1> HAVE c + r <= 10000
<1>1. a * c \in Nat /\ a * r \in Nat /\ a * c + a * r <= a * 10000
  BY Z3
<1>2. \A x, y \in Nat : x + y <= a * 10000 =>
        /\ x \div 10000 \in Nat /\ y \div 10000 \in Nat
        /\ (x \div 10000) + (y \div 10000) <= a
  OBVIOUS
<1> QED
  BY <1>1, <1>2 DEF Share

\* A row of luck.bets that exists has all its columns.
LEMMA BetRow ==
  ASSUME LuckTypeOK, NEW b \in Bets, bets[b] # NoBet
  PROVE  bets[b] \in BetRows
BY DEF LuckTypeOK

\* The latest active period is a period, or there is none.
LEMMA ActivePeriodType == ActivePeriod \in Periods \cup {NoPeriod}
<1> DEFINE active == {p \in Periods : period[p] = "active"}
<1>1. CASE active = {}
  BY <1>1 DEF ActivePeriod
<1>2. CASE active # {}
  <2>1. active \in SUBSET Periods /\ IsFiniteSet(Periods) /\ Periods \subseteq Nat
    BY LuckAssumption
  <2>2. \E m \in active : \A q \in active : q <= m
    <3> HIDE DEF active
    <3> QED
      BY <1>2, <2>1, FS_Subset, GreatestNatural
  <2> QED
    BY <1>2, <2>2 DEF ActivePeriod
<1> QED
  BY <1>1, <1>2

-----------------------------------------------------------------------------
(* What one row of luck.bets contributes to each sum.                      *)

StakeIn(bet, u) ==
  IF bet # NoBet /\ bet.discord_id = u /\ bet.status = "open" THEN bet.stake ELSE 0

WagerIn(bet, u) ==
  IF bet # NoBet /\ bet.status # "refunded" /\ bet.discord_id = u THEN bet.amount ELSE 0

WonIn(bet, u) ==
  IF bet # NoBet /\ bet.discord_id = u /\ bet.status \in Resolved
  THEN CreditOf(bet, bet.status, bet.payout) ELSE 0

RakeIn(bet, p) ==
  IF bet # NoBet /\ bet.status # "refunded" /\ bet.rake_period = p THEN bet.rake ELSE 0

\* A contribution is an amount of gold.
LEMMA Contributions ==
  ASSUME NEW bet \in BetRows \cup {NoBet}, NEW x
  PROVE  /\ StakeIn(bet, x) \in Nat /\ WagerIn(bet, x) \in Nat
         /\ WonIn(bet, x) \in Nat /\ RakeIn(bet, x) \in Nat
BY DEF BetRows, StakeIn, WagerIn, WonIn, RakeIn, CreditOf, Resolved

\* Each column of bets is its contributions, an amount per row.
LEMMA BetColumns ==
  ASSUME LuckTypeOK, NEW x
  PROVE  /\ StakedBy(x) = [b \in Bets |-> StakeIn(bets[b], x)] /\ StakedBy(x) \in [Bets -> Nat]
         /\ WageredBy(x) = [b \in Bets |-> WagerIn(bets[b], x)] /\ WageredBy(x) \in [Bets -> Nat]
         /\ WonBy(x) = [b \in Bets |-> WonIn(bets[b], x)] /\ WonBy(x) \in [Bets -> Nat]
         /\ RakedInto(x) = [b \in Bets |-> RakeIn(bets[b], x)] /\ RakedInto(x) \in [Bets -> Nat]
<1>1. /\ StakedBy(x) = [b \in Bets |-> StakeIn(bets[b], x)]
      /\ WageredBy(x) = [b \in Bets |-> WagerIn(bets[b], x)]
      /\ WonBy(x) = [b \in Bets |-> WonIn(bets[b], x)]
      /\ RakedInto(x) = [b \in Bets |-> RakeIn(bets[b], x)]
  BY DEF StakedBy, BetsOf, WageredBy, WonBy, RakedInto, Charged, StakeIn, WagerIn, WonIn, RakeIn
<1>2. \A b \in Bets : bets[b] \in BetRows \cup {NoBet}
  BY DEF LuckTypeOK
<1>3. \A b \in Bets : /\ StakeIn(bets[b], x) \in Nat /\ WagerIn(bets[b], x) \in Nat
                      /\ WonIn(bets[b], x) \in Nat /\ RakeIn(bets[b], x) \in Nat
  BY <1>2, Contributions
<1> QED
  BY <1>1, <1>3

\* Their sums are amounts of gold.
LEMMA BetTotals ==
  ASSUME LuckTypeOK, NEW x
  PROVE  /\ Total(StakedBy(x)) \in Nat /\ Total(WageredBy(x)) \in Nat
         /\ Total(WonBy(x)) \in Nat /\ Total(RakedInto(x)) \in Nat
BY BetColumns, LuckAssumption, TotalType

\* The sum of a column of bets follows a change of one row.
LEMMA BetTotal ==
  \A f \in [Bets -> Nat] : \A b \in Bets, v \in Nat :
    Total([f EXCEPT ![b] = v]) = Total(f) - f[b] + v
<1>1. IsFiniteSet(Bets)
  BY LuckAssumption
<1> QED
  BY <1>1, TotalUpdate

\* No row contributes more than the sum.
LEMMA BetBound == \A f \in [Bets -> Nat] : \A b \in Bets : f[b] <= Total(f)
BY LuckAssumption, TotalBound

\* When one row of luck.bets is written, each sum changes by the difference of
\* the contributions of the row before and after.
LEMMA SumsFollow ==
  ASSUME LuckTypeOK, NEW b \in Bets, NEW row \in BetRows, bets' = [bets EXCEPT ![b] = row], NEW x
  PROVE  /\ Total(StakedBy(x)') = Total(StakedBy(x)) - StakeIn(bets[b], x) + StakeIn(row, x)
         /\ Total(WageredBy(x)') = Total(WageredBy(x)) - WagerIn(bets[b], x) + WagerIn(row, x)
         /\ Total(WonBy(x)') = Total(WonBy(x)) - WonIn(bets[b], x) + WonIn(row, x)
         /\ Total(RakedInto(x)') = Total(RakedInto(x)) - RakeIn(bets[b], x) + RakeIn(row, x)
<1>1. bets \in [Bets -> BetRows \cup {NoBet}]
  BY DEF LuckTypeOK
<1>2. /\ StakedBy(x)' = [StakedBy(x) EXCEPT ![b] = StakeIn(row, x)]
      /\ WageredBy(x)' = [WageredBy(x) EXCEPT ![b] = WagerIn(row, x)]
      /\ WonBy(x)' = [WonBy(x) EXCEPT ![b] = WonIn(row, x)]
      /\ RakedInto(x)' = [RakedInto(x) EXCEPT ![b] = RakeIn(row, x)]
  BY <1>1 DEF StakedBy, BetsOf, WageredBy, WonBy, RakedInto, Charged,
              StakeIn, WagerIn, WonIn, RakeIn
<1>3. /\ StakedBy(x) \in [Bets -> Nat] /\ StakedBy(x)[b] = StakeIn(bets[b], x)
      /\ WageredBy(x) \in [Bets -> Nat] /\ WageredBy(x)[b] = WagerIn(bets[b], x)
      /\ WonBy(x) \in [Bets -> Nat] /\ WonBy(x)[b] = WonIn(bets[b], x)
      /\ RakedInto(x) \in [Bets -> Nat] /\ RakedInto(x)[b] = RakeIn(bets[b], x)
  BY BetColumns
<1>4. /\ StakeIn(row, x) \in Nat /\ WagerIn(row, x) \in Nat
      /\ WonIn(row, x) \in Nat /\ RakeIn(row, x) \in Nat
  BY Contributions
<1>5. Total([StakedBy(x) EXCEPT ![b] = StakeIn(row, x)])
        = Total(StakedBy(x)) - StakedBy(x)[b] + StakeIn(row, x)
  BY <1>3, <1>4, BetTotal
<1>6. Total([WageredBy(x) EXCEPT ![b] = WagerIn(row, x)])
        = Total(WageredBy(x)) - WageredBy(x)[b] + WagerIn(row, x)
  BY <1>3, <1>4, BetTotal
<1>7. Total([WonBy(x) EXCEPT ![b] = WonIn(row, x)])
        = Total(WonBy(x)) - WonBy(x)[b] + WonIn(row, x)
  BY <1>3, <1>4, BetTotal
<1>8. Total([RakedInto(x) EXCEPT ![b] = RakeIn(row, x)])
        = Total(RakedInto(x)) - RakedInto(x)[b] + RakeIn(row, x)
  BY <1>3, <1>4, BetTotal
<1> QED
  BY <1>2, <1>3, <1>5, <1>6, <1>7, <1>8

-----------------------------------------------------------------------------
(* The steps of the deposit/withdraw bot.                                  *)

\* No ledger function removes a player's account.
LEMMA AccountsStay == Next => registered \subseteq registered'
BY DEF Next, BeginDeposit, AbortDeposit, CreateDepositTicket, ConfirmDeposit, CancelDeposit,
       CreateWithdrawTicket, ConfirmWithdraw, CancelWithdraw, ClaimTicket, ReleaseTicket, AddCashierCharacter,
       RemoveCashierCharacter, TreasurySweep, TreasuryWithdrawToUser, PayFromTreasury,
       OpenDispute, RejectDispute, ResolveDispute, BanUser, UnbanUser, SetConfig, EnsureRows,
       accounts

\* A deposit/withdraw function keeps the invariant of the composition.
LEMMA DwKeepsInv == CasinoInv /\ DwStep => CasinoInv'
<1> SUFFICES ASSUME CasinoInv, DwStep PROVE CasinoInv'
  OBVIOUS
<1> USE DEF CasinoInv
<1>1. IInv' /\ UnbackedKept
  BY IInvStep, UnbackedStep DEF DwStep
<1>2. UNCHANGED <<bets, wagered, won, period, pool, rakeBps, placing>>
  BY DEF DwStep, luckVars
<1>3. LuckTypeOK'
  BY <1>2 DEF LuckTypeOK
<1>4. BetsConsistent'
  BY <1>2, AccountsStay DEF DwStep, BetsConsistent, CallsConsistent
<1>5. TotalsMatchBets'
  BY <1>2 DEF TotalsMatchBets, WageredBy, WonBy, Charged
<1>6. PoolBacksRakes'
  BY <1>2 DEF PoolBacksRakes, RakedInto, Charged
<1>7. LockedBacksBoth'
  <2> SUFFICES ASSUME NEW u \in Users
               PROVE  locked'[u] = Total(LockedFor(u)') + Total(StakedBy(u)')
    BY DEF LockedBacksBoth
  <2>1. StakedBy(u)' = StakedBy(u)
    BY <1>2 DEF StakedBy, BetsOf
  <2>2. Unbacked(u)' = Unbacked(u)
    BY <1>1 DEF UnbackedKept
  <2>3. Total(LockedFor(u)) \in Nat /\ locked[u] \in Nat
    BY LockedTyped
  <2>4. Total(LockedFor(u)') \in Nat /\ locked'[u] \in Nat
    BY <1>1, LockedTypedNext
  <2>5. Total(StakedBy(u)) \in Nat
    BY BetTotals
  <2>6. locked[u] = Total(LockedFor(u)) + Total(StakedBy(u))
    BY DEF LockedBacksBoth
  <2> QED
    BY <2>1, <2>2, <2>3, <2>4, <2>5, <2>6 DEF Unbacked
<1> QED
  BY <1>1, <1>3, <1>4, <1>5, <1>6, <1>7

-----------------------------------------------------------------------------
(* The steps of the betting functions.                                     *)

\* A row's contribution is covered by the sum it is part of: settling or refunding
\* a bet can always take its stake, wager and rake back.
LEMMA RowCovered ==
  ASSUME CasinoInv, NEW b \in Bets
  PROVE  /\ \A u \in Users : /\ StakeIn(bets[b], u) <= locked[u]
                             /\ WagerIn(bets[b], u) <= wagered[u]
         /\ \A p \in Periods : RakeIn(bets[b], p) <= pool[p]
<1>1. LuckTypeOK /\ IInv
  BY DEF CasinoInv
<1>2. ASSUME NEW u \in Users PROVE StakeIn(bets[b], u) <= locked[u]
  <2>1. locked[u] = Total(LockedFor(u)) + Total(StakedBy(u))
    BY DEF CasinoInv, LockedBacksBoth
  <2>2. Total(LockedFor(u)) \in Nat /\ Total(StakedBy(u)) \in Nat
    BY <1>1, LockedTyped, BetTotals
  <2>3. StakedBy(u) \in [Bets -> Nat] /\ StakedBy(u)[b] = StakeIn(bets[b], u)
    BY <1>1, BetColumns
  <2>4. StakedBy(u)[b] <= Total(StakedBy(u)) /\ StakedBy(u)[b] \in Nat
    BY <2>3, BetBound
  <2> QED
    BY <2>1, <2>2, <2>3, <2>4
<1>3. ASSUME NEW u \in Users PROVE WagerIn(bets[b], u) <= wagered[u]
  <2>1. wagered[u] = Total(WageredBy(u))
    BY DEF CasinoInv, TotalsMatchBets
  <2>2. WageredBy(u) \in [Bets -> Nat] /\ WageredBy(u)[b] = WagerIn(bets[b], u)
    BY <1>1, BetColumns
  <2>3. WageredBy(u)[b] <= Total(WageredBy(u))
    BY <2>2, BetBound
  <2> QED
    BY <2>1, <2>2, <2>3
<1>4. ASSUME NEW p \in Periods PROVE RakeIn(bets[b], p) <= pool[p]
  <2>1. pool[p] = Total(RakedInto(p))
    BY DEF CasinoInv, PoolBacksRakes
  <2>2. RakedInto(p) \in [Bets -> Nat] /\ RakedInto(p)[b] = RakeIn(bets[b], p)
    BY <1>1, BetColumns
  <2>3. RakedInto(p)[b] <= Total(RakedInto(p))
    BY <2>2, BetBound
  <2> QED
    BY <2>1, <2>2, <2>3
<1> QED
  BY <1>2, <1>3, <1>4

\* A function that writes one bet and moves each of the player's and periods'
\* amounts by the difference of the row's contributions keeps the agreements.
LEMMA AgreementsKept ==
  ASSUME CasinoInv, NEW b \in Bets, NEW row \in BetRows, bets' = [bets EXCEPT ![b] = row],
         tickets' = tickets,
         \A u \in Users : /\ locked'[u] = locked[u] - StakeIn(bets[b], u) + StakeIn(row, u)
                          /\ wagered'[u] = wagered[u] - WagerIn(bets[b], u) + WagerIn(row, u)
                          /\ won'[u] = won[u] - WonIn(bets[b], u) + WonIn(row, u),
         \A p \in Periods : pool'[p] = pool[p] - RakeIn(bets[b], p) + RakeIn(row, p)
  PROVE  LockedBacksBoth' /\ TotalsMatchBets' /\ PoolBacksRakes'
<1>0. LuckTypeOK /\ IInv /\ bets[b] \in BetRows \cup {NoBet}
  BY DEF CasinoInv, LuckTypeOK
<1>1. ASSUME NEW u \in Users PROVE locked'[u] = Total(LockedFor(u)') + Total(StakedBy(u)')
  <2>1. LockedFor(u)' = LockedFor(u)
    BY DEF LockedFor, IsLive
  <2>2. Total(StakedBy(u)') = Total(StakedBy(u)) - StakeIn(bets[b], u) + StakeIn(row, u)
    BY <1>0, SumsFollow
  <2>3. locked[u] = Total(LockedFor(u)) + Total(StakedBy(u))
    BY DEF CasinoInv, LockedBacksBoth
  <2>4. /\ Total(LockedFor(u)) \in Nat /\ Total(StakedBy(u)) \in Nat
        /\ StakeIn(bets[b], u) \in Nat /\ StakeIn(row, u) \in Nat
    BY <1>0, LockedTyped, BetTotals, Contributions
  <2> QED
    BY <2>1, <2>2, <2>3, <2>4
<1>2. ASSUME NEW u \in Users
      PROVE  wagered'[u] = Total(WageredBy(u)') /\ won'[u] = Total(WonBy(u)')
  <2>1. /\ Total(WageredBy(u)') = Total(WageredBy(u)) - WagerIn(bets[b], u) + WagerIn(row, u)
        /\ Total(WonBy(u)') = Total(WonBy(u)) - WonIn(bets[b], u) + WonIn(row, u)
    BY <1>0, SumsFollow
  <2>2. wagered[u] = Total(WageredBy(u)) /\ won[u] = Total(WonBy(u))
    BY DEF CasinoInv, TotalsMatchBets
  <2> QED
    BY <2>1, <2>2
<1>3. ASSUME NEW p \in Periods PROVE pool'[p] = Total(RakedInto(p)')
  <2>1. Total(RakedInto(p)') = Total(RakedInto(p)) - RakeIn(bets[b], p) + RakeIn(row, p)
    BY <1>0, SumsFollow
  <2>2. pool[p] = Total(RakedInto(p))
    BY DEF CasinoInv, PoolBacksRakes
  <2> QED
    BY <2>1, <2>2
<1> QED
  BY <1>1, <1>2, <1>3 DEF LockedBacksBoth, TotalsMatchBets, PoolBacksRakes

\* The columns the betting functions leave alone keep the tickets' rows consistent.
LEMMA RowsKept ==
  ASSUME IInv, UNCHANGED dwVars, UNCHANGED <<registered, banned>>,
         balance' \in [Users -> Nat], locked' \in [Users -> Nat], treasury' \in Nat,
         \A u \in Users \ registered : balance'[u] = balance[u] /\ locked'[u] = locked[u]
  PROVE  IInv'
<1>1. TypeOK'
  BY DEF IInv, TypeOK, AccountsTypeOK, dwVars
<1>2. RowsConsistent'
  BY DEF IInv, RowsConsistent, dwVars
<1> QED
  BY <1>1, <1>2 DEF IInv

\* What apply_bet inserts: the columns of the new bet.
LEMMA PlacedRow ==
  ASSUME CasinoInv, NEW c \in Calls, NEW b \in Bets, PlaceBet(c, b)
  PROVE  /\ placing[c] \in PendingCalls /\ placing[c].user \in registered
         /\ NewBet(placing[c], ActivePeriod) \in BetRows
         /\ placing[c].amount <= balance[placing[c].user]
         /\ NewBet(placing[c], ActivePeriod).stake + placing[c].commission + placing[c].rake
              = placing[c].amount
<1>0. placing[c].at = "locked" /\ placing[c] # NoCall
  BY DEF PlaceBet, NoCall
<1>1. placing[c] \in PendingCalls
  BY <1>0 DEF CasinoInv, LuckTypeOK
<1>2. /\ placing[c].commission + placing[c].rake <= placing[c].amount
      /\ placing[c].user \in registered
  BY <1>0 DEF CasinoInv, BetsConsistent, CallsConsistent
<1>3. placing[c].amount - placing[c].commission - placing[c].rake \in Nat
  BY <1>1, <1>2 DEF PendingCalls
<1>4. NewBet(placing[c], ActivePeriod) \in BetRows
  BY <1>1, <1>3, ActivePeriodType DEF NewBet, BetRows, PendingCalls
<1>5. placing[c].amount <= balance[placing[c].user]
  BY <1>1 DEF PlaceBet, PendingCalls, CasinoInv, IInv, TypeOK, AccountsTypeOK
<1>6. NewBet(placing[c], ActivePeriod).stake + placing[c].commission + placing[c].rake
        = placing[c].amount
  BY <1>1, <1>3 DEF NewBet, PendingCalls
<1> QED
  BY <1>1, <1>2, <1>4, <1>5, <1>6

\* apply_bet keeps the invariant.
LEMMA PlaceKeepsInv ==
  ASSUME CasinoInv, NEW c \in Calls, NEW b \in Bets, PlaceBet(c, b), UNCHANGED dwVars
  PROVE  CasinoInv'
<1> DEFINE call == placing[c]
           row == NewBet(placing[c], ActivePeriod)
<1>0. /\ call \in PendingCalls /\ row \in BetRows /\ call.user \in Users
      /\ call.amount \in Nat /\ row.stake \in Nat /\ call.commission \in Nat /\ call.rake \in Nat
      /\ call.amount <= balance[call.user] /\ call.user \in registered
      /\ row.stake + call.commission + call.rake = call.amount
  BY PlacedRow DEF PendingCalls, BetRows
<1>1. /\ row.discord_id = call.user /\ row.status = "open" /\ row.amount = call.amount
      /\ row.commission = call.commission /\ row.rake = call.rake
      /\ row.rake_period = ActivePeriod
  BY DEF NewBet
<1>2. /\ bets[b] = NoBet /\ bets' = [bets EXCEPT ![b] = row]
      /\ balance' = [balance EXCEPT ![call.user] = @ - call.amount]
      /\ locked' = [locked EXCEPT ![call.user] = @ + row.stake]
      /\ wagered' = [wagered EXCEPT ![call.user] = @ + call.amount]
      /\ Fund(ActivePeriod, call.rake)
      /\ treasury' = treasury + call.commission + (IF ActivePeriod = NoPeriod THEN call.rake ELSE 0)
      /\ placing' = [placing EXCEPT ![c] = NoCall]
      /\ UNCHANGED <<registered, banned, won, period, rakeBps>>
  BY DEF PlaceBet
<1>3. /\ balance \in [Users -> Nat] /\ locked \in [Users -> Nat] /\ treasury \in Nat
      /\ wagered \in [Users -> Nat] /\ won \in [Users -> Nat] /\ pool \in [Periods -> Nat]
      /\ bets \in [Bets -> BetRows \cup {NoBet}]
      /\ placing \in [Calls -> PendingCalls \cup {NoCall}]
      /\ IInv /\ registered \subseteq Users
  BY DEF CasinoInv, IInv, TypeOK, AccountsTypeOK, LuckTypeOK
<1>4. row # NoBet
  BY <1>1 DEF NoBet
<1>5. /\ \A x : StakeIn(NoBet, x) = 0 /\ WagerIn(NoBet, x) = 0 /\ WonIn(NoBet, x) = 0
                /\ RakeIn(NoBet, x) = 0
      /\ \A x : StakeIn(row, x) = IF x = call.user THEN row.stake ELSE 0
      /\ \A x : WagerIn(row, x) = IF x = call.user THEN call.amount ELSE 0
      /\ \A x : WonIn(row, x) = 0
      /\ \A x : RakeIn(row, x) = IF x = ActivePeriod THEN call.rake ELSE 0
  <2> HIDE DEF row, call
  <2> QED
    BY <1>1, <1>4 DEF StakeIn, WagerIn, WonIn, RakeIn, Resolved
<1> HIDE DEF row, call
<1>6. pool' \in [Periods -> Nat] /\ \A p \in Periods : pool'[p] = pool[p] + RakeIn(row, p)
  BY <1>0, <1>2, <1>3, <1>5, ActivePeriodType, LuckAssumption DEF Fund
<1>7. IInv'
  <2>1. balance' \in [Users -> Nat] /\ locked' \in [Users -> Nat] /\ treasury' \in Nat
    BY <1>0, <1>2, <1>3
  <2>2. \A u \in Users \ registered : balance'[u] = balance[u] /\ locked'[u] = locked[u]
    BY <1>0, <1>2, <1>3
  <2> QED
    BY <1>2, <1>3, <2>1, <2>2, RowsKept
<1>8. LuckTypeOK'
  <2>1. wagered' \in [Users -> Nat] /\ bets' \in [Bets -> BetRows \cup {NoBet}]
    BY <1>0, <1>2, <1>3
  <2>2. placing' \in [Calls -> PendingCalls \cup {NoCall}]
    BY <1>2, <1>3
  <2> QED
    BY <1>2, <1>6, <2>1, <2>2 DEF CasinoInv, LuckTypeOK
<1>9. BetsConsistent'
  <2>1. ASSUME NEW x \in Bets, bets'[x] # NoBet
        PROVE  /\ bets'[x].discord_id \in registered'
               /\ bets'[x].stake + bets'[x].commission + bets'[x].rake = bets'[x].amount
    BY <1>0, <1>1, <1>2, <1>3, <2>1 DEF CasinoInv, BetsConsistent
  <2>2. CallsConsistent'
    BY <1>2, <1>3 DEF CasinoInv, BetsConsistent, CallsConsistent
  <2> QED
    BY <2>1, <2>2 DEF BetsConsistent
<1>10. LockedBacksBoth' /\ TotalsMatchBets' /\ PoolBacksRakes'
  <2>1. ASSUME NEW u \in Users
        PROVE  /\ locked'[u] = locked[u] - StakeIn(bets[b], u) + StakeIn(row, u)
               /\ wagered'[u] = wagered[u] - WagerIn(bets[b], u) + WagerIn(row, u)
               /\ won'[u] = won[u] - WonIn(bets[b], u) + WonIn(row, u)
    BY <1>0, <1>2, <1>3, <1>5
  <2>2. ASSUME NEW p \in Periods PROVE pool'[p] = pool[p] - RakeIn(bets[b], p) + RakeIn(row, p)
    BY <1>2, <1>3, <1>5, <1>6
  <2>3. tickets' = tickets
    BY DEF dwVars
  <2> QED
    BY <1>0, <1>2, <2>1, <2>2, <2>3, AgreementsKept
<1> QED
  BY <1>7, <1>8, <1>9, <1>10 DEF CasinoInv

\* An open bet: the owner has an account, the amounts are amounts, and the owner's
\* locked gold and wagers cover the bet.
LEMMA OpenBet ==
  ASSUME CasinoInv, NEW b \in Bets, IsOpen(b)
  PROVE  /\ bets[b] \in BetRows /\ bets[b].discord_id \in Users \cap registered
         /\ bets[b].stake \in Nat /\ bets[b].amount \in Nat /\ bets[b].commission \in Nat
         /\ bets[b].rake \in Nat /\ bets[b].payout \in Nat
         /\ bets[b].rake_period \in Periods \cup {NoPeriod}
         /\ bets[b].stake + bets[b].commission + bets[b].rake = bets[b].amount
         /\ bets[b].stake <= locked[bets[b].discord_id]
         /\ bets[b].amount <= wagered[bets[b].discord_id]
<1>1. bets[b] \in BetRows /\ bets[b].discord_id \in Users
  BY BetRow DEF CasinoInv, IsOpen, BetRows
<1>2. /\ bets[b].discord_id \in registered
      /\ bets[b].stake + bets[b].commission + bets[b].rake = bets[b].amount
  BY DEF CasinoInv, BetsConsistent, IsOpen
<1>3. /\ StakeIn(bets[b], bets[b].discord_id) = bets[b].stake
      /\ WagerIn(bets[b], bets[b].discord_id) = bets[b].amount
  BY DEF IsOpen, StakeIn, WagerIn
<1>4. /\ StakeIn(bets[b], bets[b].discord_id) <= locked[bets[b].discord_id]
      /\ WagerIn(bets[b], bets[b].discord_id) <= wagered[bets[b].discord_id]
  BY <1>1, RowCovered
<1>5. /\ bets[b].stake \in Nat /\ bets[b].amount \in Nat /\ bets[b].commission \in Nat
      /\ bets[b].rake \in Nat /\ bets[b].payout \in Nat
      /\ bets[b].rake_period \in Periods \cup {NoPeriod}
  BY <1>1 DEF BetRows
<1> QED
  BY <1>1, <1>2, <1>3, <1>4, <1>5

\* Closing an open bet, in whatever way, keeps the invariant when it unlocks the
\* stake, credits only the owner and moves the other sums with the row.
LEMMA SettleKeepsInv ==
  ASSUME CasinoInv, UNCHANGED dwVars, NEW b \in Bets, IsOpen(b), NEW row \in BetRows,
         bets' = [bets EXCEPT ![b] = row], row.status # "open",
         row.discord_id = bets[b].discord_id, row.amount = bets[b].amount,
         row.stake = bets[b].stake, row.commission = bets[b].commission,
         row.rake = bets[b].rake,
         NEW a \in Nat, Credit(bets[b].discord_id, a),
         locked' = [locked EXCEPT ![bets[b].discord_id] = @ - bets[b].stake],
         treasury' \in Nat, wagered' \in [Users -> Nat], won' \in [Users -> Nat],
         pool' \in [Periods -> Nat],
         \A u \in Users : /\ wagered'[u] = wagered[u] - WagerIn(bets[b], u) + WagerIn(row, u)
                          /\ won'[u] = won[u] - WonIn(bets[b], u) + WonIn(row, u),
         \A p \in Periods : pool'[p] = pool[p] - RakeIn(bets[b], p) + RakeIn(row, p),
         UNCHANGED <<registered, banned, period, rakeBps, placing>>
  PROVE  CasinoInv'
<1> DEFINE owner == bets[b].discord_id
<1>1. /\ bets[b] \in BetRows /\ owner \in Users /\ owner \in registered
      /\ bets[b].stake \in Nat /\ bets[b].stake <= locked[owner]
      /\ bets[b].stake + bets[b].commission + bets[b].rake = bets[b].amount
  BY OpenBet
<1>2. /\ balance \in [Users -> Nat] /\ locked \in [Users -> Nat]
      /\ bets \in [Bets -> BetRows \cup {NoBet}]
      /\ IInv /\ registered \subseteq Users
  BY DEF CasinoInv, IInv, TypeOK, AccountsTypeOK, LuckTypeOK
<1>3. balance' = [balance EXCEPT ![owner] = @ + a]
  BY DEF Credit
<1>4. /\ \A x : StakeIn(bets[b], x) = IF x = owner THEN bets[b].stake ELSE 0
      /\ \A x : StakeIn(row, x) = 0
  BY DEF StakeIn, IsOpen
<1>5. row.discord_id = owner /\ locked' = [locked EXCEPT ![owner] = @ - bets[b].stake]
  OBVIOUS
<1> HIDE DEF owner
<1>6. IInv'
  <2>1. balance' \in [Users -> Nat] /\ locked' \in [Users -> Nat]
    BY <1>1, <1>2, <1>3, <1>5
  <2>2. \A u \in Users \ registered : balance'[u] = balance[u] /\ locked'[u] = locked[u]
    BY <1>1, <1>2, <1>3, <1>5
  <2> QED
    BY <1>2, <2>1, <2>2, RowsKept
<1>7. LuckTypeOK'
  <2>1. bets' \in [Bets -> BetRows \cup {NoBet}]
    BY <1>2
  <2> QED
    BY <2>1 DEF CasinoInv, LuckTypeOK
<1>8. BetsConsistent'
  <2>1. ASSUME NEW x \in Bets, bets'[x] # NoBet
        PROVE  /\ bets'[x].discord_id \in registered'
               /\ bets'[x].stake + bets'[x].commission + bets'[x].rake = bets'[x].amount
    BY <1>1, <1>2, <1>5, <2>1 DEF CasinoInv, BetsConsistent
  <2> QED
    BY <2>1 DEF CasinoInv, BetsConsistent, CallsConsistent
<1>9. LockedBacksBoth' /\ TotalsMatchBets' /\ PoolBacksRakes'
  <2>1. \A u \in Users : locked'[u] = locked[u] - StakeIn(bets[b], u) + StakeIn(row, u)
    BY <1>1, <1>2, <1>4, <1>5
  <2>2. tickets' = tickets
    BY DEF dwVars
  <2> QED
    BY <2>1, <2>2, AgreementsKept
<1> QED
  BY <1>6, <1>7, <1>8, <1>9 DEF CasinoInv

\* resolve_bet keeps the invariant, whatever the outcome and the payout.
LEMMA ResolveKeepsInv ==
  ASSUME CasinoInv, NEW b \in Bets, NEW s \in Resolved, NEW p \in Nat, ResolveBet(b, s, p),
         UNCHANGED dwVars
  PROVE  CasinoInv'
<1> DEFINE owner == bets[b].discord_id
           row == [bets[b] EXCEPT !.status = s, !.payout = p]
           a == CreditOf(bets[b], s, p)
<1>1. /\ IsOpen(b) /\ bets[b] \in BetRows /\ owner \in Users
      /\ bets[b].stake \in Nat /\ bets[b].amount \in Nat
  BY OpenBet DEF ResolveBet
<1>2. /\ row \in BetRows /\ row.status = s /\ row.payout = p /\ row.discord_id = owner
      /\ row.amount = bets[b].amount /\ row.stake = bets[b].stake
      /\ row.commission = bets[b].commission /\ row.rake = bets[b].rake
      /\ row.rake_period = bets[b].rake_period
  BY <1>1 DEF BetRows
<1>3. a \in Nat /\ CreditOf(row, s, p) = a
  BY <1>1, <1>2 DEF CreditOf, Resolved
<1>4. HouseGain(bets[b], s, p) \in Int /\ treasury \in Nat
  BY <1>1, <1>3 DEF HouseGain, CasinoInv, IInv, TypeOK, AccountsTypeOK
<1>5. /\ bets' = [bets EXCEPT ![b] = row] /\ Credit(owner, a)
      /\ locked' = [locked EXCEPT ![owner] = @ - bets[b].stake]
      /\ won' = [won EXCEPT ![owner] = @ + a]
      /\ treasury' = treasury + HouseGain(bets[b], s, p)
      /\ treasury + HouseGain(bets[b], s, p) >= 0
      /\ UNCHANGED <<registered, banned, wagered, period, pool, rakeBps, placing>>
  BY DEF ResolveBet, CheckBalance, CasinoInv, LuckTypeOK
<1>6. /\ wagered \in [Users -> Nat] /\ won \in [Users -> Nat] /\ pool \in [Periods -> Nat]
      /\ treasury' \in Nat
  BY <1>4, <1>5 DEF CasinoInv, LuckTypeOK
<1>7. row # NoBet /\ bets[b] # NoBet /\ bets[b].status = "open"
  BY <1>1, <1>2 DEF NoBet, IsOpen, Resolved
<1>8. s \in Resolved /\ s \notin {"open", "refunded"}
  BY DEF Resolved
<1> HIDE DEF row, a, owner
<1>9. ASSUME NEW u \in Users
      PROVE  /\ WagerIn(bets[b], u) = WagerIn(row, u) /\ WagerIn(row, u) \in Nat
             /\ WonIn(bets[b], u) = 0 /\ WonIn(row, u) = IF u = owner THEN a ELSE 0
  <2>1. WagerIn(row, u) \in Nat
    BY <1>2, Contributions
  <2>2. WagerIn(bets[b], u) = WagerIn(row, u)
    BY <1>2, <1>7, <1>8 DEF WagerIn, owner
  <2>3. WonIn(bets[b], u) = 0 /\ WonIn(row, u) = IF u = owner THEN a ELSE 0
    BY <1>2, <1>3, <1>7, <1>8 DEF WonIn, Resolved
  <2> QED
    BY <2>1, <2>2, <2>3
<1>10. ASSUME NEW x \in Periods
       PROVE  RakeIn(bets[b], x) = RakeIn(row, x) /\ RakeIn(row, x) \in Nat
  <2>1. RakeIn(row, x) \in Nat
    BY <1>2, Contributions
  <2> QED
    BY <2>1, <1>2, <1>7, <1>8 DEF RakeIn
<1>11. /\ won' \in [Users -> Nat] /\ wagered' \in [Users -> Nat] /\ pool' \in [Periods -> Nat]
       /\ \A u \in Users : /\ wagered'[u] = wagered[u] - WagerIn(bets[b], u) + WagerIn(row, u)
                           /\ won'[u] = won[u] - WonIn(bets[b], u) + WonIn(row, u)
       /\ \A x \in Periods : pool'[x] = pool[x] - RakeIn(bets[b], x) + RakeIn(row, x)
  <2>1. wagered' = wagered /\ pool' = pool /\ won' = [won EXCEPT ![owner] = @ + a]
    BY <1>5
  <2>2. ASSUME NEW x \in Periods
        PROVE  pool'[x] = pool[x] - RakeIn(bets[b], x) + RakeIn(row, x)
    BY <1>6, <1>10, <2>1
  <2>3. ASSUME NEW u \in Users
        PROVE  wagered'[u] = wagered[u] - WagerIn(bets[b], u) + WagerIn(row, u)
    BY <1>6, <1>9, <2>1
  <2>4. ASSUME NEW u \in Users
        PROVE  won'[u] = won[u] - WonIn(bets[b], u) + WonIn(row, u)
    BY <1>3, <1>6, <1>9, <2>1
  <2>5. won' \in [Users -> Nat]
    BY <1>1, <1>3, <1>6, <2>1
  <2> QED
    BY <1>6, <2>1, <2>2, <2>3, <2>4, <2>5
<1>12. row.status # "open" /\ UNCHANGED <<registered, banned, period, rakeBps, placing>>
  BY <1>2, <1>5, <1>8
<1> QED
  BY <1>1, <1>2, <1>3, <1>5, <1>6, <1>11, <1>12, SettleKeepsInv DEF owner

\* refund_bet keeps the invariant.
LEMMA RefundKeepsInv ==
  ASSUME CasinoInv, NEW b \in Bets, RefundBet(b), UNCHANGED dwVars
  PROVE  CasinoInv'
<1> DEFINE owner == bets[b].discord_id
           row == [bets[b] EXCEPT !.status = "refunded"]
           source == bets[b].rake_period
           fromHouse == bets[b].commission + (IF source = NoPeriod THEN bets[b].rake ELSE 0)
<1>1. /\ IsOpen(b) /\ bets[b] \in BetRows /\ owner \in Users
      /\ bets[b].stake \in Nat /\ bets[b].amount \in Nat /\ bets[b].rake \in Nat
      /\ bets[b].commission \in Nat /\ source \in Periods \cup {NoPeriod}
      /\ bets[b].amount <= wagered[owner]
  BY OpenBet DEF RefundBet
<1>2. /\ row \in BetRows /\ row.status = "refunded" /\ row.discord_id = owner
      /\ row.amount = bets[b].amount /\ row.stake = bets[b].stake
      /\ row.commission = bets[b].commission /\ row.rake = bets[b].rake
  BY <1>1 DEF BetRows
<1>3. /\ bets' = [bets EXCEPT ![b] = row] /\ Credit(owner, bets[b].amount)
      /\ locked' = [locked EXCEPT ![owner] = @ - bets[b].stake]
      /\ wagered' = [wagered EXCEPT ![owner] = @ - bets[b].amount]
      /\ Fund(source, - bets[b].rake) /\ (source # NoPeriod => pool[source] >= bets[b].rake)
      /\ treasury' = treasury - fromHouse /\ treasury - fromHouse >= 0
      /\ UNCHANGED <<registered, banned, won, period, rakeBps, placing>>
  BY DEF RefundBet, RakeSource, Unwind, CheckBalance, CasinoInv, LuckTypeOK
<1>4. /\ wagered \in [Users -> Nat] /\ won \in [Users -> Nat] /\ pool \in [Periods -> Nat]
      /\ treasury \in Nat
  BY DEF CasinoInv, IInv, TypeOK, AccountsTypeOK, LuckTypeOK
<1>5. treasury' \in Nat
  BY <1>1, <1>3, <1>4
<1>6. /\ \A x : WagerIn(bets[b], x) = IF x = owner THEN bets[b].amount ELSE 0
      /\ \A x : RakeIn(bets[b], x) = IF x = source THEN bets[b].rake ELSE 0
      /\ \A x : WonIn(bets[b], x) = 0
  BY <1>1 DEF IsOpen, WagerIn, RakeIn, WonIn, Resolved
<1>7. \A x : WagerIn(row, x) = 0 /\ RakeIn(row, x) = 0 /\ WonIn(row, x) = 0
  <2> HIDE DEF row
  <2> QED
    BY <1>2 DEF WagerIn, RakeIn, WonIn, Resolved
<1> HIDE DEF row, owner, source, fromHouse
<1>8. /\ wagered' \in [Users -> Nat] /\ won' \in [Users -> Nat]
      /\ \A u \in Users : /\ wagered'[u] = wagered[u] - WagerIn(bets[b], u) + WagerIn(row, u)
                          /\ won'[u] = won[u] - WonIn(bets[b], u) + WonIn(row, u)
  BY <1>1, <1>3, <1>4, <1>6, <1>7
<1>9. /\ pool' \in [Periods -> Nat]
      /\ \A x \in Periods : pool'[x] = pool[x] - RakeIn(bets[b], x) + RakeIn(row, x)
  BY <1>1, <1>3, <1>4, <1>6, <1>7, LuckAssumption DEF Fund
<1>10. row.status # "open" /\ UNCHANGED <<registered, banned, period, rakeBps, placing>>
  BY <1>2, <1>3
<1> QED
  BY <1>1, <1>2, <1>3, <1>5, <1>8, <1>9, <1>10, SettleKeepsInv DEF owner

\* A step that changes only calls under way, periods' statuses or the rake rate
\* keeps the invariant.
LEMMA QuietKeepsInv ==
  ASSUME CasinoInv, UNCHANGED <<accounts, dwVars, bets, wagered, won, pool>>,
         LuckTypeOK', CallsConsistent'
  PROVE  CasinoInv'
<1>1. IInv'
  BY DEF CasinoInv, IInv, TypeOK, AccountsTypeOK, RowsConsistent, accounts, dwVars
<1>2. BetsConsistent'
  BY DEF CasinoInv, BetsConsistent, accounts
<1>3. LockedBacksBoth'
  BY DEF CasinoInv, LockedBacksBoth, LockedFor, IsLive, StakedBy, BetsOf, accounts, dwVars
<1>4. TotalsMatchBets' /\ PoolBacksRakes'
  BY DEF CasinoInv, TotalsMatchBets, WageredBy, WonBy, PoolBacksRakes, RakedInto, Charged
<1> QED
  BY <1>1, <1>2, <1>3, <1>4 DEF CasinoInv

\* The unlocked reads of apply_bet keep the invariant: the shares they compute
\* from the rates of that moment fit in the amount.
LEMMA BeginKeepsInv ==
  ASSUME CasinoInv, NEW c \in Calls, NEW u \in Users, NEW k \in Keys, NEW g \in Games,
         NEW a \in BetAmounts, BeginBet(c, u, k, g, a), UNCHANGED dwVars
  PROVE  CasinoInv'
<1> DEFINE call == [at |-> "read", user |-> u, key |-> k, game |-> g, amount |-> a,
                    commission |-> Share(a, Commission[g]), rake |-> Share(a, rakeBps)]
<1>1. /\ a \in Nat /\ Commission[g] \in Nat /\ rakeBps \in Nat
      /\ Commission[g] + rakeBps <= 10000
  BY LuckAssumption DEF CasinoInv, LuckTypeOK
<1>2. /\ Share(a, Commission[g]) \in Nat /\ Share(a, rakeBps) \in Nat
      /\ Share(a, Commission[g]) + Share(a, rakeBps) <= a
  <2>1. PICK n, x, r \in Nat : n = a /\ x = Commission[g] /\ r = rakeBps
    BY <1>1
  <2>2. x + r <= 10000
    BY <1>1, <2>1
  <2>3. Share(n, x) \in Nat /\ Share(n, r) \in Nat /\ Share(n, x) + Share(n, r) <= n
    BY <2>2, SharesFit
  <2> QED
    BY <2>1, <2>3
<1>3. call \in PendingCalls /\ call.at = "read" /\ call.commission + call.rake <= call.amount
  BY <1>1, <1>2 DEF PendingCalls
<1>4. placing' = [placing EXCEPT ![c] = call]
  BY DEF BeginBet
<1>5. placing \in [Calls -> PendingCalls \cup {NoCall}]
  BY DEF CasinoInv, LuckTypeOK
<1> HIDE DEF call
<1>6. CallsConsistent'
  BY <1>3, <1>4, <1>5 DEF BeginBet, CasinoInv, BetsConsistent, CallsConsistent, accounts
<1>7. LuckTypeOK'
  <2>1. placing' \in [Calls -> PendingCalls \cup {NoCall}]
    BY <1>3, <1>4, <1>5
  <2> QED
    BY <2>1 DEF BeginBet, CasinoInv, LuckTypeOK
<1> QED
  BY <1>6, <1>7, QuietKeepsInv DEF BeginBet

\* Taking the lock and reading the ban keeps the invariant.
LEMMA LockKeepsInv ==
  ASSUME CasinoInv, NEW c \in Calls, LockBalance(c), UNCHANGED dwVars
  PROVE  CasinoInv'
<1> DEFINE call == [placing[c] EXCEPT !.at = "locked"]
<1>1. placing[c] # NoCall
  BY DEF LockBalance, NoCall
<1>2. placing \in [Calls -> PendingCalls \cup {NoCall}] /\ placing[c] \in PendingCalls
  BY <1>1 DEF CasinoInv, LuckTypeOK
<1>3. /\ call \in PendingCalls /\ call.user = placing[c].user /\ call.amount = placing[c].amount
      /\ call.commission = placing[c].commission /\ call.rake = placing[c].rake
  BY <1>2 DEF PendingCalls
<1>4. placing' = [placing EXCEPT ![c] = call] /\ call.user \in registered
  BY <1>2, <1>3 DEF LockBalance, MayBet
<1> HIDE DEF call
<1>5. CallsConsistent'
  BY <1>1, <1>2, <1>3, <1>4 DEF LockBalance, CasinoInv, BetsConsistent, CallsConsistent, accounts
<1>6. LuckTypeOK'
  <2>1. placing' \in [Calls -> PendingCalls \cup {NoCall}]
    BY <1>2, <1>3, <1>4
  <2> QED
    BY <2>1 DEF LockBalance, CasinoInv, LuckTypeOK
<1> QED
  BY <1>5, <1>6, QuietKeepsInv DEF LockBalance

\* A stake times a multiplier, rounded down, is an amount of gold.
LEMMA PayoutType ==
  ASSUME NEW m \in Multipliers, NEW stake \in Nat
  PROVE  (stake * m[1]) \div m[2] \in Nat
<1>1. m[1] \in Nat /\ m[2] \in Nat \ {0}
  BY LuckAssumption
<1>2. stake * m[1] \in Nat
  BY <1>1
<1>3. \A x \in Nat, y \in Nat \ {0} : x \div y \in Nat
  OBVIOUS
<1> QED
  BY <1>1, <1>2, <1>3

\* Every betting function, called in a consistent state, leaves one.
LEMMA LuckKeepsInv == CasinoInv /\ LuckStep => CasinoInv'
<1> SUFFICES ASSUME CasinoInv, LuckNext, UNCHANGED dwVars PROVE CasinoInv'
  BY DEF LuckStep
<1>1. ASSUME NEW c \in Calls, AbortBet(c) PROVE CasinoInv'
  <2>1. LuckTypeOK'
    BY <1>1 DEF AbortBet, CasinoInv, LuckTypeOK
  <2>2. CallsConsistent'
    BY <1>1 DEF AbortBet, CasinoInv, BetsConsistent, CallsConsistent, LuckTypeOK, accounts
  <2> QED
    BY <1>1, <2>1, <2>2, QuietKeepsInv DEF AbortBet
<1>2. ASSUME NEW p \in Periods, OpenPeriod(p) \/ ClosePeriod(p) PROVE CasinoInv'
  <2>1. LuckTypeOK'
    BY <1>2 DEF OpenPeriod, ClosePeriod, CasinoInv, LuckTypeOK
  <2> QED
    BY <1>2, <2>1, QuietKeepsInv DEF OpenPeriod, ClosePeriod, CasinoInv, BetsConsistent, CallsConsistent,
                                          accounts
<1>3. ASSUME NEW r \in RakeRates, SetRake(r) PROVE CasinoInv'
  <2>1. LuckTypeOK'
    BY <1>3 DEF SetRake, CasinoInv, LuckTypeOK
  <2> QED
    BY <1>3, <2>1, QuietKeepsInv DEF SetRake, CasinoInv, BetsConsistent, CallsConsistent, accounts
<1>4. ASSUME NEW b \in Bets, NEW s \in Resolved, NEW p \in Payouts, ResolveBet(b, s, p)
      PROVE  CasinoInv'
  <2>1. p \in Nat
    BY LuckAssumption
  <2> QED
    BY <1>4, <2>1, ResolveKeepsInv
<1>5. ASSUME NEW b \in Bets, NEW m \in Multipliers, CashoutMines(b, m) PROVE CasinoInv'
  <2> DEFINE paid == (bets[b].stake * m[1]) \div m[2]
  <2>1. paid \in Nat
    BY <1>5, OpenBet, PayoutType DEF CashoutMines
  <2>2. ResolveBet(b, "resolved_win", paid)
    BY <1>5 DEF CashoutMines
  <2>3. "resolved_win" \in Resolved
    BY DEF Resolved
  <2> HIDE DEF paid
  <2> QED
    BY <2>1, <2>2, <2>3, ResolveKeepsInv
<1> QED
  BY <1>1, <1>2, <1>3, <1>4, <1>5, BeginKeepsInv, LockKeepsInv, PlaceKeepsInv, RefundKeepsInv
     DEF LuckNext

\* The empty database is consistent.
LEMMA CasinoStarts == CasinoInit => CasinoInv
<1> SUFFICES ASSUME CasinoInit PROVE CasinoInv
  OBVIOUS
<1>1. IInv
  BY RowsCorrectInit DEF CasinoInit
<1>2. LuckTypeOK /\ BetsConsistent
  BY DEF CasinoInit, LuckInit, LuckTypeOK, BetsConsistent, CallsConsistent
<1>3. ASSUME NEW x
      PROVE  /\ Total(StakedBy(x)) = 0 /\ Total(WageredBy(x)) = 0
             /\ Total(WonBy(x)) = 0 /\ Total(RakedInto(x)) = 0
  <2>1. \A b \in Bets : bets[b] = NoBet
    BY DEF CasinoInit, LuckInit
  <2>2. /\ \A b \in Bets : StakedBy(x)[b] = 0
        /\ \A b \in Bets : WageredBy(x)[b] = 0
        /\ \A b \in Bets : WonBy(x)[b] = 0
        /\ \A b \in Bets : RakedInto(x)[b] = 0
    BY <2>1 DEF StakedBy, BetsOf, WageredBy, WonBy, RakedInto, Charged
  <2>3. /\ StakedBy(x) \in [Bets -> Nat] /\ WageredBy(x) \in [Bets -> Nat]
        /\ WonBy(x) \in [Bets -> Nat] /\ RakedInto(x) \in [Bets -> Nat]
    BY <1>2, BetColumns
  <2> QED
    BY <2>2, <2>3, TotalZero
<1>4. ASSUME NEW u \in Users PROVE locked[u] = 0 /\ Total(LockedFor(u)) = 0
  <2>1. LockedFor(u) \in [Withdraws -> Nat] /\ \A t \in Withdraws : LockedFor(u)[t] = 0
    BY DEF CasinoInit, Init, LockedFor, IsLive, NoTicket, NewTicket, Tickets
  <2>2. Total(LockedFor(u)) = 0
    BY <2>1, TotalZero
  <2> QED
    BY <2>2 DEF CasinoInit, Init, AccountsInit
<1>5. LockedBacksBoth
  BY <1>3, <1>4 DEF LockedBacksBoth
<1>6. TotalsMatchBets /\ PoolBacksRakes
  BY <1>3 DEF TotalsMatchBets, PoolBacksRakes, CasinoInit, LuckInit
<1> QED
  BY <1>1, <1>2, <1>5, <1>6 DEF CasinoInv

\* Every step of either bot keeps the invariant.
LEMMA CasinoStep == CasinoInv /\ [CasinoNext]_casinoVars => CasinoInv'
<1>1. CasinoInv /\ UNCHANGED casinoVars => CasinoInv'
  <2> SUFFICES ASSUME CasinoInv, UNCHANGED casinoVars PROVE CasinoInv'
    OBVIOUS
  <2>1. LuckTypeOK'
    BY DEF CasinoInv, LuckTypeOK, casinoVars, luckVars
  <2>2. CallsConsistent'
    BY DEF CasinoInv, BetsConsistent, CallsConsistent, casinoVars, luckVars, accounts
  <2> QED
    BY <2>1, <2>2, QuietKeepsInv DEF casinoVars, luckVars
<1> QED
  BY <1>1, DwKeepsInv, LuckKeepsInv DEF CasinoNext

\* With any number of players, tickets and bets, no balance, locked balance,
\* treasury, wager or raffle pool leaves its type, in particular none goes below
\* zero, whatever the two bots do between one another's steps.
THEOREM CasinoTyped == CasinoSpec => []CasinoTypeOK
<1>1. CasinoInv => CasinoTypeOK
  BY DEF CasinoInv, IInv, CasinoTypeOK
<1> QED
  BY <1>1, CasinoStarts, CasinoStep, PTL DEF CasinoSpec

\* locked_balance is, in every reachable state, exactly the live withdraws and
\* the open stakes of the player: neither bot can spend what the other locked.
THEOREM LockedShared == CasinoSpec => []LockedBacksBoth
<1>1. CasinoInv => LockedBacksBoth
  BY DEF CasinoInv
<1> QED
  BY <1>1, CasinoStarts, CasinoStep, PTL DEF CasinoSpec

\* total_wagered and total_won are the sums over the player's bets that they
\* are meant to be, after any number of settlements and refunds.
THEOREM TotalsFollowBets == CasinoSpec => []TotalsMatchBets
<1>1. CasinoInv => TotalsMatchBets
  BY DEF CasinoInv
<1> QED
  BY <1>1, CasinoStarts, CasinoStep, PTL DEF CasinoSpec

\* A raffle pool is the rake of the bets that paid into it, whatever periods
\* were opened and closed and rates were changed in between.
THEOREM PoolsBacked == CasinoSpec => []PoolBacksRakes
<1>1. CasinoInv => PoolBacksRakes
  BY DEF CasinoInv
<1> QED
  BY <1>1, CasinoStarts, CasinoStep, PTL DEF CasinoSpec

-----------------------------------------------------------------------------
(* Conservation.                                                           *)

\* The gold of the two bots' books together, against what came in.
CasinoSurplus == Surplus + Total(pool)

\* The sums of the balances, locked balances and pools are amounts of gold.
LEMMA PoolTyped ==
  ASSUME CasinoInv
  PROVE  /\ Total(balance) \in Nat /\ Total(locked) \in Nat /\ Total(pool) \in Nat
         /\ Deposited \in Nat /\ Delivered \in Nat /\ treasury \in Nat /\ swept \in Nat
<1>1. pool \in [Periods -> Nat] /\ IsFiniteSet(Periods)
  BY LuckAssumption DEF CasinoInv, LuckTypeOK
<1> QED
  BY <1>1, TotalType, Columns DEF CasinoInv

\* The same of the next state.
LEMMA PoolTypedNext ==
  CasinoInv' => /\ Total(balance') \in Nat /\ Total(locked') \in Nat /\ Total(pool') \in Nat
                /\ Deposited' \in Nat /\ Delivered' \in Nat /\ treasury' \in Nat /\ swept' \in Nat
<1> DEFINE Typed == /\ Total(balance) \in Nat /\ Total(locked) \in Nat /\ Total(pool) \in Nat
                    /\ Deposited \in Nat /\ Delivered \in Nat /\ treasury \in Nat /\ swept \in Nat
<1>1. CasinoInv => Typed
  BY PoolTyped
<1>2. CasinoInv' => Typed'
  BY <1>1, PTL
<1> QED
  BY <1>2

\* The sum of the players' column follows a change of one player's amount.
LEMMA UserTotal ==
  \A f \in [Users -> Nat] : \A u \in Users, v \in Nat :
    Total([f EXCEPT ![u] = v]) = Total(f) - f[u] + v
BY UsersAssumption, TotalUpdate

\* The same for the raffle periods' column.
LEMMA PeriodTotal ==
  \A f \in [Periods -> Nat] : \A x \in Periods, v \in Nat :
    Total([f EXCEPT ![x] = v]) = Total(f) - f[x] + v
<1>1. IsFiniteSet(Periods)
  BY LuckAssumption
<1> QED
  BY <1>1, TotalUpdate

\* Funding a period, or taking back what it was funded with, changes the sum of
\* the pools by that much.
LEMMA FundTotal ==
  ASSUME CasinoInv, NEW x \in Periods \cup {NoPeriod}, NEW d \in Int, Fund(x, d),
         x # NoPeriod => pool[x] + d >= 0
  PROVE  Total(pool') = Total(pool) + (IF x = NoPeriod THEN 0 ELSE d)
<1>1. pool \in [Periods -> Nat] /\ Total(pool) \in Nat
  BY PoolTyped DEF CasinoInv, LuckTypeOK
<1>2. CASE x = NoPeriod
  BY <1>1, <1>2 DEF Fund
<1>3. CASE x # NoPeriod
  <2>1. x \in Periods /\ pool[x] + d \in Nat /\ pool[x] \in Nat
    BY <1>1, <1>3
  <2>2. pool' = [pool EXCEPT ![x] = pool[x] + d]
    BY <1>3 DEF Fund
  <2>3. Total([pool EXCEPT ![x] = pool[x] + d]) = Total(pool) - pool[x] + (pool[x] + d)
    BY <1>1, <2>1, PeriodTotal
  <2> QED
    BY <1>1, <1>3, <2>1, <2>2, <2>3
<1> QED
  BY <1>2, <1>3

\* Moving a player's spendable or locked gold changes its sum by as much.
LEMMA AccountsTotal ==
  ASSUME CasinoInv, NEW u \in Users, NEW d \in Int, NEW e \in Int,
         balance[u] + d >= 0, locked[u] + e >= 0,
         balance' = [balance EXCEPT ![u] = balance[u] + d],
         locked' = [locked EXCEPT ![u] = locked[u] + e]
  PROVE  Total(balance') = Total(balance) + d /\ Total(locked') = Total(locked) + e
<1>1. balance \in [Users -> Nat] /\ locked \in [Users -> Nat]
  BY DEF CasinoInv, IInv, TypeOK, AccountsTypeOK
<1>2. /\ balance[u] \in Nat /\ locked[u] \in Nat
      /\ balance[u] + d \in Nat /\ locked[u] + e \in Nat
  BY <1>1
<1>3. Total(balance) \in Nat /\ Total(locked) \in Nat
  BY PoolTyped
<1>4. Total([balance EXCEPT ![u] = balance[u] + d]) = Total(balance) - balance[u] + (balance[u] + d)
  BY <1>1, <1>2, UserTotal
<1>5. Total([locked EXCEPT ![u] = locked[u] + e]) = Total(locked) - locked[u] + (locked[u] + e)
  BY <1>1, <1>2, UserTotal
<1> QED
  BY <1>2, <1>3, <1>4, <1>5

\* A betting function leaves what came in, went out and was swept alone.
LEMMA BooksFixed ==
  ASSUME UNCHANGED dwVars
  PROVE  Deposited' = Deposited /\ Delivered' = Delivered /\ swept' = swept
BY DEF dwVars, Deposited, Delivered, DepositColumn, DeliveredColumn, ConfirmedAmount

\* apply_bet conserves gold.
LEMMA PlaceConserves ==
  ASSUME CasinoInv, NEW c \in Calls, NEW b \in Bets, PlaceBet(c, b), UNCHANGED dwVars
  PROVE  CasinoSurplus' = CasinoSurplus
<1> DEFINE call == placing[c]
           stake == NewBet(placing[c], ActivePeriod).stake
<1>1. /\ call.user \in Users /\ call.amount \in Nat /\ stake \in Nat /\ call.commission \in Nat
      /\ call.rake \in Nat /\ call.amount <= balance[call.user]
      /\ stake + call.commission + call.rake = call.amount
  BY PlacedRow DEF PendingCalls, BetRows
<1>2. balance[call.user] \in Nat /\ locked[call.user] \in Nat /\ pool \in [Periods -> Nat]
  BY <1>1 DEF CasinoInv, IInv, TypeOK, AccountsTypeOK, LuckTypeOK
<1>3. /\ balance' = [balance EXCEPT ![call.user] = @ - call.amount]
      /\ locked' = [locked EXCEPT ![call.user] = @ + stake]
      /\ Fund(ActivePeriod, call.rake)
      /\ treasury' = treasury + call.commission + (IF ActivePeriod = NoPeriod THEN call.rake ELSE 0)
  BY DEF PlaceBet
<1> HIDE DEF call, stake
<1>4. Total(balance') = Total(balance) + (- call.amount) /\ Total(locked') = Total(locked) + stake
  <2>1. - call.amount \in Int /\ stake \in Int
        /\ balance[call.user] + (- call.amount) >= 0 /\ locked[call.user] + stake >= 0
        /\ balance[call.user] + (- call.amount) = balance[call.user] - call.amount
    BY <1>1, <1>2
  <2> QED
    BY <1>1, <1>3, <2>1, AccountsTotal
<1>5. Total(pool') = Total(pool) + (IF ActivePeriod = NoPeriod THEN 0 ELSE call.rake)
  <2>1. ActivePeriod # NoPeriod => pool[ActivePeriod] + call.rake >= 0
    BY <1>1, <1>2, ActivePeriodType
  <2>2. PICK x \in Periods \cup {NoPeriod} : x = ActivePeriod
    BY ActivePeriodType
  <2>3. call.rake \in Int /\ Fund(x, call.rake) /\ (x # NoPeriod => pool[x] + call.rake >= 0)
    BY <1>1, <1>3, <2>1, <2>2
  <2>4. Total(pool') = Total(pool) + (IF x = NoPeriod THEN 0 ELSE call.rake)
    BY <2>3, FundTotal
  <2> QED
    BY <2>2, <2>4
<1> QED
  BY <1>1, <1>3, <1>4, <1>5, BooksFixed, PoolTyped DEF CasinoSurplus, Surplus

\* resolve_bet conserves gold: what the player is paid beyond the stake, the
\* treasury pays, and what is left of the stake it keeps.
LEMMA ResolveConserves ==
  ASSUME CasinoInv, NEW b \in Bets, NEW s \in Resolved, NEW p \in Nat, ResolveBet(b, s, p),
         UNCHANGED dwVars
  PROVE  CasinoSurplus' = CasinoSurplus
<1> DEFINE owner == bets[b].discord_id
           stake == bets[b].stake
           a == CreditOf(bets[b], s, p)
<1>1. owner \in Users /\ stake \in Nat /\ stake <= locked[owner]
  BY OpenBet DEF ResolveBet
<1>2. a \in Nat /\ HouseGain(bets[b], s, p) = stake - a
  BY <1>1 DEF CreditOf, HouseGain, Resolved
<1>3. /\ balance' = [balance EXCEPT ![owner] = @ + a]
      /\ locked' = [locked EXCEPT ![owner] = @ - stake]
      /\ treasury' = treasury + HouseGain(bets[b], s, p) /\ pool' = pool
  BY DEF ResolveBet, Credit
<1>4. balance[owner] \in Nat /\ locked[owner] \in Nat
  BY <1>1 DEF CasinoInv, IInv, TypeOK, AccountsTypeOK
<1> HIDE DEF owner, stake, a
<1>5. Total(balance') = Total(balance) + a /\ Total(locked') = Total(locked) + (- stake)
  <2>1. - stake \in Int /\ a \in Int /\ balance[owner] + a >= 0 /\ locked[owner] + (- stake) >= 0
        /\ locked[owner] + (- stake) = locked[owner] - stake
    BY <1>1, <1>2, <1>4
  <2> QED
    BY <1>1, <1>3, <2>1, AccountsTotal
<1> QED
  BY <1>1, <1>2, <1>3, <1>5, BooksFixed, PoolTyped DEF CasinoSurplus, Surplus

\* refund_bet conserves gold: the amount comes back from the stake, the treasury
\* and the pool that got its parts.
LEMMA RefundConserves ==
  ASSUME CasinoInv, NEW b \in Bets, RefundBet(b), UNCHANGED dwVars
  PROVE  CasinoSurplus' = CasinoSurplus
<1> DEFINE bet == bets[b]
           owner == bets[b].discord_id
           source == bets[b].rake_period
<1>1. /\ owner \in Users /\ bet.stake \in Nat /\ bet.stake <= locked[owner] /\ bet.amount \in Nat
      /\ bet.commission \in Nat /\ bet.rake \in Nat /\ source \in Periods \cup {NoPeriod}
      /\ bet.stake + bet.commission + bet.rake = bet.amount
  BY OpenBet DEF RefundBet
<1>2. /\ balance' = [balance EXCEPT ![owner] = @ + bet.amount]
      /\ locked' = [locked EXCEPT ![owner] = @ - bet.stake]
      /\ treasury' = treasury - (bet.commission + (IF source = NoPeriod THEN bet.rake ELSE 0))
      /\ Fund(source, - bet.rake) /\ (source # NoPeriod => pool[source] >= bet.rake)
  BY DEF RefundBet, RakeSource, Unwind, Credit
<1>3. balance[owner] \in Nat /\ locked[owner] \in Nat /\ pool \in [Periods -> Nat]
  BY <1>1 DEF CasinoInv, IInv, TypeOK, AccountsTypeOK, LuckTypeOK
<1> HIDE DEF bet, owner, source
<1>4. Total(balance') = Total(balance) + bet.amount
      /\ Total(locked') = Total(locked) + (- bet.stake)
  <2>1. /\ - bet.stake \in Int /\ bet.amount \in Int /\ balance[owner] + bet.amount >= 0
        /\ locked[owner] + (- bet.stake) >= 0
        /\ locked[owner] + (- bet.stake) = locked[owner] - bet.stake
    BY <1>1, <1>3
  <2> QED
    BY <1>1, <1>2, <2>1, AccountsTotal
<1>5. Total(pool') = Total(pool) + (IF source = NoPeriod THEN 0 ELSE - bet.rake)
  <2>1. - bet.rake \in Int /\ (source # NoPeriod => pool[source] + (- bet.rake) >= 0)
    BY <1>1, <1>2, <1>3
  <2> QED
    BY <1>1, <1>2, <2>1, FundTotal
<1> QED
  BY <1>1, <1>2, <1>4, <1>5, BooksFixed, PoolTyped DEF CasinoSurplus, Surplus

\* Every step of either bot conserves gold.
LEMMA CasinoSurplusStep == CasinoInv /\ [CasinoNext]_casinoVars => CasinoSurplus' = CasinoSurplus
<1> SUFFICES ASSUME CasinoInv, [CasinoNext]_casinoVars PROVE CasinoSurplus' = CasinoSurplus
  OBVIOUS
<1>1. CASE DwStep
  <2>1. Surplus' = Surplus /\ pool' = pool
    BY <1>1, SurplusStep DEF DwStep, CasinoInv, luckVars
  <2> QED
    BY <2>1 DEF CasinoSurplus
<1>2. ASSUME UNCHANGED <<accounts, dwVars, pool>> PROVE CasinoSurplus' = CasinoSurplus
  BY <1>2, BooksFixed DEF CasinoSurplus, Surplus, accounts
<1>3. ASSUME NEW b \in Bets, NEW m \in Multipliers, CashoutMines(b, m), UNCHANGED dwVars
      PROVE  CasinoSurplus' = CasinoSurplus
  <2> DEFINE paid == (bets[b].stake * m[1]) \div m[2]
  <2>1. paid \in Nat
    BY <1>3, OpenBet, PayoutType DEF CashoutMines
  <2>2. ResolveBet(b, "resolved_win", paid)
    BY <1>3 DEF CashoutMines
  <2>3. "resolved_win" \in Resolved
    BY DEF Resolved
  <2> HIDE DEF paid
  <2> QED
    BY <1>3, <2>1, <2>2, <2>3, ResolveConserves
<1>4. ASSUME LuckNext, UNCHANGED dwVars PROVE CasinoSurplus' = CasinoSurplus
  <2>1. Payouts \subseteq Nat
    BY LuckAssumption
  <2> QED
    BY <1>2, <1>3, <1>4, <2>1, PlaceConserves, ResolveConserves, RefundConserves
       DEF LuckNext, BeginBet, LockBalance, AbortBet, OpenPeriod, ClosePeriod, SetRake
<1> QED
  BY <1>1, <1>2, <1>4 DEF CasinoNext, LuckStep, casinoVars, luckVars

\* Gold is conserved by the two bots together, for any number of players, tickets,
\* bets and raffle periods.
THEOREM CasinoConserves == CasinoSpec => []CasinoConservation
<1>1. CasinoInit => CasinoConservation
  <2> SUFFICES ASSUME CasinoInit PROVE CasinoConservation
    OBVIOUS
  <2>1. CasinoInv /\ IInv
    BY CasinoStarts DEF CasinoInv
  <2>2. /\ \A u \in Users : balance[u] = 0 /\ locked[u] = 0
        /\ \A t \in Deposits : DepositColumn[t] = 0
        /\ \A t \in Withdraws : DeliveredColumn[t] = 0
        /\ \A x \in Periods : pool[x] = 0
    BY DEF CasinoInit, LuckInit, Init, AccountsInit, DepositColumn, DeliveredColumn,
           ConfirmedAmount, NoTicket, NewTicket, Tickets
  <2>3. balance \in [Users -> Nat] /\ locked \in [Users -> Nat] /\ pool \in [Periods -> Nat]
    BY <2>1 DEF CasinoInv, IInv, TypeOK, AccountsTypeOK, LuckTypeOK
  <2>4. Total(balance) = 0 /\ Total(locked) = 0 /\ Total(pool) = 0
    BY <2>2, <2>3, TotalZero
  <2>5. Deposited = 0 /\ Delivered = 0
    BY <2>1, <2>2, Columns, TotalZero DEF Deposited, Delivered
  <2> QED
    BY <2>4, <2>5 DEF CasinoConservation, CasinoInit, Init, AccountsInit
<1>2. CasinoInv /\ CasinoConservation /\ [CasinoNext]_casinoVars => CasinoConservation'
  <2> SUFFICES ASSUME CasinoInv, CasinoConservation, [CasinoNext]_casinoVars
               PROVE  CasinoConservation'
    OBVIOUS
  <2>1. CasinoInv' /\ CasinoSurplus' = CasinoSurplus
    BY CasinoStep, CasinoSurplusStep
  <2>2. CasinoSurplus = 0
    BY PoolTyped DEF CasinoConservation, CasinoSurplus, Surplus
  <2>3. /\ Total(balance') \in Nat /\ Total(locked') \in Nat /\ Total(pool') \in Nat
        /\ Deposited' \in Nat /\ Delivered' \in Nat /\ treasury' \in Nat /\ swept' \in Nat
    BY <2>1, PoolTypedNext
  <2> QED
    BY <2>1, <2>2, <2>3 DEF CasinoConservation, CasinoSurplus, Surplus
<1> QED
  BY <1>1, <1>2, CasinoStarts, CasinoStep, PTL DEF CasinoSpec

-----------------------------------------------------------------------------
(* Idempotency keys and bans.                                              *)

\* A step leaves the owners and keys of bets alone, or inserts one bet.
LEMMA BetsStep ==
  ASSUME LuckTypeOK, [CasinoNext]_casinoVars
  PROVE  \/ \A b \in Bets : /\ bets'[b] = NoBet <=> bets[b] = NoBet
                            /\ bets[b] # NoBet => /\ bets'[b].discord_id = bets[b].discord_id
                                                  /\ bets'[b].key = bets[b].key
         \/ \E c \in Calls, b \in Bets : PlaceBet(c, b)
<1> DEFINE Same == \A b \in Bets : /\ bets'[b] = NoBet <=> bets[b] = NoBet
                                   /\ bets[b] # NoBet =>
                                        /\ bets'[b].discord_id = bets[b].discord_id
                                        /\ bets'[b].key = bets[b].key
<1>0. bets \in [Bets -> BetRows \cup {NoBet}]
  BY DEF LuckTypeOK
<1>1. ASSUME NEW b \in Bets, IsOpen(b), NEW row, bets' = [bets EXCEPT ![b] = row],
             row # NoBet, row.discord_id = bets[b].discord_id, row.key = bets[b].key
      PROVE  Same
  BY <1>0, <1>1 DEF IsOpen
<1>2. ASSUME NEW b \in Bets, NEW s \in Resolved, NEW p, ResolveBet(b, s, p) PROVE Same
  <2> DEFINE row == [bets[b] EXCEPT !.status = s, !.payout = p]
  <2>1. IsOpen(b) /\ bets[b] \in BetRows
    BY <1>2, BetRow DEF ResolveBet, IsOpen
  <2>2. /\ row.discord_id = bets[b].discord_id /\ row.key = bets[b].key /\ row.status = s
        /\ s # "none"
    BY <2>1 DEF BetRows, Resolved
  <2>3. bets' = [bets EXCEPT ![b] = row]
    BY <1>0, <1>2 DEF ResolveBet
  <2> HIDE DEF row
  <2>4. row # NoBet
    BY <2>2 DEF NoBet
  <2> QED
    BY <1>1, <2>1, <2>2, <2>3, <2>4
<1>3. ASSUME NEW b \in Bets, RefundBet(b) PROVE Same
  <2> DEFINE row == [bets[b] EXCEPT !.status = "refunded"]
  <2>1. IsOpen(b) /\ bets[b] \in BetRows
    BY <1>3, BetRow DEF RefundBet, IsOpen
  <2>2. row.discord_id = bets[b].discord_id /\ row.key = bets[b].key /\ row.status = "refunded"
    BY <2>1 DEF BetRows
  <2>3. bets' = [bets EXCEPT ![b] = row]
    BY <1>0, <1>3 DEF RefundBet
  <2> HIDE DEF row
  <2>4. row # NoBet
    BY <2>2 DEF NoBet
  <2> QED
    BY <1>1, <2>1, <2>2, <2>3, <2>4
<1>4. ASSUME bets' = bets PROVE Same
  BY <1>4
<1>5. ASSUME NEW b \in Bets, NEW m \in Multipliers, CashoutMines(b, m) PROVE Same
  <2>1. "resolved_win" \in Resolved
    BY DEF Resolved
  <2> QED
    BY <1>2, <1>5, <2>1 DEF CashoutMines
<1> HIDE DEF Same
<1>6. ASSUME LuckNext PROVE Same \/ \E c \in Calls, b \in Bets : PlaceBet(c, b)
  BY <1>2, <1>3, <1>4, <1>5, <1>6
     DEF LuckNext, BeginBet, LockBalance, AbortBet, OpenPeriod, ClosePeriod, SetRake
<1>7. Same \/ \E c \in Calls, b \in Bets : PlaceBet(c, b)
  BY <1>4, <1>6 DEF CasinoNext, DwStep, LuckStep, casinoVars, luckVars
<1> QED
  BY <1>7 DEF Same

\* However many calls of apply_bet with one key are under way at once, at most
\* one bet is ever inserted for the key.
THEOREM KeyChargedOnce == CasinoSpec => []ChargedOncePerKey
<1>1. CasinoInit => ChargedOncePerKey
  <2> SUFFICES ASSUME CasinoInit, NEW u \in Users, NEW k \in Keys
               PROVE  Cardinality(WithKey(u, k)) <= 1
    BY DEF ChargedOncePerKey
  <2>1. WithKey(u, k) = {}
    BY DEF CasinoInit, LuckInit, WithKey
  <2> QED
    BY <2>1, FS_EmptySet
<1>2. CasinoInv /\ ChargedOncePerKey /\ [CasinoNext]_casinoVars => ChargedOncePerKey'
  <2> SUFFICES ASSUME CasinoInv, ChargedOncePerKey, [CasinoNext]_casinoVars,
                      NEW u \in Users, NEW k \in Keys
               PROVE  Cardinality(WithKey(u, k)') <= 1
    BY DEF ChargedOncePerKey
  <2>0. LuckTypeOK /\ bets \in [Bets -> BetRows \cup {NoBet}] /\ Cardinality(WithKey(u, k)) <= 1
    BY DEF CasinoInv, LuckTypeOK, ChargedOncePerKey
  <2>1. CASE \A b \in Bets : /\ bets'[b] = NoBet <=> bets[b] = NoBet
                             /\ bets[b] # NoBet => /\ bets'[b].discord_id = bets[b].discord_id
                                                   /\ bets'[b].key = bets[b].key
    <3>1. WithKey(u, k)' = WithKey(u, k)
      BY <2>1 DEF WithKey
    <3> QED
      BY <2>0, <3>1
  <2>2. ASSUME NEW c \in Calls, NEW b \in Bets, PlaceBet(c, b)
        PROVE  Cardinality(WithKey(u, k)') <= 1
    <3> DEFINE row == NewBet(placing[c], ActivePeriod)
    <3>1. row.discord_id = placing[c].user /\ row.key = placing[c].key /\ row.status = "open"
      BY DEF NewBet
    <3>2. bets[b] = NoBet /\ bets' = [bets EXCEPT ![b] = row]
      BY <2>2 DEF PlaceBet
    <3> HIDE DEF row
    <3>3. row # NoBet
      BY <3>1 DEF NoBet
    <3>4. CASE placing[c].user = u /\ placing[c].key = k
      <4>1. WithKey(u, k) = {}
        BY <2>2, <3>4 DEF PlaceBet, KeyUnused
      <4>2. WithKey(u, k)' = {b}
        BY <2>0, <3>1, <3>2, <3>3, <3>4, <4>1 DEF WithKey
      <4> QED
        BY <4>2, FS_Singleton
    <3>5. CASE ~ (placing[c].user = u /\ placing[c].key = k)
      <4>1. WithKey(u, k)' = WithKey(u, k)
        BY <2>0, <3>1, <3>2, <3>3, <3>5 DEF WithKey
      <4> QED
        BY <2>0, <4>1
    <3> QED
      BY <3>4, <3>5
  <2> QED
    BY <2>0, <2>1, <2>2, BetsStep
<1> QED
  BY <1>1, <1>2, CasinoStarts, CasinoStep, PTL DEF CasinoSpec

\* No ledger function lets a banned player past the ban check of create_deposit_ticket,
\* and none opens a withdraw for the player.
LEMMA TicketsStep ==
  ASSUME IInv, Next, NEW u \in banned
  PROVE  /\ TicketsInReach(u)' \subseteq TicketsInReach(u)
         /\ TicketsOf(u)' \cap Withdraws = TicketsOf(u) \cap Withdraws
<1> DEFINE Reach == /\ TicketsInReach(u)' \subseteq TicketsInReach(u)
                    /\ TicketsOf(u)' \cap Withdraws = TicketsOf(u) \cap Withdraws
<1>0. /\ tickets \in [Tickets -> TicketRows] /\ banned \subseteq Users /\ Null \notin Users
      /\ opening \in [Deposits -> Users \cup {Null}]
  BY DwAssumption DEF IInv, TypeOK, AccountsTypeOK
<1>1. ASSUME NEW t \in Tickets, NEW row, tickets' = [tickets EXCEPT ![t] = row],
             row.discord_id = u <=> tickets[t].discord_id = u
      PROVE  TicketsOf(u)' = TicketsOf(u)
  BY <1>0, <1>1 DEF TicketsOf
<1>2. ASSUME NEW t \in Tickets, NEW v \in Users, NEW a, NEW fee, NEW r,
             v # u, tickets[t].status = "none",
             tickets' = [tickets EXCEPT ![t] = NewTicket(v, a, fee, r)]
      PROVE  TicketsOf(u)' = TicketsOf(u)
  <2>1. tickets[t].discord_id = Null
    BY <1>2 DEF IInv, RowsConsistent, NoTicket, NewTicket
  <2>2. NewTicket(v, a, fee, r).discord_id = v
    BY DEF NewTicket
  <2> QED
    BY <1>0, <1>1, <1>2, <2>1, <2>2
<1>3. ASSUME NEW t \in Withdraws, NEW v \in Users, NEW a \in Amounts, NEW r \in Regions,
             CreateWithdrawTicket(t, v, a, r)
      PROVE  TicketsOf(u)' = TicketsOf(u)
  BY <1>2, <1>3 DEF CreateWithdrawTicket, Tickets
<1>3a. ASSUME TicketsOf(u)' = TicketsOf(u), \A t \in Deposits : opening'[t] = u => opening[t] = u
       PROVE  Reach
  BY <1>3a DEF TicketsInReach
<1>3b. ASSUME TicketsOf(u)' = TicketsOf(u), opening' = opening PROVE Reach
  BY <1>3a, <1>3b
<1>3c. ASSUME NEW t \in Deposits, AbortDeposit(t) \/ \E v \in Users : BeginDeposit(t, v)
       PROVE  Reach
  <2>1. TicketsOf(u)' = TicketsOf(u)
    BY <1>3c DEF AbortDeposit, BeginDeposit, TicketsOf
  <2>2. \A x \in Deposits : opening'[x] = u => opening[x] = u
    BY <1>0, <1>3c DEF AbortDeposit, BeginDeposit, MayDeposit
  <2> QED
    BY <1>3a, <2>1, <2>2
<1>3d. ASSUME NEW t \in Deposits, NEW a \in Amounts, NEW r \in Regions,
              CreateDepositTicket(t, a, r)
       PROVE  Reach
  <2>1. /\ t \in Tickets /\ opening[t] \in Users /\ tickets[t].status = "none"
        /\ tickets' = [tickets EXCEPT ![t] = NewTicket(opening[t], a, 0, r)]
        /\ \A x \in Deposits : opening'[x] = u => opening[x] = u
    BY <1>0, <1>3d DEF CreateDepositTicket, Tickets
  <2>2. CASE opening[t] # u
    BY <1>2, <1>3a, <2>1, <2>2
  <2>3. CASE opening[t] = u
    <3>1. TicketsOf(u)' \subseteq TicketsOf(u) \cup {t} /\ TicketsOf(u) \subseteq TicketsOf(u)'
      BY <1>0, <2>1, <2>3 DEF TicketsOf, NewTicket
    <3>2. t \notin Withdraws
      BY DwAssumption
    <3> QED
      BY <2>1, <2>3, <3>1, <3>2 DEF TicketsInReach
  <2> QED
    BY <2>2, <2>3
<1>4. ASSUME NEW t \in Tickets, NEW s, SetStatus(t, s) PROVE TicketsOf(u)' = TicketsOf(u)
  <2>1. tickets' = [tickets EXCEPT ![t] = [tickets[t] EXCEPT !.status = s]]
    BY <1>0, <1>4 DEF SetStatus
  <2>2. [tickets[t] EXCEPT !.status = s].discord_id = tickets[t].discord_id
    BY <1>0 DEF TicketRows
  <2> QED
    BY <1>1, <2>1, <2>2
<1>5. ASSUME NEW t \in Tickets, NEW c \in Cashiers, ClaimTicket(t, c) \/ ReleaseTicket(t, c)
      PROVE  TicketsOf(u)' = TicketsOf(u)
  <2>1. ASSUME NEW s, NEW h,
               tickets' = [tickets EXCEPT ![t].status = s, ![t].claimed_by = h]
        PROVE  TicketsOf(u)' = TicketsOf(u)
    <3>1. tickets' = [tickets EXCEPT ![t] = [tickets[t] EXCEPT !.status = s, !.claimed_by = h]]
      BY <1>0, <2>1
    <3>2. [tickets[t] EXCEPT !.status = s, !.claimed_by = h].discord_id = tickets[t].discord_id
      BY <1>0 DEF TicketRows
    <3> QED
      BY <1>1, <3>1, <3>2
  <2> QED
    BY <1>5, <2>1 DEF ClaimTicket, ReleaseTicket, Reopen
<1>6. ASSUME NEW t \in Withdraws, NEW c \in Cashiers, ConfirmWithdraw(t, c)
      PROVE  TicketsOf(u)' = TicketsOf(u)
  <2>1. t \in Tickets /\ HandedOver(tickets[t]).discord_id = tickets[t].discord_id
    BY <1>0 DEF HandedOver, TicketRows, Tickets
  <2> QED
    BY <1>1, <1>6, <2>1 DEF ConfirmWithdraw
<1>7. ASSUME tickets' = tickets PROVE TicketsOf(u)' = TicketsOf(u)
  BY <1>7 DEF TicketsOf
<1>8. /\ \A t \in Deposits, c \in Cashiers :
           ConfirmDeposit(t, c) => TicketsOf(u)' = TicketsOf(u)
      /\ \A t \in Withdraws, byOwner \in BOOLEAN :
           CancelWithdraw(t, byOwner) => TicketsOf(u)' = TicketsOf(u)
  BY <1>4 DEF ConfirmDeposit, CancelWithdraw, Tickets
<1>9. ASSUME NEW t \in Deposits, CancelDeposit(t) PROVE TicketsOf(u)' = TicketsOf(u)
  BY <1>4, <1>9 DEF CancelDeposit, Tickets
<1> DEFINE Same == TicketsOf(u)' = TicketsOf(u) /\ opening' = opening
<1>9a. /\ \A t \in Deposits, c \in Cashiers : ConfirmDeposit(t, c) => Same
       /\ \A t \in Deposits : CancelDeposit(t) => Same
  BY <1>8, <1>9 DEF ConfirmDeposit, CancelDeposit
<1>9b. /\ \A t \in Withdraws, v \in Users, a \in Amounts, r \in Regions :
            CreateWithdrawTicket(t, v, a, r) => Same
       /\ \A t \in Withdraws, c \in Cashiers : ConfirmWithdraw(t, c) => Same
       /\ \A t \in Withdraws, byOwner \in BOOLEAN : CancelWithdraw(t, byOwner) => Same
  BY <1>3, <1>6, <1>8 DEF CreateWithdrawTicket, ConfirmWithdraw, CancelWithdraw
<1>9c. \A t \in Tickets, c \in Cashiers : ClaimTicket(t, c) \/ ReleaseTicket(t, c) => Same
  BY <1>5 DEF ClaimTicket, ReleaseTicket
<1>9d. ASSUME tickets' = tickets, opening' = opening PROVE Same
  BY <1>7, <1>9d
<1>9e. /\ \A c \in Cashiers, ch \in Characters, r \in Regions :
            AddCashierCharacter(c, ch, r) \/ RemoveCashierCharacter(c, ch, r) => Same
       /\ \A a \in Amounts : TreasurySweep(a) => Same
       /\ \A a \in Amounts, v \in Users : TreasuryWithdrawToUser(a, v) => Same
  BY <1>9d DEF AddCashierCharacter, RemoveCashierCharacter, TreasurySweep,
               TreasuryWithdrawToUser, dwVars
<1>9f. /\ \A t \in Tickets : OpenDispute(t) \/ RejectDispute(t) => Same
       /\ \A t \in Tickets, action \in Resolutions, a \in Amounts :
            ResolveDispute(t, action, a) => Same
       /\ \A v \in Users : BanUser(v) \/ UnbanUser(v) => Same
       /\ \A k, v : SetConfig(k, v) => Same
  BY <1>9d DEF OpenDispute, RejectDispute, ResolveDispute, BanUser, UnbanUser, SetConfig, dwVars
<1> HIDE DEF Same
<1>10. \/ Same
       \/ \E t \in Deposits : \/ AbortDeposit(t) \/ \E v \in Users : BeginDeposit(t, v)
                              \/ \E a \in Amounts, r \in Regions : CreateDepositTicket(t, a, r)
  BY <1>9a, <1>9b, <1>9c, <1>9e, <1>9f DEF Next
<1> HIDE DEF Reach
<1>11. Same => Reach
  BY <1>3b DEF Same
<1>12. Reach
  BY <1>3c, <1>3d, <1>10, <1>11
<1> QED
  BY <1>12 DEF Reach

\* No step lets a banned player past the ban check of apply_bet.
LEMMA CallsStep ==
  ASSUME LuckTypeOK, CasinoNext, NEW u \in banned
  PROVE  LockedCalls(u)' \subseteq LockedCalls(u)
<1> SUFFICES ASSUME NEW d \in Calls, placing'[d].at = "locked", placing'[d].user = u
             PROVE  placing[d].at = "locked" /\ placing[d].user = u
  BY DEF LockedCalls
<1> DEFINE Before == placing[d].at = "locked" /\ placing[d].user = u
<1>0. placing \in [Calls -> PendingCalls \cup {NoCall}] /\ NoCall.at = "none"
  BY DEF LuckTypeOK, NoCall
<1>1. ASSUME NEW c \in Calls, NEW v \in Users, NEW k \in Keys, NEW g \in Games,
             NEW a \in BetAmounts, BeginBet(c, v, k, g, a)
      PROVE  Before
  BY <1>0, <1>1 DEF BeginBet
<1>2. ASSUME NEW c \in Calls, LockBalance(c) PROVE Before
  <2>1. placing[c] \in PendingCalls /\ placing[c].user # u
    BY <1>0, <1>2 DEF LockBalance, MayBet
  <2>2. placing'[c].user = placing[c].user /\ \A x \in Calls \ {c} : placing'[x] = placing[x]
    BY <1>0, <1>2, <2>1 DEF LockBalance, PendingCalls
  <2> QED
    BY <2>1, <2>2
<1>3. ASSUME NEW c \in Calls, placing' = [placing EXCEPT ![c] = NoCall] PROVE Before
  BY <1>0, <1>3
<1>4. ASSUME placing' = placing PROVE Before
  BY <1>4
<1> HIDE DEF Before
<1>5. ASSUME LuckNext PROVE Before
  BY <1>1, <1>2, <1>3, <1>4, <1>5
     DEF LuckNext, PlaceBet, AbortBet, ResolveBet, CashoutMines, RefundBet, OpenPeriod,
         ClosePeriod, SetRake
<1>6. Before
  BY <1>4, <1>5 DEF CasinoNext, DwStep, LuckStep, luckVars
<1> QED
  BY <1>6 DEF Before

\* A bet that a banned player still gets uses up a call that was past the ban check.
LEMMA BetsReachStep ==
  ASSUME CasinoInv, CasinoNext, NEW u \in banned
  PROVE  BetsInReach(u)' <= BetsInReach(u)
<1>0. LuckTypeOK /\ bets \in [Bets -> BetRows \cup {NoBet}]
  BY DEF CasinoInv, LuckTypeOK
<1>1. LockedCalls(u)' \subseteq LockedCalls(u)
  BY <1>0, CallsStep
<1>2. IsFiniteSet(BetsOf(u)) /\ IsFiniteSet(LockedCalls(u))
  <2>1. BetsOf(u) \subseteq Bets /\ LockedCalls(u) \subseteq Calls
    BY DEF BetsOf, LockedCalls
  <2> QED
    BY <2>1, LuckAssumption, FS_Subset
<1>3. /\ Cardinality(BetsOf(u)) \in Nat /\ Cardinality(LockedCalls(u)) \in Nat
      /\ Cardinality(LockedCalls(u)') \in Nat
      /\ Cardinality(LockedCalls(u)') <= Cardinality(LockedCalls(u))
  BY <1>1, <1>2, FS_Subset, FS_CardinalityType
<1>4. CASE BetsOf(u)' = BetsOf(u)
  BY <1>3, <1>4 DEF BetsInReach
<1>5. ASSUME NEW c \in Calls, NEW b \in Bets, PlaceBet(c, b)
      PROVE  BetsInReach(u)' <= BetsInReach(u)
  <2> DEFINE row == NewBet(placing[c], ActivePeriod)
  <2>1. row.discord_id = placing[c].user /\ row.status = "open"
    BY DEF NewBet
  <2>2. /\ bets[b] = NoBet /\ bets' = [bets EXCEPT ![b] = row] /\ placing[c].at = "locked"
        /\ placing' = [placing EXCEPT ![c] = NoCall]
    BY <1>5 DEF PlaceBet
  <2> HIDE DEF row
  <2>3. row # NoBet
    BY <2>1 DEF NoBet
  <2>4. CASE placing[c].user # u
    <3>1. BetsOf(u)' = BetsOf(u)
      BY <1>0, <2>1, <2>2, <2>4 DEF BetsOf
    <3> QED
      BY <1>4, <3>1
  <2>5. CASE placing[c].user = u
    <3>1. BetsOf(u)' = BetsOf(u) \cup {b} /\ b \notin BetsOf(u)
      BY <1>0, <2>1, <2>2, <2>3, <2>5 DEF BetsOf
    <3>2. c \in LockedCalls(u) /\ c \notin LockedCalls(u)'
      BY <1>0, <2>2, <2>5 DEF LockedCalls, NoCall, LuckTypeOK
    <3>3. Cardinality(BetsOf(u)') = Cardinality(BetsOf(u)) + 1
      BY <1>2, <3>1, FS_AddElement
    <3>4. Cardinality(LockedCalls(u)') < Cardinality(LockedCalls(u))
      <4>1. LockedCalls(u)' # LockedCalls(u)
        BY <3>2
      <4>2. Cardinality(LockedCalls(u)') # Cardinality(LockedCalls(u))
        BY <1>1, <1>2, <4>1, FS_Subset
      <4> QED
        BY <1>3, <4>2
    <3> QED
      BY <1>3, <3>3, <3>4 DEF BetsInReach
  <2> QED
    BY <2>4, <2>5
<1>6. CASE \A b \in Bets : /\ bets'[b] = NoBet <=> bets[b] = NoBet
                           /\ bets[b] # NoBet => /\ bets'[b].discord_id = bets[b].discord_id
                                                 /\ bets'[b].key = bets[b].key
  <2>1. BetsOf(u)' = BetsOf(u)
    BY <1>6 DEF BetsOf
  <2> QED
    BY <1>4, <2>1
<1> QED
  BY <1>0, <1>5, <1>6, BetsStep

\* From the moment a ban is committed, at most the calls that had read the flag before
\* it, any number of them, open anything for the player with either bot, each one
\* deposit or one bet, and no withdraw is opened.
THEOREM BanHolds == CasinoSpec => BanOvertakenOnce
<1>1. CasinoInv /\ [CasinoNext]_casinoVars =>
        [\A u \in banned :
           /\ TicketsInReach(u)' \subseteq TicketsInReach(u)
           /\ TicketsOf(u)' \cap Withdraws = TicketsOf(u) \cap Withdraws
           /\ BetsInReach(u)' <= BetsInReach(u)]_casinoVars
  <2> SUFFICES ASSUME CasinoInv, CasinoNext, NEW u \in banned
               PROVE  /\ TicketsInReach(u)' \subseteq TicketsInReach(u)
                      /\ TicketsOf(u)' \cap Withdraws = TicketsOf(u) \cap Withdraws
                      /\ BetsInReach(u)' <= BetsInReach(u)
    OBVIOUS
  <2>1. CASE DwStep
    BY <2>1, TicketsStep, BetsReachStep DEF DwStep, CasinoInv
  <2>2. CASE LuckStep
    <3>1. TicketsOf(u)' = TicketsOf(u) /\ TicketsInReach(u)' = TicketsInReach(u)
      BY <2>2 DEF LuckStep, dwVars, TicketsOf, TicketsInReach
    <3> QED
      BY <3>1, BetsReachStep
  <2> QED
    BY <2>1, <2>2 DEF CasinoNext
<1> QED
  BY <1>1, CasinoStarts, CasinoStep, PTL DEF CasinoSpec, BanOvertakenOnce

-----------------------------------------------------------------------------
(* What the ledger promises, next to the bets.                             *)

\* A betting function leaves tickets, disputes, characters, statistics and
\* configuration alone.
LEMMA LuckLeavesTickets ==
  ASSUME LuckStep
  PROVE  UNCHANGED <<tickets, stats, StatusOf, HolderOf>>
BY DEF LuckStep, dwVars, StatusOf, HolderOf

\* A step of the two bots is a step of the ledger, or one that leaves the
\* tickets alone.
LEMMA LedgerOrBets ==
  ASSUME [CasinoNext]_casinoVars
  PROVE  [Next]_vars \/ UNCHANGED <<tickets, stats, StatusOf, HolderOf>>
BY LuckLeavesTickets DEF CasinoNext, DwStep, casinoVars, vars

\* The bets take nothing from the tickets' promise: next to any number of bets
\* too a ticket has one claimer at a time, is confirmed and released by its
\* claimer only, and its end is final.
THEOREM CasinoKeepsLifecycle == CasinoSpec => KeepsLifecycle
<1>1. CasinoInit => Lifecycle!Init
  BY DEF CasinoInit, Init, Lifecycle!Init, NoTicket, NewTicket
<1>2. CasinoInv /\ [CasinoNext]_casinoVars => [Lifecycle!Next]_<<StatusOf, HolderOf>>
  BY LedgerOrBets, LifecycleStep DEF CasinoInv
<1> QED
  BY <1>1, <1>2, CasinoStarts, CasinoStep, PTL
     DEF KeepsLifecycle, Lifecycle!Spec, CasinoSpec, StatusOf, HolderOf

\* No step of either bot touches the row of a finished ticket.
THEOREM CasinoFreezesTickets == CasinoSpec => TerminalRowsFrozen
<1>1. CasinoInv /\ [CasinoNext]_casinoVars => [\A t \in Tickets : FinishedRowKept(t)]_vars
  <2> SUFFICES ASSUME CasinoInv, [CasinoNext]_casinoVars
               PROVE  [\A t \in Tickets : FinishedRowKept(t)]_vars
    OBVIOUS
  <2>1. CASE [Next]_vars
    BY <2>1, FrozenStep DEF CasinoInv, IInv
  <2>2. CASE UNCHANGED <<tickets, stats, StatusOf, HolderOf>>
    BY <2>2 DEF FinishedRowKept
  <2> QED
    BY <2>1, <2>2, LedgerOrBets
<1> QED
  BY <1>1, CasinoStarts, CasinoStep, PTL DEF CasinoSpec, TerminalRowsFrozen

\* With bets in the same locked_balance and the same treasury a confirmed withdraw
\* still moves exactly the gold it was quoted, and nothing of any other player.
THEOREM CasinoHonoursQuotes == CasinoSpec => PayoutHonoursQuote
<1>1. CasinoInv /\ [CasinoNext]_casinoVars => [\A t \in Withdraws : HonoursQuote(t)]_vars
  <2> SUFFICES ASSUME CasinoInv, [CasinoNext]_casinoVars
               PROVE  [\A t \in Withdraws : HonoursQuote(t)]_vars
    OBVIOUS
  <2>1. CASE [Next]_vars
    BY <2>1, QuoteStep DEF CasinoInv
  <2>2. CASE UNCHANGED <<tickets, stats, StatusOf, HolderOf>>
    BY <2>2 DEF HonoursQuote, Becomes
  <2> QED
    BY <2>1, <2>2, LedgerOrBets
<1> QED
  BY <1>1, CasinoStarts, CasinoStep, PTL DEF CasinoSpec, PayoutHonoursQuote

\* A cashier's statistics are the tickets the cashier completed, and the rows of
\* tickets, disputes and accounts agree with one another, also while bets move the
\* balances of the same players.
THEOREM CasinoStatsAccurate == CasinoSpec => [](StatsMatchTickets /\ RowsConsistent)
<1>1. CasinoInit => StatsMatchTickets
  BY StatsStart DEF CasinoInit
<1>2. CasinoInv /\ StatsMatchTickets /\ [CasinoNext]_casinoVars => StatsMatchTickets'
  <2> SUFFICES ASSUME CasinoInv, StatsMatchTickets, [CasinoNext]_casinoVars
               PROVE  StatsMatchTickets'
    OBVIOUS
  <2>1. CASE [Next]_vars
    BY <2>1, StatsStep DEF CasinoInv
  <2>2. CASE UNCHANGED <<tickets, stats, StatusOf, HolderOf>>
    <3>1. ASSUME NEW c \in Cashiers PROVE StatsMatch(c)'
      <4>1. StatsMatch(c) /\ IInv
        BY DEF StatsMatchTickets, StatsMatch, CancelledOn, CasinoInv
      <4>2. stats'[c] = stats[c] /\ tickets' = tickets
        BY <2>2
      <4> QED
        BY <4>1, <4>2, StatsQuiet
    <3> QED
      BY <3>1 DEF StatsMatchTickets, StatsMatch, CancelledOn
  <2> QED
    BY <2>1, <2>2, LedgerOrBets
<1>3. CasinoInv => RowsConsistent
  BY DEF CasinoInv, IInv
<1> QED
  BY <1>1, <1>2, <1>3, CasinoStarts, CasinoStep, PTL DEF CasinoSpec

-----------------------------------------------------------------------------
(* What a step may do to bets and, next to the tickets, to balances.       *)

FinishedBetKept(b) == bets[b] # NoBet /\ bets[b].status # "open" => bets'[b] = bets[b]

\* A settled or refunded bet is never touched again, by a retry of resolve_bet,
\* refund_bet or cashout_mines or by any function of the other bot.
FinishedBetsFrozen == [][\A b \in Bets : FinishedBetKept(b)]_casinoVars

\* The step closes one open bet of the player, unlocks its stake and credits what
\* the bet then says it paid: the payout of its result, which the house covers, or
\* the whole amount of a refund.
BetPays(u) ==
  \E b \in Bets :
    /\ IsOpen(b) /\ bets[b].discord_id = u
    /\ locked'[u] = locked[u] - bets[b].stake
    /\ \/ /\ bets'[b].status \in Resolved
          /\ balance'[u] - balance[u] = CreditOf(bets[b], bets'[b].status, bets'[b].payout)
          /\ treasury' = treasury + HouseGain(bets[b], bets'[b].status, bets'[b].payout)
       \/ /\ bets'[b].status = "refunded"
          /\ balance'[u] - balance[u] = bets[b].amount

\* A player's spendable gold grows only by a ticket or payment of the ledger, or by
\* the end of one open bet of that player, by exactly that amount.
CasinoCreditsAccounted ==
  [][\A u \in Users : balance'[u] > balance[u] => CreditAccounted(u) \/ BetPays(u)]_casinoVars

\* Settling, cashing out and refunding write the row of one open bet.
LEMMA BetFrozenStep ==
  ASSUME LuckTypeOK, [CasinoNext]_casinoVars, NEW b \in Bets
  PROVE  FinishedBetKept(b)
<1>0. bets \in [Bets -> BetRows \cup {NoBet}]
  BY DEF LuckTypeOK
<1>1. ASSUME NEW x \in Bets, bets[x] = NoBet \/ IsOpen(x), NEW row,
             bets' = [bets EXCEPT ![x] = row]
      PROVE  FinishedBetKept(b)
  BY <1>0, <1>1 DEF IsOpen, FinishedBetKept
<1>2. ASSUME NEW x \in Bets, NEW s, NEW p, ResolveBet(x, s, p) PROVE FinishedBetKept(b)
  <2>1. IsOpen(x) /\ bets' = [bets EXCEPT ![x] = [bets[x] EXCEPT !.status = s, !.payout = p]]
    BY <1>0, <1>2 DEF ResolveBet
  <2> QED
    BY <1>1, <2>1
<1>3. ASSUME NEW x \in Bets, RefundBet(x) PROVE FinishedBetKept(b)
  <2>1. IsOpen(x) /\ bets' = [bets EXCEPT ![x] = [bets[x] EXCEPT !.status = "refunded"]]
    BY <1>0, <1>3 DEF RefundBet
  <2> QED
    BY <1>1, <2>1
<1>4. ASSUME NEW c \in Calls, NEW x \in Bets, PlaceBet(c, x) PROVE FinishedBetKept(b)
  BY <1>1, <1>4 DEF PlaceBet
<1>5. ASSUME NEW x \in Bets, NEW m \in Multipliers, CashoutMines(x, m) PROVE FinishedBetKept(b)
  BY <1>2, <1>5 DEF CashoutMines
<1>6. ASSUME bets' = bets PROVE FinishedBetKept(b)
  BY <1>6 DEF FinishedBetKept
<1>7. ASSUME LuckNext PROVE FinishedBetKept(b)
  BY <1>2, <1>3, <1>4, <1>5, <1>6, <1>7
     DEF LuckNext, BeginBet, LockBalance, AbortBet, OpenPeriod, ClosePeriod, SetRake
<1> QED
  BY <1>6, <1>7 DEF CasinoNext, DwStep, LuckStep, casinoVars, luckVars

\* A bet ends once, for any number of retries and of calls of either bot between.
THEOREM BetsEndOnce == CasinoSpec => FinishedBetsFrozen
<1>1. CasinoInv /\ [CasinoNext]_casinoVars => [\A b \in Bets : FinishedBetKept(b)]_casinoVars
  BY BetFrozenStep DEF CasinoInv
<1> QED
  BY <1>1, CasinoStarts, CasinoStep, PTL DEF CasinoSpec, FinishedBetsFrozen

\* The credit of a settled bet is the one its row records.
LEMMA ResolvePays ==
  ASSUME CasinoInv, NEW b \in Bets, NEW s \in Resolved, NEW p \in Nat, ResolveBet(b, s, p),
         NEW v \in Users, balance'[v] > balance[v]
  PROVE  BetPays(v)
<1>1. /\ IsOpen(b) /\ bets[b] \in BetRows /\ bets[b].discord_id \in Users
      /\ bets[b].stake \in Nat
  BY OpenBet DEF ResolveBet
<1>2. /\ balance \in [Users -> Nat] /\ locked \in [Users -> Nat]
      /\ bets \in [Bets -> BetRows \cup {NoBet}]
  BY DEF CasinoInv, IInv, TypeOK, AccountsTypeOK, LuckTypeOK
<1>3. bets'[b].status = s /\ bets'[b].payout = p
  BY <1>1, <1>2 DEF ResolveBet, BetRows
<1>4. CreditOf(bets[b], s, p) \in Nat
  BY <1>1 DEF CreditOf, Resolved
<1>5. v = bets[b].discord_id /\ balance'[v] - balance[v] = CreditOf(bets[b], s, p)
  BY <1>1, <1>2, <1>4 DEF ResolveBet, Credit
<1>6. /\ locked'[v] = locked[v] - bets[b].stake
      /\ treasury' = treasury + HouseGain(bets[b], s, p)
  BY <1>1, <1>2, <1>5 DEF ResolveBet
<1> QED
  BY <1>1, <1>3, <1>5, <1>6 DEF BetPays

\* The credit of a refund is the amount of the bet.
LEMMA RefundPays ==
  ASSUME CasinoInv, NEW b \in Bets, RefundBet(b), NEW v \in Users, balance'[v] > balance[v]
  PROVE  BetPays(v)
<1>1. /\ IsOpen(b) /\ bets[b] \in BetRows /\ bets[b].discord_id \in Users
      /\ bets[b].stake \in Nat /\ bets[b].amount \in Nat
  BY OpenBet DEF RefundBet
<1>2. /\ balance \in [Users -> Nat] /\ locked \in [Users -> Nat]
      /\ bets \in [Bets -> BetRows \cup {NoBet}]
  BY DEF CasinoInv, IInv, TypeOK, AccountsTypeOK, LuckTypeOK
<1>3. bets'[b].status = "refunded"
  BY <1>1, <1>2 DEF RefundBet, BetRows
<1>4. /\ v = bets[b].discord_id /\ balance'[v] - balance[v] = bets[b].amount
      /\ locked'[v] = locked[v] - bets[b].stake
  BY <1>1, <1>2 DEF RefundBet, Unwind, Credit
<1> QED
  BY <1>1, <1>3, <1>4 DEF BetPays

\* With the two bots on one balance, every credit of every player has one cause,
\* and is exactly the gold that the cause owes the player.
THEOREM CasinoCredits == CasinoSpec => CasinoCreditsAccounted
<1>1. CasinoInv /\ [CasinoNext]_casinoVars =>
        [\A u \in Users : balance'[u] > balance[u] => CreditAccounted(u) \/ BetPays(u)]_casinoVars
  <2> SUFFICES ASSUME CasinoInv, CasinoNext, NEW v \in Users, balance'[v] > balance[v]
               PROVE  CreditAccounted(v) \/ BetPays(v)
    OBVIOUS
  <2>0. balance \in [Users -> Nat]
    BY DEF CasinoInv, IInv, TypeOK, AccountsTypeOK
  <2>1. CASE DwStep
    <3>0. balance'[v] # balance[v]
      BY <2>0
    <3>1. vars' # vars
      BY <3>0 DEF vars, accounts
    <3> QED
      BY <2>1, <3>1, CreditStep DEF CasinoInv, DwStep
  <2>2. CASE LuckStep
    <3>1. ASSUME balance' = balance PROVE FALSE
      BY <2>0, <3>1
    <3>2. ASSUME NEW c \in Calls, NEW b \in Bets, PlaceBet(c, b) PROVE FALSE
      <4>1. placing[c].user \in Users /\ placing[c].amount \in Nat
        BY <3>2, PlacedRow DEF PendingCalls
      <4> QED
        BY <2>0, <3>2, <4>1 DEF PlaceBet
    <3>3. ASSUME NEW b \in Bets, NEW m \in Multipliers, CashoutMines(b, m) PROVE BetPays(v)
      <4>0. bets[b].stake \in Nat
        BY <3>3, OpenBet DEF CashoutMines
      <4>1. (bets[b].stake * m[1]) \div m[2] \in Nat /\ "resolved_win" \in Resolved
        BY <4>0, PayoutType DEF Resolved
      <4> QED
        BY <3>3, <4>1, ResolvePays DEF CashoutMines
    <3>4. ASSUME NEW b \in Bets, NEW s \in Resolved, NEW p \in Payouts, ResolveBet(b, s, p)
          PROVE  BetPays(v)
      BY <3>4, ResolvePays, LuckAssumption
    <3>5. ASSUME NEW b \in Bets, RefundBet(b) PROVE BetPays(v)
      BY <3>5, RefundPays
    <3> QED
      BY <2>2, <3>1, <3>2, <3>3, <3>4, <3>5
         DEF LuckStep, LuckNext, BeginBet, LockBalance, AbortBet, OpenPeriod, ClosePeriod, SetRake,
             accounts
  <2> QED
    BY <2>1, <2>2 DEF CasinoNext
<1> QED
  BY <1>1, CasinoStarts, CasinoStep, PTL DEF CasinoSpec, CasinoCreditsAccounted

=============================================================================
