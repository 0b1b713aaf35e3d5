SPECIFICATION CasinoSpec
CONSTANTS
  Users = {u1}
  Cashiers = {c1}
  Deposits = {d1}
  Withdraws = {w1}
  Characters = {ch}
  Regions = {eu}
  Amounts = {4, 8}
  SeedConfig <- MCSeedConfig
  FeeRates = {}
  Limits = {}
  Null = null
  Bets = {b1, b2}
  Keys = {k1, k2}
  Games = {"mines"}
  Commission <- MCCommission
  RakeRates = {0, 2500}
  BetAmounts = {4}
  Payouts = {3}
  Multipliers <- MCMultipliers
  Periods = {1}
  NoPeriod = 0
  Calls = {x1, x2}
CONSTRAINT MCNoDisputes
SYMMETRY MCSymmetry
INVARIANT CasinoTypeOK
INVARIANT CasinoConservation
INVARIANT LockedBacksBoth
INVARIANT ChargedOncePerKey
INVARIANT TotalsMatchBets
INVARIANT PoolBacksRakes
PROPERTY BanOvertakenOnce
