SPECIFICATION Spec
CONSTANTS
  Users = {u1, u2}
  Cashiers = {c1}
  Deposits = {d1}
  Withdraws = {w1, w2}
  Characters = {ch}
  Regions = {eu}
  Amounts = {1, 2}
  SeedConfig <- MCSeedConfig
  FeeRates = {0}
  Limits = {}
  Null = null
SYMMETRY MCSymmetry
INVARIANT TypeOK
INVARIANT RowsConsistent
INVARIANT Conservation
INVARIANT LockedBacksWithdraws
PROPERTY CreditsAccounted
PROPERTY PayoutHonoursQuote
