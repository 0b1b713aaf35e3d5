SPECIFICATION Spec
CONSTANTS
  Users = {u1}
  Cashiers = {c1, c2}
  Deposits = {d1, d2}
  Withdraws = {w1}
  Characters = {ch}
  Regions = {eu}
  Amounts = {1}
  SeedConfig <- MCSeedConfig
  FeeRates = {}
  Limits = {1}
  Null = null
SYMMETRY MCSymmetry
INVARIANT StatsMatchTickets
PROPERTY TerminalRowsFrozen
PROPERTY KeepsLifecycle
