SPECIFICATION FairSpec
CONSTANTS
  Cashiers = {c1, c2}
  Players = {c1, c2}
  MaxCalls = 2
INVARIANT OnlineHasSession
PROPERTY IdleCashiersLeave
