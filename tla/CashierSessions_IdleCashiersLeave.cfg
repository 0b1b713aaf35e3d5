SPECIFICATION FairSpec
CONSTANTS
  Cashiers = {c1, c2}
  Players = {c1}
  MaxCalls = 1
PROPERTY IdleCashiersLeave
