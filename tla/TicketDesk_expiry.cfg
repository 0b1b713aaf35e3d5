SPECIFICATION FairSpec
CONSTANTS
  Cashiers = {}
  Deposits = {d1}
  Withdraws = {w1, w2}
  Null = null
PROPERTY ExpiredTicketsEnd
