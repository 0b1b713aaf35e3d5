SPECIFICATION ThreadFairSpec
CONSTANTS
  Cashiers = {c1, c2}
  Deposits = {}
  Withdraws = {w1}
  Null = null
INVARIANT ThreadTellsOneStory
PROPERTY KeepsLifecycle
PROPERTY WorkerNeverStealsClaim
PROPERTY IdleClaimsEnd
PROPERTY ExpiredTicketsEnd
