SPECIFICATION Spec
CONSTANTS
  Users = {u1, u2}
  Threads = {h1, h2}
  Capacity = 1
  Window = 2
  MaxTime = 4
  Null = null
INVARIANT TicketsReachable
INVARIANT GrantsWithinLimit
