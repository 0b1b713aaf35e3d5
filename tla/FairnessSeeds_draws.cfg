SPECIFICATION Spec
CONSTANTS
  Users = {u1, u2}
  ClientSeeds = {"lucky"}
  Drawers = {d1, d2}
  Callers = {c1}
  HeadLen = 2
  VerifierLen = 4
  Requests <- MCRequests
  Grids = {1, 2, 3, 4, 5}
  Cards = 2
  Decks = {1, 2}
  MaxSeeds = 3
  MaxNonce = 2
  MaxCrashes = 1
  MaxDraws = 2
  MaxForced = 2
  MaxLost = 1
SYMMETRY MCSymmetry
INVARIANT NoncesAccounted
INVARIANT DrawsReproducible
INVARIANT RotationsAudited
INVARIANT OutcomesFair
