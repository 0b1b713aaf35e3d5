SPECIFICATION FairSpec
CONSTANTS
  Writers = {w1, w2}
  Verifiers = {worker, admin}
  Worker = worker
  MaxRows = 2
  MaxId = 3
  MaxDamage = 2
INVARIANT NoFalseAlarm
INVARIANT NothingSkipped
PROPERTY EveryRowVerified
PROPERTY AlterationReported
