SPECIFICATION FairSpec
CONSTANTS
  Tasks = {t1, t2}
  Threshold = 2
  MaxAttempts = 1
INVARIANTS
  CircuitInv
  OneOrderPerStore
  StopKept
PROPERTIES
  HealthKept
  Recovers
