SPECIFICATION Spec
CONSTANTS
  Runs = {r1, r2, r3}
  Modes = {"local_process"}
  MaxConcurrency = 2
  RecoveryBatchSize = 1
  ReliableHeartbeat = FALSE
  MaxRestarts = 1
  MaxCancels = 0
SYMMETRY RunSymmetry
INVARIANTS
  PoolConsistent
  NoLostWakeup
  StartedAtMostOnce
CHECK_DEADLOCK FALSE
