SPECIFICATION Spec
CONSTANTS
  Runs = {r1, r2}
  Modes = {"local_process"}
  MaxConcurrency = 1
  RecoveryBatchSize = 1
  ReliableHeartbeat = TRUE
  MaxRestarts = 0
  MaxCancels = 2
INVARIANTS
  CanceledBeforeStartDoesNotSucceed
CHECK_DEADLOCK FALSE
