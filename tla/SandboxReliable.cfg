SPECIFICATION LiveSpec
CONSTANTS
  Runs = {r1, r2}
  Modes = {"mock", "local_process", "http_remote"}
  MaxConcurrency = 1
  RecoveryBatchSize = 1
  ReliableHeartbeat = TRUE
  MaxRestarts = 1
  MaxCancels = 1
INVARIANTS
  TelemetryAgrees
  KilledRunEndsCanceled
PROPERTIES
  ImplementsLifecycle
  RunningEventuallyFinishes
  AcceptedEventuallyFinishes
CHECK_DEADLOCK FALSE
