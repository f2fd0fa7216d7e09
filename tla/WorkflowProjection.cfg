SPECIFICATION Spec
CONSTANTS
  Writes = {w1, w2}
  Sources <- MCSources
  AnchorWindow = 2
  CandidateWindow = 12
  MaxCandidates = 3
  MaxRows = 7
  MaxOpened = 1
  MaxCrashes = 1
INVARIANTS WorkflowTypeOK PromotionIsBacked RecurrenceIsCounted
PROPERTIES ImplementsLifecycle
CHECK_DEADLOCK FALSE
