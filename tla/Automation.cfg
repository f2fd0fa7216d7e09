SPECIFICATION LiveAutomation
CONSTANTS
  Nodes = {1, 2, 3, 4}
  Graphs = {}
  Drafts <- MCDrafts
  Submitted <- MCSubmitted
  MaxCancels = 2
  MaxCrashes = 2
  MaxVersion = 3
  ReplayMayThrow = TRUE
INVARIANTS ApprovalsAreGiven ResumedGraphIsTheSame ValidationIsRight
PROPERTIES StartsAfterDependencies NothingStartsAfterCancel RunSettles
CHECK_DEADLOCK FALSE
