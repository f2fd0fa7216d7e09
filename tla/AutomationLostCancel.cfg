SPECIFICATION AutomationSpec
CONSTANTS
  Nodes = {1, 2, 3, 4}
  Graphs = {}
  Drafts = {}
  Submitted <- MCSubmitted
  MaxCancels = 1
  MaxCrashes = 0
  MaxVersion = 1
  ReplayMayThrow = FALSE
PROPERTY CancelledStaysCancelled
CHECK_DEADLOCK FALSE
