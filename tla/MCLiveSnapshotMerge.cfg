SPECIFICATION Spec
CONSTANTS
  NoOrder = NoOrder
  Orders = {o1, o2}
  MaxConn = 2
  MaxCrashes = 0
  MaxTicks = 1
  MaxOpen = 2
  AllowExecution = TRUE
  JournalMayFail = FALSE
  PositionsDue = {TRUE, FALSE}
  MaySkip = FALSE
INVARIANT SnapshotComplete
CHECK_DEADLOCK FALSE
