SPECIFICATION Spec
CONSTANTS
  NoOrder = NoOrder
  Orders = {o1, o2}
  MaxConn = 3
  MaxCrashes = 1
  MaxTicks = 1
  MaxOpen = 1
  AllowExecution = TRUE
  JournalMayFail = TRUE
  PositionsDue = {FALSE}
  MaySkip = FALSE
INVARIANTS ExecutedOnce JournalTruth HandlerIsLatest
PROPERTY LedgerSpec
CHECK_DEADLOCK FALSE
SYMMETRY OrderSymmetry
