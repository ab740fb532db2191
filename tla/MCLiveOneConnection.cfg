SPECIFICATION FairSpec
CONSTANTS
  NoOrder = NoOrder
  Orders = {o1, o2, o3}
  MaxConn = 1
  MaxCrashes = 0
  MaxTicks = 1
  MaxOpen = 2
  AllowExecution = TRUE
  JournalMayFail = FALSE
  PositionsDue = {TRUE, FALSE}
  MaySkip = TRUE
INVARIANTS SnapshotAsListed ReplyFindsRow
PROPERTY SubmittedSettles
CHECK_DEADLOCK FALSE
