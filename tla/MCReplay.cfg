SPECIFICATION Spec
CONSTANTS
  Cfg <- MCCfg
  Meta <- MCMeta
  ClusterMembers <- MCClusterMembers
  UsdSymbols <- MCUsdSymbols
  NoStop = NoStop
  Ids = {a, b, c, d}
  Intents <- MCIntents
  Ticks <- MCTicks
  StartEquity = 20000
  CommissionRate = 7
  SlipBase = 1
  MaxIds = 10
  KeepIds = 5
  Now = 1
  MaxTicks = 5
SYMMETRY IdSymmetry
INVARIANTS EquityBalances EachApprovalOnePosition AtMostMaxOpen StopsAreKept
PROPERTY EntryKeepsCaps
\* A replay ends.
CHECK_DEADLOCK FALSE
