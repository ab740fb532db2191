SPECIFICATION Spec
CONSTANTS
  Cfg <- MCCfg
  Meta <- MCMeta
  ClusterMembers <- MCClusterMembers
  UsdSymbols <- MCUsdSymbols
  NoStop = NoStop
  Ids = {"a", "b", "c", "d"}
  Intents <- MCIntents
  Accounts <- MCAccounts
  Books <- MCBooks
  Ticks <- MCTicks
  News <- MCNews
  MaxIds = 2
  KeepIds = 1
  StartClock = 2
  MaxClock = 8
INVARIANTS TypeOK RateSpacing ApprovedOnceUntilTrimmed
PROPERTY BreachBlocksOrders
