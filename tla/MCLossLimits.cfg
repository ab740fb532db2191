SPECIFICATION Spec
CONSTANTS
  Cfg <- MCCfg
  Meta = Unused
  ClusterMembers = Unused
  UsdSymbols = Unused
  NoStop = Unused
  StartBalance = 100
  Results <- MCResults
  Floats <- MCFloats
  MaxConn = 3
  MaxLines = 2
  MaxDay = 2
  MaxResults = 2
  MaxOrders = 1
  MaxRestarts = 1
PROPERTIES NoOrderPastLoss NoOrderUntold ArmedForCause
