SPECIFICATION SmcSpec
CONSTANTS
  None = None
  Sides = {1}
  Prices <- MCPrices
  SetupPrices = {0}
  Distances = {10}
  Slips <- MCSlips
  Lots = {3}
  MaxLot = 3
  MaxTradesDay = 2
  MaxConsecLoss = 2
  Cooldown = 2
  ScanDeals = 3
  HistorySpan = 2
  DayLength = 2
  MaxTime = 3
  MaxEntries = 3
  MaxReloads = 1
PROPERTIES CooldownHolds AutomaticEntryIsFresh
