SPECIFICATION Spec
CONSTANTS
  Tick <- MCTick
  Day = {1, 2}
  DayOf <- MCDayOf
  NoDay = NoDay
  FlushEvery = 2
  MaxTicks = 3
  Header <- MCHeader
  Row <- MCRow
  Symbol = "EURUSD"
  Unreadable = Unreadable
  NaN = NaN
  BatchSize = 2
  MaxRows = 4
  Sizes <- MCSizes
  Fasts <- MCFasts
  Slows <- MCSlows
  Outcomes <- MCOutcomes
  Objectives = {"total_pnl", "trade_sharpe"}
  NoRatio = NoRatio
  NegInf = NegInf
  Source = {"recorder", "csv"}
INVARIANTS DayFilesPure EachTickKeptOnce EachRowIngested EachTickTestedOnce NoLookAhead BestIsBest
PROPERTIES TornFileEndsRecording WalkEnds
\* A backtest ends.
CHECK_DEADLOCK FALSE
