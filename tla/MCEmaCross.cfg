SPECIFICATION Spec
CONSTANTS
  Filter = {"EURUSD"}
  Foreign = {"XAUUSD"}
  Mids <- MCMids
  FastPeriod = 7
  SlowPeriod = 15
  Warmup = 5
  Window = 6
  PerMs = 4
  MaxTicks = 10
  MaxTime = 2
  MaxRestarts = 1
INVARIANTS SignalsAlternate IdsNeverRecur SignalsAsDefined
\* The ticks of the model are used up.
CHECK_DEADLOCK FALSE
