SPECIFICATION Spec
CONSTANTS
  TicksPerSecond = 6
  SecondsPerMinute = 3
  MinutesPerWeek = 4
  FirstMonday = 18
  Latency = 2
  MaxRecalculation = 0
  Horizon = 270
INVARIANT TickerInSync
