SPECIFICATION Spec
CONSTANTS
  TicksPerSecond = 6
  SecondsPerMinute = 3
  MinutesPerWeek = 4
  FirstMonday = 18
  Latency = 2
  MaxRecalculation = 1
  Horizon = 270
INVARIANT TypeOK
INVARIANT OldDealsExpire
INVARIANT DealsCountAllWeek
INVARIANT DealsCountSoon
INVARIANT MinutesAreRegular
PROPERTY OnceAMinute
INVARIANT PaceInv
