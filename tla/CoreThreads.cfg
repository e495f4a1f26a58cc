SPECIFICATION BusyClientSpec
CONSTANTS
  w1 = w1
  w2 = w2
  Workers <- MCWorkers
  SecondsPerMinute = 1
  Paced = TRUE
  Faults <- AllFaults
CHECK_DEADLOCK FALSE
INVARIANT TypeOK
INVARIANT ReaderExclusion
INVARIANT BufferExclusion
INVARIANT NoJobOutlivesRefresh
INVARIANT NoLostWakeup
INVARIANT TopCacheFresh
INVARIANT ThreadInv
PROPERTY RatingsKeepComing
PROPERTY SleeperServesAgain
PROPERTY AnnouncedIsServed
