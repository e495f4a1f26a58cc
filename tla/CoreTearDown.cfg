SPECIFICATION ThreadSpec
CONSTANTS
  w1 = w1
  w2 = w2
  Workers <- MCWorkers
  SecondsPerMinute = 1
  Paced = TRUE
  Faults <- DropsOut
CHECK_DEADLOCK FALSE
PROPERTY TearDownEnds
