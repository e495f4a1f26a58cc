SPECIFICATION Spec
CONSTANTS
  w1 = w1
  w2 = w2
  Workers <- MCWorkers
  SecondsPerMinute = 1
  Paced = TRUE
  Faults <- Refusals
CHECK_DEADLOCK FALSE
INVARIANT RefusedHandshakeRecovers
