SPECIFICATION Spec
CONSTANTS
  Concurrency = 2
  Ids <- ClientIds
  MaxPromises = 2
  MaxErrors = 0
  MaxUsers = 0
  MaxEpoch = 0
INVARIANT FramesAreWhole
