SPECIFICATION FairSpec
CONSTANTS
  Concurrency = 2
  Ids <- ClientIds
  MaxPromises = 3
  MaxErrors = 1
  MaxUsers = 1
  MaxEpoch = 1
INVARIANT TypeOK
INVARIANT JobsAreConserved
INVARIANT RatingsInOrder
INVARIANT AnnouncedInTheMinute
PROPERTY PromisesAreAnswered
INVARIANT DeliveryInv
