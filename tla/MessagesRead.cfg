SPECIFICATION Spec
CONSTANTS
  TopPositions = 10
  CompetitionDistance = 10
  Entries <- AllEntries
  Ratings <- LengthenedRatings
  Ids = {1}
  InvalidId <- NoId
INVARIANT CacheKept
INVARIANT PackIsRead
INVARIANT PlacesAgree
