SPECIFICATION ClientSpec
CONSTANTS
  UserIds <- TwoUsers
  FakeIds = {2}
  Names = {alice}
  SecondsPerMinute = 2
  DealAmounts = {1, 2}
  MaxEntries = 3
  OtherEntries = 2
  MaxAmount = 2
  MaxPromises = 1
INVARIANT RegisteredAreRecognized
