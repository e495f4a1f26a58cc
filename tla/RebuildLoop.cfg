SPECIFICATION Spec
CONSTANTS
  UserIds <- FourUsers
  Winnings = {1, 2, 3}
  DealAmounts = {1, 2}
CHECK_DEADLOCK FALSE
INVARIANT PatchesFit
INVARIANT TailIsFinal
INVARIANT RebuildIsReference
