SPECIFICATION FairSpec
CONSTANTS
  SkipFirst = 0
  MaxInsertions = 2
  MaxFaults = 1
  MaxData = 5
  PinLimits <- Limits
  Radix = 3
INVARIANTS
  HandleIsKnown
  DataOfKnownCard
  GoneIsGone
  PinReachesCard
  PaceIsParsed
PROPERTIES
  Answered
  InsertionIsTold
CHECK_DEADLOCK FALSE
