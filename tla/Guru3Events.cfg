CONSTANTS
  MaxEvents = 5
  MaxCrashes = 2
  MaxLostReports = 2
  Poison <- LastPoison
  GreetsOnConnect = TRUE
SPECIFICATION FairSpec
INVARIANT TypeOK
INVARIANT ReportedWasApplied
INVARIANT KnownIsNotLost
INVARIANT NoSecondHandling
INVARIANT NothingBeforeLogin
PROPERTY HandledInOrder
PROPERTY ImplementsDelivery
PROPERTY EveryEventApplied
CHECK_DEADLOCK FALSE
