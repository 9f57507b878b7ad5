CONSTANTS
  MaxEvents = 2
  MaxCrashes = 0
  MaxLostReports = 1
  Poison <- NoEvents
  GreetsOnConnect = TRUE
SPECIFICATION FairSpec
PROPERTY EveryEventReported
CHECK_DEADLOCK FALSE
