CONSTANTS
  Handsets = {d1, d2}
  Temps = {t1, t2, t3}
  Extensions = {e1}
  None = None
  MaxCalls = 2
  MaxEvents = 1
  MaxDepartures = 1
  MaxCrashes = 1
SPECIFICATION FairSpec
INVARIANT TypeOK
INVARIANT OrphansHaveACause
INVARIANT CacheKnowsTempUser
PROPERTY ImplementsHandsetLife
PROPERTY EveryHandsetCanCall
CHECK_DEADLOCK FALSE
