CONSTANTS
  Handsets = {d1}
  Temps = {t1}
  Extensions = {e1}
  None = None
  MaxCalls = 1
  MaxEvents = 1
  MaxDepartures = 0
  MaxCrashes = 0
SPECIFICATION Spec
INVARIANT DiscardedOnlyWithoutPP
CHECK_DEADLOCK FALSE
