CONSTANTS
  Names = {"user", "pp", "e"}
  Values = {v, w, nil}
  Empty = nil
  MaxChildren = 3
  MaxElements = 4
SPECIFICATION Spec
INVARIANT NothingMixedUp
INVARIANT FormTellsNumber
INVARIANT RoundTrip
CHECK_DEADLOCK FALSE
