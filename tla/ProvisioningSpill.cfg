CONSTANTS
  n1 = n1
  n2 = n2
  n3 = n3
  u1 = u1
  u2 = u2
  u3 = u3
  v1 = v1
  v2 = v2
  g1 = g1
  g2 = g2
  None = None
  Numbers <- TwoNumbers
  Uids <- TwoUids
  Versions <- TwoVersions
  Generated <- TwoPasswords
  Kinds <- DectKinds
  MaxEvents = 4
  MaxCrashes = 0
SPECIFICATION Spec
SYMMETRY Interchangeable
INVARIANT NothingSpills
CHECK_DEADLOCK FALSE
