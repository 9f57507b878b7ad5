CONSTANTS
  n1 = n1
  n2 = n2
  n3 = n3
  u1 = u1
  u2 = u2
  u3 = u3
  v1 = v1
  v2 = v2
  g1 = g1
  g2 = g2
  None = None
  Numbers <- ThreeNumbers
  Uids <- ThreeUids
  Versions <- TwoVersions
  Generated <- TwoPasswords
  Kinds <- AllKinds
  MaxEvents = 4
  MaxCrashes = 2
SPECIFICATION Spec
SYMMETRY Interchangeable
INVARIANT TypeOK
INVARIANT MirrorsGuru3
INVARIANT OmmUsersAreUsable
INVARIANT CacheMatchesOmm
INVARIANT NoHandlerRaises
PROPERTY CallgroupReflectsEvent
CHECK_DEADLOCK FALSE
