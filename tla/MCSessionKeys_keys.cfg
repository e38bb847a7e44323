SPECIFICATION FairKeysSpec
CONSTANTS
  k1 = k1
  k2 = k2
  a1 = a1
  r1 = r1
  r2 = r2
  r3 = r3
  Key <- MCKey
  Actor <- MCActor
  Request <- MCRequest
  Annoucement <- MCAnnoucement
  MaxTime = 4
  Tolerance = 1
  MaxAge = 2
CHECK_DEADLOCK FALSE
INVARIANT AnnouncedIsUsable
PROPERTY ExpiredIsRemoved
