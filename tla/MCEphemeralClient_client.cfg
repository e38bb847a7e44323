SPECIFICATION ClientFairSpec
CONSTANTS
  c1 = c1
  c2 = c2
  Conn <- MCConn
  NoConn = NoConn
  MaxKeys = 3
  MaxTime = 6
  MAX_SESSION_AGE = 3
  SESSION_ROLL_AGE = 2
CHECK_DEADLOCK FALSE
INVARIANT AnnouncedFirst
PROPERTY LostIsRetried
