SPECIFICATION Spec
CONSTANTS
  c1 = c1
  c2 = c2
  s1 = s1
  s2 = s2
  Conn <- MCConn
  StopCall <- MCStopCall
  MaxTimer = 1
INVARIANTS StoppedIsGone TerminatedOwesPong
PROPERTY VanishedIsDropped
CHECK_DEADLOCK FALSE
