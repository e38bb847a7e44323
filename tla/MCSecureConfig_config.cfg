SPECIFICATION Spec
CONSTANTS
  a = a
  b = b
  c = c
  d = d
  e = e
  x = x
  y = y
  None = None
  Task <- MCFiveTasks
  Key = {x, y}
  Password <- Passwords
  Timed = TRUE
  IncludeActivity = TRUE
  AnyTime = {FALSE, TRUE}
SYMMETRY Interchangeable
INVARIANTS BlockedIsWaiting MemoryIsStored
PROPERTIES OnlyAFailedUnlockDisarms UnlockUnlocks
CHECK_DEADLOCK FALSE
