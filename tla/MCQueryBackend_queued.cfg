SPECIFICATION TimedSpec
CONSTANTS
  c1 = c1
  c2 = c2
  c3 = c3
  s1 = s1
  None = None
  Call <- MCCall3
  Spec <- MCOneSpec
  Debounce = TRUE
  FindDedup = TRUE
  TimeoutSet = TRUE
  Faults <- AllFaults
INVARIANTS TimerCovered FindMapSound NoLeak ResolvedOnAnswer
PROPERTIES ImplementsRequests EveryCallSettles
CHECK_DEADLOCK FALSE
