SPECIFICATION Spec
CONSTANTS
  p1 = p1
  p2 = p2
  u1 = u1
  u2 = u2
  u3 = u3
  h1 = h1
  h2 = h2
  run = run
  d = d
  e = e
  Project <- MCProject
  Version <- MCVersion
  Domain <- MCDomain
  System <- MCSystem
  Genuine <- MCGenuine
  Call <- MCCall
  Handler <- MCHandler
  Run <- run
  MaxCrash = 1
INVARIANTS RoutedIsRunning OneVersionActive ConfiguredIsStored
CHECK_DEADLOCK FALSE
