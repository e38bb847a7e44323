SPECIFICATION Spec
CONSTANTS
  c1 = c1
  k1 = k1
  k2 = k2
  Conn = {c1}
  Call = {k1, k2}
  Target <- MCTarget
INVARIANTS UnauthedIsTimed ServedWereAllowed HandshakeAgrees
PROPERTIES AuthorizedSettles
CHECK_DEADLOCK FALSE
