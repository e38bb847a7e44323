SPECIFICATION PartySpec
CONSTANTS
  t1 = t1
  t2 = t2
  d1 = d1
  d2 = d2
  Nil = Nil
  Task = {t1, t2}
  Doc = {d1, d2}
  Backends = {"loki", "tingo", "zango"}
  MaxCalls = 5
  MaxCrashes = 1
SYMMETRY MCSymmetry
INVARIANTS AckedStands IdentityComesBack
PROPERTY OnlyCreatesBringBack
CHECK_DEADLOCK FALSE
