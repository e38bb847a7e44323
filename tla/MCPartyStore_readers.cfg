SPECIFICATION Spec
CONSTANTS
  c1 = c1
  c2 = c2
  t1 = t1
  t2 = t2
  t3 = t3
  d1 = d1
  d2 = d2
  Client = {c1, c2}
  Task <- MCThreeTasks
  Doc = {d1, d2}
  None = None
  Party <- MCParty
  Backend = "loki"
  Hydrated = {c2}
  FindDedup = TRUE
  Reader = {t2, t3}
  Writer <- MCWriter
  Remover = {t1, t3}
  Watcher = {t2}
  MaxWrites = 2
INVARIANTS RevisionNamesContent AliasIsCached
PROPERTIES FindComplete FindIsCurrent
CHECK_DEADLOCK FALSE
