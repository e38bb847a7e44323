SPECIFICATION Spec
CONSTANTS
  a = a
  b = b
  i1 = i1
  i2 = i2
  o1 = o1
  None = None
  Param = {a, b}
  Leaf <- MCLeaf
  Id = {i1, i2}
  IdList <- MCIdList
  Owner = {o1}
  Document <- MCDocument
  MaxCalls = 5
INVARIANTS TreeIsParse AskedIsMeant
CHECK_DEADLOCK FALSE
