SPECIFICATION Spec
CONSTANTS
  p1 = p1
  p2 = p2
  doc = doc
  chat = chat
  o1 = o1
  o2 = o2
  o3 = o3
  o4 = o4
  change = change
  None = None
  Peer <- MCPeer
  Topic <- MCTopic
  Document = {doc}
  Routed = {doc}
  Granted <- MCGranted
  Op <- MCFour
  Change = {change}
  SendThrows = TRUE
SYMMETRY Interchangeable
INVARIANTS NodesAgree OnlyGranted AnsweredIsWritten
PROPERTIES ImplementsPubSub
CHECK_DEADLOCK FALSE
