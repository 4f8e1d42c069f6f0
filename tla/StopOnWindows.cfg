CONSTANTS
  k1 = k1
  k2 = k2
  k3 = k3
  NoConn = NoConn
  Conns <- OneConn
  Windows = TRUE
  MaxDescriptors = 1
  SendBuffer = 1
  Requesters <- NoConns
  MaxInbox = 0
SPECIFICATION Spec
INVARIANTS
  StopCompletesBeforeExit
