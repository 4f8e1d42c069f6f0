CONSTANTS
  k1 = k1
  k2 = k2
  k3 = k3
  NoConn = NoConn
  Conns <- TwoConns
  Windows = FALSE
  MaxDescriptors = 2
  SendBuffer = 1
  Requesters <- OneConn
  MaxInbox = 1
SPECIFICATION ReadingPeersSpec
PROPERTIES
  QueuedPeersAreServed
  StopWaitsForAcceptOnly
