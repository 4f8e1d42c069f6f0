CONSTANTS
  k1 = k1
  k2 = k2
  k3 = k3
  NoConn = NoConn
  Conns <- ThreeConns
  Windows = FALSE
  MaxDescriptors = 2
  SendBuffer = 1
  Requesters <- ThreeConns
  MaxInbox = 1
SPECIFICATION Spec
INVARIANTS
  TypeOK
  ConnectionInv
  StopCompletesBeforeExit
  OnlyClosedPeersLeak
SYMMETRY ConnSymmetry
