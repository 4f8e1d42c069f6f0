--------------------------- MODULE MCConnections ---------------------------
(* Small instances of ServerConnections for TLC.                           *)
EXTENDS ConnectionProperties, TLC

CONSTANTS k1, k2, k3

NoConns    == {}
OneConn    == {k1}
TwoConns   == {k1, k2}
ThreeConns == {k1, k2, k3}

ConnSymmetry == Permutations(Conns)
=============================================================================
