-------------------------- MODULE ConnectionProofs --------------------------
(***************************************************************************)
(* Proofs about ServerConnections for every number of connections, every   *)
(* descriptor limit and every buffer size: its types, the invariant of     *)
(* clients_ and the sockets, and what stop() has done when main() returns. *)
(***************************************************************************)
EXTENDS ConnectionProperties, TLAPS

LEMMA InitTypes == Init => TypeOK
<1>1. MaxInbox \in Nat /\ SendBuffer \in Nat
  BY ConnectionsAssumption DEF ConnectionsAssumption
<1>2. 0 \in 0 .. MaxInbox /\ 0 \in 0 .. SendBuffer
  BY <1>1
<1> SUFFICES ASSUME Init PROVE TypeOK
  OBVIOUS
<1>3. inbox \in [Conns -> 0 .. MaxInbox] /\ outbox \in [Conns -> 0 .. SendBuffer]
  BY <1>2 DEF Init
<1> QED
  BY <1>3 DEF Init, TypeOK

(* A send takes the buffer to its limit at most and can end the process.   *)
LEMMA SendTypes ==
    ASSUME TypeOK, NEW c \in Conns, Send(c)
    PROVE  /\ outbox' \in [Conns -> 0 .. SendBuffer]
           /\ process' \in {process, "killed"}
<1>1. /\ outbox[c] \in 0 .. SendBuffer
      /\ SendBuffer \in Nat
  BY ConnectionsAssumption DEF TypeOK, ConnectionsAssumption
<1> QED
  BY <1>1 DEF TypeOK, Send

LEMMA StepTypes == TypeOK /\ [Next]_vars => TypeOK'
<1> SUFFICES ASSUME TypeOK, [Next]_vars
             PROVE  TypeOK'
  OBVIOUS
<1> USE ConnectionsAssumption
    DEF ConnectionsAssumption, processVars, acceptVars, connVars, workerVars, peerVars
<1>1. CASE Start
  <2>1. /\ process' \in {"serving", "exited"} /\ running' \in BOOLEAN
        /\ listener' \in {"none", "open", "closed"}
        /\ acceptor' \in {"none", "loop", "call", "blocked", "add", "done"}
        /\ acceptor' = "add" => acceptor = "add"
    BY <1>1 DEF TypeOK, Start
  <2>2. UNCHANGED <<stopper, accepted, connVars, workerVars, peerVars>>
    BY <1>1 DEF Start
  <2> QED
    BY <2>1, <2>2 DEF TypeOK
<1>2. CASE StopSignals
  BY <1>2 DEF TypeOK, StopSignals
<1>3. CASE StopClosesListener
  BY <1>3 DEF TypeOK, StopClosesListener
<1>4. CASE StopJoins
  BY <1>4 DEF TypeOK, StopJoins
<1>5. CASE MainReturns
  BY <1>5 DEF TypeOK, MainReturns
<1>6. CASE AcceptLoop
  BY <1>6 DEF TypeOK, AcceptLoop, AcceptorUnchanged
<1>7. CASE CallAccept
  BY <1>7 DEF TypeOK, CallAccept, AcceptorUnchanged
<1>8. CASE AcceptFails
  BY <1>8 DEF TypeOK, AcceptFails, AcceptorUnchanged
<1>9. CASE AddClient
  BY <1>9 DEF TypeOK, AddClient
<1>10. CASE BroadcastStart
  BY <1>10 DEF TypeOK, BroadcastStart
<1>11. CASE BroadcastLocks
  BY <1>11 DEF TypeOK, BroadcastLocks
<1>12. CASE BroadcastSends
  BY <1>12, SendTypes DEF TypeOK, BroadcastSends
<1>13. CASE BroadcastEnd
  BY <1>13 DEF TypeOK, BroadcastEnd
<1>14. CASE \E c \in Conns : Accept(c)
  BY <1>14 DEF TypeOK, Accept
<1>15. CASE \E c \in Conns : HandlerLoop(c)
  BY <1>15 DEF TypeOK, HandlerLoop
<1>16. CASE \E c \in Conns : ReceiveRequest(c)
  BY <1>16 DEF TypeOK, ReceiveRequest
<1>17. CASE \E c \in Conns : ReceiveEnd(c)
  BY <1>17 DEF TypeOK, ReceiveEnd
<1>18. CASE \E c \in Conns : ReplyLocks(c)
  BY <1>18 DEF TypeOK, ReplyLocks
<1>19. CASE \E c \in Conns : Reply(c)
  BY <1>19, SendTypes DEF TypeOK, Reply
<1>20. CASE \E c \in Conns : RemoveClient(c)
  BY <1>20 DEF TypeOK, RemoveClient, SocketAfterDestruction
<1>21. CASE \E c \in Conns : BroadcastSkips(c)
  BY <1>21 DEF TypeOK, BroadcastSkips
<1>22. CASE \E c \in Conns : BroadcastChooses(c)
  BY <1>22 DEF TypeOK, BroadcastChooses
<1>23. CASE \E c \in Conns : Connect(c)
  BY <1>23 DEF TypeOK, Connect
<1>24. CASE \E c \in Conns : PeerSends(c)
  BY <1>24 DEF TypeOK, PeerSends
<1>25. CASE \E c \in Conns : PeerReads(c)
  BY <1>25 DEF TypeOK, PeerReads
<1>26. CASE \E c \in Conns : PeerCloses(c)
  BY <1>26 DEF TypeOK, PeerCloses
<1>27. CASE UNCHANGED vars
  BY <1>27 DEF TypeOK, vars
<1> QED
  BY <1>1, <1>2, <1>3, <1>4, <1>5, <1>6, <1>7, <1>8, <1>9, <1>10, <1>11, <1>12, <1>13, <1>14, <1>15, <1>16, <1>17, <1>18, <1>19, <1>20, <1>21, <1>22, <1>23, <1>24, <1>25, <1>26, <1>27
     DEF Next, StopStep, AcceptorStep, BroadcastStep, HandlerStep, PeerStep, Ended

(* Every variable keeps its type.                                         *)
THEOREM TypesAreCorrect == Spec => []TypeOK
<1>1. TypeOK /\ [Next]_vars => TypeOK'
  BY StepTypes
<1> QED
  BY InitTypes, <1>1, PTL DEF Spec

-----------------------------------------------------------------------------
(* clients_, the sockets and the worker's walk over them.                  *)

LEMMA StepConnections == TypeOK /\ ConnectionInv /\ [Next]_vars => ConnectionInv'
<1> SUFFICES ASSUME TypeOK, ConnectionInv, [Next]_vars
             PROVE  ConnectionInv'
  OBVIOUS
<1> USE DEF TypeOK, ConnectionInv, ListMatchesHandlers, SocketsInUseAreOpen,
            ConnectedMeansOpen, LiveHandlers,
            processVars, acceptVars, connVars, workerVars, peerVars
<1>1. CASE Start
  BY <1>1 DEF Start
<1>2. CASE StopSignals
  BY <1>2 DEF StopSignals
<1>3. CASE StopClosesListener
  BY <1>3 DEF StopClosesListener
<1>4. CASE StopJoins
  BY <1>4 DEF StopJoins
<1>5. CASE MainReturns
  BY <1>5 DEF MainReturns
<1>6. CASE AcceptLoop
  BY <1>6 DEF AcceptLoop, AcceptorUnchanged
<1>7. CASE CallAccept
  BY <1>7 DEF CallAccept, AcceptorUnchanged
<1>8. CASE AcceptFails
  BY <1>8 DEF AcceptFails, AcceptorUnchanged
<1>9. CASE AddClient
  BY <1>9 DEF AddClient
<1>10. CASE BroadcastStart
  BY <1>10 DEF BroadcastStart
<1>11. CASE BroadcastLocks
  BY <1>11 DEF BroadcastLocks
<1>12. CASE BroadcastSends
  BY <1>12 DEF BroadcastSends, Send
<1>13. CASE BroadcastEnd
  BY <1>13 DEF BroadcastEnd
<1>14. CASE \E c \in Conns : Accept(c)
  <2>1. PICK c \in Conns : Accept(c)
    BY <1>14
  <2> QED
    BY <2>1, ConnectionsAssumption
    DEF ConnectionsAssumption, TypeOK, ConnectionInv, ListMatchesHandlers, SocketsInUseAreOpen,
     ConnectedMeansOpen, LiveHandlers, processVars, acceptVars, connVars, workerVars, peerVars, Accept, Waiting
<1>15. CASE \E c \in Conns : HandlerLoop(c)
  BY <1>15 DEF HandlerLoop
<1>16. CASE \E c \in Conns : ReceiveRequest(c)
  BY <1>16 DEF ReceiveRequest
<1>17. CASE \E c \in Conns : ReceiveEnd(c)
  BY <1>17 DEF ReceiveEnd
<1>18. CASE \E c \in Conns : ReplyLocks(c)
  BY <1>18 DEF ReplyLocks
<1>19. CASE \E c \in Conns : Reply(c)
  BY <1>19 DEF Reply, Send
<1>20. CASE \E c \in Conns : RemoveClient(c)
  BY <1>20 DEF RemoveClient, SocketAfterDestruction
<1>21. CASE \E c \in Conns : BroadcastSkips(c)
  BY <1>21 DEF BroadcastSkips
<1>22. CASE \E c \in Conns : BroadcastChooses(c)
  BY <1>22 DEF BroadcastChooses
<1>23. CASE \E c \in Conns : Connect(c)
  BY <1>23 DEF Connect
<1>24. CASE \E c \in Conns : PeerSends(c)
  BY <1>24 DEF PeerSends
<1>25. CASE \E c \in Conns : PeerReads(c)
  BY <1>25 DEF PeerReads
<1>26. CASE \E c \in Conns : PeerCloses(c)
  BY <1>26 DEF PeerCloses
<1>27. CASE UNCHANGED vars
  BY <1>27 DEF vars
<1> QED
  BY <1>1, <1>2, <1>3, <1>4, <1>5, <1>6, <1>7, <1>8, <1>9, <1>10, <1>11, <1>12, <1>13, <1>14, <1>15, <1>16, <1>17, <1>18, <1>19, <1>20, <1>21, <1>22, <1>23, <1>24, <1>25, <1>26, <1>27
     DEF Next, StopStep, AcceptorStep, BroadcastStep, HandlerStep, PeerStep, Ended

-----------------------------------------------------------------------------
(* What stop() has done when main() returns.                               *)

LEMMA StepStop == ~Windows /\ StopInv /\ [Next]_vars => StopInv'
<1> SUFFICES ASSUME ~Windows, StopInv, [Next]_vars
             PROVE  StopInv'
  OBVIOUS
<1> USE DEF processVars, acceptVars, connVars, workerVars, peerVars
<1>1. CASE Start
  BY <1>1 DEF StopInv, Start
<1>2. CASE StopSignals
  BY <1>2 DEF StopInv, StopSignals
<1>3. CASE StopClosesListener
  BY <1>3 DEF StopInv, StopClosesListener
<1>4. CASE StopJoins
  BY <1>4 DEF StopInv, StopJoins
<1>5. CASE MainReturns
  BY <1>5 DEF StopInv, MainReturns
<1>6. CASE AcceptLoop
  BY <1>6 DEF StopInv, AcceptLoop, AcceptorUnchanged
<1>7. CASE CallAccept
  BY <1>7 DEF StopInv, CallAccept, AcceptorUnchanged
<1>8. CASE AcceptFails
  BY <1>8 DEF StopInv, AcceptFails, AcceptorUnchanged
<1>9. CASE AddClient
  BY <1>9 DEF StopInv, AddClient
<1>10. CASE BroadcastStart
  BY <1>10 DEF StopInv, BroadcastStart
<1>11. CASE BroadcastLocks
  BY <1>11 DEF StopInv, BroadcastLocks
<1>12. CASE BroadcastSends
  BY <1>12 DEF StopInv, BroadcastSends, Send
<1>13. CASE BroadcastEnd
  BY <1>13 DEF StopInv, BroadcastEnd
<1>14. CASE \E c \in Conns : Accept(c)
  BY <1>14 DEF StopInv, Accept
<1>15. CASE \E c \in Conns : HandlerLoop(c)
  BY <1>15 DEF StopInv, HandlerLoop
<1>16. CASE \E c \in Conns : ReceiveRequest(c)
  BY <1>16 DEF StopInv, ReceiveRequest
<1>17. CASE \E c \in Conns : ReceiveEnd(c)
  BY <1>17 DEF StopInv, ReceiveEnd
<1>18. CASE \E c \in Conns : ReplyLocks(c)
  BY <1>18 DEF StopInv, ReplyLocks
<1>19. CASE \E c \in Conns : Reply(c)
  BY <1>19 DEF StopInv, Reply, Send
<1>20. CASE \E c \in Conns : RemoveClient(c)
  BY <1>20 DEF StopInv, RemoveClient
<1>21. CASE \E c \in Conns : BroadcastSkips(c)
  BY <1>21 DEF StopInv, BroadcastSkips
<1>22. CASE \E c \in Conns : BroadcastChooses(c)
  BY <1>22 DEF StopInv, BroadcastChooses
<1>23. CASE \E c \in Conns : Connect(c)
  BY <1>23 DEF StopInv, Connect
<1>24. CASE \E c \in Conns : PeerSends(c)
  BY <1>24 DEF StopInv, PeerSends
<1>25. CASE \E c \in Conns : PeerReads(c)
  BY <1>25 DEF StopInv, PeerReads
<1>26. CASE \E c \in Conns : PeerCloses(c)
  BY <1>26 DEF StopInv, PeerCloses
<1>27. CASE UNCHANGED vars
  BY <1>27 DEF StopInv, vars
<1> QED
  BY <1>1, <1>2, <1>3, <1>4, <1>5, <1>6, <1>7, <1>8, <1>9, <1>10, <1>11, <1>12, <1>13, <1>14, <1>15, <1>16, <1>17, <1>18, <1>19, <1>20, <1>21, <1>22, <1>23, <1>24, <1>25, <1>26, <1>27
     DEF Next, StopStep, AcceptorStep, BroadcastStep, HandlerStep, PeerStep, Ended

-----------------------------------------------------------------------------
(* What stays open.                                                        *)

LEMMA StepLeak ==
    TypeOK /\ LeakInv /\ [Next]_vars => LeakInv'
<1> SUFFICES ASSUME TypeOK, LeakInv, [Next]_vars
             PROVE  LeakInv'
  OBVIOUS
<1> USE DEF LeakInv, OnlyClosedPeersLeak, SocketsDown,
            processVars, acceptVars, connVars, workerVars, peerVars
<1>1. CASE Start
  BY <1>1 DEF TypeOK, Start
<1>2. CASE StopSignals
  BY <1>2 DEF TypeOK, StopSignals
<1>3. CASE StopClosesListener
  BY <1>3 DEF TypeOK, StopClosesListener
<1>4. CASE StopJoins
  BY <1>4 DEF TypeOK, StopJoins
<1>5. CASE MainReturns
  BY <1>5 DEF TypeOK, MainReturns
<1>6. CASE AcceptLoop
  BY <1>6 DEF TypeOK, AcceptLoop, AcceptorUnchanged
<1>7. CASE CallAccept
  BY <1>7 DEF TypeOK, CallAccept, AcceptorUnchanged
<1>8. CASE AcceptFails
  BY <1>8 DEF TypeOK, AcceptFails, AcceptorUnchanged
<1>9. CASE AddClient
  BY <1>9 DEF TypeOK, AddClient
<1>10. CASE BroadcastStart
  BY <1>10 DEF TypeOK, BroadcastStart
<1>11. CASE BroadcastLocks
  BY <1>11 DEF TypeOK, BroadcastLocks
<1>12. CASE BroadcastSends
  BY <1>12 DEF TypeOK, BroadcastSends, Send
<1>13. CASE BroadcastEnd
  BY <1>13 DEF TypeOK, BroadcastEnd
<1>14. CASE \E c \in Conns : Accept(c)
  <2>1. PICK c \in Conns : Accept(c)
    BY <1>14
  <2> QED
    BY <2>1 DEF TypeOK, Accept
<1>15. CASE \E c \in Conns : HandlerLoop(c)
  BY <1>15 DEF TypeOK, HandlerLoop
<1>16. CASE \E c \in Conns : ReceiveRequest(c)
  BY <1>16 DEF TypeOK, ReceiveRequest
<1>17. CASE \E c \in Conns : ReceiveEnd(c)
  BY <1>17 DEF TypeOK, ReceiveEnd
<1>18. CASE \E c \in Conns : ReplyLocks(c)
  BY <1>18 DEF TypeOK, ReplyLocks
<1>19. CASE \E c \in Conns : Reply(c)
  BY <1>19 DEF TypeOK, Reply, Send
<1>20. CASE \E c \in Conns : RemoveClient(c)
  <2>1. PICK c \in Conns : RemoveClient(c)
    BY <1>20
  <2> QED
    BY <2>1 DEF TypeOK, RemoveClient, SocketAfterDestruction
<1>21. CASE \E c \in Conns : BroadcastSkips(c)
  BY <1>21 DEF TypeOK, BroadcastSkips
<1>22. CASE \E c \in Conns : BroadcastChooses(c)
  BY <1>22 DEF TypeOK, BroadcastChooses
<1>23. CASE \E c \in Conns : Connect(c)
  BY <1>23 DEF TypeOK, Connect
<1>24. CASE \E c \in Conns : PeerSends(c)
  BY <1>24 DEF TypeOK, PeerSends
<1>25. CASE \E c \in Conns : PeerReads(c)
  BY <1>25 DEF TypeOK, PeerReads
<1>26. CASE \E c \in Conns : PeerCloses(c)
  BY <1>26 DEF TypeOK, PeerCloses
<1>27. CASE UNCHANGED vars
  BY <1>27 DEF vars
<1> QED
  BY <1>1, <1>2, <1>3, <1>4, <1>5, <1>6, <1>7, <1>8, <1>9, <1>10, <1>11, <1>12, <1>13, <1>14, <1>15, <1>16, <1>17, <1>18, <1>19, <1>20, <1>21, <1>22, <1>23, <1>24, <1>25, <1>26, <1>27
     DEF Next, StopStep, AcceptorStep, BroadcastStep, HandlerStep, PeerStep, Ended

-----------------------------------------------------------------------------
(* clients_ holds the connections whose handlers run, and every socket in  *)
(* use is open, for any number of connections.                             *)
THEOREM ConnectionInvariant == Spec => []ConnectionInv
<1>1. Init => ConnectionInv
  BY DEF Init, ConnectionInv, ListMatchesHandlers, SocketsInUseAreOpen,
         ConnectedMeansOpen, LiveHandlers
<1> QED
  BY <1>1, StepConnections, TypesAreCorrect, PTL DEF Spec

(* Where the signal handler runs in main()'s thread, main() returns with   *)
(* the listening socket closed and the accepting thread joined.            *)
THEOREM StopIsComplete == ~Windows /\ Spec => []StopCompletesBeforeExit
<1>1. Init => StopInv
  BY DEF Init, StopInv
<1>2. StopInv => StopCompletesBeforeExit
  BY DEF StopInv, StopCompletesBeforeExit
<1> SUFFICES ASSUME ~Windows
             PROVE  Spec => []StopCompletesBeforeExit
  OBVIOUS
<1>3. StopInv /\ [Next]_vars => StopInv'
  BY StepStop
<1> QED
  BY <1>1, <1>2, <1>3, PTL DEF Spec

(* A socket that is left open is that of a peer that has closed, however   *)
(* handlers, broadcasts and stop() interleave.                             *)
THEOREM OnlyClosedPeersLeakSockets == Spec => []OnlyClosedPeersLeak
<1>1. Init => LeakInv
  BY DEF Init, LeakInv, OnlyClosedPeersLeak
<1>2. LeakInv => OnlyClosedPeersLeak
  BY DEF LeakInv
<1> QED
  BY <1>1, <1>2, StepLeak, TypesAreCorrect, PTL DEF Spec
=============================================================================
