--------------------------- MODULE ExchangeProofs ---------------------------
(***************************************************************************)
(* Proofs about ExchangeConnection, for any number of callers, products    *)
(* and connects: its types, the invariant of owner and threads, and that   *)
(* it implements FeedSession.                                              *)
(***************************************************************************)
EXTENDS ExchangeProperties, TLAPS

USE DEF feedVars, clientVars, threadVars, wireVars, countVars

(* The steps of the other threads and of the connection leave the owner's  *)
(* view alone.                                                             *)
LEMMA OthersLeaveOwner ==
    ASSUME WorkerStep \/ PingerStep \/ (\E c \in Callers : CallerStep(c)) \/ WireStep
    PROVE  UNCHANGED <<owner, feedConnected, told, clientVars, listener, countVars>>
<1>1. CASE WorkerStep
  BY <1>1 DEF WorkerStep, WorkerLoop, WorkerReceives, WorkerReadFails,
              WorkerCallbackReturns, WorkerUnchanged
<1>2. CASE PingerStep
  BY <1>2 DEF PingerStep, PingerLoop, PingerWakes, PingerLocks, PingerWritten,
              PingerUnchanged
<1>3. CASE \E c \in Callers : CallerStep(c)
  BY <1>3 DEF CallerStep, CallerEnters, CallerChecks, CallerLocks, CallerWritten,
              CallerUnchanged
<1>4. CASE WireStep
  BY <1>4 DEF WireStep, ExchangeSends, ExchangeFallsSilent, ExchangeIsHeard,
              ConnectionLost, WireUnchanged
<1> QED
  BY <1>1, <1>2, <1>3, <1>4

LEMMA InitTypes == Init => TypeOK
<1> SUFFICES ASSUME Init PROVE TypeOK
  OBVIOUS
<1>1. /\ feedConnected \in BOOLEAN /\ clientConnected \in BOOLEAN
      /\ shouldStop \in BOOLEAN /\ data \in BOOLEAN
  BY Zenon DEF Init
<1>2. connects \in 0 .. MaxConnects /\ failed \in Nat /\ leaked \in Nat
  BY ExchangeAssumption DEF ExchangeAssumption, Init
<1>3. /\ owner = "idle" /\ told = "none" /\ subscriptions = {} /\ tickerProducts = {}
      /\ client = "none" /\ socket = "none" /\ ssl = "none" /\ worker = "none"
      /\ pinger = "none" /\ caller = [c \in Callers |-> "out"] /\ writer = "nobody"
      /\ wire = "lost" /\ listener = "up"
  BY DEF Init
<1> QED
  BY <1>1, <1>2, <1>3 DEF TypeOK

LEMMA StepTypes == TypeOK /\ [Next]_vars => TypeOK'
<1> SUFFICES ASSUME TypeOK, [Next]_vars PROVE TypeOK'
  OBVIOUS
<1> USE ExchangeAssumption DEF ExchangeAssumption, TypeOK, Connecting, Disconnecting
<1>1. CASE ConnectTcp
  <2>1. clientConnected' \in BOOLEAN /\ shouldStop' \in BOOLEAN /\ data' \in BOOLEAN
    BY <1>1, Zenon DEF ConnectTcp
  <2>2. connects' \in 0 .. MaxConnects /\ leaked' \in Nat
    BY <1>1 DEF ConnectTcp, LeakedByDestruction
  <2>3. /\ client' = "made" /\ ssl' = "none" /\ worker' = "none" /\ pinger' = "none"
        /\ socket' \in {"none", "open", "closed"} /\ owner' \in {"idle", "ssl"}
        /\ wire' \in {"up", wire}
    BY <1>1 DEF ConnectTcp
  <2>4. UNCHANGED <<feedVars, caller, writer, listener, failed>>
    BY <1>1 DEF ConnectTcp
  <2> QED
    BY <2>1, <2>2, <2>3, <2>4
<1>2. CASE ConnectFails
  BY <1>2 DEF ConnectFails
<1>3. CASE CreateSslSocket
  BY <1>3 DEF CreateSslSocket, Owner
<1>4. CASE PerformSslHandshake
  BY <1>4 DEF PerformSslHandshake, Owner
<1>5. CASE PerformWebSocketHandshake
  <2>1. clientConnected' \in BOOLEAN /\ shouldStop' \in BOOLEAN /\ data' \in BOOLEAN
    BY <1>5, Zenon DEF PerformWebSocketHandshake, wireVars
  <2>2. owner' = "callback" /\ worker' = "loop" /\ pinger' = "loop"
    BY <1>5 DEF PerformWebSocketHandshake, Owner
  <2>3. UNCHANGED <<feedVars, client, socket, ssl, caller, writer, wire,
                    listener, countVars>>
    BY <1>5 DEF PerformWebSocketHandshake, wireVars
  <2> QED
    BY <2>1, <2>2, <2>3 DEF feedVars, countVars
<1>6. CASE ConnectionCallback
  BY <1>6 DEF ConnectionCallback
<1>7. CASE AuthenticateLocks
  BY <1>7 DEF AuthenticateLocks, Owner
<1>8. CASE AuthenticateWritten
  BY <1>8 DEF AuthenticateWritten, Owner
<1>9. CASE FeedConnected
  BY <1>9 DEF FeedConnected, Owner
<1>10. CASE Disconnect
  <2>1. /\ owner' = "joinWorker" /\ shouldStop' \in BOOLEAN /\ clientConnected' \in BOOLEAN
    BY <1>10, Zenon DEF Disconnect, Owner
  <2>2. UNCHANGED <<feedVars, client, socket, ssl, threadVars, wireVars, listener,
                   countVars>>
    BY <1>10 DEF Disconnect, Owner
  <2> QED
    BY <2>1, <2>2
<1>11. CASE JoinWorker
  BY <1>11 DEF JoinWorker, Owner
<1>12. CASE JoinPinger
  BY <1>12 DEF JoinPinger, Owner
<1>13. CASE FreeSsl
  BY <1>13 DEF FreeSsl, Owner
<1>14. CASE CloseSocket
  <2>1. /\ owner' = "reset" /\ socket' = "none" /\ wire' = "lost" /\ data' \in BOOLEAN
        /\ told' = "down"
    BY <1>14, Zenon DEF CloseSocket, Owner
  <2>2. UNCHANGED <<feedConnected, subscriptions, tickerProducts, client, clientConnected,
                   shouldStop, ssl, threadVars, listener, countVars>>
    BY <1>14 DEF CloseSocket, Owner
  <2> QED
    BY <2>1, <2>2
<1>15. CASE ResetClient
  BY <1>15 DEF ResetClient, Owner, LeakedByDestruction
<1>16. CASE Disconnected
  <2>1. /\ owner' = "idle" /\ feedConnected' \in BOOLEAN /\ subscriptions' = {}
        /\ told' = "down"
    BY <1>16, Zenon DEF Disconnected, Owner
  <2>2. UNCHANGED <<tickerProducts, clientVars, threadVars, wireVars, listener, countVars>>
    BY <1>16 DEF Disconnected, Owner
  <2> QED
    BY <2>1, <2>2
<1>17. CASE ListenerDestroyed
  BY <1>17 DEF ListenerDestroyed
<1>18. CASE FeedDestroyed
  BY <1>18 DEF FeedDestroyed, Owner, LeakedByDestruction
<1>19. CASE WorkerLoop
  BY <1>19 DEF WorkerLoop, WorkerUnchanged
<1>20. CASE WorkerReceives
  <2>1. /\ data' \in BOOLEAN /\ worker' \in {"callback", "loop"}
    BY <1>20, Zenon DEF WorkerReceives, WorkerUnchanged
  <2>2. UNCHANGED <<owner, feedVars, clientVars, pinger, caller, writer, wire, listener,
                   countVars>>
    BY <1>20 DEF WorkerReceives, WorkerUnchanged
  <2> QED
    BY <2>1, <2>2
<1>21. CASE WorkerReadFails
  BY <1>21 DEF WorkerReadFails, WorkerUnchanged
<1>22. CASE WorkerCallbackReturns
  BY <1>22 DEF WorkerCallbackReturns, WorkerUnchanged
<1>23. CASE PingerLoop
  BY <1>23 DEF PingerLoop, PingerUnchanged
<1>24. CASE PingerWakes
  BY <1>24 DEF PingerWakes, PingerUnchanged
<1>25. CASE PingerLocks
  BY <1>25 DEF PingerLocks, PingerUnchanged
<1>26. CASE PingerWritten
  BY <1>26 DEF PingerWritten, PingerUnchanged
<1>27. CASE \E c \in Callers : CallerEnters(c)
  BY <1>27 DEF CallerEnters, CallerUnchanged, Caller
<1>28. CASE \E c \in Callers : CallerChecks(c)
  BY <1>28 DEF CallerChecks, CallerUnchanged, Caller
<1>29. CASE \E c \in Callers : CallerLocks(c)
  BY <1>29 DEF CallerLocks, CallerUnchanged, Caller
<1>30. CASE \E c \in Callers : CallerWritten(c)
  BY <1>30 DEF CallerWritten, CallerUnchanged, Caller
<1>31. CASE ExchangeSends
  BY <1>31 DEF ExchangeSends, WireUnchanged
<1>32. CASE ExchangeFallsSilent
  BY <1>32 DEF ExchangeFallsSilent, WireUnchanged
<1>33. CASE ExchangeIsHeard
  BY <1>33 DEF ExchangeIsHeard, WireUnchanged
<1>34. CASE ConnectionLost
  BY <1>34 DEF ConnectionLost, WireUnchanged
<1>35. CASE UNCHANGED vars
  BY <1>35 DEF vars
<1> QED
  BY <1>1, <1>2, <1>3, <1>4, <1>5, <1>6, <1>7, <1>8, <1>9, <1>10, <1>11,
     <1>12, <1>13, <1>14, <1>15, <1>16, <1>17, <1>18, <1>19, <1>20, <1>21,
     <1>22, <1>23, <1>24, <1>25, <1>26, <1>27, <1>28, <1>29, <1>30, <1>31,
     <1>32, <1>33, <1>34, <1>35 DEF Next, OwnerStep, ConnectStep,
     DisconnectStep, WorkerStep, PingerStep, CallerStep, WireStep, Ended,
     vars

(* Every variable keeps its type; a socket is lost once at most.           *)
THEOREM TypesAreCorrect == Spec => []TypeOK
<1>1. Init => TypeOK
  BY InitTypes
<1>2. TypeOK /\ [Next]_vars => TypeOK'
  BY StepTypes
<1> QED
  BY <1>1, <1>2, PTL DEF Spec

LEMMA OwnerKnowsStep ==
    ASSUME TypeOK, OwnerKnows, [Next]_vars
    PROVE  OwnerKnows'
<1> USE DEF OwnerKnows, Live, Disconnecting, TypeOK
<1>1. CASE ConnectTcp
  BY <1>1 DEF ConnectTcp
<1>2. CASE ConnectFails
  BY <1>2 DEF ConnectFails
<1>3. CASE CreateSslSocket
  BY <1>3 DEF CreateSslSocket, Owner
<1>4. CASE PerformSslHandshake
  BY <1>4 DEF PerformSslHandshake, Owner
<1>5. CASE PerformWebSocketHandshake
  BY <1>5 DEF PerformWebSocketHandshake, Owner
<1>6. CASE ConnectionCallback
  BY <1>6 DEF ConnectionCallback
<1>7. CASE AuthenticateLocks
  BY <1>7 DEF AuthenticateLocks, Owner
<1>8. CASE AuthenticateWritten
  BY <1>8 DEF AuthenticateWritten, Owner
<1>9. CASE FeedConnected
  BY <1>9 DEF FeedConnected, Owner
<1>10. CASE Disconnect
  BY <1>10 DEF Disconnect, Owner
<1>11. CASE JoinWorker
  BY <1>11 DEF JoinWorker, Owner
<1>12. CASE JoinPinger
  BY <1>12 DEF JoinPinger, Owner
<1>13. CASE FreeSsl
  BY <1>13 DEF FreeSsl, Owner
<1>14. CASE CloseSocket
  BY <1>14 DEF CloseSocket, Owner
<1>15. CASE ResetClient
  BY <1>15 DEF ResetClient, Owner
<1>16. CASE Disconnected
  BY <1>16 DEF Disconnected, Owner
<1>17. CASE ListenerDestroyed
  BY <1>17 DEF ListenerDestroyed
<1>18. CASE FeedDestroyed
  BY <1>18 DEF FeedDestroyed, Owner
<1>19. CASE WorkerStep \/ PingerStep \/ (\E c \in Callers : CallerStep(c)) \/ WireStep
  BY <1>19, OthersLeaveOwner
<1>20. CASE UNCHANGED vars
  BY <1>20 DEF vars
<1> QED
  BY <1>1, <1>2, <1>3, <1>4, <1>5, <1>6, <1>7, <1>8, <1>9, <1>10, <1>11,
     <1>12, <1>13, <1>14, <1>15, <1>16, <1>17, <1>18, <1>19, <1>20 DEF Next,
     OwnerStep, ConnectStep, DisconnectStep, WorkerStep, PingerStep,
     CallerStep, WireStep, Ended, vars

(* Notifications follow what the owner does.                               *)
LEMMA ToldStep ==
    ASSUME TypeOK, OwnerKnows, ToldInv, [Next]_vars
    PROVE  ToldInv'
<1> USE DEF ToldInv, OwnerKnows, Live, Disconnecting, TypeOK
<1>1. CASE ConnectTcp
  BY <1>1 DEF ConnectTcp
<1>2. CASE ConnectFails
  BY <1>2 DEF ConnectFails
<1>3. CASE CreateSslSocket
  BY <1>3 DEF CreateSslSocket, Owner
<1>4. CASE PerformSslHandshake
  BY <1>4 DEF PerformSslHandshake, Owner
<1>5. CASE PerformWebSocketHandshake
  BY <1>5 DEF PerformWebSocketHandshake, Owner
<1>6. CASE ConnectionCallback
  BY <1>6 DEF ConnectionCallback
<1>7. CASE AuthenticateLocks
  BY <1>7 DEF AuthenticateLocks, Owner
<1>8. CASE AuthenticateWritten
  BY <1>8 DEF AuthenticateWritten, Owner
<1>9. CASE FeedConnected
  BY <1>9 DEF FeedConnected, Owner
<1>10. CASE Disconnect
  BY <1>10 DEF Disconnect, Owner
<1>11. CASE JoinWorker
  BY <1>11 DEF JoinWorker, Owner
<1>12. CASE JoinPinger
  BY <1>12 DEF JoinPinger, Owner
<1>13. CASE FreeSsl
  BY <1>13 DEF FreeSsl, Owner
<1>14. CASE CloseSocket
  BY <1>14 DEF CloseSocket, Owner
<1>15. CASE ResetClient
  BY <1>15 DEF ResetClient, Owner
<1>16. CASE Disconnected
  BY <1>16 DEF Disconnected, Owner
<1>17. CASE ListenerDestroyed
  BY <1>17 DEF ListenerDestroyed
<1>18. CASE FeedDestroyed
  BY <1>18 DEF FeedDestroyed, Owner
<1>19. CASE WorkerStep \/ PingerStep \/ (\E c \in Callers : CallerStep(c)) \/ WireStep
  BY <1>19, OthersLeaveOwner
<1>20. CASE UNCHANGED vars
  BY <1>20 DEF vars
<1> QED
  BY <1>1, <1>2, <1>3, <1>4, <1>5, <1>6, <1>7, <1>8, <1>9, <1>10, <1>11,
     <1>12, <1>13, <1>14, <1>15, <1>16, <1>17, <1>18, <1>19, <1>20 DEF Next,
     OwnerStep, ConnectStep, DisconnectStep, WorkerStep, PingerStep,
     CallerStep, WireStep, Ended, vars

(* A connect that fails with its socket open is counted, and the socket is *)
(* lost when the client is replaced or destroyed.                          *)
LEMMA SocketsStep ==
    ASSUME TypeOK, OwnerKnows, LostSocketsAreFailedConnects, [Next]_vars
    PROVE  LostSocketsAreFailedConnects'
<1> USE DEF LostSocketsAreFailedConnects, OwnerKnows, Live, Connecting, Disconnecting, TypeOK
<1>1. CASE ConnectTcp
  BY <1>1 DEF ConnectTcp, LeakedByDestruction
<1>2. CASE ConnectFails
  BY <1>2 DEF ConnectFails
<1>3. CASE CreateSslSocket
  BY <1>3 DEF CreateSslSocket, Owner
<1>4. CASE PerformSslHandshake
  BY <1>4 DEF PerformSslHandshake, Owner
<1>5. CASE PerformWebSocketHandshake
  BY <1>5 DEF PerformWebSocketHandshake, Owner
<1>6. CASE ConnectionCallback
  BY <1>6 DEF ConnectionCallback
<1>7. CASE AuthenticateLocks
  BY <1>7 DEF AuthenticateLocks, Owner
<1>8. CASE AuthenticateWritten
  BY <1>8 DEF AuthenticateWritten, Owner
<1>9. CASE FeedConnected
  BY <1>9 DEF FeedConnected, Owner
<1>10. CASE Disconnect
  BY <1>10 DEF Disconnect, Owner
<1>11. CASE JoinWorker
  BY <1>11 DEF JoinWorker, Owner
<1>12. CASE JoinPinger
  BY <1>12 DEF JoinPinger, Owner
<1>13. CASE FreeSsl
  BY <1>13 DEF FreeSsl, Owner
<1>14. CASE CloseSocket
  BY <1>14 DEF CloseSocket, Owner
<1>15. CASE ResetClient
  BY <1>15 DEF ResetClient, Owner, LeakedByDestruction
<1>16. CASE Disconnected
  BY <1>16 DEF Disconnected, Owner
<1>17. CASE ListenerDestroyed
  BY <1>17 DEF ListenerDestroyed
<1>18. CASE FeedDestroyed
  BY <1>18 DEF FeedDestroyed, Owner, LeakedByDestruction
<1>19. CASE WorkerStep \/ PingerStep \/ (\E c \in Callers : CallerStep(c)) \/ WireStep
  BY <1>19, OthersLeaveOwner
<1>20. CASE UNCHANGED vars
  BY <1>20 DEF vars
<1> QED
  BY <1>1, <1>2, <1>3, <1>4, <1>5, <1>6, <1>7, <1>8, <1>9, <1>10, <1>11,
     <1>12, <1>13, <1>14, <1>15, <1>16, <1>17, <1>18, <1>19, <1>20 DEF Next,
     OwnerStep, ConnectStep, DisconnectStep, WorkerStep, PingerStep,
     CallerStep, WireStep, Ended, vars

(* The threads live as long as the owner's state allows.                   *)
LEMMA ThreadsStep ==
    ASSUME TypeOK, OwnerKnows, ThreadsLive, [Next]_vars
    PROVE  ThreadsLive'
<1> USE DEF ThreadsLive, OwnerKnows, Live, Disconnecting, WorkerRuns, PingerRuns, TypeOK
<1>1. CASE ConnectTcp
  BY <1>1 DEF ConnectTcp
<1>2. CASE ConnectFails
  BY <1>2 DEF ConnectFails
<1>3. CASE CreateSslSocket
  BY <1>3 DEF CreateSslSocket, Owner
<1>4. CASE PerformSslHandshake
  BY <1>4 DEF PerformSslHandshake, Owner
<1>5. CASE PerformWebSocketHandshake
  BY <1>5 DEF PerformWebSocketHandshake, Owner
<1>6. CASE ConnectionCallback
  BY <1>6 DEF ConnectionCallback
<1>7. CASE AuthenticateLocks
  BY <1>7 DEF AuthenticateLocks, Owner
<1>8. CASE AuthenticateWritten
  BY <1>8 DEF AuthenticateWritten, Owner
<1>9. CASE FeedConnected
  BY <1>9 DEF FeedConnected, Owner
<1>10. CASE Disconnect
  BY <1>10 DEF Disconnect, Owner
<1>11. CASE JoinWorker
  BY <1>11 DEF JoinWorker, Owner
<1>12. CASE JoinPinger
  BY <1>12 DEF JoinPinger, Owner
<1>13. CASE FreeSsl
  BY <1>13 DEF FreeSsl, Owner
<1>14. CASE CloseSocket
  BY <1>14 DEF CloseSocket, Owner
<1>15. CASE ResetClient
  BY <1>15 DEF ResetClient, Owner
<1>16. CASE Disconnected
  BY <1>16 DEF Disconnected, Owner
<1>17. CASE ListenerDestroyed
  BY <1>17 DEF ListenerDestroyed
<1>18. CASE FeedDestroyed
  BY <1>18 DEF FeedDestroyed, Owner
<1>19. CASE WorkerLoop
  BY <1>19 DEF WorkerLoop, WorkerUnchanged
<1>20. CASE WorkerReceives
  BY <1>20 DEF WorkerReceives, WorkerUnchanged
<1>21. CASE WorkerReadFails
  BY <1>21 DEF WorkerReadFails, WorkerUnchanged
<1>22. CASE WorkerCallbackReturns
  BY <1>22 DEF WorkerCallbackReturns, WorkerUnchanged
<1>23. CASE PingerLoop
  BY <1>23 DEF PingerLoop, PingerUnchanged
<1>24. CASE PingerWakes
  BY <1>24 DEF PingerWakes, PingerUnchanged
<1>25. CASE PingerLocks
  BY <1>25 DEF PingerLocks, PingerUnchanged
<1>26. CASE PingerWritten
  BY <1>26 DEF PingerWritten, PingerUnchanged
<1>27. CASE \E c \in Callers : CallerEnters(c)
  BY <1>27 DEF CallerEnters, CallerUnchanged, Caller
<1>28. CASE \E c \in Callers : CallerChecks(c)
  BY <1>28 DEF CallerChecks, CallerUnchanged, Caller
<1>29. CASE \E c \in Callers : CallerLocks(c)
  BY <1>29 DEF CallerLocks, CallerUnchanged, Caller
<1>30. CASE \E c \in Callers : CallerWritten(c)
  BY <1>30 DEF CallerWritten, CallerUnchanged, Caller
<1>31. CASE WireStep
  BY <1>31 DEF WireStep, ExchangeSends, ExchangeFallsSilent,
       ExchangeIsHeard, ConnectionLost, WireUnchanged
<1>32. CASE UNCHANGED vars
  BY <1>32 DEF vars
<1> QED
  BY <1>1, <1>2, <1>3, <1>4, <1>5, <1>6, <1>7, <1>8, <1>9, <1>10, <1>11,
     <1>12, <1>13, <1>14, <1>15, <1>16, <1>17, <1>18, <1>19, <1>20, <1>21,
     <1>22, <1>23, <1>24, <1>25, <1>26, <1>27, <1>28, <1>29, <1>30, <1>31,
     <1>32 DEF Next, OwnerStep, ConnectStep, DisconnectStep, WorkerStep,
     PingerStep, CallerStep, WireStep, Ended, vars

(* send_mutex_.                                                            *)
LEMMA OneWriterStep ==
    ASSUME TypeOK, OwnerKnows, ThreadsLive, OneWriter, [Next]_vars
    PROVE  OneWriter'
<1> USE DEF OneWriter, WritingCallers, OwnerKnows, ThreadsLive, PingerRuns, Live, Disconnecting, TypeOK
<1>1. CASE ConnectTcp
  BY <1>1 DEF ConnectTcp
<1>2. CASE ConnectFails
  BY <1>2 DEF ConnectFails
<1>3. CASE CreateSslSocket
  BY <1>3 DEF CreateSslSocket, Owner
<1>4. CASE PerformSslHandshake
  BY <1>4 DEF PerformSslHandshake, Owner
<1>5. CASE PerformWebSocketHandshake
  BY <1>5 DEF PerformWebSocketHandshake, Owner
<1>6. CASE ConnectionCallback
  BY <1>6 DEF ConnectionCallback
<1>7. CASE AuthenticateLocks
  BY <1>7 DEF AuthenticateLocks, Owner
<1>8. CASE AuthenticateWritten
  BY <1>8 DEF AuthenticateWritten, Owner
<1>9. CASE FeedConnected
  BY <1>9 DEF FeedConnected, Owner
<1>10. CASE Disconnect
  BY <1>10 DEF Disconnect, Owner
<1>11. CASE JoinWorker
  BY <1>11 DEF JoinWorker, Owner
<1>12. CASE JoinPinger
  BY <1>12 DEF JoinPinger, Owner
<1>13. CASE FreeSsl
  BY <1>13 DEF FreeSsl, Owner
<1>14. CASE CloseSocket
  BY <1>14 DEF CloseSocket, Owner
<1>15. CASE ResetClient
  BY <1>15 DEF ResetClient, Owner
<1>16. CASE Disconnected
  BY <1>16 DEF Disconnected, Owner
<1>17. CASE ListenerDestroyed
  BY <1>17 DEF ListenerDestroyed
<1>18. CASE FeedDestroyed
  BY <1>18 DEF FeedDestroyed, Owner
<1>19. CASE PingerLoop
  BY <1>19 DEF PingerLoop, PingerUnchanged
<1>20. CASE PingerWakes
  BY <1>20 DEF PingerWakes, PingerUnchanged
<1>21. CASE PingerLocks
  BY <1>21 DEF PingerLocks, PingerUnchanged
<1>22. CASE PingerWritten
  BY <1>22 DEF PingerWritten, PingerUnchanged
<1>23. CASE \E c \in Callers : CallerEnters(c)
  BY <1>23 DEF CallerEnters, CallerUnchanged, Caller
<1>24. CASE \E c \in Callers : CallerChecks(c)
  BY <1>24 DEF CallerChecks, CallerUnchanged, Caller
<1>25. CASE \E c \in Callers : CallerLocks(c)
  BY <1>25 DEF CallerLocks, CallerUnchanged, Caller
<1>26. CASE \E c \in Callers : CallerWritten(c)
  BY <1>26 DEF CallerWritten, CallerUnchanged, Caller
<1>27. CASE WorkerStep \/ WireStep
  BY <1>27 DEF WorkerStep, WorkerLoop, WorkerReceives, WorkerReadFails,
       WorkerCallbackReturns, WorkerUnchanged, WireStep, ExchangeSends,
       ExchangeFallsSilent, ExchangeIsHeard, ConnectionLost, WireUnchanged
<1>28. CASE UNCHANGED vars
  BY <1>28 DEF vars
<1> QED
  BY <1>1, <1>2, <1>3, <1>4, <1>5, <1>6, <1>7, <1>8, <1>9, <1>10, <1>11,
     <1>12, <1>13, <1>14, <1>15, <1>16, <1>17, <1>18, <1>19, <1>20, <1>21,
     <1>22, <1>23, <1>24, <1>25, <1>26, <1>27, <1>28 DEF Next, OwnerStep,
     ConnectStep, DisconnectStep, WorkerStep, PingerStep, CallerStep,
     WireStep, Ended, vars

LEMMA InitInvariant == Init => ExchangeInv
BY DEF Init, ExchangeInv, OwnerKnows, ThreadsLive, ToldInv, OneWriter,
       LostSocketsAreFailedConnects, Live, WorkerRuns, PingerRuns, WritingCallers,
       Connecting, Disconnecting

(* The inductive invariant of the owner, the threads, the notifications,   *)
(* send_mutex_ and the sockets.                                            *)
THEOREM ExchangeInvariant == Spec => [](TypeOK /\ ExchangeInv)
<1>1. Init => TypeOK /\ ExchangeInv
  BY InitTypes, InitInvariant
<1>2. TypeOK /\ ExchangeInv /\ [Next]_vars => (TypeOK /\ ExchangeInv)'
  BY StepTypes, OwnerKnowsStep, ThreadsStep, ToldStep, OneWriterStep, SocketsStep
     DEF ExchangeInv
<1> QED
  BY <1>1, <1>2, PTL DEF Spec

(* send_mutex_ keeps the frames of all threads apart.                      *)
THEOREM FramesAreWhole == Spec => []OneWriter
<1>1. ExchangeInv => OneWriter
  BY DEF ExchangeInv
<1> QED
  BY <1>1, ExchangeInvariant, PTL

(* If callers have left the feed when it is disconnected, nobody uses the  *)
(* SSL object before it is made or after it is freed.                      *)
THEOREM SslObjectIsAlive == Spec => []SslInUseIsAlive
<1>1. TypeOK /\ ExchangeInv => SslInUseIsAlive
  BY DEF TypeOK, ExchangeInv, OwnerKnows, ThreadsLive, SslInUseIsAlive, SslInUse,
         Reading, InSend, WorkerRuns, PingerRuns, Live, Disconnecting
<1> QED
  BY <1>1, ExchangeInvariant, PTL

(* Connection notifications can be relied on.                              *)
THEOREM NotificationsCanBeReliedOn == Spec => []NotificationsAreTrue
<1>1. TypeOK /\ ExchangeInv => NotificationsAreTrue
  BY SMTT(40) DEF TypeOK, ExchangeInv, OwnerKnows, ThreadsLive, ToldInv, NotificationsAreTrue,
         WorkerRuns, PingerRuns, Live, Disconnecting
<1> QED
  BY <1>1, ExchangeInvariant, PTL

(* Every socket that was lost is that of a connect that failed.            *)
THEOREM SocketsComeBack == Spec => []LostSocketsAreFailedConnects
<1>1. ExchangeInv => LostSocketsAreFailedConnects
  BY DEF ExchangeInv
<1> QED
  BY <1>1, ExchangeInvariant, PTL

(* Every step is a step of FeedSession or leaves its variables alone: what *)
(* the owner and the listener see are sessions one after the other.        *)
LEMMA StepImplementsSession ==
    ASSUME TypeOK, ExchangeInv, [Next]_vars
    PROVE  [Session!Next]_Session!vars
<1> USE DEF Session!vars, Session!Next, Session!Open, Session!TellUp,
            Session!Deliver, Session!Delivered, Session!Closing, Session!Closed,
            Session!TellDown, ExchangeInv, OwnerKnows, ThreadsLive, ToldInv, Live,
            WorkerRuns, PingerRuns, Disconnecting, TypeOK
<1>1. CASE ConnectTcp
  BY <1>1 DEF ConnectTcp
<1>2. CASE ConnectFails
  BY <1>2 DEF ConnectFails
<1>3. CASE CreateSslSocket
  BY <1>3 DEF CreateSslSocket, Owner
<1>4. CASE PerformSslHandshake
  BY <1>4 DEF PerformSslHandshake, Owner
<1>5. CASE PerformWebSocketHandshake
  BY <1>5 DEF PerformWebSocketHandshake, Owner
<1>6. CASE ConnectionCallback
  BY <1>6 DEF ConnectionCallback
<1>7. CASE AuthenticateLocks
  BY <1>7 DEF AuthenticateLocks, Owner
<1>8. CASE AuthenticateWritten
  BY <1>8 DEF AuthenticateWritten, Owner
<1>9. CASE FeedConnected
  BY <1>9 DEF FeedConnected, Owner
<1>10. CASE Disconnect
  BY <1>10 DEF Disconnect, Owner
<1>11. CASE JoinWorker
  BY <1>11 DEF JoinWorker, Owner
<1>12. CASE JoinPinger
  BY <1>12 DEF JoinPinger, Owner
<1>13. CASE FreeSsl
  BY <1>13 DEF FreeSsl, Owner
<1>14. CASE CloseSocket
  BY <1>14 DEF CloseSocket, Owner
<1>15. CASE ResetClient
  BY <1>15 DEF ResetClient, Owner
<1>16. CASE Disconnected
  BY <1>16 DEF Disconnected, Owner
<1>17. CASE ListenerDestroyed
  BY <1>17 DEF ListenerDestroyed
<1>18. CASE FeedDestroyed
  BY <1>18 DEF FeedDestroyed, Owner
<1>19. CASE WorkerLoop
  BY <1>19 DEF WorkerLoop, WorkerUnchanged
<1>20. CASE WorkerReceives
  BY <1>20 DEF WorkerReceives, WorkerUnchanged
<1>21. CASE WorkerReadFails
  BY <1>21 DEF WorkerReadFails, WorkerUnchanged
<1>22. CASE WorkerCallbackReturns
  BY <1>22 DEF WorkerCallbackReturns, WorkerUnchanged
<1>23. CASE PingerStep
  BY <1>23 DEF PingerStep, PingerLoop, PingerWakes, PingerLocks, PingerWritten,
              PingerUnchanged
<1>24. CASE \E c \in Callers : CallerStep(c)
  BY <1>24 DEF CallerStep, CallerEnters, CallerChecks, CallerLocks, CallerWritten,
              CallerUnchanged
<1>25. CASE WireStep
  BY <1>25 DEF WireStep, ExchangeSends, ExchangeFallsSilent, ExchangeIsHeard,
              ConnectionLost, WireUnchanged
<1>26. CASE UNCHANGED vars
  BY <1>26 DEF vars
<1> QED
  BY <1>1, <1>2, <1>3, <1>4, <1>5, <1>6, <1>7, <1>8, <1>9, <1>10, <1>11,
     <1>12, <1>13, <1>14, <1>15, <1>16, <1>17, <1>18, <1>19, <1>20, <1>21,
     <1>22, <1>23, <1>24, <1>25, <1>26, Zenon DEF Next, OwnerStep, ConnectStep,
     DisconnectStep, WorkerStep, PingerStep, CallerStep, WireStep, Ended,
     vars

(* The connection implements the sessions of FeedSession.                  *)
THEOREM ConnectionImplementsSession == Spec => ImplementsSession
<1>1. Init => Session!Init
  BY DEF Init, Session!Init
<1>2. TypeOK /\ ExchangeInv /\ [Next]_vars => [Session!Next]_Session!vars
  BY StepImplementsSession
<1> QED
  BY <1>1, <1>2, ExchangeInvariant, PTL DEF Spec, ImplementsSession, Session!Spec
=============================================================================
