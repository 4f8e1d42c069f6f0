------------------------ MODULE ConnectionProperties ------------------------
(* What the connections and the life of the server are checked for.        *)
EXTENDS ServerConnections

LiveHandlers == {"loop", "recv", "reply", "sending", "remove"}

(* clients_ holds a connection exactly while its handler thread runs: a    *)
(* handler removes its own connection (client_handler_thread), nothing     *)
(* else does, and add_client() comes before the thread.                    *)
ListMatchesHandlers ==
    \A c \in Conns : c \in clients <=> handler[c] \in LiveHandlers

(* Whoever is in recv() or send() uses a socket that is open, though       *)
(* disconnect() closes socket_fd_ without taking send_mutex_ and the       *)
(* worker tests connected_ some time before it sends; and two threads      *)
(* never send on one connection at a time.                                 *)
SocketsInUseAreOpen ==
    /\ \A c \in Conns : handler[c] \in {"recv", "sending"} => socket[c] = "open"
    /\ worker \in {"lock", "send"} => target \in clients /\ socket[target] = "open"
    /\ worker = "send" => handler[target] # "sending"

(* A ClientConnection that says it is connected has an open socket.        *)
ConnectedMeansOpen ==
    \A c \in Conns : connected[c] => socket[c] = "open"

(* The inductive invariant behind them.  Besides, what the worker has not  *)
(* come to yet is still in clients_, so the iterators of the loops in      *)
(* on_trade_data() and on_level2_data() stay valid and no client left in   *)
(* the middle of a broadcast; and the connection about to be added is new. *)
ConnectionInv ==
    /\ ListMatchesHandlers
    /\ SocketsInUseAreOpen
    /\ ConnectedMeansOpen
    /\ todo \subseteq clients
    /\ worker = "idle" => todo = {}
    /\ \A c \in Conns :
         /\ handler[c] \in LiveHandlers => socket[c] = "open"
         /\ handler[c] = "ended" => socket[c] # "none"
         /\ handler[c] = "none" => socket[c] = "none" \/ accepted = c
    /\ acceptor = "add" => handler[accepted] = "none" /\ socket[accepted] = "open"
    /\ acceptor # "add" => accepted = NoConn
    /\ process = "starting" => acceptor = "none"

(* main() destroys the server, on whose stack it lies, only after stop()   *)
(* has closed the listening socket and joined the accepting thread         *)
(* (server.cpp, "Wait for server thread to finish").                       *)
StopCompletesBeforeExit ==
    process = "exited" => acceptor \in {"none", "done"} /\ listener # "open"

(* Its strengthening: how far the process, stop() and the accepting thread *)
(* have come with each other where the signal handler runs in main().      *)
StopInv ==
    /\ process = "starting" => /\ acceptor = "none" /\ listener = "none"
                               /\ stopper = "none" /\ ~running
    /\ stopper # "none" => ~running
    /\ stopper \in {"joining", "done"} => listener = "closed"
    /\ stopper = "done" => acceptor = "done"
    /\ process = "exited" => \/ stopper = "done"
                             \/ acceptor = "none" /\ listener = "none"

(* The only sockets that a connection leaves open are those whose peer has *)
(* closed: then receive_message() has reset connected_ and disconnect()    *)
(* returns before close().  At the end of the server all others close,     *)
(* unless WSACleanup() has taken them down.                                *)
OnlyClosedPeersLeak ==
    \A c \in Conns :
        socket[c] = "open" /\ ~connected[c] => peer[c] = "closed" \/ SocketsDown

(* Its strengthening: what is down stays down, for stop() is not entered a *)
(* second time.                                                            *)
LeakInv ==
    /\ OnlyClosedPeersLeak
    /\ stopper # "none" => ~running /\ process # "starting"

(* The end of a client's connection does not end the server, which serves  *)
(* the other clients on (server.cpp, "Client disconnected ...").           *)
DisconnectsSpareTheServer == process # "killed"

(* The socket of a connection that has ended is closed.                    *)
EndedConnectionsAreClosed ==
    \A c \in Conns : handler[c] = "ended" => socket[c] # "open"

(* A server that says it is running (is_running()) accepts connections.    *)
RunningServerAccepts == running => acceptor # "done"

Over == process \in {"exited", "killed"}

(* When the peer has closed, the connection leaves clients_: the handler   *)
(* notices the end, and gets clients_mutex_ from a worker that may be      *)
(* sending to another client under it.  It takes peers that read: one that *)
(* does not keeps the worker in send(), and everybody else out.            *)
ClosedPeersLeave ==
    \A c \in Conns : peer[c] = "closed" /\ c \in clients ~> c \notin clients \/ Over

(* While the server runs and accept() has not failed, a connection that    *)
(* waits in the backlog gets a handler thread.                             *)
QueuedPeersAreServed ==
    \A c \in Conns :
        peer[c] = "queued" ~> handler[c] # "none" \/ ~running \/ acceptor = "done" \/ Over

(* In the end stop() is either through or in the join of a thread that     *)
(* waits in accept(): neither a handler that sends nor a broadcast that    *)
(* holds clients_mutex_ while the acceptor adds a client keeps it for good *)
(* (server.cpp, "Wait for server thread to finish").                       *)
StopWaitsForAcceptOnly ==
    <>[](process = "serving" /\ stopper \in {"closing", "joining"}
            => stopper = "joining" /\ acceptor = "blocked")

(* A signal ends the process: closing the socket is meant to end accept()  *)
(* (server.cpp, "Close server socket to break accept() loop").             *)
SignalEndsProcess == stopper = "closing" ~> Over
=============================================================================
