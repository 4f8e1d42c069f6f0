------------------------- MODULE ServerConnections -------------------------
(***************************************************************************)
(* Life of the DTC server process and of its TCP connections               *)
(* (src/core/server/server.cpp, main.cpp): the thread that accepts         *)
(* connections, one detached handler thread per connection, the feed's     *)
(* worker thread that broadcasts to clients_, and main() with the signal   *)
(* handler that calls stop().                                              *)
(*                                                                         *)
(* What the messages say is left to MarketDataServer: here a request is    *)
(* served by sending one message, and a broadcast is one message to the    *)
(* clients that listed the symbol.  clients_mutex_ is held by the worker   *)
(* from BroadcastStart to BroadcastEnd, so by it exactly while worker is   *)
(* not "idle"; every other holder needs it for one step.  A connection's   *)
(* send_mutex_ is held by its handler while that is "sending" and by the   *)
(* worker while it is in "send" with this target.                          *)
(***************************************************************************)
EXTENDS Naturals, FiniteSets

CONSTANTS
    Conns,          \* TCP connections, each made at most once
    NoConn,
    Windows,        \* which platform's branch of the #ifdefs is built
    MaxDescriptors, \* client sockets the process may have open at a time
    SendBuffer,     \* messages a socket takes in while its peer does not read
    Requesters,     \* bound: the connections whose peers send requests
    MaxInbox        \* bound: requests a peer has sent and the server not read

ASSUME ConnectionsAssumption ==
    /\ NoConn \notin Conns
    /\ Windows \in BOOLEAN
    /\ MaxDescriptors \in Nat
    /\ SendBuffer \in Nat \ {0}
    /\ Requesters \subseteq Conns
    /\ MaxInbox \in Nat

VARIABLES
    process,     \* starting, serving, exited (main returned), killed
    running,     \* server_running_ and not should_shutdown_
    listener,    \* server_socket_
    stopper,     \* the thread in stop(): none, closing, joining, done
    acceptor,    \* server_thread_: none, loop, call, blocked, add, done
    accepted,    \* the connection the acceptor is about to add
    clients,     \* clients_
    connected,   \* connected_ of each ClientConnection
    socket,      \* socket_fd_ of each ClientConnection: none, open, closed
    handler,     \* none, loop, recv, reply, sending, remove, ended
    feed,        \* add_exchange() has stored the feed
    worker,      \* the feed's worker thread: idle, loop, lock, send
    target,      \* the connection the worker sends to
    todo,        \* clients the worker's loop has not come to
    peer,        \* the other end: out, queued, up, closed
    inbox,       \* requests on their way to the server
    outbox       \* messages its peer has not read

processVars == <<process, running, listener, stopper>>
acceptVars  == <<acceptor, accepted>>
connVars    == <<clients, connected, socket, handler>>
workerVars  == <<feed, worker, target, todo>>
peerVars    == <<peer, inbox, outbox>>
vars == <<processVars, acceptVars, connVars, workerVars, peerVars>>

TypeOK ==
    /\ process \in {"starting", "serving", "exited", "killed"}
    /\ running \in BOOLEAN
    /\ listener \in {"none", "open", "closed"}
    /\ stopper \in {"none", "closing", "joining", "done"}
    /\ acceptor \in {"none", "loop", "call", "blocked", "add", "done"}
    /\ accepted \in Conns \cup {NoConn}
    /\ acceptor = "add" => accepted \in Conns
    /\ clients \in SUBSET Conns
    /\ connected \in [Conns -> BOOLEAN]
    /\ socket \in [Conns -> {"none", "open", "closed"}]
    /\ handler \in [Conns -> {"none", "loop", "recv", "reply", "sending",
                             "remove", "ended"}]
    /\ feed \in BOOLEAN
    /\ worker \in {"idle", "loop", "lock", "send"}
    /\ target \in Conns \cup {NoConn}
    /\ worker \in {"lock", "send"} => target \in Conns
    /\ todo \in SUBSET Conns
    /\ peer \in [Conns -> {"out", "queued", "up", "closed"}]
    /\ inbox \in [Conns -> 0 .. MaxInbox]
    /\ outbox \in [Conns -> 0 .. SendBuffer]

(* main() adds the exchange before it starts the server, and goes on where *)
(* that fails.                                                             *)
Init ==
    /\ feed \in BOOLEAN
    /\ process = "starting"
    /\ running = FALSE
    /\ listener = "none"
    /\ stopper = "none"
    /\ acceptor = "none"
    /\ accepted = NoConn
    /\ clients = {}
    /\ connected = [c \in Conns |-> FALSE]
    /\ socket = [c \in Conns |-> "none"]
    /\ handler = [c \in Conns |-> "none"]
    /\ worker = "idle"
    /\ target = NoConn
    /\ todo = {}
    /\ peer = [c \in Conns |-> "out"]
    /\ inbox = [c \in Conns |-> 0]
    /\ outbox = [c \in Conns |-> 0]

OpenSockets == {c \in Conns : socket[c] = "open"}

(* The end of stop() calls WSACleanup(), which on Windows takes all        *)
(* sockets down if nobody else has called WSAStartup(): the feed's client  *)
(* has (SSLWebSocketClient's constructor), and keeps that count while the  *)
(* server holds the feed.  From then on any call on a socket may fail.     *)
SocketsDown == Windows /\ ~feed /\ stopper = "done"

-----------------------------------------------------------------------------
(* main(), the signal handler and stop().                                  *)

(* start() binds and listens, then creates the accepting thread; where it  *)
(* fails main() returns 1.                                                 *)
Start ==
    /\ process = "starting"
    /\ \/ /\ process' = "serving"
          /\ running' = TRUE
          /\ listener' = "open"
          /\ acceptor' = "loop"
       \/ /\ process' = "exited"
          /\ UNCHANGED <<running, listener, acceptor>>
    /\ UNCHANGED <<stopper, accepted, connVars, workerVars, peerVars>>

(* A signal: stop() returns at once unless the server is running.          *)
StopSignals ==
    /\ process = "serving"
    /\ running
    /\ running' = FALSE
    /\ stopper' = "closing"
    /\ UNCHANGED <<process, listener, acceptVars, connVars, workerVars, peerVars>>

(* Closing the listening socket ends a blocked accept() on Windows.  On    *)
(* Linux the blocked call keeps the socket and goes on waiting.            *)
StopClosesListener ==
    /\ process = "serving"
    /\ stopper = "closing"
    /\ listener' = "closed"
    /\ stopper' = "joining"
    /\ UNCHANGED <<process, running, acceptVars, connVars, workerVars, peerVars>>

(* Mutant: stop() does not join the accepting thread.                      *)
StopDoesNotJoin ==
    /\ process = "serving"
    /\ stopper = "joining"
    /\ stopper' = "done"
    /\ UNCHANGED <<process, running, listener, acceptVars,
                   connVars, workerVars, peerVars>>

(* The join, then cleanup_sockets(): see SocketsDown.                      *)
StopJoins ==
    /\ process = "serving"
    /\ stopper = "joining"
    /\ acceptor = "done"
    /\ stopper' = "done"
    /\ UNCHANGED <<process, running, listener, acceptVars,
                   connVars, workerVars, peerVars>>

(* main() polls is_running() and returns.  On Linux the signal handler     *)
(* runs in main()'s thread, so main() is in stop() until it has finished;  *)
(* Windows runs it in a thread of its own.                                 *)
MainReturns ==
    /\ process = "serving"
    /\ ~running
    /\ Windows \/ stopper = "done"
    /\ process' = "exited"
    /\ UNCHANGED <<running, listener, stopper, acceptVars,
                   connVars, workerVars, peerVars>>

-----------------------------------------------------------------------------
(* server_thread_function().                                               *)

AcceptorUnchanged == UNCHANGED <<processVars, connVars, workerVars, peerVars>>

AcceptLoop ==
    /\ process = "serving"
    /\ acceptor = "loop"
    /\ acceptor' = IF running THEN "call" ELSE "done"
    /\ UNCHANGED accepted
    /\ AcceptorUnchanged

(* accept() fails at once on a closed socket.                              *)
CallAccept ==
    /\ process = "serving"
    /\ acceptor = "call"
    /\ acceptor' = IF listener = "open" THEN "blocked" ELSE "done"
    /\ UNCHANGED accepted
    /\ AcceptorUnchanged

(* A blocked accept() fails, and any failure ends the loop: no descriptor  *)
(* is left, memory is short, the connection was aborted before it could be *)
(* taken or, on Windows, the socket is closed.                             *)
AcceptFails ==
    /\ process = "serving"
    /\ acceptor = "blocked"
    /\ acceptor' = "done"
    /\ UNCHANGED accepted
    /\ AcceptorUnchanged

(* A peer may have closed its end of a waiting connection already.         *)
Waiting(c) == peer[c] \in {"queued", "closed"} /\ socket[c] = "none"

Accept(c) ==
    /\ process = "serving"
    /\ acceptor = "blocked"
    /\ ~(Windows /\ listener = "closed")
    /\ Waiting(c)
    /\ Cardinality(OpenSockets) < MaxDescriptors
    /\ peer' = [peer EXCEPT ![c] = IF @ = "queued" THEN "up" ELSE @]
    /\ socket' = [socket EXCEPT ![c] = "open"]
    /\ connected' = [connected EXCEPT ![c] = TRUE]
    /\ acceptor' = "add"
    /\ accepted' = c
    /\ UNCHANGED <<processVars, clients, handler, workerVars, inbox, outbox>>

(* Mutant: no handler thread is started.                                   *)
AddClientWithoutThread ==
    /\ process = "serving"
    /\ acceptor = "add"
    /\ worker = "idle"
    /\ clients' = clients \cup {accepted}
    /\ acceptor' = "loop"
    /\ accepted' = NoConn
    /\ UNCHANGED <<processVars, connected, socket, handler, workerVars, peerVars>>

(* add_client(), under clients_mutex_; then the handler thread starts.     *)
AddClient ==
    /\ process = "serving"
    /\ acceptor = "add"
    /\ worker = "idle"
    /\ clients' = clients \cup {accepted}
    /\ handler' = [handler EXCEPT ![accepted] = "loop"]
    /\ acceptor' = "loop"
    /\ accepted' = NoConn
    /\ UNCHANGED <<processVars, connected, socket, workerVars, peerVars>>

-----------------------------------------------------------------------------
(* Mutant: send() takes any number of messages.                            *)
SendWithoutBlocking(c) ==
    /\ outbox' = [outbox EXCEPT ![c] = @ + 1]
    /\ UNCHANGED process

(* Mutant: a send to a closed peer is tried again and again.               *)
SendRetries(c) ==
    /\ peer[c] # "closed"
    /\ outbox[c] < SendBuffer
    /\ outbox' = [outbox EXCEPT ![c] = @ + 1]
    /\ UNCHANGED process

(* send() on an open socket: it blocks while the peer does not read.  What *)
(* is sent to a closed peer is lost; on Linux it may also raise SIGPIPE,   *)
(* which the program leaves at its default, the end of the process.        *)
Send(c) ==
    \/ /\ peer[c] # "closed"
       /\ outbox[c] < SendBuffer
       /\ outbox' = [outbox EXCEPT ![c] = @ + 1]
       /\ UNCHANGED process
    \/ /\ peer[c] = "closed" \/ SocketsDown
       /\ process' \in IF Windows THEN {process} ELSE {process, "killed"}
       /\ UNCHANGED outbox

(* client_handler_thread().                                                *)

HandlerLoop(c) ==
    /\ process = "serving"
    /\ handler[c] = "loop"
    /\ handler' = [handler EXCEPT ![c] =
                      IF running /\ connected[c] THEN "recv" ELSE "remove"]
    /\ UNCHANGED <<processVars, acceptVars, clients, connected, socket,
                   workerVars, peerVars>>

ReceiveRequest(c) ==
    /\ process = "serving"
    /\ handler[c] = "recv"
    /\ inbox[c] > 0
    /\ inbox' = [inbox EXCEPT ![c] = @ - 1]
    /\ handler' = [handler EXCEPT ![c] = "reply"]
    /\ UNCHANGED <<processVars, acceptVars, clients, connected, socket,
                   workerVars, peer, outbox>>

(* Mutant: the end of the connection is not noted.                         *)
ReceiveEndIgnored(c) ==
    /\ process = "serving"
    /\ handler[c] = "recv"
    /\ peer[c] = "closed"
    /\ handler' = [handler EXCEPT ![c] = "loop"]
    /\ UNCHANGED <<processVars, acceptVars, clients, connected, socket,
                   workerVars, peerVars>>

(* recv() returns 0 or an error.  A reset also drops unread requests.      *)
ReceiveEnd(c) ==
    /\ process = "serving"
    /\ handler[c] = "recv"
    /\ peer[c] = "closed" \/ SocketsDown
    /\ connected' = [connected EXCEPT ![c] = FALSE]
    /\ handler' = [handler EXCEPT ![c] = "loop"]
    /\ UNCHANGED <<processVars, acceptVars, clients, socket, workerVars, peerVars>>

(* send_message() locks send_mutex_, which the worker may hold.            *)
ReplyLocks(c) ==
    /\ process = "serving"
    /\ handler[c] = "reply"
    /\ ~(worker = "send" /\ target = c)
    /\ handler' = [handler EXCEPT ![c] = "sending"]
    /\ UNCHANGED <<processVars, acceptVars, clients, connected, socket,
                   workerVars, peerVars>>

Reply(c) ==
    /\ process = "serving"
    /\ handler[c] = "sending"
    /\ Send(c)
    /\ handler' = [handler EXCEPT ![c] = "loop"]
    /\ UNCHANGED <<running, listener, stopper, acceptVars, clients, connected,
                   socket, workerVars, peer, inbox>>

(* The destructor calls disconnect(), which returns before it closes the   *)
(* socket when connected_ is FALSE already.                                *)
SocketAfterDestruction(c) == IF connected[c] THEN "closed" ELSE socket[c]

(* Mutant: remove_client() does not lock clients_mutex_.                   *)
RemoveClientUnlocked(c) ==
    /\ process = "serving"
    /\ handler[c] = "remove"
    /\ clients' = clients \ {c}
    /\ connected' = [connected EXCEPT ![c] = FALSE]
    /\ socket' = [socket EXCEPT ![c] = SocketAfterDestruction(c)]
    /\ handler' = [handler EXCEPT ![c] = "ended"]
    /\ UNCHANGED <<processVars, acceptVars, workerVars, peerVars>>

(* Mutant: the handler returns without remove_client().                    *)
HandlerForgetsClient(c) ==
    /\ process = "serving"
    /\ handler[c] = "remove"
    /\ connected' = [connected EXCEPT ![c] = FALSE]
    /\ handler' = [handler EXCEPT ![c] = "ended"]
    /\ UNCHANGED <<processVars, acceptVars, clients, socket, workerVars, peerVars>>

(* remove_client(), under clients_mutex_; then the thread returns and      *)
(* drops the last reference to the connection.                             *)
RemoveClient(c) ==
    /\ process = "serving"
    /\ handler[c] = "remove"
    /\ worker = "idle"
    /\ clients' = clients \ {c}
    /\ connected' = [connected EXCEPT ![c] = FALSE]
    /\ socket' = [socket EXCEPT ![c] = SocketAfterDestruction(c)]
    /\ handler' = [handler EXCEPT ![c] = "ended"]
    /\ UNCHANGED <<processVars, acceptVars, workerVars, peerVars>>

HandlerStep(c) ==
    \/ HandlerLoop(c) \/ ReceiveRequest(c) \/ ReceiveEnd(c)
    \/ ReplyLocks(c) \/ Reply(c) \/ RemoveClient(c)

-----------------------------------------------------------------------------
(* The feed's worker thread in on_trade_data() or on_level2_data().        *)

(* It locks clients_mutex_ and walks over clients_.                        *)
BroadcastStart ==
    /\ process = "serving"
    /\ feed
    /\ worker = "idle"
    /\ worker' = "loop"
    /\ todo' = clients
    /\ UNCHANGED <<processVars, acceptVars, connVars, feed, target, peerVars>>

(* A client that has not listed the symbol, or that is not connected when  *)
(* the loop tests it or when send_message() does.                          *)
BroadcastSkips(c) ==
    /\ process = "serving"
    /\ worker = "loop"
    /\ c \in todo
    /\ todo' = todo \ {c}
    /\ UNCHANGED <<processVars, acceptVars, connVars, feed, worker, target, peerVars>>

BroadcastChooses(c) ==
    /\ process = "serving"
    /\ worker = "loop"
    /\ c \in todo
    /\ connected[c]
    /\ todo' = todo \ {c}
    /\ target' = c
    /\ worker' = "lock"
    /\ UNCHANGED <<processVars, acceptVars, connVars, feed, peerVars>>

(* connected_ may have become FALSE since it was tested.                   *)
BroadcastLocks ==
    /\ process = "serving"
    /\ worker = "lock"
    /\ handler[target] # "sending"
    /\ worker' = "send"
    /\ UNCHANGED <<processVars, acceptVars, connVars, feed, target, todo, peerVars>>

BroadcastSends ==
    /\ process = "serving"
    /\ worker = "send"
    /\ Send(target)
    /\ worker' = "loop"
    /\ target' = NoConn
    /\ UNCHANGED <<running, listener, stopper, acceptVars, connVars, feed,
                   todo, peer, inbox>>

BroadcastEnd ==
    /\ process = "serving"
    /\ worker = "loop"
    /\ todo = {}
    /\ worker' = "idle"
    /\ UNCHANGED <<processVars, acceptVars, connVars, feed, target, todo, peerVars>>

BroadcastStep ==
    \/ \E c \in Conns : BroadcastSkips(c) \/ BroadcastChooses(c)
    \/ BroadcastLocks
    \/ BroadcastSends
    \/ BroadcastEnd

-----------------------------------------------------------------------------
(* The peers.  A connection can be made while the system keeps the         *)
(* listening socket.                                                       *)

Connect(c) ==
    /\ process = "serving"
    /\ peer[c] = "out"
    /\ listener = "open" \/ (~Windows /\ acceptor = "blocked")
    /\ peer' = [peer EXCEPT ![c] = "queued"]
    /\ UNCHANGED <<processVars, acceptVars, connVars, workerVars, inbox, outbox>>

PeerSends(c) ==
    /\ process = "serving"
    /\ c \in Requesters
    /\ peer[c] \in {"queued", "up"}
    /\ socket[c] # "closed"
    /\ inbox[c] < MaxInbox
    /\ inbox' = [inbox EXCEPT ![c] = @ + 1]
    /\ UNCHANGED <<processVars, acceptVars, connVars, workerVars, peer, outbox>>

PeerReads(c) ==
    /\ process = "serving"
    /\ peer[c] = "up"
    /\ outbox[c] > 0
    /\ outbox' = [outbox EXCEPT ![c] = @ - 1]
    /\ UNCHANGED <<processVars, acceptVars, connVars, workerVars, peer, inbox>>

PeerCloses(c) ==
    /\ process = "serving"
    /\ peer[c] \in {"queued", "up"}
    /\ peer' = [peer EXCEPT ![c] = "closed"]
    /\ outbox' = [outbox EXCEPT ![c] = 0]
    /\ UNCHANGED <<processVars, acceptVars, connVars, workerVars, inbox>>

PeerStep(c) == Connect(c) \/ PeerSends(c) \/ PeerReads(c) \/ PeerCloses(c)

-----------------------------------------------------------------------------
(* The process has ended.                                                  *)
Ended == process \in {"exited", "killed"} /\ UNCHANGED vars

StopStep == StopClosesListener \/ StopJoins \/ MainReturns

AcceptorStep ==
    AcceptLoop \/ CallAccept \/ AcceptFails \/ AddClient \/ \E c \in Conns : Accept(c)

Next ==
    \/ Start \/ StopSignals \/ StopStep
    \/ AcceptorStep
    \/ BroadcastStart \/ BroadcastStep
    \/ \E c \in Conns : HandlerStep(c) \/ PeerStep(c)
    \/ Ended

Spec == Init /\ [][Next]_vars

(* accept() returns when there is something to return with.                *)
AcceptReturns ==
    acceptor = "blocked" =>
        (Windows /\ listener = "closed") \/ \E c \in Conns : Waiting(c)

(* Threads keep running, and one that queues for a mutex gets it if it     *)
(* becomes free again and again.  No peer need do anything, no signal need *)
(* come, and accept() need not fail.                                       *)
FairSpec ==
    /\ Spec
    /\ WF_vars(StopStep)
    /\ WF_vars(AcceptorStep /\ AcceptReturns) /\ SF_vars(AddClient)
    /\ WF_vars(BroadcastStep) /\ SF_vars(BroadcastLocks)
    /\ \A c \in Conns :
         /\ WF_vars(HandlerStep(c))
         /\ SF_vars(ReplyLocks(c)) /\ SF_vars(RemoveClient(c))

(* Peers that go on reading what they are sent.                            *)
ReadingPeersSpec == FairSpec /\ \A c \in Conns : WF_vars(PeerReads(c))
=============================================================================
