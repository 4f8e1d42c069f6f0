------------------------- MODULE ExchangeConnection -------------------------
(***************************************************************************)
(* Life of the feed's connection to the exchange: CoinbaseFeed::connect()  *)
(* and disconnect() (src/exchanges/coinbase/coinbase_feed.cpp) over an     *)
(* SSLWebSocketClient (src/exchanges/coinbase/ssl_websocket_client.cpp)    *)
(* with its worker and its ping thread.                                    *)
(*                                                                         *)
(* The owner is the thread that connects, disconnects and destroys the     *)
(* feed.  The callers are the handler threads that subscribe and           *)
(* unsubscribe; what a request says and how it is answered is left to      *)
(* CoinbaseFeed, here a call is one message and, if it is accepted, one    *)
(* entry in the feed's tables.  A received piece of data is one message    *)
(* for the feed, or none; how frames are cut is left to WebSocketFrames.   *)
(*                                                                         *)
(* A thread between "lock" and the end of "write" is in send_ssl_data();   *)
(* it looks at ssl_ before it takes send_mutex_.  receive_mutex_ has no    *)
(* variable: only the worker receives once the handshake is over.          *)
(***************************************************************************)
EXTENDS Naturals, FiniteSets

CONSTANTS
    Callers,      \* threads that call the feed
    Products,
    Overlap,      \* callers may be in the feed while its owner disconnects it
    MaxConnects   \* bound: connects tried

ASSUME ExchangeAssumption ==
    /\ Overlap \in BOOLEAN
    /\ MaxConnects \in Nat

VARIABLES
    owner,            \* where the owner is in connect() or disconnect()
    feedConnected,    \* connected_ of the feed
    told,             \* the last connection notification: none, up, down
    subscriptions,    \* products in subscriptions_
    tickerProducts,   \* ticker_products_
    client,           \* ssl_websocket_client_: none, made
    clientConnected,  \* connected_ of the client
    shouldStop,       \* should_stop_ of the client
    socket,           \* socket_fd_: none, open, closed
    ssl,              \* ssl_: none, made
    worker,           \* worker_thread_: none, loop, read, callback, ended
    pinger,           \* ping_thread_: none, loop, sleep, lock, write, ended
    caller,           \* out, entered, lock, write
    writer,           \* who holds send_mutex_
    wire,             \* the TCP connection: up, silent, lost
    data,             \* bytes have arrived and are not read
    listener,         \* what the feed's callbacks use, clients_: up, gone
    connects,         \* connects tried
    failed,           \* connects that failed with the TCP connection made
    leaked            \* sockets no longer known and still open

feedVars    == <<feedConnected, told, subscriptions, tickerProducts>>
clientVars  == <<client, clientConnected, shouldStop, socket, ssl>>
threadVars  == <<worker, pinger, caller, writer>>
wireVars    == <<wire, data>>
countVars   == <<connects, failed, leaked>>
vars == <<owner, feedVars, clientVars, threadVars, wireVars, listener, countVars>>

Connecting    == {"ssl", "tls", "hello", "callback", "authLock", "authWrite", "finish"}
Disconnecting == {"joinWorker", "joinPinger", "free", "close", "reset", "clear"}
WorkerRuns == worker \in {"loop", "read", "callback"}
PingerRuns == pinger \in {"loop", "sleep", "lock", "write"}

TypeOK ==
    /\ owner \in {"idle", "gone"} \cup Connecting \cup Disconnecting
    /\ feedConnected \in BOOLEAN
    /\ told \in {"none", "up", "down"}
    /\ subscriptions \in SUBSET Products
    /\ tickerProducts \in SUBSET Products
    /\ client \in {"none", "made"}
    /\ clientConnected \in BOOLEAN
    /\ shouldStop \in BOOLEAN
    /\ socket \in {"none", "open", "closed"}
    /\ ssl \in {"none", "made"}
    /\ worker \in {"none", "loop", "read", "callback", "ended"}
    /\ pinger \in {"none", "loop", "sleep", "lock", "write", "ended"}
    /\ caller \in [Callers -> {"out", "entered", "lock", "write"}]
    /\ writer \in {"nobody", "owner", "pinger", "caller"}
    /\ wire \in {"up", "silent", "lost"}
    /\ data \in BOOLEAN
    /\ listener \in {"up", "gone"}
    /\ connects \in 0 .. MaxConnects
    /\ failed \in Nat
    /\ leaked \in Nat

Init ==
    /\ owner = "idle"
    /\ feedConnected = FALSE
    /\ told = "none"
    /\ subscriptions = {}
    /\ tickerProducts = {}
    /\ client = "none"
    /\ clientConnected = FALSE
    /\ shouldStop = FALSE
    /\ socket = "none"
    /\ ssl = "none"
    /\ worker = "none"
    /\ pinger = "none"
    /\ caller = [c \in Callers |-> "out"]
    /\ writer = "nobody"
    /\ wire = "lost"
    /\ data = FALSE
    /\ listener = "up"
    /\ connects = 0
    /\ failed = 0
    /\ leaked = 0

Owner(from, to) ==
    /\ owner = from
    /\ owner' = to

-----------------------------------------------------------------------------
(* connect().                                                              *)

(* Mutant: the number of a socket that was closed before is closed again.  *)
LeakedByClosingTwice == leaked - (IF socket = "closed" THEN 1 ELSE 0)

(* A client that is destroyed while it is not connected frees ssl_ and     *)
(* forgets its socket.                                                     *)
LeakedByDestruction == leaked + (IF socket = "open" THEN 1 ELSE 0)

(* A new client replaces that of an earlier, failed attempt, and makes its *)
(* TCP connection.  Where that fails the socket is closed, its number is   *)
(* kept.                                                                   *)
ConnectTcp ==
    /\ owner = "idle"
    /\ ~feedConnected
    /\ listener = "up"
    /\ connects < MaxConnects
    /\ connects' = connects + 1
    /\ leaked' = LeakedByDestruction
    /\ client' = "made"
    /\ clientConnected' = FALSE
    /\ shouldStop' = FALSE
    /\ ssl' = "none"
    /\ worker' = "none"
    /\ pinger' = "none"
    /\ \/ /\ socket' = "open"
          /\ wire' = "up"
          /\ data' = FALSE
          /\ owner' = "ssl"
       \/ /\ socket' \in {"none", "closed"}
          /\ owner' = "idle"
          /\ UNCHANGED wireVars
    /\ UNCHANGED <<feedVars, caller, writer, listener, failed>>

(* A later stage of connect() fails: it returns without cleaning up.       *)
ConnectFails ==
    /\ owner \in {"ssl", "tls", "hello"}
    /\ owner # "ssl" => wire # "silent"
    /\ owner' = "idle"
    /\ failed' = failed + 1
    /\ ssl' \in IF owner = "ssl" THEN {"none", "made"} ELSE {ssl}
    /\ UNCHANGED <<feedVars, client, clientConnected, shouldStop, socket,
                   threadVars, wireVars, listener, connects, leaked>>

CreateSslSocket ==
    /\ Owner("ssl", "tls")
    /\ ssl' = "made"
    /\ UNCHANGED <<feedVars, client, clientConnected, shouldStop, socket,
                   threadVars, wireVars, listener, countVars>>

PerformSslHandshake ==
    /\ Owner("tls", "hello")
    /\ wire = "up"
    /\ UNCHANGED <<feedVars, clientVars, threadVars, wireVars, listener, countVars>>

(* The handshake's answer has come: the threads start.                     *)
PerformWebSocketHandshake ==
    /\ Owner("hello", "callback")
    /\ wire = "up"
    /\ clientConnected' = TRUE
    /\ shouldStop' = FALSE
    /\ worker' = "loop"
    /\ pinger' = "loop"
    /\ UNCHANGED <<feedVars, client, socket, ssl, caller, writer, wireVars,
                   listener, countVars>>

(* The connection callback, in the owner's thread.  Without credentials,   *)
(* or if no token can be made, nothing is sent.                            *)
ConnectionCallback ==
    /\ owner = "callback"
    /\ told' = "up"
    /\ owner' \in {"authLock", "finish"}
    /\ UNCHANGED <<feedConnected, subscriptions, tickerProducts, clientVars,
                   threadVars, wireVars, listener, countVars>>

AuthenticateLocks ==
    /\ Owner("authLock", "authWrite")
    /\ writer = "nobody"
    /\ writer' = "owner"
    /\ UNCHANGED <<feedVars, clientVars, worker, pinger, caller, wireVars,
                   listener, countVars>>

AuthenticateWritten ==
    /\ Owner("authWrite", "finish")
    /\ writer' = "nobody"
    /\ UNCHANGED <<feedVars, clientVars, worker, pinger, caller, wireVars,
                   listener, countVars>>

(* The feed notes the connection and notifies a second time.               *)
FeedConnected ==
    /\ Owner("finish", "idle")
    /\ feedConnected' = TRUE
    /\ told' = "up"
    /\ UNCHANGED <<subscriptions, tickerProducts, clientVars, threadVars,
                   wireVars, listener, countVars>>

-----------------------------------------------------------------------------
(* disconnect().                                                           *)

(* Mutant: the client does not ask its threads to stop.                    *)
DisconnectQuietly ==
    /\ Owner("idle", "joinWorker")
    /\ feedConnected
    /\ Overlap \/ \A c \in Callers : caller[c] = "out"
    /\ UNCHANGED <<feedVars, clientVars, threadVars, wireVars, listener, countVars>>

Disconnect ==
    /\ Owner("idle", "joinWorker")
    /\ feedConnected
    /\ Overlap \/ \A c \in Callers : caller[c] = "out"
    /\ shouldStop' = TRUE
    /\ clientConnected' = FALSE
    /\ UNCHANGED <<feedVars, client, socket, ssl, threadVars, wireVars,
                   listener, countVars>>

(* Mutant: the worker is not joined.                                       *)
JoinWorkerSkipped ==
    /\ Owner("joinWorker", "joinPinger")
    /\ UNCHANGED <<feedVars, clientVars, threadVars, wireVars, listener, countVars>>

JoinWorker ==
    /\ Owner("joinWorker", "joinPinger")
    /\ worker = "ended"
    /\ UNCHANGED <<feedVars, clientVars, threadVars, wireVars, listener, countVars>>

(* Mutant: the ping thread is not joined.                                  *)
JoinPingerSkipped ==
    /\ Owner("joinPinger", "free")
    /\ UNCHANGED <<feedVars, clientVars, threadVars, wireVars, listener, countVars>>

JoinPinger ==
    /\ Owner("joinPinger", "free")
    /\ pinger = "ended"
    /\ UNCHANGED <<feedVars, clientVars, threadVars, wireVars, listener, countVars>>

(* SSL_shutdown() and SSL_free(), without send_mutex_.                     *)
FreeSsl ==
    /\ Owner("free", "close")
    /\ ssl' = "none"
    /\ UNCHANGED <<feedVars, client, clientConnected, shouldStop, socket,
                   threadVars, wireVars, listener, countVars>>

(* Mutant: the socket is not closed.                                       *)
ForgetSocket ==
    /\ Owner("close", "reset")
    /\ told' = "down"
    /\ UNCHANGED <<feedConnected, subscriptions, tickerProducts, clientVars,
                   threadVars, wireVars, listener, countVars>>

(* The socket is closed and the connection callback called.                *)
CloseSocket ==
    /\ Owner("close", "reset")
    /\ socket' = "none"
    /\ wire' = "lost"
    /\ data' = FALSE
    /\ told' = "down"
    /\ UNCHANGED <<feedConnected, subscriptions, tickerProducts, client,
                   clientConnected, shouldStop, ssl, threadVars, listener, countVars>>

ResetClient ==
    /\ Owner("reset", "clear")
    /\ client' = "none"
    /\ socket' = "none"
    /\ leaked' = LeakedByDestruction
    /\ UNCHANGED <<feedVars, clientConnected, shouldStop, ssl, threadVars,
                   wireVars, listener, connects, failed>>

(* Under subscriptions_mutex_; ticker_products_ is not touched.            *)
Disconnected ==
    /\ Owner("clear", "idle")
    /\ feedConnected' = FALSE
    /\ subscriptions' = {}
    /\ told' = "down"
    /\ UNCHANGED <<tickerProducts, clientVars, threadVars, wireVars, listener,
                   countVars>>

(* ~DTCServer destroys clients_ and its mutex before exchange_feeds_.      *)
ListenerDestroyed ==
    /\ owner = "idle"
    /\ listener = "up"
    /\ listener' = "gone"
    /\ UNCHANGED <<owner, feedVars, clientVars, threadVars, wireVars, countVars>>

(* The feed that is not, or no longer, connected is destroyed.  The server *)
(* does so at its end and with a feed whose connect() failed.              *)
FeedDestroyed ==
    /\ Owner("idle", "gone")
    /\ ~feedConnected
    /\ leaked' = LeakedByDestruction
    /\ socket' = "none"
    /\ client' = "none"
    /\ ssl' = "none"
    /\ UNCHANGED <<feedVars, clientConnected, shouldStop, threadVars, wireVars,
                   listener, connects, failed>>

-----------------------------------------------------------------------------
(* worker_loop(), process_incoming_messages().                             *)

WorkerUnchanged == UNCHANGED <<owner, feedVars, clientVars, pinger, caller, writer,
                               listener, countVars>>

WorkerLoop ==
    /\ worker = "loop"
    /\ worker' = IF ~shouldStop /\ clientConnected THEN "read" ELSE "ended"
    /\ UNCHANGED wireVars
    /\ WorkerUnchanged

(* SSL_read() returns what has arrived: a message the feed is called with, *)
(* or a part of one, or a frame that is no JSON text.                      *)
WorkerReceives ==
    /\ worker = "read"
    /\ data
    /\ data' = FALSE
    /\ worker' \in {"callback", "loop"}
    /\ UNCHANGED wire
    /\ WorkerUnchanged

(* An error of SSL_read() is logged; the loop goes on, connected_ stays.   *)
WorkerReadFails ==
    /\ worker = "read"
    /\ wire = "lost"
    /\ ~data
    /\ worker' = "loop"
    /\ UNCHANGED wireVars
    /\ WorkerUnchanged

(* The feed has dealt with a message; the piece may hold a further one.    *)
WorkerCallbackReturns ==
    /\ worker = "callback"
    /\ worker' = "loop"
    /\ UNCHANGED wireVars
    /\ WorkerUnchanged

(* ping_loop(): a ping every 30 seconds.                                   *)

PingerUnchanged == UNCHANGED <<owner, feedVars, clientVars, worker, caller, wireVars,
                               listener, countVars>>

PingerLoop ==
    /\ pinger = "loop"
    /\ pinger' = IF ~shouldStop /\ clientConnected THEN "sleep" ELSE "ended"
    /\ UNCHANGED writer
    /\ PingerUnchanged

PingerWakes ==
    /\ pinger = "sleep"
    /\ pinger' = IF clientConnected /\ ssl = "made" THEN "lock" ELSE "loop"
    /\ UNCHANGED writer
    /\ PingerUnchanged

(* Mutant: the ping is sent without send_mutex_.                           *)
PingerDoesNotLock ==
    /\ pinger = "lock"
    /\ pinger' = "write"
    /\ UNCHANGED writer
    /\ PingerUnchanged

PingerLocks ==
    /\ pinger = "lock"
    /\ writer = "nobody"
    /\ writer' = "pinger"
    /\ pinger' = "write"
    /\ PingerUnchanged

(* Mutant: a failing write leaves send_mutex_ locked.                      *)
PingerWrittenLocked ==
    /\ pinger = "write"
    /\ pinger' = "loop"
    /\ UNCHANGED writer
    /\ PingerUnchanged

PingerWritten ==
    /\ pinger = "write"
    /\ writer' = "nobody"
    /\ pinger' = "loop"
    /\ PingerUnchanged

-----------------------------------------------------------------------------
(* subscribe_trades(), subscribe_level2(), unsubscribe() of the feed.      *)

CallerUnchanged == UNCHANGED <<owner, feedConnected, told, clientVars, worker, pinger,
                               wireVars, listener, countVars>>

Caller(c, from, to) ==
    /\ caller[c] = from
    /\ caller' = [caller EXCEPT ![c] = to]

(* is_connected() of the feed.  A call while it is not connected changes   *)
(* nothing: subscribe returns, unsubscribe finds no entry.                 *)
CallerEnters(c) ==
    /\ feedConnected
    /\ Overlap \/ owner \notin Disconnecting
    /\ Caller(c, "out", "entered")
    /\ UNCHANGED <<subscriptions, tickerProducts, writer>>
    /\ CallerUnchanged

(* The pointer to the client, its connected_ and its ssl_.                 *)
CallerChecks(c) ==
    /\ Caller(c, "entered",
              IF client = "made" /\ clientConnected /\ ssl = "made" THEN "lock" ELSE "out")
    /\ UNCHANGED <<subscriptions, tickerProducts, writer>>
    /\ CallerUnchanged

CallerLocks(c) ==
    /\ writer = "nobody"
    /\ writer' = "caller"
    /\ Caller(c, "lock", "write")
    /\ UNCHANGED <<subscriptions, tickerProducts>>
    /\ CallerUnchanged

(* The request is sent; a subscribe is accepted or refused, or was for     *)
(* level2, whose keys are left out here; an unsubscribe drops the product. *)
CallerWritten(c) ==
    /\ Caller(c, "write", "out")
    /\ writer' = "nobody"
    /\ \/ UNCHANGED <<subscriptions, tickerProducts>>
       \/ \E p \in Products :
            /\ subscriptions' = subscriptions \cup {p}
            /\ tickerProducts' = tickerProducts \cup {p}
       \/ \E p \in subscriptions :
            /\ subscriptions' = subscriptions \ {p}
            /\ tickerProducts' = tickerProducts \ {p}
    /\ CallerUnchanged

-----------------------------------------------------------------------------
(* The connection: data arrives; the exchange falls silent with the        *)
(* connection standing, and may be heard again; the connection is lost.    *)

WireUnchanged == UNCHANGED <<owner, feedVars, clientVars, threadVars, listener, countVars>>

ExchangeSends ==
    /\ wire = "up"
    /\ ssl = "made"
    /\ ~data
    /\ data' = TRUE
    /\ UNCHANGED wire
    /\ WireUnchanged

ExchangeFallsSilent ==
    /\ wire = "up"
    /\ wire' = "silent"
    /\ UNCHANGED data
    /\ WireUnchanged

ExchangeIsHeard ==
    /\ wire = "silent"
    /\ wire' = "up"
    /\ UNCHANGED data
    /\ WireUnchanged

ConnectionLost ==
    /\ wire # "lost"
    /\ wire' = "lost"
    /\ UNCHANGED data
    /\ WireUnchanged

(* The feed has been destroyed, and nobody is left in it.                  *)
Ended ==
    /\ owner = "gone"
    /\ UNCHANGED vars

ConnectStep == \/ ConnectTcp \/ ConnectFails
               \/ CreateSslSocket \/ PerformSslHandshake \/ PerformWebSocketHandshake
               \/ ConnectionCallback \/ AuthenticateLocks \/ AuthenticateWritten
               \/ FeedConnected
DisconnectStep == \/ Disconnect \/ JoinWorker \/ JoinPinger \/ FreeSsl
                  \/ CloseSocket \/ ResetClient \/ Disconnected
OwnerStep == ConnectStep \/ DisconnectStep \/ ListenerDestroyed \/ FeedDestroyed
WorkerStep == \/ WorkerLoop \/ WorkerReceives \/ WorkerReadFails
              \/ WorkerCallbackReturns
PingerStep == PingerLoop \/ PingerWakes \/ PingerLocks \/ PingerWritten
CallerStep(c) == CallerEnters(c) \/ CallerChecks(c) \/ CallerLocks(c) \/ CallerWritten(c)
WireStep == ExchangeSends \/ ExchangeFallsSilent \/ ExchangeIsHeard \/ ConnectionLost

Next == \/ OwnerStep \/ WorkerStep \/ PingerStep
        \/ \E c \in Callers : CallerStep(c)
        \/ WireStep
        \/ Ended

Spec == Init /\ [][Next]_vars

(* A write may block for as long as the exchange is silent.                *)
WriteReturns(step) == wire # "silent" /\ step

(* Threads are scheduled; whoever waits for send_mutex_ gets it in the end *)
(* although others take it again and again; and what waits for a silent    *)
(* exchange goes on if that is heard again and again.                      *)
FairSpec ==
    /\ Spec
    /\ WF_vars(ConnectFails \/ CreateSslSocket \/ ConnectionCallback \/ FeedConnected)
    /\ SF_vars(ConnectFails \/ PerformSslHandshake \/ PerformWebSocketHandshake)
    /\ SF_vars(AuthenticateLocks)
    /\ SF_vars(WriteReturns(AuthenticateWritten))
    /\ WF_vars(JoinWorker \/ JoinPinger \/ FreeSsl \/ CloseSocket
               \/ ResetClient \/ Disconnected)
    /\ WF_vars(WorkerStep)
    /\ WF_vars(PingerLoop \/ PingerWakes)
    /\ SF_vars(PingerLocks)
    /\ SF_vars(WriteReturns(PingerWritten))
    /\ \A c \in Callers : /\ WF_vars(CallerChecks(c))
                          /\ SF_vars(CallerLocks(c))
                          /\ SF_vars(WriteReturns(CallerWritten(c)))

(* The exchange sends again and again, or its end of the connection is     *)
(* seen to be gone.                                                        *)
TalkingSpec ==
    /\ FairSpec
    /\ WF_vars(ExchangeSends \/ ConnectionLost)

=============================================================================
