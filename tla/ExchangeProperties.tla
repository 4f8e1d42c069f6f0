------------------------- MODULE ExchangeProperties -------------------------
(* What the connection to the exchange is for, and what keeps it safe.     *)
EXTENDS ExchangeConnection

(* Threads that hold the SSL object or are about to: past the check of     *)
(* ssl_ and not out of SSL_read() or SSL_write() yet.                      *)
Reading == worker = "read"
InSend(c) == caller[c] \in {"lock", "write"}
SslInUse == \/ Reading
            \/ pinger \in {"lock", "write"}
            \/ owner \in {"authLock", "authWrite"}
            \/ \E c \in Callers : InSend(c)

WritingCallers == {c \in Callers : caller[c] = "write"}

(* Nobody uses the SSL object, or the client it belongs to, before it is   *)
(* made or after it is freed, while it may be freed by another thread      *)
(* without a lock (ssl_websocket_client.cpp:726).  It holds if callers     *)
(* have left the feed when its owner disconnects it.                       *)
SslInUseIsAlive ==
    ~Overlap /\ SslInUse => ssl = "made" /\ client = "made" /\ socket = "open"

(* send_mutex_ keeps frames whole: the callers, the ping thread and the    *)
(* authentication never write at the same time                             *)
(* (ssl_websocket_client.cpp:671).                                         *)
OneWriter ==
    /\ (writer = "owner") <=> (owner = "authWrite")
    /\ (writer = "pinger") <=> (pinger = "write")
    /\ (writer = "caller") <=> (WritingCallers # {})
    /\ \A c, d \in WritingCallers : c = d

(* Whoever was told that the connection is down can rely on it: both       *)
(* threads have ended, the SSL object and the socket are gone.  A feed     *)
(* that says it is connected, and is not being disconnected, has them all  *)
(* (coinbase_feed.cpp:49, 139).                                            *)
NotificationsAreTrue ==
    /\ told # "up" /\ (WorkerRuns \/ PingerRuns) => owner = "callback"
    /\ told = "down" /\ owner = "reset" => ssl = "none" /\ socket = "none"
    /\ owner = "idle" => (told = "up" <=> feedConnected)
    /\ feedConnected /\ owner = "idle" =>
          /\ WorkerRuns /\ PingerRuns
          /\ ssl = "made" /\ socket = "open" /\ clientConnected

(* The sockets of which the program loses track are those of connects that *)
(* failed after their TCP connection was made; a connection that was used  *)
(* gives its socket back (ssl_websocket_client.cpp:388, 726).              *)
LostSocketsAreFailedConnects ==
    leaked + (IF socket = "open" THEN 1 ELSE 0)
        = failed + (IF socket = "open" /\ (owner \in Connecting \/ feedConnected)
                    THEN 1 ELSE 0)

(* The inductive strengthening of the four: where the owner is says what   *)
(* there is of the connection, and who may be using it.                    *)
Live == \/ owner \in {"callback", "authLock", "authWrite", "finish"}
        \/ owner = "idle" /\ feedConnected

OwnerKnows ==
    /\ clientConnected <=> Live
    /\ Live => ~shouldStop
    /\ owner \in Disconnecting => feedConnected
    /\ feedConnected => owner \in Disconnecting \cup {"idle"}
    /\ Live \/ owner \in {"joinWorker", "joinPinger", "free"} => ssl = "made"
    /\ owner \in {"tls", "hello"} => ssl = "made"
    /\ Live \/ owner \in {"ssl", "tls", "hello", "joinWorker", "joinPinger", "free", "close"}
          => socket = "open" /\ client = "made"
    /\ owner \in {"reset", "clear"} => ssl = "none" /\ socket = "none"
    /\ owner = "gone" => socket = "none"
    /\ owner = "close" => ssl = "none"

ThreadsLive ==
    /\ Live => WorkerRuns /\ PingerRuns
    /\ WorkerRuns => Live \/ owner = "joinWorker"
    /\ PingerRuns => Live \/ owner \in {"joinWorker", "joinPinger"}
    /\ ~Overlap => \A c \in Callers : caller[c] # "out" => owner = "idle" /\ feedConnected

ToldInv ==
    /\ owner \in {"authLock", "authWrite", "finish", "joinWorker", "joinPinger",
                  "free", "close"} => told = "up"
    /\ owner \in {"ssl", "tls", "hello", "callback", "gone"} => told # "up"
    /\ owner \in {"reset", "clear"} => told = "down"
    /\ owner = "idle" => (told = "up" <=> feedConnected)

ExchangeInv == OwnerKnows /\ ThreadsLive /\ ToldInv /\ OneWriter
                  /\ LostSocketsAreFailedConnects

(* Where the exchange sends now and then, or its end of the connection is  *)
(* seen to go, connect() and disconnect() return: no join of a thread in   *)
(* SSL_read() and no wait for send_mutex_ lasts                            *)
(* (ssl_websocket_client.cpp:388, 726).                                    *)
OwnerCallsReturn == owner \notin {"idle", "gone"} ~> owner \in {"idle", "gone"}

(* A handler that calls the feed gets out of it again although ping        *)
(* thread, authentication and other callers want send_mutex_ too.          *)
CallsReturn == \A c \in Callers : caller[c] # "out" ~> caller[c] = "out"

(* The connection implements the sessions its owner relies on.             *)
Session == INSTANCE FeedSession WITH
    session <- IF owner \in {"joinWorker", "joinPinger"} THEN "closing"
               ELSE IF clientConnected THEN "open" ELSE "closed",
    delivering <- worker = "callback"

ImplementsSession == Session!Spec
ImplementsFairSession == Session!FairSpec

-----------------------------------------------------------------------------
(* Statements of the documents that do not hold of the code.               *)

(* ssl_websocket_client.hpp:48, "Thread-safe message handling": the SSL    *)
(* object is used by one thread at a time.  OpenSSL asks for this; the     *)
(* worker is in SSL_read() under receive_mutex_ while others are in        *)
(* SSL_write() under send_mutex_.                                          *)
OneThreadInSsl ==
    Reading => /\ pinger # "write"
               /\ owner # "authWrite"
               /\ WritingCallers = {}

(* ssl_websocket_client.hpp:47, "Automatic reconnection with exponential   *)
(* backoff": a connection that is lost is replaced, or somebody is told.   *)
LostConnectionIsNoticed ==
    feedConnected /\ wire = "lost" ~> wire # "lost" \/ told = "down"

(* coinbase_feed.hpp:229, "Aggregate set of active ticker product_ids":    *)
(* ticker_products_ holds what is subscribed, and nothing of an earlier    *)
(* connection.                                                             *)
TickerProductsAreActive == owner = "idle" => tickerProducts \subseteq subscriptions

(* server.cpp:130, "DTC Server stopped": nobody is left in the feed when   *)
(* ~DTCServer, which follows, destroys it.  Handlers are detached and may  *)
(* be in a call (Overlap).                                                 *)
NobodyOutlivesTheClient ==
    \A c \in Callers : InSend(c) => client = "made" /\ ssl = "made"

(* coinbase_feed.cpp:46, "Coinbase feed destroyed": the server destroys    *)
(* the feed last, while its worker may still broadcast to clients_.        *)
CallbacksFindTheirListener == worker = "callback" => listener = "up"
=============================================================================
