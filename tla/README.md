# A verification development for the DTC server

This directory holds TLA+ models of the DTC server for Coinbase market data,
TLC configurations that check them on small instances, and TLAPS proofs of
their most important properties for instances of every size. Paths below are
relative to the repository; `server.cpp` is `src/core/server/server.cpp`,
`coinbase_feed.cpp` is `src/exchanges/coinbase/coinbase_feed.cpp`,
`protocol.cpp` is `src/core/dtc/protocol.cpp`, `ssl_websocket_client.cpp` is
`src/exchanges/coinbase/ssl_websocket_client.cpp`, `dtc_gui_client.cpp` is
`src/dtc_test_client/dtc_gui_client.cpp`, and `advanced_log.cpp` is
`src/core/util/advanced_log.cpp`.

Contents: [1 the system](#1-the-system) ·
[2 the modules](#2-the-modules-and-the-code) · [3 the runs](#3-the-runs) ·
[4 fairness](#4-fairness) · [5 the proofs](#5-the-proofs) ·
[6 assumptions](#6-what-the-models-assume) ·
[7 disagreements](#7-where-code-and-documents-disagree) ·
[8 not modelled](#8-what-is-not-modelled) · [9 plan](#9-plan)

To repeat the checks: `tlc -config Service.cfg MCMarketData`,
`tlapm ConnectionProofs.tla`, and so on.

## 1 The system

DTC clients (Sierra Chart, the GUI test client) connect by TCP to the server,
ask for symbols, and receive trades and best bid and ask. The server gets them
from one Coinbase WebSocket connection shared by all clients.

```
 DTC client --TCP--> handler thread --exchanges_mutex_--> CoinbaseFeed --SSL WebSocket--> Coinbase
 DTC client <--TCP-- worker thread  <-----------callbacks-----------/ <------------------/
```

| Component | State | Operations | Interacts with |
|---|---|---|---|
| Server life cycle (`server.cpp`, `main.cpp`) | `server_running_`, `should_shutdown_`, `server_socket_`, `server_thread_`, `g_server` | start, stop (from a signal handler), the polling loop of `main()` | starts and joins the accepting thread |
| Connections (`server.cpp`) | `clients_` under `clients_mutex_`; per `ClientConnection` `connected_`, `socket_fd_`, `send_mutex_` | accept, add and remove a client, receive, send, close | accepting thread, detached handlers, the feed's worker |
| Sessions and market data (`server.cpp`) | `subscribed_symbols`, `symbol_to_id`, `id_to_symbol`, `next_symbol_id`; `exchange_feeds_` under `exchanges_mutex_`; `delisted_symbols_` | MARKET_DATA_REQUEST, SECURITY_DEFINITION_FOR_SYMBOL_REQUEST, broadcasts of trades and level2 data | calls the feed, is called by its worker |
| Coinbase feed (`coinbase_feed.cpp`) | `subscriptions_`, `ticker_products_`, `pending_subscriptions_`, `subscription_results_` with a condition variable | subscribe_trades, subscribe_level2, unsubscribe, the WebSocket messages | waits up to 500 ms for what the worker stores |
| SSL WebSocket client (`ssl_websocket_client.cpp`) | `connected_`, `should_stop_`, `ssl_`, `socket_fd_`, worker and ping thread, `send_mutex_`, `incoming_buffer_` | connect, handshakes, authentication, frames, pings, disconnect | calls the feed's callbacks from its worker; the feed's owner and the handlers call it |
| DTC codec (`protocol.cpp`) | none | serialize, deserialize, get_size, parse_message | used at both ends |
| Framing (`server.cpp`, the GUI client) | a receive buffer per connection | append what recv() gives, cut off complete messages | TCP |
| Exchange base, factory, MultiExchangeFeed | a map of feeds | operations over all feeds | not used by the server |
| GUI client (`dtc_gui_client.cpp`) | symbol and id maps, symbol list, market data panel | connect, load symbols, subscribe, unsubscribe, message handlers | a handler of the server |
| Logger (`advanced_log.cpp`) | `log_file_`, `config_` under `log_mutex_`; the log file and its backups on disk | initialize, rotate, log a line, shut down | every thread, and the signal handler |
| REST client, account data, authentication, console clients | keys and settings | HTTPS calls, signatures, output | the server's constructor and handlers |

What makes the behaviour hard:

* **Threads.** One handler per client, the accepting thread, the feed's worker,
  and `main()` with a signal handler share `clients_`, the feed and the
  sessions. Handlers are detached; nobody waits for their end.
* **A lock held over waits.** `exchanges_mutex_` is held over both 500 ms waits
  of a SUBSCRIBE, so a client's request can wait for those of all others.
* **Answers without a request number.** `subscription_results_` is keyed by
  product; an answer that comes after its waiter has left stays there.
* **Tables that must agree**: the client's list, its two id maps, the feed's
  `subscriptions_` and `ticker_products_`, and what the exchange streams.
* **Blocking sends under `clients_mutex_`**, sockets closed by one thread and
  used by another, a blocked `accept()` that `stop()` wants to join.
* **One connection, many users.** The exchange connection is made, used and
  taken down by its owner, a worker in `SSL_read()`, a ping thread and every
  handler that calls the feed; only joins and `send_mutex_` order them.
* **Numbers on both sides.** The GUI client and the server number symbols
  independently, from 1, and updates carry the number alone.
* **Files that outlive the process.** A log rotation is a chain of renames that
  a crash may cut anywhere, and the logger's mutex is taken by every thread.
* **Byte streams**: messages are cut and joined by TCP and written by two
  threads.

What makes each component correct:

* *Market data*: a request is answered once, and by what the exchange said of
  it; a listed symbol has an id and receives its updates; the tables agree; a
  wait ends.
* *Connections*: `clients_` is the set of connections with a live handler; no
  socket is used after it was closed; no two threads send on one connection at
  a time; what ends is cleaned up; a slow or dead peer does not hurt the others.
* *Life cycle*: `main()` destroys the server only after its threads have
  finished with it; a signal ends the process.
* *Exchange connection*: the SSL object is alive while it is used and written
  by one thread at a time; who is told that the connection is down may rely on
  it; `connect()` and `disconnect()` return; sockets come back.
* *GUI client*: an update is shown under the symbol it is for; a subscribe that
  is on its way is answered on the panel.
* *Logger*: lines stay in order within and over the files; backups are not lost
  to a crash; a thread that logs comes back.
* *Codec and framing*: what is written is read; messages arrive whole, once, in
  order; a message that cannot be parsed disturbs no other.

`PROJECT.json` lists the hazards with their lines and the properties that
would notice them.

## 2 The modules and the code

| Module | What it is | Builds on |
|---|---|---|
| `CoinbaseFeed` | tables and atomic steps of the feed, and the exchange | |
| `MarketDataServer` | handlers, sessions, `exchanges_mutex_`, delisting, broadcasts | extends `CoinbaseFeed` |
| `SubscriptionService` | the abstract specification: what each client is promised | |
| `MarketDataProperties` | the properties of the two, and the refinement mapping | extends `MarketDataServer`, instantiates `SubscriptionService` |
| `ServerConnections` | process, accepting thread, connections, locks, broadcasts, peers | |
| `ConnectionProperties` | its properties | extends `ServerConnections` |
| `DtcCodec` | layouts of the messages, writing and reading | |
| `DtcStream` | senders, TCP stream, receive buffer | extends `DtcCodec` |
| `MessageChannel` | the abstract specification: a channel of whole messages | |
| `StreamProperties` | properties of codec and stream, and the refinement mapping | extends `DtcStream`, instantiates `MessageChannel` |
| `ExchangeConnection` | the feed's connect and disconnect over the SSL client, its threads and those that call the feed | |
| `FeedSession` | the abstract specification: sessions with the exchange, one after the other | |
| `ExchangeProperties` | the properties of the connection, its inductive invariant, the refinement mapping | extends `ExchangeConnection`, instantiates `FeedSession` |
| `WebSocketFrames` | writing, sizing and reading of WebSocket frames | |
| `WebSocketStream` | frames in pieces, the receive buffer of the SSL client, the frames it sends | extends `WebSocketFrames` |
| `FrameProperties` | the properties of both, and a second refinement of `MessageChannel` | extends `WebSocketStream`, instantiates `MessageChannel` |
| `GuiClient` | the GUI client and the one handler of the server it talks to | |
| `GuiProperties` | its properties and inductive invariant | extends `GuiClient` |
| `Logger` | the log over many starts of the process | |
| `LoggerProperties` | its properties | extends `Logger` |
| `MCMarketData`, `MCConnections`, `MCStream`, `MCExchange`, `MCFrames`, `MCGui`, `MCLogger` | the instances TLC checks | |
| `MarketDataProofs`, `MarketDataSafetyProofs`, `ConnectionProofs`, `StreamProofs`, `ExchangeProofs`, `FrameProofs`, `GuiProofs`, `LoggerProofs` | theorems | each extends the properties of its component |

Operators named in a comment as *Mutant* are not part of the models. Each is a
definition with a plausible bug in it; putting it in the place of the original
breaks the property `PROJECT.json` names, which shows that the property
depends on the code being as it is.

### CoinbaseFeed

`pending`, `results`, `subscriptions`, `tickerProducts` are the members of
`CoinbaseFeed` with these names. A handler's call of `subscribe_trades()` is two
steps, `TradesRequested` (register, send) and `TradesAnswered` (wake up, take
the entry, and after a success store the subscription and send the full list);
`subscribe_level2()` likewise; `Unsubscribed` is the two `unsubscribe()` calls
of the handler. The waiting thread wakes with whatever entry there is: no entry
is the case where the 500 ms have passed. Time is not modelled further, so a
deadline may come before, after, or without an answer.

`wire` holds the requests not yet answered. `ExchangeConfirms` and
`ExchangeRefuses` join the exchange's answer with the worker's processing of it
(`handle_subscriptions_message`, `handle_error_message`); an answer that never
comes is a behaviour where the step is not taken. `refused` is a history
variable: the products an error message has named.

### MarketDataServer

`pc[c]` is the point the handler of client `c` has reached; the module's head
lists the points. Between two points lies what happens without a lock being
taken or released and without a wait, with two deliberate exceptions: the
`push_back` to the client's list and the unlock of `exchanges_mutex_` are one
step, and so are the two `unsubscribe()` calls, which touch only what the mutex
protects in practice. A client may send a request, ask for security
definitions, or disconnect, whenever its handler is in `recv()`; a slot of
`Clients` is used by connection after connection, each with an empty session.
`next_symbol_id` is 32 bits wide and is cut to the 16 bits of a SymbolID:
`IdModulus` is the 65536 of that, small in the instances so that ids come
round.

A broadcast is the worker's, in steps between which handlers go on, since they
do not take `clients_mutex_` to change a session: the lock (`BroadcastBegins`),
then for each client the search in its list (`BroadcastPasses`,
`BroadcastChooses`), and for each message to it the id (`BroadcastNumbers`)
and the send (`BroadcastSends`), until all have had their turn
(`BroadcastEnds`). Only `Disconnect` waits for it: `remove_client()` takes
`clients_mutex_`.

### SubscriptionService

A client's list, its ids, its outstanding request, the verdict, the update on
its way (`coming`), and the newest message. It knows no threads, lock, feed or
exchange. It promises no more than the code keeps: an update is begun for a
client that lists the symbol at that moment, and each of its messages takes
the id the symbol has then, so after the answer to an UNSUBSCRIBE a client may
still be sent the rest of one update, and after a new SUBSCRIBE one message
with the id before. A reject names the id and no symbol.
`ImplementsService` maps `verdict` to the handler's `success` at the point
`reply`, and `coming` to the worker's target, id and remaining messages.

### ServerConnections

`stop()` is three steps: reset the flags, close the listening socket, join. It
ends with `WSACleanup()`, which takes sockets from under the threads that still
use them if nobody else has called `WSAStartup()` (`SocketsDown`): the
client of a feed has, so it happens only to a server without one (`feed`).
Any failure of `accept()` ends the accepting thread (`AcceptFails`), as it ends
the loop at `server.cpp:359`.
The accepting thread goes round `loop`, `call`, `blocked`, `add`; handlers go
round `loop`, `recv`, `reply`, `sending`; the worker walks over `clients_`
holding `clients_mutex_`. A message's content does not matter here: a request
is served by one message, a broadcast sends one to any of the clients.
`Requesters` bounds whose peers send requests. `SendBuffer` is how many messages a socket takes while its peer does not read;
beyond it `send()` blocks. Both platforms are modelled (`Windows`): a signal
handler in a thread of its own and an `accept()` that ends when the socket is
closed on Windows; a handler in `main()`'s thread, an `accept()` that does not
notice, and SIGPIPE elsewhere.

### DtcCodec, DtcStream, MessageChannel

A message is its type and the lengths of its texts. In `DtcCodec` a byte of the
body is the field it belongs to and its place in it, so that a member has been
read back when it was read from the bytes it was written to; what the bytes say
plays no role. Three pieces of code do the same sums for each message, and
each is transcribed by itself: the fields `serialize()` writes, in their order
(`RequestWrites` and so on, in `Written`), the fields `deserialize()` reads,
with the bytes it asks for before each (`RequestReads`, in `Read`), and
`get_size()` (`BodySize`). `Body` puts the first into a buffer of the third,
`Deserialize` reads it by the second: a fixed number of bytes, a text up to the
next zero, or, for the server's name in a LOGON_RESPONSE, all that is left. What
does not arrive is listed in `Lost` (`StreamProperties`): LOGON_REQUEST and
HEARTBEAT write no fields at all, `result_text` and most flags of a
LOGON_RESPONSE are never written, nor are eight members of a security
definition, and `deserialize()` of a depth update puts the size into its own
parameter of that name. `Fits` says that `get_size()`, which is 16 bits wide, can
hold the size of a message; the streams are of messages that fit.

In `DtcStream` a byte is the number of its message and its place in it. The
senders stand for the threads that call `send_message()`; `send_mutex_` is held
while a message is passed on piece by piece. The receiver takes any piece of
the stream up to `Chunk` (4096 in the code), then cuts off complete messages
until none is left.

### ExchangeConnection, FeedSession

The *owner* is the thread that connects, disconnects and destroys the feed
(`main()` through `add_exchange()` and `~DTCServer()`). Its steps follow
`CoinbaseFeed::connect()` into `SSLWebSocketClient::connect()` (TCP, SSL object,
SSL handshake, WebSocket handshake, start of both threads, connection
callback, authentication) and `disconnect()` (flags, two joins, `SSL_free()`,
`close()`, callback, reset of the client, the feed's tables). The worker, the ping thread and
the callers (handlers in `subscribe_trades()` and `unsubscribe()`) run beside
it; each write is three steps, the check of `ssl_`, the lock of `send_mutex_`
and the return of `SSL_write()`, for the check comes before the lock. The exchange
(`wire`) sends, falls silent, is heard again, or is lost. `failed` and `leaked`
count connects that failed after their TCP connection was made, and sockets
nobody knows any more. `CoinbaseFeed` takes a connected feed and models what
requests mean; here a request is one message and one entry in the tables.

`Overlap` says whether callers may be in the feed while its owner disconnects
it. The code does not exclude it (handlers are detached); the safety of the SSL
object is claimed for `Overlap = FALSE`, and `ExchangeClaims.cfg` shows what
happens otherwise.

`FeedSession` knows no threads: a session is open, closing or closed, messages
are delivered in it one at a time, and the owner is told of its end only after
the last delivery.

### WebSocketFrames, WebSocketStream

A frame is its kind and the length of its payload, and its bytes on the wire
are all there: the header, and a payload whose bytes tell their places apart.
Three pieces of code do the same sums over the header, and each is transcribed
with its own: `create_websocket_frame()` (`LengthField`, `Header`, `WithKey`),
`calculate_frame_size()` (`FrameSize`), and `parse_websocket_frame()`
(`HeaderLength`, `StatedLength`, `IsWhole`, `PayloadOf`, `ParseFrame`), which
takes off the mask and inflates. `IsJson` is `is_valid_json_start()`. zlib is
external: `Inflated` says of which payloads it makes something.
`WebSocketStream` has both directions: requests whose header is written, sized
and parsed again, and frames of the exchange that arrive in pieces of up to
`Chunk` bytes, are cut from `incoming_buffer_` until no complete one is left, and
parsed.

### GuiClient

All of the client runs in the thread of its window, so a click or the handling
of a message is one step; `toServer` and `toClient` are the connection. The
server's side is one handler with its session (`serving`,
`subscribed_symbols`, `symbol_to_id`), which serves a request in several steps:
receive, send the definitions one by one or the answer, while updates go out
between them. The connection may end at any time; the client's tables, its
panel and its `static` counter survive. An update carries a number; the
symbol it was sent for is in the model only to compare with. `unnumbered` and
`wrapped` are history variables: whether the user has subscribed to a symbol
the client has no number for, and whether the 16-bit counter has come round.

### Logger

A line is the number of its time stamp, a file a sequence of lines, file 0
the current log and file *n* its backup `.n`. A start of the process reads
`max_log_files`, which may differ from the last start's, and renames file by
file. A thread that logs takes `log_mutex_`, checks the size, stamps and writes
its line. The signal handler is a caller of its own, during which `main()`'s
thread stands still. `Crash` ends the process at any point. `rotate_logs()`
called at the size limit locks a mutex its thread already holds: in the model,
as with a Linux `std::mutex`, no step leads on from there.

## 3 The runs

### Runs that pass

| Run | Instance | Distinct states | What it shows |
|---|---|---|---|
| `Service` | 2 clients, one product in 2 spellings, 2 requests, ids modulo 2, fair | 419,350 | types, ids of listed symbols, and that the server implements `SubscriptionService` with its liveness: every request is decided and answered whether the exchange answers or not, and updates overlap with answers no further than promised |
| `Feed` | 2 clients, 2 symbols, 3 requests, ids modulo 4; view without the broadcasts and the last message, symmetric clients | about 241,000 | at most one waiter; tables agree; rejects have causes; a quiet feed is served by the exchange; ids are unique while they have not come round |
| `Connections` | 3 connections, 2 descriptors, Linux, symmetric connections | 960,921 | `clients_` agrees with the handlers, no closed socket is used, `stop()` is complete before the server is destroyed; only connections whose peer has closed leave a socket open |
| `WindowsConnections` | 2 connections, Windows, with and without a feed, fair, peers read | 54,352 | a connection whose peer has closed leaves `clients_`, whatever broadcast or reply holds the locks its handler needs |
| `ReadingPeers` | 2 connections, one of which sends requests, Linux, fair, peers read | 103,795 | waiting connections get a handler while the server runs and `accept()` has not failed; in the end `stop()` waits for nothing but a blocked `accept()` |
| `Stream` | 2 senders, 3 messages of 3 types, pieces of up to 7 bytes, fair | 24,840 | framing implements the channel, with its liveness; every type, with every choice of empty texts, is read back from what was written |
| `Exchange` | 1 caller, 1 product, 2 connects, exchange that goes on sending or is lost | 7,529 | the SSL object is alive while used, one thread writes at a time, notifications are true, lost sockets are those of failed connects, all calls return, and the connection implements `FeedSession` with its liveness |
| `Frames` | 2 of 10 frames of 9 kinds, pieces of up to 3 bytes, requests around each change of the length's form, fair | 37,885 | writer, sizer and parser find the same lengths, the receiver never loses step, and the texts the feed can use arrive byte for byte, unmasked and inflated, once, in order |
| `Gui` | 2 symbols (a preset, one likely delisted), 3 requests of the user, 2 updates, fair | 107,867 | updates land on the symbol they are for while only numbered symbols are subscribed; a subscribe that is on its way is answered on the panel |
| `Log` | `main()`, a handler and the signal handler, 4 lines, 5 starts, 2 or 3 backups, files of 3 lines, fair | 248,884 | lines are in order within and over the files after any crash and any change of the setting; a start drops one backup at most and only when it must; calls return unless a thread waits for itself |

`OneWaiter`, `TablesAgree`, `QuiescentFeedIsServed`, `ImplementsService`,
`SslInUseIsAlive` and `NumberedUpdatesAreAttributed` are the properties that
took most care: each relates what several threads, or two programs, do.
`QuiescentFeedIsServed` is the one a reader of `subscribe_trades()` should
know: it holds because every success sends the whole list again, and because a
refused list can only be refused for a product that was never accepted.
`LogIsInOrder` is the one a reader of `rotate_logs_unsafe()` should know: a
rename to the next number moves no file past another, so no crash between two
renames can mix lines, and neither can a start with another `max_log_files`.

The number for `Feed` varies a little from run to run: which of two symmetric
states TLC keeps depends on messages that its view leaves out, so some are
counted twice. Without symmetry it finds 470,275.

### Bounds, and why they are enough

* Two clients: the handlers interact through one mutex, one product-keyed map
  and one set of tables. A third client adds a third waiter for the mutex, and
  nothing in the code counts clients. The theorems cover any number.
* Two symbols. In `Feed` they are two products, one of them listed by the
  exchange: same product, other product, accepted and refused all occur; `usdc`
  is unlisted and contains "-USDC", so delisting occurs. In `Service`, whose
  subject is who is told what, they are two spellings of one product, the
  case in which a client lists what no broadcast finds.
* Two or three requests: three allow subscribe, subscribe, unsubscribe by two
  clients, with late answers of the first left over for the third.
* Three connections and two descriptors: the table fills, with one connection
  left to be refused. Two connections in the runs with liveness: one that
  ends or waits, and one whose send holds the worker under `clients_mutex_`.
* `SendBuffer = 1`: a send blocks on the second message; `MaxInbox` bounds the
  requests a peer may have sent ahead.
* Three messages of 6 to 9 bytes and pieces of at most 7: a piece ends in the
  middle of a size, in the middle of a message, exactly at its end, and holds
  parts of two messages; the message in the middle may be the one that cannot
  be parsed.
* One caller and two connects: a second caller contends for `send_mutex_` as the
  ping thread and the owner already do (two callers and three connects, 37,480
  states, were checked for safety; the proofs cover any number). Two connects
  are needed for what one connection leaves to the next.
* Two frames in pieces of three bytes: a piece ends inside a length, inside a
  payload, at the end of a frame, and holds parts of two. The nine kinds, a
  masked one among them, are those the parser tells apart, with lengths of both
  forms that a small stream can hold; the lengths written, sized and parsed as
  requests go up to 65,536, where the third form begins. A binary frame and a
  pong, passed over as a ping is, are left to the proofs.
* Two symbols and three requests of the user: load, subscribe, and one more over
  the same or another connection. Four requests with one update (758,654
  states), and numbers that come round (`IdModulus` 3, for the invariant of the
  proof, 720,302) were checked as well.
* Two backups or three, five starts: a rotation that drops its oldest file,
  interrupted ones before it, and a change of the setting in between.
* `MaxRequests`, `MaxInbox` and `MaxMessages` are the only bounds on how long a
  behaviour is, with `MaxConnects`, `MaxFrames`, `MaxClicks`, `MaxUpdates`,
  `MaxLines` and `MaxStarts`. Where they end it
  the models stutter (`Stream`, `Frames` and `Gui` switch off the deadlock
  check for this reason: when all messages are handled, nothing is
  left to do; in the other models something is always possible).

### Runs that show a disagreement

`SharedFeed` and `LogRotation` each check one sentence of the documents and end
with a counterexample; see section 7, which also lists what the other
configurations show.

## 4 Fairness

* `MarketDataServer!FairSpec`: weak fairness of each handler's own steps. Both
  waits have deadlines and `lock_guard` releases the mutex on every path, so
  a handler that is not in `recv()` can always go on or waits for one that
  can. Neither the exchange nor the clients need do anything. Weak fairness
  suffices because `MaxRequests` bounds how often others can take the mutex;
  with endless requests of other clients, `std::mutex` itself would have to be
  fair, which the standard does not promise.
* `ServerConnections!FairSpec`: weak fairness of every thread, and strong
  fairness for the steps that take a mutex which others take again and again
  (`AddClient`, `RemoveClient`: `clients_mutex_`; `ReplyLocks`,
  `BroadcastLocks`: `send_mutex_`). The worker leaves `clients_mutex_` between
  any two messages of the exchange. This is what common implementations of
  `std::mutex` give, and an assumption here. `accept()` returns when a
  connection waits or its socket is gone (`AcceptReturns`); nothing says that
  it ever fails otherwise. No peer need do anything.
* `ReadingPeersSpec` adds that peers go on reading; `ClosedPeersLeave`,
  `QueuedPeersAreServed` and `StopWaitsForAcceptOnly` are checked under it. Without
  it one client that stops reading blocks the worker in `send()` under
  `clients_mutex_`, and neither are waiting connections served
  (`SlowReader.cfg`) nor does a connection that has ended leave the list.
* `DtcStream!FairSpec`: `send()` and the receiving thread go on.
  `WebSocketStream!FairSpec`: the worker goes on.
* `ExchangeConnection!FairSpec`: weak fairness of each thread's own steps, strong
  fairness where a thread waits for `send_mutex_`, which others take again and
  again, and for what waits for the exchange (handshakes and writes go on if it
  is heard again and again). `TalkingSpec` adds that the exchange sends again
  and again or its end is seen to go: `disconnect()` joins a worker in a blocking
  `SSL_read()`, so without it neither `connect()` nor `disconnect()` need return
  (`ExchangeClaims.cfg`). Callers need not call.
* `GuiClient!FairSpec`: the window's timer, which reads the socket, and the
  server's handler go on. Users need do nothing.
* `Logger!FairSpec`: threads run, and whoever waits for `log_mutex_` gets it in
  the end, however often others take it. `LogCallsReturn` is about the normal path
  alone: its escape (`Stuck`) is just the two cases in which a thread waits for
  itself, and those are what `LogRotation` and `LogSignal` show.

## 5 The proofs

TLAPS proves the following for every number of clients, symbols, products,
requests, connections and buffer sizes that satisfy the named assumptions on
the constants (`FeedAssumption`, `ServerAssumption`, `ConnectionsAssumption`,
`StreamAssumption`, `ExchangeAssumption`, `FramesAssumption`, `GuiAssumption`,
`LoggerAssumption`).

| Theorem | States | Under |
|---|---|---|
| `MarketDataProofs!TypesAreCorrect` | `Spec => []TypeOK` | |
| `MarketDataSafetyProofs!HandlerInvariant` | `Spec => []HandlerInv` | |
| `OneWaiterAtATime`, `ListedSymbolsHaveIds`, `TickerListHasKeys`, `RejectsHaveCauses` | the parts of `HandlerInv` a reader wants by name | |
| `FeedTablesAgree` | `[]TablesAgree` | `NoAliases`: no two spellings of a product |
| `FeedRequestsStand`, `QuiescentFeed` | `[]RequestsStand`, `[]QuiescentFeedIsServed` | `~SubscribeReplaces`: a subscribe adds to a channel |
| `AssignedIdsUnique` | `[]AssignedIdsAreUnique` | `ServerChoosesIds`: clients send id 0, and fewer requests than ids |
| `OneClientListsReachFeed` | `[]SubscribedSymbolsStayInFeed` | `OneConnection`: one client |
| `ServerImplementsService` | `Spec => Service!Spec` | |
| `ConnectionProofs!TypesAreCorrect` | `[]TypeOK` | |
| `ConnectionInvariant` | `[]ConnectionInv` | both platforms |
| `StopIsComplete` | `[]StopCompletesBeforeExit` | `~Windows` |
| `OnlyClosedPeersLeakSockets` | `[]OnlyClosedPeersLeak` | both platforms |
| `StreamInvariant` | `[]StreamInv` | |
| `StreamImplementsChannel` | `Spec => Channel!Spec` | |
| `WrittenIsReadBack`, `ReceivedIsAsWritten` | every message that fits is read back by `deserialize()`, save the members in `Lost`; `[]WhatIsWrittenIsRead` | |
| `ExchangeProofs!TypesAreCorrect` | `[]TypeOK` | |
| `ExchangeInvariant` | `[](TypeOK /\ ExchangeInv)` | |
| `FramesAreWhole`, `NotificationsCanBeReliedOn`, `SocketsComeBack` | `[]OneWriter`, `[]NotificationsAreTrue`, `[]LostSocketsAreFailedConnects` | |
| `SslObjectIsAlive` | `[]SslInUseIsAlive` | `~Overlap` (in the property) |
| `ConnectionImplementsSession` | `Spec => Session!Spec` | |
| `FrameTypes`, `FrameInvariant` | `[]TypeOK`, `[]FrameInv` | |
| `SizesAgree` | `[]SizesAreReadBack`: writer, sizer and parser | payloads below 2^31 bytes (`FramesAssumption`) |
| `ReceiverStaysInStep` | `[]ReceiverKeepsStep` | |
| `FramesImplementChannel` | `Spec => FrameChannel!Spec` | |
| `GuiProofs!TypesAreCorrect` | `[]TypeOK` | |
| `NumberingInvariant` | `[]NumberingInv` | |
| `UpdatesHaveTheirNames` | `[]NumberedUpdatesAreAttributed` | `OneNumbering` (in the property) |
| `LoggerProofs!TypesAreCorrect` | `[]TypeOK` | |
| `LogInvariant`, `LogStaysInOrder` | `[]LogInv`, `[]LogIsInOrder` | |
| `BackupsStay` | `[]BackupsAreRetained` | |

**Market data.** The inductive invariant is `TypeOK /\ HandlerInv`. The
properties alone are not inductive: that a listed symbol has an id needs to
know that a handler past its id assignment serves a SUBSCRIBE whose symbol has
one (`RequestPhases`), and that a reject has a cause needs to know where each
failure entry and each false `success` came from (`FailuresAreRefusals`).
`OneWaiter` is proved per step from what the step does to `pc`, `mutexOwner`
and `pending`. The two `unsubscribe()` calls are summed up in one lemma
(`UnsubscribedTables`) that the rest of the proof uses in place of their
definition.

The side conditions of three theorems are exact in that each has an instance
without it where the property fails: two spellings of one product make
`TablesAgree` false, since unsubscribing one takes the product from the list of
the other; ids chosen by clients, or a counter that has come round, make
`AssignedIdsAreUnique` false (`ServerClaims.cfg`); a second client makes
`SubscribedSymbolsStayInFeed` false (`SharedFeed.cfg`).

`QuiescentFeedIsServed` looks at states in which nothing is on the wire, and so
says nothing of the steps that lead there. What is inductive is `RequestsStand`:
behind each listed product of `ticker_products_`, and each product a handler
waits for, stands a request for that product alone. It is on the wire, or the
exchange has answered it and streams the product; no unsubscribe for the product
comes after it. Such a request cannot be refused. The full lists that follow each success do not
count, for one unlisted product gets all of a list refused. `exchanges_mutex_`
comes in through `OneWaiter`: no unsubscribe is sent while a handler waits. For
an exchange where a subscribe replaces the channel's products
(`SubscribeReplaces`) the property fails, as section 6 says.

The refinement is proved step by step: each action of the server is one named
action of the service or leaves its variables unchanged. It needs
`RequestPhases`, and for the broadcasts `TargetHasId`: between the search in the
list and the lookup of the id the handler may serve an UNSUBSCRIBE, but that
takes the symbol from the list and leaves its id, and a disconnect, which clears
both, waits for the worker. So the lookup never fails once the symbol was found
(`TargetHasId`), and the worker's steps are `Update`, `Number` and `Send`.

**Connections.** `ConnectionInv` is inductive together with `TypeOK`. That the
worker's target is still in `clients_` when it sends, and its socket open,
rests on `RemoveClient` being impossible while the worker is in its loop, which
is `clients_mutex_`. `StopInv` says how far `main()`, `stop()` and the
accepting thread have come with each other. `OnlyClosedPeersLeak` needs one more
fact (`LeakInv`): what `WSACleanup()` took down stays down, since `stop()` is not
entered twice.

**Stream and codec.** `StreamInv` speaks of places in the stream: every byte of
a message not yet processed is ahead of the receiver (`NothingIsLost`), a byte
has the whole of its message around it (`MessagesAreWhole`, `MessageAround`),
and bytes come in the order of `Before` (`BytesAreInOrder`). In this form each
step has a short argument: sending appends behind the last place, receiving moves
the border between wire and buffer, and a cut takes the bytes of one number
from the front; `Current` gives the number of the message that is cut.
`StreamImplementsChannel` maps the messages from `Current` on to the channel's
`pending`.

That what `serialize()` writes is what `deserialize()` reads
(`WrittenIsReadBack`) is proved in three parts. For each message the sum of its
fields, as written, is no more than its `get_size()`, and what is asked for before
each field no more than what is left then (`MessagesFit`), so the body is those
fields and zeros behind them. For each it is shown how the fields read line up
with those written (`ReadLayouts`). An induction over the fields then shows that
each is read from the bytes it was written to: a text ends at its own zero,
for it has none inside (`FieldIsRead`, `FieldIsNext`). It covers texts of any
length for which `get_size()` does not exceed its 16 bits (`Fits`).

**Exchange connection.** None of the four safety properties is inductive: that
nobody uses a freed SSL object needs to know at each point of `connect()` and
`disconnect()` what exists (`OwnerKnows`) and who may run (`ThreadsLive`), and
that notifications are true needs what was told when (`ToldInv`). The proof
goes conjunct by conjunct over the steps. `SslInUseIsAlive` then follows since
each user of the object implies a point of the owner before `free`; the joins
are what the proof hinges on, and dropping one breaks it (the mutants
`JoinWorkerSkipped` and `JoinPingerSkipped`). The refinement maps `joinWorker`
and `joinPinger` to a session that is closing.

**Frames.** Frames have no numbers on the wire, so the invariant names the
places itself: there is a function `rest` whose value at *n* is the bytes still
ahead behind the *n*-th frame, each one the next frame followed by the next
value, and its first value is buffer and wire together (`InStep`). A read moves
bytes from one to the other, a send appends to all values, and a cut takes
exactly the next frame, since a buffer that holds what
`calculate_frame_size()` asks for begins with a whole frame, and the size it
reads is the size that was written
(`CompleteFrame`, `EverySizeIsReadBack`; the header's three forms are
`FieldForms`). The parser's own sums lead to the same places (`PlaceIsRead`,
`PayloadIsParsed`), and a masked payload is itself again when the key is
applied twice (`KeyTwice`, bit by bit from `XorTwice`), so what the receiver
passes on is the text the frame was made of (`TextIsParsed`).

**GUI client.** `NumberingInv` says that while only numbered symbols are
subscribed and the counter has not come round, every number in the client's
table, in the session, and in any message on its way leads to its symbol. It
needs the queues as they are (a number handed out in one list is still used by
answers to the last), and that the server assigns no number then, for every
subscribe carries one. Both conditions are needed: `GuiClaims.cfg` has instances without
either where the property fails.

**Logger.** `LogIsInOrder` is inductive with three facts: past its lock only one
thread is in `log_internal()`, the line it is about to write is newer than all
that are on disk, and nobody logs before `initialize()` is done. The heart is
`RenameKeepsOrder`: whichever file a rotation renames next, and wherever it was
interrupted, a rename by one number preserves the order of all lines, since the
map from new to old numbers is monotone.

`BackupsAreRetained` counts over all starts. `RetentionInv` says of the files
between two steps what that count needs: below every file there are no more
unused numbers than starts that were interrupted, one more during a rotation,
just behind the file it moves next (`GapsInv`); and only the first
rename of a rotation can overwrite a file, at the number `Oldest`
(`DroppedInv`). TLC checked it beforehand with settings from 0 to 3 (539,174
states). A setting of 0 keeps one backup all the same.

The prover's library states induction only for an operator as parameter, which
none of its backends can instantiate. Where a proof needs induction over the
naturals (fields of a layout, pieces of a concatenated sequence, digits of a
length), `Induction` derives it for a set from the well-foundedness of `<`, and
a recursive function is shown to be the only solution of its equation first.

**Proved and checked:** every invariant of a run that passes, and the safety part
of every refinement. The assumptions and side conditions are those of the table.

**Only model-checked:** liveness, which is out of the prover's reach under
fairness: `ClosedPeersLeave`, `QueuedPeersAreServed`, `StopWaitsForAcceptOnly`,
`OwnerCallsReturn`, `CallsReturn`, `SubscribesAreAnswered`, `LogCallsReturn`, and
what `ImplementsFairService`, `ImplementsFairSession`, `ImplementsChannel` and
`ImplementsFrameChannel` say beyond their abstract specification's `Spec`.

## 6 What the models assume

* The exchange answers the requests of one connection in order. It may refuse
  a ticker request only if the request names an unlisted product, and any
  level2 request. A subscribe adds its products to the channel
  (`SubscribeReplaces = FALSE`); for an exchange where it replaces them,
  `QuiescentFeedIsServed` fails, because a subscribe of one product is sent
  first and the full list follows only after a success.
* The server's `connected_` feed stays connected: nothing in the code clears
  the flag while the server runs, not even the loss of the SSL connection.
* Sockets are blocking, so `send()` returns with the whole message or an error;
  the code does not look at the number of bytes.
* Each access of a thread to a session is one step. The sessions' vectors and
  maps have no lock and are read by the worker while a handler changes them:
  a data race whose torn states the models do not show.
* Handlers end with the process. They are detached, and between the return of
  `main()` and the end of the process they use a server that has been
  destroyed.
* In `ServerConnections` the signal handler runs while `main()` polls, not inside
  `start()`; in `Logger` it interrupts `main()` anywhere.
* In `Exchange` and the proof of `SslInUseIsAlive`, no handler is in the feed
  while its owner disconnects it (`Overlap = FALSE`): the code does not see to it.
* OpenSSL is used as the code uses it: `SSL_read()` and `SSL_write()` block until
  they are done or fail, and a failing read comes back at once, again and again.
* The size of a DTC message fits into the 16 bits that `get_size()` returns: texts
  longer than that make the written size wrap, which the streams leave out.
* Lengths of frames are below 2^31. What zlib makes of a payload is external:
  a text, unless the payload refers to an earlier one.
* Winsock counts `WSAStartup()` calls: one by the server, one by the feed's client,
  so that `WSACleanup()` in `stop()` ends the use of sockets only where no feed
  was made. Other users of Winsock in the process are left out.
* Any call of `accept()` may fail, for whatever reason.
* One thread broadcasts, the worker of the one feed that the server makes.
* A `std::mutex` that its own thread locks again is never obtained (Linux); the
  standard leaves this undefined.
* A line that was written is on disk: `std::endl` flushes to the system, and the
  system survives the process.

## 7 Where code and documents disagree

Each of these is a property that ends with a counterexample. `SharedFeed` and
`LogRotation` are regular runs, with a finding in `PROJECT.json`; the others are
kept beside them as further instances of the same modules. A configuration
with several properties stops at the first one: to see each, leave one of them
in it at a time. Each fails on its own.

| Configuration | Module | Property | What it shows |
|---|---|---|---|
| `SharedFeed` | `MCMarketData` | `SubscribedSymbolsStayInFeed` | one client's UNSUBSCRIBE ends the updates of another that lists the symbol: the feed does not count users |
| `LogRotation` | `MCLogger` | `LogsRotateAtTheLimit` | a line logged when the file has its maximal size locks `log_mutex_` twice: the log is not rotated, and every thread that logs stops |
| `LogSignal` | `MCLogger` | `SignalsAreLogged` | the same when a signal comes while `main()` is logging |
| `SubscriberClaims` | `MCMarketData` | `OptionalLevel2NeverRejects` | a late refusal of one client's optional level2 request (`server.cpp:792`) rejects another client's SUBSCRIBE of a listed product |
| | | `ListedOnlyAfterSuccess` | a wait that runs out counts as success, against "only if subscription succeeds" (`server.cpp:771`) |
| | | `TradesReachSubscribers` | a client subscribed to `BTC/USD` gets no trades: the broadcast compares it with `BTC-USD` |
| `ServerClaims` | `MCMarketData` | `UnsubscribedProductsStop` | while other products remain, UNSUBSCRIBE sends a subscribe for those and nothing that ends the product |
| | | `SubscribedIdsAreUnique` | the server assigns an id the client has chosen for another symbol |
| | | `DelistedWereRefused` | a SNAPSHOT request hides a `-USDC` symbol for good though the exchange was never asked |
| `StopOnLinux` | `MCConnections` | `SignalEndsProcess` | closing the listening socket does not end a blocked `accept()` on Linux, against `server.cpp:112`; `stop()` waits for one more connection |
| `StopOnWindows` | `MCConnections` | `StopCompletesBeforeExit` | `main()` destroys the server while `stop()` is at work in the signal's thread |
| `ConnectionClaims` | `MCConnections` | `DisconnectsSpareTheServer` | a message to a client that has closed may end the server with SIGPIPE (`server.cpp:983`) |
| | | `EndedConnectionsAreClosed` | a connection that ended from the peer's side leaves its socket open |
| | | `RunningServerAccepts` | a failing `accept()` ends the accepting thread of a server that says it is running |
| `SlowReader` | `MCConnections` | `QueuedPeersAreServed` | a client that stops reading blocks the broadcast under `clients_mutex_`, and waiting connections with it |
| `Rejects` | `MCStream` | `SentMessagesAreReceived` | MARKET_DATA_REJECT and HEARTBEAT are sent and handled (`dtc_gui_client.cpp:1340`, `server.cpp:910`) but `parse_message()` has no case for them |
| `ExchangeClaims` | `MCExchange` | `OneThreadInSsl` | the worker is in `SSL_read()` while another thread is in `SSL_write()` on the same object, against "Thread-safe message handling" (`ssl_websocket_client.hpp:48`) |
| | | `LostConnectionIsNoticed` | a lost connection is neither replaced nor reported (`ssl_websocket_client.hpp:47`); the feed says it is connected for ever |
| | | `OwnerCallsReturn` | without data from the exchange, `connect()` or the join in `disconnect()` waits for ever |
| | | `TickerProductsAreActive` | `ticker_products_` survives a disconnect (`coinbase_feed.hpp:229`), so the first request after it asks for the old products again |
| | | `CallbacksFindTheirListener` | `clients_` is destroyed before the feed whose worker broadcasts to it |
| | | `NobodyOutlivesTheClient` | a detached handler is in a call of the feed while that is destroyed |
| `FrameClaims` | `MCFrames` | `OnlyWholeTextsAreReceived` | a text in two frames is received as two (`ssl_websocket_client.hpp:49`) |
| | | `CompressedTextsAreReceived` | a compressed text that refers to an earlier one is lost, though the handshake offers it (`ssl_websocket_client.cpp:626`) |
| `GuiClaims` | `MCGui` | `UpdatesAreAttributed` | a preset symbol subscribed before a list was loaded has no number; the server gives it one the client then gives to another symbol, and updates appear under the wrong name |
| | | `PanelIsTrue` | the answer to an unsubscribe sets the panel to SUBSCRIBED |
| | | `LiveDataIsShown` | `is_subscribed` is set only where it is already required: live data is never shown |
| | | `SixteenBitsAreEnough` | once 65,536 numbers are given out, they lead to other symbols |

Other disagreements met on the way, without a configuration: `max_clients`
(`server.hpp:43`) is never looked at; LOGON_REQUEST arrives without its fields;
`--loglevel` sets the profile after `initialize()` has derived the level from
it, and so has no effect; `config/logging.ini` uses sections and keys that
`load_config()` does not read, so the built-in defaults apply;
`cleanup_old_logs()` is never called; `websocket_client.cpp:416` reads a
two-byte length through a signed `char`.

## 8 What is not modelled

* LOGON, account and position messages: answered from the REST client or
  constants, without state that others see.
* REST client, JWT, credentials: calls into libraries, parsing and formatting
  without state that others see.
* The plain `WebSocketClient`: the feed uses it only for URLs that are not
  `wss://`, and the server passes none; no program of the repository runs it.
* Exchange base, factory and `MultiExchangeFeed`: `multi_feed_` is created by the
  server and never used; the one call of the factory is part of `add_exchange()`.
* What log lines say; `setLogLevel()` and `flush()`, which touch nothing else.
* Account, position and depth displays of the GUI client: each handler formats
  one message into one control. Its mocked data come from nowhere.
* Torn reads of the session's vectors and maps, and of `config_`.
* Malformed input: sizes below 4 make the server keep the buffer for ever and
  the GUI client clear it; the streams here are of valid messages.
* Binance (a stub), superseded sources that no target builds
  (`protocol_backup.cpp`, `websocket_client_old.cpp`), the diagnostic programs
  `main_minimal.cpp` and `main_stepwise.cpp`, windows and drawing of the GUI client.
* Message types that `protocol.hpp` declares and `parse_message()` and the
  server do not use (orders, history, logoff).

## 9 Plan

Done: market data, feed, connections, stream; then the exchange connection and
its frames, the GUI client against the server, the logger, each with its
properties; proofs of all invariants and of the safety part of all refinements.
What is left:

1. Proofs of step properties that liveness rests on and that have no theorem:
   that a handler which was woken finds its result, that a rank of each
   call in `ExchangeConnection` decreases with its own steps.
2. Theorems on which hazards the side conditions exclude: the smallest
   conditions on two spellings of a product and on two clients under which
   `TablesAgree` and `SubscribedSymbolsStayInFeed` still hold.
3. `MarketDataServer` over a feed that `ExchangeConnection` may disconnect: today
   nothing reconnects a feed while the server runs, so the composition would
   only repeat both.
4. LOGON and the account messages, should they come to keep state.
