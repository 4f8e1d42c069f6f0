-------------------------- MODULE MarketDataServer --------------------------
(***************************************************************************)
(* The market data side of the DTC server (src/core/server/server.cpp):    *)
(* one handler thread per client connection serving MARKET_DATA_REQUEST,   *)
(* the feed's worker thread broadcasting trades and level2 data, and the   *)
(* feed they share (module CoinbaseFeed).                                  *)
(*                                                                         *)
(* A handler holds exchanges_mutex_ over both feed calls of a SUBSCRIBE,   *)
(* so over both waits, but not while it updates its session, sends the     *)
(* answer or marks a symbol as delisted.  pc is the point a handler has    *)
(* reached:                                                                *)
(*   idle         in recv(), or between two messages                       *)
(*   subscribe    ids assigned, about to lock exchanges_mutex_             *)
(*   trades       waiting in subscribe_trades(), mutex held                *)
(*   level2       about to call subscribe_level2(), mutex held             *)
(*   level2Wait   waiting in subscribe_level2(), mutex held                *)
(*   unsubscribe  list updated, about to lock exchanges_mutex_             *)
(*   reply        mutex released, about to send the answer                 *)
(*                                                                         *)
(* The worker broadcasts under clients_mutex_, which a handler takes only  *)
(* to drop its connection.  So it tests a client's list, looks its id up   *)
(* and sends in three steps, and the client's handler may be anywhere in   *)
(* between.                                                                *)
(***************************************************************************)
EXTENDS CoinbaseFeed

CONSTANTS
    Clients,        \* connection slots; a slot is reused after a disconnect
    NoClient,       \* "exchanges_mutex_ is free"
    NoSymbol,       \* "no such entry" in id_to_symbol
    UsdcSymbols,    \* symbols that contain "-USDC"
    Fallback,       \* the "BTC-USD" offered when the REST client fails
    MaxDefinitions, \* the UI limit on symbols offered (20)
    RequestIds,     \* SymbolIDs clients put in requests; 0 asks for one
    IdModulus,      \* a SymbolID is 16 bits wide (65536)
    MaxRequests     \* bound: requests the clients make in a behaviour

ASSUME ServerAssumption ==
    /\ NoClient \notin Clients
    /\ NoSymbol \notin Symbols
    /\ UsdcSymbols \subseteq Symbols
    /\ Fallback \in Products
    /\ MaxDefinitions \in Nat
    /\ IdModulus \in Nat \ {0}
    /\ RequestIds \subseteq 0 .. (IdModulus - 1)
    /\ MaxRequests \in Nat

VARIABLES
    subscribed,     \* session.subscribed_symbols
    symbolToId,     \* session.symbol_to_id, NoId where absent
    idToSymbol,     \* session.id_to_symbol
    nextSymbolId,   \* session.next_symbol_id
    pc,             \* control point of the client's handler thread
    request,        \* the request being served
    success,        \* the handler's local variable of that name
    mutexOwner,     \* holder of exchanges_mutex_
    delisted,       \* delisted_symbols_
    feedStored,     \* is there a "coinbase" entry in exchange_feeds_?
    update,         \* the trade or level2 data the worker broadcasts, if any
    todo,           \* clients its loop has not come to
    target,         \* the client it has found the product listed by
    targetId,       \* symbol_id_it->second, NoId before the lookup
    parts,          \* messages of the update still to be sent to the target
    lastSent,       \* the newest DTC message sent to each client
    requestCount    \* counts requests against MaxRequests

sessionVars == <<subscribed, symbolToId, idToSymbol, nextSymbolId>>
handlerVars == <<pc, request, success, mutexOwner>>
workerVars  == <<update, todo, target, targetId, parts>>
vars == <<feedVars, sessionVars, handlerVars, workerVars,
          delisted, feedStored, lastSent, requestCount>>

NoId == -1
Ids  == 0 .. (IdModulus - 1)

Actions == {"subscribe", "unsubscribe", "snapshot"}
Points  == {"idle", "subscribe", "trades", "level2", "level2Wait",
            "unsubscribe", "reply"}
MessageTypes == {"none", "response", "reject", "definition", "trade", "level2"}

Request   == [action : Actions, symbol : Symbols, id : Ids]
NoRequest == [action |-> "snapshot", symbol |-> NoSymbol, id |-> NoId]
Message   == [type : MessageTypes, id : Ids \cup {NoId}, symbols : SUBSET Symbols]
NoMessage == [type |-> "none", id |-> NoId, symbols |-> {}]

(* messages: the update of one client is one trade, or the best bid and    *)
(* ask and a depth update for each side with a price.                      *)
Update    == [type : {"trade"}, product : Products, messages : {1}]
             \cup [type : {"level2"}, product : Products, messages : {2, 3}]
NoUpdate  == [type |-> "none", product |-> NoSymbol, messages |-> 0]

(* The worker has a target only during a broadcast, and messages for it.   *)
WorkerTypeOK ==
    /\ update \in Update \cup {NoUpdate}
    /\ todo \in SUBSET Clients
    /\ target \in Clients \cup {NoClient}
    /\ targetId \in Ids \cup {NoId}
    /\ parts \in 0 .. 3
    /\ update = NoUpdate => todo = {} /\ target = NoClient
    /\ target = NoClient => targetId = NoId /\ parts = 0
    /\ target # NoClient => parts # 0

TypeOK ==
    /\ FeedTypeOK
    /\ subscribed \in [Clients -> SUBSET Symbols]
    /\ symbolToId \in [Clients -> [Symbols -> Ids \cup {NoId}]]
    /\ idToSymbol \in [Clients -> [Ids -> Symbols \cup {NoSymbol}]]
    /\ nextSymbolId \in [Clients -> Nat]
    /\ pc \in [Clients -> Points]
    /\ request \in [Clients -> Request \cup {NoRequest}]
    /\ \A c \in Clients : pc[c] # "idle" => request[c] \in Request
    /\ success \in [Clients -> BOOLEAN]
    /\ mutexOwner \in Clients \cup {NoClient}
    /\ delisted \in SUBSET Symbols
    /\ feedStored \in BOOLEAN
    /\ WorkerTypeOK
    /\ lastSent \in [Clients -> Message]
    /\ requestCount \in Nat

NoSymbolIds == [s \in Symbols |-> NoId]
NoIdSymbols == [i \in Ids |-> NoSymbol]

(* main() adds the exchange before it starts the server and goes on        *)
(* without one when that fails.                                            *)
Init ==
    /\ FeedInit
    /\ subscribed = [c \in Clients |-> {}]
    /\ symbolToId = [c \in Clients |-> NoSymbolIds]
    /\ idToSymbol = [c \in Clients |-> NoIdSymbols]
    /\ nextSymbolId = [c \in Clients |-> 1]
    /\ pc = [c \in Clients |-> "idle"]
    /\ request = [c \in Clients |-> NoRequest]
    /\ success = [c \in Clients |-> FALSE]
    /\ mutexOwner = NoClient
    /\ delisted = {}
    /\ feedStored \in BOOLEAN
    /\ update = NoUpdate
    /\ todo = {}
    /\ target = NoClient
    /\ targetId = NoId
    /\ parts = 0
    /\ lastSent = [c \in Clients |-> NoMessage]
    /\ requestCount = 0

-----------------------------------------------------------------------------
(* The handler of MARKET_DATA_REQUEST.                                     *)

Receive(c, action, s, id, ok, point) ==
    /\ pc[c] = "idle"
    /\ requestCount < MaxRequests
    /\ requestCount' = requestCount + 1
    /\ request' = [request EXCEPT ![c] = [action |-> action, symbol |-> s, id |-> id]]
    /\ success' = [success EXCEPT ![c] = ok]
    /\ pc' = [pc EXCEPT ![c] = point]
    /\ UNCHANGED <<feedVars, workerVars, mutexOwner, delisted, feedStored, lastSent>>

(* Mutant: the id is as wide as the counter.                               *)
AssignedIdWide(c, id) == IF id = 0 THEN nextSymbolId[c] ELSE id

(* next_symbol_id++ is 32 bits wide, the request's symbol_id 16.           *)
AssignedId(c, id) == IF id = 0 THEN nextSymbolId[c] % IdModulus ELSE id

(* Mutant: the counter stays where it is.                                  *)
ReceiveSubscribeSameId(c, s, id) ==
    LET i == AssignedId(c, id)
    IN  /\ Receive(c, "subscribe", s, i, FALSE, "subscribe")
        /\ symbolToId' = [symbolToId EXCEPT ![c][s] = i]
        /\ idToSymbol' = [idToSymbol EXCEPT ![c][i] = s]
        /\ UNCHANGED <<subscribed, nextSymbolId>>

(* The id maps change before anything is known about the subscription.     *)
ReceiveSubscribe(c, s, id) ==
    LET i == AssignedId(c, id)
    IN  /\ Receive(c, "subscribe", s, i, FALSE, "subscribe")
        /\ nextSymbolId' = [nextSymbolId EXCEPT ![c] = IF id = 0 THEN @ + 1 ELSE @]
        /\ symbolToId' = [symbolToId EXCEPT ![c][s] = i]
        /\ idToSymbol' = [idToSymbol EXCEPT ![c][i] = s]
        /\ UNCHANGED subscribed

(* The symbol leaves the list before the mutex is asked for.               *)
ReceiveUnsubscribe(c, s, id) ==
    /\ Receive(c, "unsubscribe", s, id, TRUE, "unsubscribe")
    /\ subscribed' = [subscribed EXCEPT ![c] = @ \ {s}]
    /\ UNCHANGED <<symbolToId, idToSymbol, nextSymbolId>>

(* SNAPSHOT, or any other action value: neither branch is taken.           *)
ReceiveSnapshot(c, s, id) ==
    /\ Receive(c, "snapshot", s, id, FALSE, "reply")
    /\ UNCHANGED sessionVars

(* Locks and unlocks exchanges_mutex_ and finds no feed.                   *)
FeedMissing(c) ==
    /\ pc[c] \in {"subscribe", "unsubscribe"}
    /\ mutexOwner = NoClient
    /\ ~feedStored
    /\ pc' = [pc EXCEPT ![c] = "reply"]
    /\ UNCHANGED <<feedVars, sessionVars, workerVars, request, success, mutexOwner,
                   delisted, feedStored, lastSent, requestCount>>

(* Mutant: the SUBSCRIBE branch does not lock exchanges_mutex_.            *)
SubscribeTradesUnlocked(c) ==
    /\ pc[c] = "subscribe"
    /\ feedStored
    /\ TradesRequested(request[c].symbol)
    /\ mutexOwner' = c
    /\ pc' = [pc EXCEPT ![c] = "trades"]
    /\ UNCHANGED <<sessionVars, workerVars, request, success,
                   delisted, feedStored, lastSent, requestCount>>

(* Locks exchanges_mutex_, finds the feed and enters subscribe_trades().   *)
SubscribeTrades(c) ==
    /\ pc[c] = "subscribe"
    /\ mutexOwner = NoClient
    /\ feedStored
    /\ TradesRequested(request[c].symbol)
    /\ mutexOwner' = c
    /\ pc' = [pc EXCEPT ![c] = "trades"]
    /\ UNCHANGED <<sessionVars, workerVars, request, success,
                   delisted, feedStored, lastSent, requestCount>>

(* Mutant: the wait has no deadline.                                       *)
TradesResultUnbounded(c) ==
    LET p == ProductOf[request[c].symbol]
    IN  /\ pc[c] = "trades"
        /\ results[p] # "absent"
        /\ TradesAnswered(request[c].symbol)
        /\ success' = [success EXCEPT ![c] = WaitSucceeds(p)]
        /\ pc' = [pc EXCEPT ![c] = "level2"]
        /\ UNCHANGED <<sessionVars, workerVars, request, mutexOwner,
                       delisted, feedStored, lastSent, requestCount>>

(* The wait is over: an entry arrived, or the 500 ms passed.               *)
TradesResult(c) ==
    /\ pc[c] = "trades"
    /\ TradesAnswered(request[c].symbol)
    /\ success' = [success EXCEPT ![c] = WaitSucceeds(ProductOf[request[c].symbol])]
    /\ pc' = [pc EXCEPT ![c] = "level2"]
    /\ UNCHANGED <<sessionVars, workerVars, request, mutexOwner,
                   delisted, feedStored, lastSent, requestCount>>

SubscribeLevel2(c) ==
    /\ pc[c] = "level2"
    /\ Level2Requested(request[c].symbol)
    /\ pc' = [pc EXCEPT ![c] = "level2Wait"]
    /\ UNCHANGED <<sessionVars, workerVars, request, success, mutexOwner,
                   delisted, feedStored, lastSent, requestCount>>

(* mark_delisted() where the symbol contains "-USDC".                      *)
DelistedAfterFailure(s) == delisted \cup ({s} \cap UsdcSymbols)

(* Mutant: the symbol joins the list whatever the result.                  *)
Level2ResultListing(c) ==
    LET s == request[c].symbol
    IN  /\ pc[c] = "level2Wait"
        /\ Level2Answered(s)
        /\ subscribed' = [subscribed EXCEPT ![c] = @ \cup {s}]
        /\ delisted' = IF success[c] THEN delisted ELSE DelistedAfterFailure(s)
        /\ mutexOwner' = NoClient
        /\ pc' = [pc EXCEPT ![c] = "reply"]
        /\ UNCHANGED <<symbolToId, idToSymbol, nextSymbolId, workerVars, request,
                       success, feedStored, lastSent, requestCount>>

(* Only the trades result decides whether the symbol joins the client's    *)
(* list; the level2 result is ignored.                                     *)
Level2Result(c) ==
    LET s == request[c].symbol
    IN  /\ pc[c] = "level2Wait"
        /\ Level2Answered(s)
        /\ IF success[c]
           THEN /\ subscribed' = [subscribed EXCEPT ![c] = @ \cup {s}]
                /\ UNCHANGED delisted
           ELSE /\ delisted' = DelistedAfterFailure(s)
                /\ UNCHANGED subscribed
        /\ mutexOwner' = NoClient
        /\ pc' = [pc EXCEPT ![c] = "reply"]
        /\ UNCHANGED <<symbolToId, idToSymbol, nextSymbolId, workerVars, request,
                       success, feedStored, lastSent, requestCount>>

(* Both unsubscribe() calls run under exchanges_mutex_ and touch only what *)
(* it protects in practice, so they are one step.                          *)
UnsubscribeFeed(c) ==
    /\ pc[c] = "unsubscribe"
    /\ mutexOwner = NoClient
    /\ feedStored
    /\ Unsubscribed(request[c].symbol)
    /\ pc' = [pc EXCEPT ![c] = "reply"]
    /\ UNCHANGED <<sessionVars, workerVars, request, success, mutexOwner,
                   delisted, feedStored, lastSent, requestCount>>

(* MarketDataResponse or MarketDataReject, and the second delisting.  A    *)
(* reject carries the id and a text, not the symbol.                       *)
Reply(c) ==
    LET r == request[c]
    IN  /\ pc[c] = "reply"
        /\ IF success[c]
           THEN /\ lastSent' = [lastSent EXCEPT ![c] =
                       [type |-> "response", id |-> r.id, symbols |-> {r.symbol}]]
                /\ UNCHANGED delisted
           ELSE /\ lastSent' = [lastSent EXCEPT ![c] =
                       [type |-> "reject", id |-> r.id, symbols |-> {}]]
                /\ delisted' = DelistedAfterFailure(r.symbol)
        /\ request' = [request EXCEPT ![c] = NoRequest]
        /\ success' = [success EXCEPT ![c] = FALSE]
        /\ pc' = [pc EXCEPT ![c] = "idle"]
        /\ UNCHANGED <<feedVars, sessionVars, workerVars, mutexOwner, feedStored,
                       requestCount>>

-----------------------------------------------------------------------------
(* SECURITY_DEFINITION_FOR_SYMBOL_REQUEST: the REST products of the wanted *)
(* product type that were not marked as delisted, cut to MaxDefinitions,   *)
(* or the fallback symbol when the REST call fails.                        *)
SecurityDefinitions(c) ==
    /\ pc[c] = "idle"
    /\ requestCount < MaxRequests
    /\ requestCount' = requestCount + 1
    /\ \E offered \in SUBSET Products :
         /\ \/ /\ offered \subseteq Products \ delisted
               /\ Cardinality(offered) <= MaxDefinitions
            \/ offered = {Fallback}
         /\ lastSent' = [lastSent EXCEPT ![c] =
                [type |-> "definition", id |-> NoId, symbols |-> offered]]
    /\ UNCHANGED <<feedVars, sessionVars, handlerVars, workerVars,
                   delisted, feedStored>>

(* Mutant: the session's list survives the connection.                     *)
DisconnectListed(c) ==
    /\ pc[c] = "idle"
    /\ update = NoUpdate
    /\ symbolToId' = [symbolToId EXCEPT ![c] = NoSymbolIds]
    /\ idToSymbol' = [idToSymbol EXCEPT ![c] = NoIdSymbols]
    /\ nextSymbolId' = [nextSymbolId EXCEPT ![c] = 1]
    /\ lastSent' = [lastSent EXCEPT ![c] = NoMessage]
    /\ UNCHANGED <<feedVars, handlerVars, workerVars, subscribed, delisted, feedStored,
                   requestCount>>

(* recv() fails, the handler leaves its loop and drops the connection with *)
(* its session.  remove_client() waits for the end of a broadcast; what is *)
(* sent to a connection that closed in the meantime is lost.  Nothing is   *)
(* unsubscribed at the feed.  The slot is free for a new connection.       *)
Disconnect(c) ==
    /\ pc[c] = "idle"
    /\ update = NoUpdate
    /\ subscribed' = [subscribed EXCEPT ![c] = {}]
    /\ symbolToId' = [symbolToId EXCEPT ![c] = NoSymbolIds]
    /\ idToSymbol' = [idToSymbol EXCEPT ![c] = NoIdSymbols]
    /\ nextSymbolId' = [nextSymbolId EXCEPT ![c] = 1]
    /\ lastSent' = [lastSent EXCEPT ![c] = NoMessage]
    /\ UNCHANGED <<feedVars, handlerVars, workerVars, delisted, feedStored, requestCount>>

-----------------------------------------------------------------------------
(* The feed's worker thread, which reads and processes one message of the  *)
(* exchange after the other.                                               *)

WorkerAnswer ==
    /\ update = NoUpdate
    /\ WorkerProcessesAnswer
    /\ UNCHANGED <<sessionVars, handlerVars, workerVars,
                   delisted, feedStored, lastSent, requestCount>>

(* What a step of a broadcast leaves alone, but for the messages sent.     *)
BroadcastKeeps == UNCHANGED <<feedVars, sessionVars, handlerVars,
                              delisted, feedStored, requestCount>>

(* on_trade_data() and on_level2_data() lock clients_mutex_.               *)
BroadcastBegins(type, p, messages) ==
    /\ update = NoUpdate
    /\ update' = [type |-> type, product |-> p, messages |-> messages]
    /\ todo' = Clients
    /\ BroadcastKeeps
    /\ UNCHANGED <<target, targetId, parts, lastSent>>

(* The next client's list does not hold the product id as a string.        *)
BroadcastPasses(c) ==
    /\ c \in todo
    /\ target = NoClient
    /\ update.product \notin subscribed[c]
    /\ todo' = todo \ {c}
    /\ BroadcastKeeps
    /\ UNCHANGED <<update, target, targetId, parts, lastSent>>

BroadcastChooses(c) ==
    /\ c \in todo
    /\ target = NoClient
    /\ update.product \in subscribed[c]
    /\ todo' = todo \ {c}
    /\ target' = c
    /\ parts' = update.messages
    /\ BroadcastKeeps
    /\ UNCHANGED <<update, targetId, lastSent>>

(* The id is read for each message anew; without one nothing is sent.      *)
BroadcastNumbers ==
    /\ target # NoClient
    /\ targetId = NoId
    /\ targetId' = symbolToId[target][update.product]
    /\ IF targetId' = NoId THEN target' = NoClient /\ parts' = 0
                           ELSE UNCHANGED <<target, parts>>
    /\ BroadcastKeeps
    /\ UNCHANGED <<update, todo, lastSent>>

BroadcastSends ==
    /\ target # NoClient
    /\ targetId # NoId
    /\ lastSent' = [lastSent EXCEPT ![target] =
           [type |-> update.type, id |-> targetId, symbols |-> {update.product}]]
    /\ parts' = parts - 1
    /\ targetId' = NoId
    /\ target' = IF parts = 1 THEN NoClient ELSE target
    /\ BroadcastKeeps
    /\ UNCHANGED <<update, todo>>

BroadcastEnds ==
    /\ update # NoUpdate
    /\ todo = {}
    /\ target = NoClient
    /\ update' = NoUpdate
    /\ BroadcastKeeps
    /\ UNCHANGED <<todo, target, targetId, parts, lastSent>>

(* A "ticker" or "match" message.                                          *)
OnTradeData(p) == p \in exTicker /\ BroadcastBegins("trade", p, 1)

(* Best bid and ask of a "ticker" message, or an "l2update": a price for   *)
(* one side or for both.                                                   *)
OnLevel2Data(p) ==
    /\ p \in exTicker \cup exLevel2
    /\ \E n \in {2, 3} : BroadcastBegins("level2", p, n)

BroadcastStep ==
    \/ \E p \in Products : OnTradeData(p) \/ OnLevel2Data(p)
    \/ \E c \in Clients : BroadcastPasses(c) \/ BroadcastChooses(c)
    \/ BroadcastNumbers \/ BroadcastSends \/ BroadcastEnds

-----------------------------------------------------------------------------
HandlerStep(c) ==
    \/ FeedMissing(c) \/ SubscribeTrades(c) \/ TradesResult(c)
    \/ SubscribeLevel2(c) \/ Level2Result(c) \/ UnsubscribeFeed(c) \/ Reply(c)

ClientStep(c) ==
    \/ \E s \in Symbols, id \in RequestIds :
          \/ ReceiveSubscribe(c, s, id)
          \/ ReceiveUnsubscribe(c, s, id)
          \/ ReceiveSnapshot(c, s, id)
    \/ SecurityDefinitions(c)
    \/ Disconnect(c)

Next ==
    \/ \E c \in Clients : HandlerStep(c) \/ ClientStep(c)
    \/ WorkerAnswer
    \/ BroadcastStep

Spec == Init /\ [][Next]_vars

(* A handler thread keeps running: its waits end by the deadline, and a    *)
(* free mutex is not left free for ever by the threads queuing for it.     *)
(* Neither clients nor the exchange are assumed to do anything.            *)
FairSpec == Spec /\ \A c \in Clients : WF_vars(HandlerStep(c))
=============================================================================
