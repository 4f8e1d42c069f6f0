------------------------ MODULE MarketDataProperties ------------------------
(***************************************************************************)
(* What is claimed of MarketDataServer.  The properties that hold come     *)
(* first; the last section states promises of the repository's documents   *)
(* and comments that the code does not keep.                               *)
(***************************************************************************)
EXTENDS MarketDataServer

(* Between locking exchanges_mutex_ for a SUBSCRIBE and unlocking it.      *)
InFeedCall(c) == pc[c] \in {"trades", "level2", "level2Wait"}
Waiting(c)    == pc[c] \in {"trades", "level2Wait"}

(* subscription_results_ has one entry per product and no request number,  *)
(* so it works only while at most one handler is between sending a request *)
(* and reading its result, and pending_subscriptions_ names exactly the    *)
(* product that handler waits for (coinbase_feed.cpp, subscribe_trades and *)
(* subscribe_level2 under the lock of the SUBSCRIBE branch).               *)
OneWaiter ==
    /\ \A c \in Clients : InFeedCall(c) <=> mutexOwner = c
    /\ pending = {ProductOf[request[c].symbol] : c \in {d \in Clients : Waiting(d)}}

(* The broadcast looks a symbol it found in a list up in symbol_to_id and  *)
(* drops the update when the entry is missing: a listed symbol has one,    *)
(* even while the handler is between its id assignment and its push_back.  *)
SubscribedSymbolsHaveIds ==
    \A c \in Clients : \A s \in subscribed[c] : symbolToId[c][s] # NoId

(* ticker_products_ (what is sent to the exchange) never runs ahead of     *)
(* subscriptions_ (what unsubscribe() looks up): a product left in it      *)
(* without a key could not be unsubscribed any more.                       *)
TickerProductsHaveKeys ==
    \A p \in tickerProducts :
        \E s \in Symbols : ProductOf[s] = p /\ <<s, "trades">> \in subscriptions

(* When no two spellings of a product are in use, the two tables agree     *)
(* exactly, after any order of subscribes, failures and unsubscribes of    *)
(* any clients: every key of subscriptions_ is in the list the next        *)
(* subscribe sends.                                                        *)
TablesAgree ==
    tickerProducts = {ProductOf[s] : s \in {t \in Symbols : <<t, "trades">> \in subscriptions}}

(* A MarketDataReject answering a SUBSCRIBE goes back to an error message  *)
(* of the exchange that named the product, or to a missing feed: neither   *)
(* the 500 ms deadline nor an answer for another product can cause one.    *)
RejectsGoBackToRefusals ==
    \A c \in Clients :
        pc[c] = "reply" /\ request[c].action = "subscribe" /\ ~success[c] /\ feedStored
        => ProductOf[request[c].symbol] \in refused

(* When every answer has been processed and no handler is in a feed call,  *)
(* the exchange streams every accepted product of ticker_products_, in     *)
(* whatever order answers, deadlines, refusals of a whole list and the     *)
(* resubscriptions with the full list came (subscribe_trades,              *)
(* unsubscribe).                                                           *)
QuiescentFeedIsServed ==
    wire = <<>> /\ mutexOwner = NoClient => tickerProducts \cap Listed \subseteq exTicker

(* Why it holds while a subscribe adds to a channel's products.  Behind    *)
(* every listed product of ticker_products_, and every one a handler waits *)
(* for, stands a request for it alone, which the exchange cannot refuse:   *)
(* answered already (place 0) or still in place n of the wire, with no     *)
(* unsubscribe for the product behind it.  The resubscriptions with the    *)
(* full list do not count: one unlisted product gets all of it refused.    *)
Drops(m, p) == m.channel = "ticker" /\ m.op = "unsubscribe" /\ p \in m.products

StandsAt(p, n) ==
    /\ IF n = 0 THEN p \in exTicker ELSE wire[n] = Subscribe("ticker", {p})
    /\ \A k \in (n + 1) .. Len(wire) : ~Drops(wire[k], p)

WaitsForTrades(p) == \E c \in Clients : pc[c] = "trades" /\ ProductOf[request[c].symbol] = p

RequestsStand ==
    \A p \in Listed :
        p \in tickerProducts \/ WaitsForTrades(p) => \E n \in 0 .. Len(wire) : StandsAt(p, n)

(* Ids the server assigns (next_symbol_id): within one session id_to_symbol*)
(* inverts symbol_to_id, so no id stands for two symbols and none is taken *)
(* from a symbol that still uses it.                                       *)
AssignedIdsAreUnique ==
    \A c \in Clients : \A s \in Symbols :
        symbolToId[c][s] # NoId => idToSymbol[c][symbolToId[c][s]] = s

(* The strengthening the proofs of the invariants above rest on: what the  *)
(* point a handler has reached says of its request (the branches of        *)
(* MARKET_DATA_REQUEST), and where failures come from (an error message,   *)
(* through subscription_results_ and the local success).                   *)
RequestPhases ==
    \A c \in Clients :
        /\ pc[c] = "idle" => request[c] = NoRequest
        /\ pc[c] \in {"subscribe", "trades", "level2", "level2Wait"} =>
              request[c].action = "subscribe" /\ symbolToId[c][request[c].symbol] # NoId
        /\ pc[c] \in {"subscribe", "trades"} => ~success[c]
        /\ pc[c] = "unsubscribe" => request[c].action = "unsubscribe" /\ success[c]

FailuresAreRefusals ==
    /\ \A p \in Products : results[p] = "failure" => p \in refused
    /\ \A c \in Clients : pc[c] \in {"level2", "level2Wait"} /\ ~success[c]
                         => ProductOf[request[c].symbol] \in refused

(* An id is there for the client an update has been made for, though its   *)
(* handler may have taken the symbol off the list meanwhile.               *)
TargetHasId == target # NoClient => symbolToId[target][update.product] # NoId

HandlerInv ==
    /\ RequestPhases
    /\ FailuresAreRefusals
    /\ OneWaiter
    /\ SubscribedSymbolsHaveIds
    /\ TargetHasId
    /\ TickerProductsHaveKeys
    /\ RejectsGoBackToRefusals

(* The server implements SubscriptionService: threads, mutex, feed and     *)
(* worker are hidden, and the outcome of a request is decided when its     *)
(* handler is about to send the answer.                                    *)
Verdict == [c \in Clients |-> IF pc[c] # "reply" THEN "none"
                              ELSE IF success[c] THEN "granted" ELSE "refused"]

OnItsWay == [client |-> target,
             type   |-> IF target = NoClient THEN "none" ELSE update.type,
             symbol |-> IF target = NoClient THEN NoSymbol ELSE update.product,
             id     |-> targetId,
             left   |-> parts]

Service == INSTANCE SubscriptionService
    WITH list <- subscribed, ids <- symbolToId, asked <- request,
         verdict <- Verdict, coming <- OnItsWay, told <- lastSent

(* Every step of the threads is a step of the service or changes nothing   *)
(* the service shows (server.cpp, MARKET_DATA_REQUEST and the broadcasts). *)
ImplementsService == Service!Spec

(* Under the fairness of the threads the service decides and answers every *)
(* request.                                                                *)
ImplementsFairService == Service!FairSpec

-----------------------------------------------------------------------------
(* Promises the code does not keep.                                        *)

(* dev-info/DTC-Protocoll: "When a new trade occurs for the symbol         *)
(* subscribed to, the Server will send a MARKET_DATA_UPDATE_TRADE message  *)
(* to the Client": while a symbol is in a client's list the feed stays     *)
(* subscribed to it.  With two clients one's UNSUBSCRIBE ends the other's; *)
(* with one the order of the steps is right, for SUBSCRIBE asks the feed   *)
(* before it lists and UNSUBSCRIBE the other way round (the theorem        *)
(* OneClientListsReachFeed).                                               *)
SubscribedSymbolsStayInFeed ==
    \A c \in Clients : \A s \in subscribed[c] : <<s, "trades">> \in subscriptions

(* The same sentence, at the broadcast: no client that lists a symbol of   *)
(* the traded product is passed over.  on_trade_data() compares the symbol *)
(* with the product id as strings.                                         *)
TradesReachSubscribers ==
    [][\A c \in Clients : BroadcastPasses(c) /\ update.type = "trade" =>
          \A s \in subscribed[c] : ProductOf[s] # update.product]_vars

(* coinbase_feed.cpp: "Send actual unsubscribe message to Coinbase         *)
(* WebSocket": when everything has been answered, the exchange no longer   *)
(* streams a product that was unsubscribed.                                *)
UnsubscribedProductsStop ==
    wire = <<>> /\ mutexOwner = NoClient => exTicker \subseteq tickerProducts

(* server.cpp: "Subscribe to trades (primary) and attempt level2           *)
(* (optional)": the exchange refuses no ticker request for a listed        *)
(* product, so a SUBSCRIBE for one is not rejected.                        *)
OptionalLevel2NeverRejects ==
    \A c \in Clients :
        pc[c] = "reply" /\ request[c].action = "subscribe" /\ ~success[c] /\ feedStored
        => ProductOf[request[c].symbol] \notin Listed

(* server.cpp: "Add symbol to client's subscription list only if           *)
(* subscription succeeds": a symbol enters a list only if the exchange     *)
(* lists its product.  A wait that runs out counts as success.             *)
ListedOnlyAfterSuccess ==
    \A c \in Clients : \A s \in subscribed[c] : ProductOf[s] \in Listed

(* dev-info/DTC-Protocoll: "SymbolID message field values for market data  *)
(* request messages need to be unique per Symbol and Exchange combination":*)
(* the id the server gives a symbol is not one the client has chosen for   *)
(* another.                                                                *)
SubscribedIdsAreUnique ==
    \A c \in Clients : \A s, t \in subscribed[c] :
        symbolToId[c][s] = symbolToId[c][t] => s = t

(* server.cpp: "Heuristic: mark USDC base pairs delisted (until detailed   *)
(* reason available)", from a subscription the exchange refused: a symbol  *)
(* hidden from the security definitions was refused at some time.          *)
DelistedWereRefused ==
    \A s \in delisted : ProductOf[s] \in refused
=============================================================================
