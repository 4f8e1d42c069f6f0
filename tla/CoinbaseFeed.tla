---------------------------- MODULE CoinbaseFeed ----------------------------
(***************************************************************************)
(* The Coinbase feed of the server (src/exchanges/coinbase/                *)
(* coinbase_feed.cpp, the SSL path main.cpp configures) and the exchange   *)
(* at the other end of its WebSocket.                                      *)
(*                                                                         *)
(* The feed is shared by every client handler.  A handler that subscribes  *)
(* sends a request and then waits at most 500 ms for an entry in           *)
(* subscription_results_; the WebSocket worker thread fills that map when  *)
(* "subscriptions" and "error" messages arrive.  The map is keyed by the   *)
(* product only: ticker and level2 requests for one product, and answers   *)
(* nobody waits for any more, share one entry.                             *)
(*                                                                         *)
(* The operators below are the atomic steps of the feed's methods and of   *)
(* its worker thread; they say nothing about who calls them.  Module       *)
(* MarketDataServer composes them with the client handlers.                *)
(***************************************************************************)
EXTENDS Integers, Sequences, FiniteSets

CONSTANTS
    Symbols,            \* symbol strings a client may put in a request
    Products,           \* Coinbase product ids; they are symbol strings too
    ProductOf,          \* exchange_symbol(): '/' becomes '-', upper case
    Listed,             \* the products the exchange accepts on the ticker channel
    SubscribeReplaces   \* does a subscribe replace the products of its channel?

ASSUME FeedAssumption ==
    /\ Products \subseteq Symbols
    /\ ProductOf \in [Symbols -> Products]
    /\ \A p \in Products : ProductOf[p] = p
    /\ Listed \subseteq Products
    /\ SubscribeReplaces \in BOOLEAN

VARIABLES
    pending,         \* pending_subscriptions_: products a caller waits for
    results,         \* subscription_results_: absent, or the last answer seen
    subscriptions,   \* keys of subscriptions_: <<symbol, "trades" or "level2">>
    tickerProducts,  \* ticker_products_
    wire,            \* requests sent whose answer has not been processed, oldest first
    exTicker,        \* the exchange's ticker subscription for this connection
    exLevel2,        \* the exchange's level2 subscription for this connection
    refused          \* history: products some processed error message named

feedVars == <<pending, results, subscriptions, tickerProducts,
              wire, exTicker, exLevel2, refused>>

Channels == {"ticker", "level2"}
Results  == {"absent", "success", "failure"}
Kinds    == {"trades", "level2"}

ChannelRequest == [op : {"subscribe", "unsubscribe"},
                   channel : Channels,
                   products : SUBSET Products]

Subscribe(ch, P)   == [op |-> "subscribe",   channel |-> ch, products |-> P]
Unsubscribe(ch, P) == [op |-> "unsubscribe", channel |-> ch, products |-> P]

FeedTypeOK ==
    /\ pending \in SUBSET Products
    /\ results \in [Products -> Results]
    /\ subscriptions \in SUBSET (Symbols \X Kinds)
    /\ tickerProducts \in SUBSET Products
    /\ wire \in Seq(ChannelRequest)
    /\ exTicker \in SUBSET Products
    /\ exLevel2 \in SUBSET Products
    /\ refused \in SUBSET Products

FeedInit ==
    /\ pending = {}
    /\ results = [p \in Products |-> "absent"]
    /\ subscriptions = {}
    /\ tickerProducts = {}
    /\ wire = <<>>
    /\ exTicker = {}
    /\ exLevel2 = {}
    /\ refused = {}

-----------------------------------------------------------------------------
(* Steps of the caller's thread.                                           *)

(* subscribe_trades() up to its wait.  The feed is in exchange_feeds_ only *)
(* after connect() succeeded and nothing clears connected_ while the       *)
(* server runs, so the "not connected" return is never taken.              *)
TradesRequested(s) ==
    LET p == ProductOf[s]
    IN  /\ pending' = pending \cup {p}
        /\ wire' = Append(wire, Subscribe("ticker", {p}))
        /\ UNCHANGED <<results, subscriptions, tickerProducts,
                       exTicker, exLevel2, refused>>

(* Mutant: a wait that runs out is a failure.                              *)
WaitSucceedsConfirmed(p) == results[p] = "success"

(* Outcome of the wait for a product: the entry if there is one, and       *)
(* success when the 500 ms pass without one.                               *)
WaitSucceeds(p) == results[p] # "failure"

(* Mutant: the product is not put into ticker_products_.                   *)
TradesAnsweredForgetting(s) ==
    LET p  == ProductOf[s]
        ok == WaitSucceeds(p)
    IN  /\ pending' = pending \ {p}
        /\ results' = [results EXCEPT ![p] = "absent"]
        /\ subscriptions' = IF ok THEN subscriptions \cup {<<s, "trades">>}
                                  ELSE subscriptions
        /\ wire' = IF ok THEN Append(wire, Subscribe("ticker", tickerProducts)) ELSE wire
        /\ UNCHANGED <<tickerProducts, exTicker, exLevel2, refused>>

(* subscribe_trades() from the wake-up to its return.                      *)
TradesAnswered(s) ==
    LET p  == ProductOf[s]
        ok == WaitSucceeds(p)
    IN  /\ pending' = pending \ {p}
        /\ results' = [results EXCEPT ![p] = "absent"]
        /\ subscriptions' = IF ok THEN subscriptions \cup {<<s, "trades">>}
                                  ELSE subscriptions
        /\ tickerProducts' = IF ok THEN tickerProducts \cup {p}
                                   ELSE tickerProducts
        /\ wire' = IF ok THEN Append(wire, Subscribe("ticker", tickerProducts'))
                         ELSE wire
        /\ UNCHANGED <<exTicker, exLevel2, refused>>

(* subscribe_level2() up to its wait.                                      *)
Level2Requested(s) ==
    LET p == ProductOf[s]
    IN  /\ pending' = pending \cup {p}
        /\ wire' = Append(wire, Subscribe("level2", {p}))
        /\ UNCHANGED <<results, subscriptions, tickerProducts,
                       exTicker, exLevel2, refused>>

(* subscribe_level2() from the wake-up to its return.                      *)
Level2Answered(s) ==
    LET p == ProductOf[s]
    IN  /\ pending' = pending \ {p}
        /\ results' = [results EXCEPT ![p] = "absent"]
        /\ subscriptions' = IF WaitSucceeds(p)
                            THEN subscriptions \cup {<<s, "level2">>}
                            ELSE subscriptions
        /\ UNCHANGED <<tickerProducts, wire, exTicker, exLevel2, refused>>

(* Mutant: the product stays in ticker_products_.                          *)
AfterUnsubscribeKeeping(key, feed) ==
    LET p == ProductOf[key[1]]
    IN  IF key \notin feed.keys
        THEN feed
        ELSE [feed EXCEPT !.keys = @ \ {key},
                          !.sent = @ \o << Unsubscribe("ticker", {p}),
                                           Unsubscribe("level2", {p}) >>]

(* One call of unsubscribe(): what it leaves of the feed's tables and what *)
(* it sends, as a function of the tables it finds.                         *)
AfterUnsubscribe(key, feed) ==
    LET p    == ProductOf[key[1]]
        rest == feed.ticker \ {p}
    IN  IF key \notin feed.keys
        THEN feed
        ELSE [keys   |-> feed.keys \ {key},
              ticker |-> rest,
              sent   |-> feed.sent \o
                         << IF rest # {} THEN Subscribe("ticker", rest)
                                         ELSE Unsubscribe("ticker", {p}),
                            Unsubscribe("level2", {p}) >>]

(* unsubscribe(symbol), then unsubscribe(symbol + "_level2").              *)
Unsubscribed(s) ==
    LET before == [keys |-> subscriptions, ticker |-> tickerProducts, sent |-> wire]
        after  == AfterUnsubscribe(<<s, "level2">>,
                                   AfterUnsubscribe(<<s, "trades">>, before))
    IN  /\ subscriptions' = after.keys
        /\ tickerProducts' = after.ticker
        /\ wire' = after.sent
        /\ UNCHANGED <<pending, results, exTicker, exLevel2, refused>>

-----------------------------------------------------------------------------
(* The exchange answers its requests in order, and the worker thread       *)
(* processes the answers in order, so one step takes the oldest request    *)
(* and has its answer processed.  Nothing forces that step: an answer may  *)
(* come before the caller's deadline, after it, or (connection lost) never.*)

(* The channel's products once the exchange has accepted request m.        *)
ChannelAfter(m, ch, current) ==
    IF m.channel # ch THEN current
    ELSE IF m.op = "unsubscribe" THEN current \ m.products
    ELSE IF SubscribeReplaces THEN m.products
    ELSE current \cup m.products

(* A "subscriptions" message lists every product of every channel, and     *)
(* each one gets a success entry, whether or not anybody waits for it.     *)
ExchangeConfirms ==
    /\ wire # <<>>
    /\ LET m == Head(wire)
       IN  /\ m.op = "subscribe" /\ m.channel = "ticker" => m.products \subseteq Listed
           /\ exTicker' = ChannelAfter(m, "ticker", exTicker)
           /\ exLevel2' = ChannelAfter(m, "level2", exLevel2)
    /\ wire' = Tail(wire)
    /\ results' = [p \in Products |-> IF p \in exTicker' \cup exLevel2'
                                      THEN "success" ELSE results[p]]
    /\ UNCHANGED <<pending, subscriptions, tickerProducts, refused>>

(* The products an error for request m may name: unlisted ones of a ticker *)
(* request, any of a level2 request (it needs authentication).             *)
Refusable(m) ==
    IF m.channel = "ticker" THEN m.products \ Listed ELSE m.products

(* An "error" message rejects a whole subscribe request.  handle_error_-   *)
(* message() finds the products in "product_id(s)" or in "... is delisted";*)
(* an error that names none leaves the results alone.                      *)
ExchangeRefuses ==
    /\ wire # <<>>
    /\ LET m == Head(wire)
       IN  /\ m.op = "subscribe"
           /\ Refusable(m) # {}
           /\ \E named \in SUBSET Refusable(m) :
                /\ results' = [p \in Products |-> IF p \in named
                                                  THEN "failure" ELSE results[p]]
                /\ refused' = refused \cup named
    /\ wire' = Tail(wire)
    /\ UNCHANGED <<pending, subscriptions, tickerProducts, exTicker, exLevel2>>

WorkerProcessesAnswer == ExchangeConfirms \/ ExchangeRefuses
=============================================================================
