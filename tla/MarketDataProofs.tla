-------------------------- MODULE MarketDataProofs ---------------------------
(***************************************************************************)
(* What the steps of the feed preserve, whoever takes them, and the types  *)
(* of MarketDataServer, for any number of clients, symbols, products and   *)
(* requests.                                                               *)
(***************************************************************************)
EXTENDS MarketDataProperties, TLAPS

-----------------------------------------------------------------------------
(* The feed.                                                               *)

(* The three tables unsubscribe() works on.                                *)
FeedTables == [keys   : SUBSET (Symbols \X Kinds),
               ticker : SUBSET Products,
               sent   : Seq(ChannelRequest)]

(* The requests the feed builds from sets of products are well formed.     *)
LEMMA RequestTypes ==
    ASSUME NEW ch \in Channels, NEW P \in SUBSET Products
    PROVE  /\ Subscribe(ch, P) \in ChannelRequest
           /\ Unsubscribe(ch, P) \in ChannelRequest
BY DEF Subscribe, Unsubscribe, ChannelRequest

(* unsubscribe() leaves well-formed tables, takes its key out of them, and *)
(* takes no product out of the ticker list but its own.                    *)
LEMMA AfterUnsubscribeTables ==
    ASSUME NEW s \in Symbols, NEW kind \in Kinds, NEW feed \in FeedTables
    PROVE  LET after == AfterUnsubscribe(<<s, kind>>, feed)
           IN  /\ after \in FeedTables
               /\ after.keys = feed.keys \ {<<s, kind>>}
               /\ after.ticker = IF <<s, kind>> \in feed.keys
                                 THEN feed.ticker \ {ProductOf[s]} ELSE feed.ticker
<1> DEFINE key   == <<s, kind>>
           p     == ProductOf[s]
           rest  == feed.ticker \ {p}
           first == IF rest # {} THEN Subscribe("ticker", rest)
                                 ELSE Unsubscribe("ticker", {p})
           last  == Unsubscribe("level2", {p})
<1>1. /\ p \in Products
      /\ rest \in SUBSET Products
      /\ key \in Symbols \X Kinds
      /\ key[1] = s
  BY FeedAssumption DEF FeedAssumption, FeedTables
<1>2. first \in ChannelRequest /\ last \in ChannelRequest
  BY <1>1, RequestTypes DEF Channels
<1>3. CASE key \in feed.keys
  <2>1. AfterUnsubscribe(key, feed) = [keys   |-> feed.keys \ {key},
                                       ticker |-> rest,
                                       sent   |-> feed.sent \o <<first, last>>]
    BY <1>1, <1>3 DEF AfterUnsubscribe
  <2>2. feed.sent \o <<first, last>> \in Seq(ChannelRequest)
    <3>1. <<first, last>> \in Seq(ChannelRequest)
      BY <1>2
    <3> HIDE DEF first, last
    <3> QED
      BY <3>1 DEF FeedTables
  <2>3. [keys |-> feed.keys \ {key}, ticker |-> rest, sent |-> feed.sent \o <<first, last>>]
          \in FeedTables
    <3> HIDE DEF first, last, key
    <3> QED
      BY <1>1, <2>2 DEF FeedTables
  <2> DEFINE after == AfterUnsubscribe(key, feed)
  <2>4. after \in FeedTables
    BY <2>1, <2>3
  <2>5. after.keys = feed.keys \ {key} /\ after.ticker = rest
    <3> HIDE DEF first, last, key, rest
    <3> QED
      BY <2>1
  <2> QED
    BY <1>3, <2>4, <2>5
<1>4. CASE key \notin feed.keys
  BY <1>1, <1>4 DEF AfterUnsubscribe, FeedTables
<1> QED
  BY <1>3, <1>4

(* Both calls of unsubscribe(): the trades and the level2 key are gone,    *)
(* and at most the symbol's product has left the ticker list.              *)
LEMMA UnsubscribedTables ==
    ASSUME FeedTypeOK, NEW s \in Symbols, Unsubscribed(s)
    PROVE  /\ wire' \in Seq(ChannelRequest)
           /\ subscriptions' = subscriptions \ {<<s, "trades">>, <<s, "level2">>}
           /\ tickerProducts' = IF <<s, "trades">> \in subscriptions
                                   \/ <<s, "level2">> \in subscriptions
                                THEN tickerProducts \ {ProductOf[s]}
                                ELSE tickerProducts
<1> DEFINE before == [keys |-> subscriptions, ticker |-> tickerProducts, sent |-> wire]
           middle == AfterUnsubscribe(<<s, "trades">>, before)
           after  == AfterUnsubscribe(<<s, "level2">>, middle)
<1>1. before \in FeedTables
  BY DEF FeedTypeOK, FeedTables
<1>2. /\ middle \in FeedTables
      /\ middle.keys = subscriptions \ {<<s, "trades">>}
      /\ middle.ticker = IF <<s, "trades">> \in subscriptions
                         THEN tickerProducts \ {ProductOf[s]} ELSE tickerProducts
  <2> HIDE DEF middle
  <2>1. /\ middle \in FeedTables
        /\ middle.keys = before.keys \ {<<s, "trades">>}
        /\ middle.ticker = IF <<s, "trades">> \in before.keys
                           THEN before.ticker \ {ProductOf[s]} ELSE before.ticker
    BY <1>1, AfterUnsubscribeTables DEF Kinds, middle
  <2> QED
    BY <2>1
<1>3. /\ after \in FeedTables
      /\ after.keys = middle.keys \ {<<s, "level2">>}
      /\ after.ticker = IF <<s, "level2">> \in middle.keys
                        THEN middle.ticker \ {ProductOf[s]} ELSE middle.ticker
  BY <1>2, AfterUnsubscribeTables DEF Kinds
<1>4. /\ subscriptions' = after.keys
      /\ tickerProducts' = after.ticker
      /\ wire' = after.sent
  BY DEF Unsubscribed
<1> HIDE DEF before, middle, after
<1>5. wire' \in Seq(ChannelRequest)
  BY <1>3, <1>4 DEF FeedTables
<1> QED
  BY <1>2, <1>3, <1>4, <1>5

(* The caller's four steps keep the types of the feed.                     *)
LEMMA CallerKeepsFeedTypes ==
    ASSUME FeedTypeOK, NEW s \in Symbols,
           \/ TradesRequested(s) \/ TradesAnswered(s)
           \/ Level2Requested(s) \/ Level2Answered(s) \/ Unsubscribed(s)
    PROVE  FeedTypeOK'
<1> DEFINE p == ProductOf[s]
<1>1. p \in Products /\ {p} \in SUBSET Products
  BY FeedAssumption DEF FeedAssumption
<1>2. CASE TradesRequested(s)
  <2>1. Subscribe("ticker", {p}) \in ChannelRequest
    BY <1>1, RequestTypes DEF Channels
  <2> QED
    BY <1>1, <1>2, <2>1 DEF FeedTypeOK, TradesRequested
<1>3. CASE TradesAnswered(s)
  <2>1. tickerProducts' \in SUBSET Products
    BY <1>1, <1>3 DEF FeedTypeOK, TradesAnswered
  <2>2. Subscribe("ticker", tickerProducts') \in ChannelRequest
    BY <2>1, RequestTypes DEF Channels
  <2>3. wire' \in Seq(ChannelRequest)
    BY <1>3, <2>2 DEF FeedTypeOK, TradesAnswered
  <2>4. /\ pending' \in SUBSET Products
        /\ results' \in [Products -> Results]
        /\ subscriptions' \in SUBSET (Symbols \X Kinds)
    BY <1>1, <1>3 DEF FeedTypeOK, TradesAnswered, Results, Kinds
  <2> QED
    BY <1>3, <2>1, <2>3, <2>4 DEF FeedTypeOK, TradesAnswered
<1>4. CASE Level2Requested(s)
  <2>1. Subscribe("level2", {p}) \in ChannelRequest
    BY <1>1, RequestTypes DEF Channels
  <2> QED
    BY <1>1, <1>4, <2>1 DEF FeedTypeOK, Level2Requested
<1>5. CASE Level2Answered(s)
  BY <1>1, <1>5 DEF FeedTypeOK, Level2Answered, Results, Kinds
<1>6. CASE Unsubscribed(s)
  <2>1. /\ wire' \in Seq(ChannelRequest)
        /\ subscriptions' \in SUBSET (Symbols \X Kinds)
        /\ tickerProducts' \in SUBSET Products
    BY <1>6, UnsubscribedTables DEF FeedTypeOK
  <2> QED
    BY <1>6, <2>1 DEF FeedTypeOK, Unsubscribed
<1> QED
  BY <1>2, <1>3, <1>4, <1>5, <1>6

(* The worker's step keeps the types of the feed and changes nothing but   *)
(* the results, the wire, the exchange and the history.  A failure entry   *)
(* it makes is for a product it records as refused.                        *)
LEMMA WorkerKeepsFeedTypes ==
    ASSUME FeedTypeOK, WorkerProcessesAnswer
    PROVE  /\ FeedTypeOK'
           /\ UNCHANGED <<pending, subscriptions, tickerProducts>>
           /\ refused \subseteq refused'
           /\ \A p \in Products : results'[p] = "failure"
                                  => results[p] = "failure" \/ p \in refused'
<1>1. wire # <<>> /\ wire' = Tail(wire) /\ wire \in Seq(ChannelRequest)
  BY DEF FeedTypeOK, WorkerProcessesAnswer, ExchangeConfirms, ExchangeRefuses
<1>2. Head(wire) \in ChannelRequest /\ wire' \in Seq(ChannelRequest)
  BY <1>1
<1>3. Head(wire).products \in SUBSET Products
  BY <1>2 DEF ChannelRequest
<1>4. CASE ExchangeConfirms
  <2>1. /\ exTicker' \in SUBSET Products
        /\ exLevel2' \in SUBSET Products
    BY <1>3, <1>4 DEF FeedTypeOK, ExchangeConfirms, ChannelAfter
  <2> QED
    BY <1>2, <1>4, <2>1 DEF FeedTypeOK, ExchangeConfirms, Results
<1>5. CASE ExchangeRefuses
  <2>1. PICK named \in SUBSET Refusable(Head(wire)) :
          /\ results' = [p \in Products |-> IF p \in named THEN "failure" ELSE results[p]]
          /\ refused' = refused \cup named
    BY <1>5 DEF ExchangeRefuses
  <2>2. named \subseteq Products
    BY <1>3, <2>1 DEF Refusable
  <2> QED
    BY <1>2, <1>5, <2>1, <2>2 DEF FeedTypeOK, ExchangeRefuses, Results
<1> QED
  BY <1>4, <1>5 DEF WorkerProcessesAnswer

-----------------------------------------------------------------------------
(* The server.                                                             *)

(* A SymbolID is a residue of the 16-bit counter or one the client chose.  *)
LEMMA AssignedIdType ==
    ASSUME TypeOK, NEW c \in Clients, NEW id \in RequestIds
    PROVE  AssignedId(c, id) \in Ids
<1>1. /\ nextSymbolId[c] \in Nat
      /\ IdModulus \in Nat \ {0}
      /\ id \in 0 .. (IdModulus - 1)
  BY ServerAssumption DEF TypeOK, ServerAssumption
<1>2. nextSymbolId[c] % IdModulus \in 0 .. (IdModulus - 1)
  BY <1>1
<1> QED
  BY <1>1, <1>2 DEF AssignedId, Ids

LEMMA InitTypes == Init => TypeOK
<1> SUFFICES ASSUME Init PROVE TypeOK
  OBVIOUS
<1>1. FeedTypeOK
  BY DEF Init, FeedInit, FeedTypeOK, Results
<1>2. NoMessage \in Message
  BY DEF NoMessage, Message, MessageTypes
<1>3. WorkerTypeOK
  BY ServerAssumption DEF Init, WorkerTypeOK, ServerAssumption
<1> QED
  BY <1>1, <1>2, <1>3 DEF Init, TypeOK, NoSymbolIds, NoIdSymbols, Points

(* Most steps leave the worker and its broadcast alone.                    *)
LEMMA WorkerKept ==
    ASSUME WorkerTypeOK, UNCHANGED workerVars
    PROVE  WorkerTypeOK'
BY DEF WorkerTypeOK, workerVars

(* Receiving one of the three kinds of market data request.                *)
LEMMA ReceiveTypes ==
    ASSUME TypeOK, NEW c \in Clients, NEW s \in Symbols, NEW id \in RequestIds,
           \/ ReceiveSubscribe(c, s, id)
           \/ ReceiveUnsubscribe(c, s, id)
           \/ ReceiveSnapshot(c, s, id)
    PROVE  TypeOK'
<1>1. id \in Ids
  BY ServerAssumption DEF ServerAssumption, Ids
<1>2. ASSUME NEW action \in Actions, NEW i \in Ids, NEW ok \in BOOLEAN, NEW point \in Points,
             Receive(c, action, s, i, ok, point)
      PROVE  /\ FeedTypeOK'
             /\ request' \in [Clients -> Request \cup {NoRequest}]
             /\ \A d \in Clients : pc'[d] # "idle" => request'[d] \in Request
             /\ success' \in [Clients -> BOOLEAN]
             /\ pc' \in [Clients -> Points]
             /\ requestCount' \in Nat
             /\ WorkerTypeOK'
             /\ UNCHANGED <<mutexOwner, delisted, feedStored, lastSent>>
  <2>1. FeedTypeOK'
    BY <1>2 DEF TypeOK, FeedTypeOK, Receive, feedVars
  <2>2. [action |-> action, symbol |-> s, id |-> i] \in Request
    BY <1>2 DEF Request
  <2>3. /\ request' = [request EXCEPT ![c] = [action |-> action, symbol |-> s, id |-> i]]
        /\ pc' = [pc EXCEPT ![c] = point]
        /\ success' = [success EXCEPT ![c] = ok]
        /\ requestCount' = requestCount + 1
        /\ UNCHANGED <<mutexOwner, delisted, feedStored, lastSent>>
    BY <1>2 DEF Receive
  <2>4. WorkerTypeOK'
    BY <1>2, WorkerKept DEF TypeOK, Receive
  <2> QED
    BY <2>1, <2>2, <2>3, <2>4 DEF TypeOK
<1>3. CASE ReceiveSubscribe(c, s, id)
  <2> DEFINE i == AssignedId(c, id)
  <2>1. i \in Ids
    BY AssignedIdType
  <2>2. /\ Receive(c, "subscribe", s, i, FALSE, "subscribe")
        /\ nextSymbolId' = [nextSymbolId EXCEPT ![c] = IF id = 0 THEN @ + 1 ELSE @]
        /\ symbolToId' = [symbolToId EXCEPT ![c][s] = i]
        /\ idToSymbol' = [idToSymbol EXCEPT ![c][i] = s]
        /\ UNCHANGED subscribed
    BY <1>3 DEF ReceiveSubscribe
  <2> HIDE DEF i
  <2>3. /\ nextSymbolId' \in [Clients -> Nat]
        /\ symbolToId' \in [Clients -> [Symbols -> Ids \cup {NoId}]]
        /\ idToSymbol' \in [Clients -> [Ids -> Symbols \cup {NoSymbol}]]
    BY <2>1, <2>2 DEF TypeOK
  <2> QED
    BY <1>2, <2>1, <2>2, <2>3 DEF TypeOK, Actions, Points
<1>4. CASE ReceiveUnsubscribe(c, s, id)
  BY <1>1, <1>4, <1>2 DEF ReceiveUnsubscribe, TypeOK, Actions, Points
<1>5. CASE ReceiveSnapshot(c, s, id)
  BY <1>1, <1>2, <1>5 DEF ReceiveSnapshot, sessionVars, TypeOK, Actions, Points
<1> QED
  BY <1>3, <1>4, <1>5

(* The handler's further steps.                                            *)
LEMMA HandlerTypes ==
    ASSUME TypeOK, NEW c \in Clients, HandlerStep(c)
    PROVE  TypeOK'
<1> DEFINE s == request[c].symbol
<1>1. pc[c] # "idle" /\ request[c] \in Request
  BY DEF TypeOK, HandlerStep, FeedMissing, SubscribeTrades, TradesResult,
         SubscribeLevel2, Level2Result, UnsubscribeFeed, Reply
<1>2. s \in Symbols /\ request[c].id \in Ids
  BY <1>1 DEF Request
<1>3. \A S \in SUBSET Symbols : S \cup ({s} \cap UsdcSymbols) \in SUBSET Symbols
  BY <1>2
<1>4. WorkerTypeOK'
  <2>1. UNCHANGED workerVars
    BY DEF HandlerStep, FeedMissing, SubscribeTrades, TradesResult, SubscribeLevel2,
           Level2Result, UnsubscribeFeed, Reply
  <2> QED
    BY <2>1, WorkerKept DEF TypeOK
<1>5. CASE FeedMissing(c)
  BY <1>1, <1>4, <1>5 DEF FeedMissing, TypeOK, FeedTypeOK, feedVars, sessionVars, Points
<1>6. CASE SubscribeTrades(c)
  <2>1. FeedTypeOK'
    BY <1>2, <1>6, CallerKeepsFeedTypes DEF SubscribeTrades, TypeOK
  <2> QED
    BY <1>1, <1>4, <1>6, <2>1 DEF SubscribeTrades, TypeOK, sessionVars, Points
<1>7. CASE TradesResult(c)
  <2>1. FeedTypeOK'
    BY <1>2, <1>7, CallerKeepsFeedTypes DEF TradesResult, TypeOK
  <2> QED
    BY <1>1, <1>4, <1>7, <2>1 DEF TradesResult, WaitSucceeds, TypeOK, sessionVars, Points
<1>8. CASE SubscribeLevel2(c)
  <2>1. FeedTypeOK'
    BY <1>2, <1>8, CallerKeepsFeedTypes DEF SubscribeLevel2, TypeOK
  <2> QED
    BY <1>1, <1>4, <1>8, <2>1 DEF SubscribeLevel2, TypeOK, sessionVars, Points
<1>9. CASE Level2Result(c)
  <2>1. FeedTypeOK'
    BY <1>2, <1>9, CallerKeepsFeedTypes DEF Level2Result, TypeOK
  <2>2. /\ subscribed' \in [Clients -> SUBSET Symbols]
        /\ delisted' \in SUBSET Symbols
    <3>1. CASE success[c]
      <4>1. /\ subscribed' = [subscribed EXCEPT ![c] = @ \cup {s}]
            /\ UNCHANGED delisted
        BY <1>9, <3>1 DEF Level2Result
      <4> QED
        BY <1>2, <4>1 DEF TypeOK
    <3>2. CASE ~success[c]
      <4>1. /\ delisted' = delisted \cup ({s} \cap UsdcSymbols)
            /\ UNCHANGED subscribed
        BY <1>9, <3>2 DEF Level2Result, DelistedAfterFailure
      <4> QED
        BY <1>3, <4>1 DEF TypeOK
    <3> QED
      BY <3>1, <3>2
  <2> QED
    BY <1>1, <1>4, <1>9, <2>1, <2>2 DEF Level2Result, TypeOK, Points
<1>10. CASE UnsubscribeFeed(c)
  <2>1. FeedTypeOK'
    BY <1>2, <1>10, CallerKeepsFeedTypes DEF UnsubscribeFeed, TypeOK
  <2> QED
    BY <1>1, <1>4, <1>10, <2>1 DEF UnsubscribeFeed, TypeOK, sessionVars, Points
<1>11. CASE Reply(c)
  <2>1. FeedTypeOK'
    BY <1>11 DEF Reply, feedVars, TypeOK, FeedTypeOK
  <2>2. \A type \in {"response", "reject"} :
           \A S \in {{s}, {}} : [type |-> type, id |-> request[c].id, symbols |-> S] \in Message
    BY <1>2 DEF Message, MessageTypes
  <2>3. lastSent' \in [Clients -> Message] /\ delisted' \in SUBSET Symbols
    BY <1>3, <1>11, <2>2 DEF Reply, DelistedAfterFailure, TypeOK
  <2>4. /\ request' = [request EXCEPT ![c] = NoRequest]
        /\ success' = [success EXCEPT ![c] = FALSE]
        /\ pc' = [pc EXCEPT ![c] = "idle"]
        /\ UNCHANGED <<sessionVars, mutexOwner, feedStored, requestCount>>
    BY <1>11 DEF Reply
  <2> QED
    BY <1>4, <2>1, <2>3, <2>4 DEF TypeOK, sessionVars, Points
<1> QED
  BY <1>5, <1>6, <1>7, <1>8, <1>9, <1>10, <1>11 DEF HandlerStep

(* Messages and disconnections that concern one client only.               *)
LEMMA SecurityDefinitionsTypes ==
    ASSUME TypeOK, NEW c \in Clients, SecurityDefinitions(c)
    PROVE  TypeOK'
<1>1. PICK offered \in SUBSET Products :
         lastSent' = [lastSent EXCEPT ![c] =
             [type |-> "definition", id |-> NoId, symbols |-> offered]]
  BY DEF SecurityDefinitions
<1>2. offered \in SUBSET Symbols
  BY FeedAssumption DEF FeedAssumption
<1>3. [type |-> "definition", id |-> NoId, symbols |-> offered] \in Message
  BY <1>2 DEF Message, MessageTypes
<1>4. /\ UNCHANGED <<feedVars, sessionVars, handlerVars, delisted, feedStored>>
      /\ requestCount' = requestCount + 1
  BY DEF SecurityDefinitions
<1>5. WorkerTypeOK'
  BY WorkerKept DEF SecurityDefinitions, TypeOK
<1> QED
  BY <1>1, <1>4, <1>3, <1>5 DEF TypeOK, FeedTypeOK, feedVars, sessionVars, handlerVars

LEMMA DisconnectTypes ==
    ASSUME TypeOK, NEW c \in Clients, Disconnect(c)
    PROVE  TypeOK'
<1>1. NoMessage \in Message
  BY DEF NoMessage, Message, MessageTypes
<1>2. WorkerTypeOK'
  BY WorkerKept DEF Disconnect, TypeOK
<1> QED
  BY <1>1, <1>2 DEF Disconnect, TypeOK, FeedTypeOK, feedVars, handlerVars, NoSymbolIds,
                    NoIdSymbols

(* The worker's steps: an answer, and those of a broadcast.                *)
LEMMA WorkerAnswerTypes ==
    ASSUME TypeOK, WorkerAnswer
    PROVE  TypeOK'
<1>1. FeedTypeOK'
  BY WorkerKeepsFeedTypes DEF WorkerAnswer, TypeOK
<1>2. WorkerTypeOK'
  BY WorkerKept DEF WorkerAnswer, TypeOK
<1> QED
  BY <1>1, <1>2 DEF WorkerAnswer, TypeOK, sessionVars, handlerVars

LEMMA BroadcastWorkerTypes ==
    ASSUME TypeOK, BroadcastStep
    PROVE  WorkerTypeOK' /\ lastSent' \in [Clients -> Message]
<1>1. /\ NoClient \notin Clients
      /\ NoUpdate \notin Update
      /\ Products \subseteq Symbols
  BY ServerAssumption, FeedAssumption DEF ServerAssumption, FeedAssumption, NoUpdate, Update
<1>2. WorkerTypeOK /\ lastSent \in [Clients -> Message]
  BY DEF TypeOK
<1>3. target # NoClient => update \in Update /\ target \in Clients /\ update.product \in Products
  BY <1>2 DEF WorkerTypeOK, Update
<1>4. ASSUME NEW p \in Products, OnTradeData(p) \/ OnLevel2Data(p)
      PROVE  WorkerTypeOK' /\ lastSent' \in [Clients -> Message]
  <2>1. PICK type \in {"trade", "level2"}, n \in 1 .. 3 :
          /\ BroadcastBegins(type, p, n)
          /\ [type |-> type, product |-> p, messages |-> n] \in Update
    BY <1>4 DEF OnTradeData, OnLevel2Data, Update
  <2> QED
    BY <1>1, <1>2, <2>1 DEF BroadcastBegins, WorkerTypeOK
<1>5. ASSUME NEW c \in Clients, BroadcastPasses(c) \/ BroadcastChooses(c)
      PROVE  WorkerTypeOK' /\ lastSent' \in [Clients -> Message]
  <2>1. update \in Update /\ update.messages \in 1 .. 3
    BY <1>2, <1>5 DEF WorkerTypeOK, Update, BroadcastPasses, BroadcastChooses
  <2> QED
    BY <1>1, <1>2, <1>5, <2>1 DEF WorkerTypeOK, BroadcastPasses, BroadcastChooses
<1>6. CASE BroadcastNumbers
  <2>1. symbolToId[target][update.product] \in Ids \cup {NoId}
    BY <1>1, <1>3, <1>6 DEF BroadcastNumbers, TypeOK
  <2> QED
    BY <1>1, <1>2, <1>3, <1>6, <2>1 DEF WorkerTypeOK, BroadcastNumbers
<1>7. CASE BroadcastSends
  <2>1. [type |-> update.type, id |-> targetId, symbols |-> {update.product}] \in Message
    BY <1>1, <1>2, <1>3, <1>7 DEF BroadcastSends, WorkerTypeOK, Update, Message, MessageTypes
  <2>2. lastSent' \in [Clients -> Message]
    BY <1>2, <1>7, <2>1 DEF BroadcastSends
  <2>3. parts \in 1 .. 3 /\ parts' = parts - 1
    BY <1>2, <1>7 DEF BroadcastSends, WorkerTypeOK
  <2> QED
    BY <1>2, <1>3, <1>7, <2>2, <2>3 DEF WorkerTypeOK, BroadcastSends
<1>8. CASE BroadcastEnds
  BY <1>2, <1>8 DEF WorkerTypeOK, BroadcastEnds
<1> QED
  BY <1>4, <1>5, <1>6, <1>7, <1>8 DEF BroadcastStep

LEMMA BroadcastTypes ==
    ASSUME TypeOK, BroadcastStep
    PROVE  TypeOK'
<1>1. BroadcastKeeps
  BY DEF BroadcastStep, OnTradeData, OnLevel2Data, BroadcastBegins, BroadcastPasses,
         BroadcastChooses, BroadcastNumbers, BroadcastSends, BroadcastEnds
<1> QED
  BY <1>1, BroadcastWorkerTypes
     DEF BroadcastKeeps, TypeOK, FeedTypeOK, feedVars, sessionVars, handlerVars

LEMMA NextTypes == TypeOK /\ [Next]_vars => TypeOK'
<1> SUFFICES ASSUME TypeOK, [Next]_vars PROVE TypeOK'
  OBVIOUS
<1>1. ASSUME NEW c \in Clients, ClientStep(c)
      PROVE  TypeOK'
  BY <1>1, ReceiveTypes, SecurityDefinitionsTypes, DisconnectTypes DEF ClientStep
<1>2. CASE UNCHANGED vars
  <2>1. WorkerTypeOK'
    BY <1>2, WorkerKept DEF vars, TypeOK
  <2> QED
    BY <1>2, <2>1 DEF vars, feedVars, sessionVars, handlerVars, TypeOK, FeedTypeOK
<1> QED
  BY <1>1, <1>2, HandlerTypes, WorkerAnswerTypes, BroadcastTypes DEF Next

(* The variables have their types in every reachable state: the server's   *)
(* tables, each handler's request and the feed's requests on the wire.     *)
THEOREM TypesAreCorrect == Spec => []TypeOK
BY InitTypes, NextTypes, PTL DEF Spec
=============================================================================
