----------------------- MODULE MarketDataSafetyProofs ------------------------
(***************************************************************************)
(* The safety invariants of MarketDataServer, for every number of clients, *)
(* symbols and requests.  HandlerInv, with the types, is inductive.  Then  *)
(* come the invariants that hold under a condition the theorem names, and  *)
(* the refinement of SubscriptionService.                                  *)
(***************************************************************************)
EXTENDS MarketDataProofs

(* Steps that at most send a message: security definitions, broadcasts.    *)
Quiet == /\ UNCHANGED <<feedVars, sessionVars, handlerVars, delisted, feedStored>>
         /\ requestCount' \in {requestCount, requestCount + 1}

ReceiveStep(c, s, id) ==
    ReceiveSubscribe(c, s, id) \/ ReceiveUnsubscribe(c, s, id) \/ ReceiveSnapshot(c, s, id)

(* A broadcast changes the worker's variables and the messages sent.       *)
LEMMA BroadcastQuiet == BroadcastStep => BroadcastKeeps
BY DEF BroadcastStep, OnTradeData, OnLevel2Data, BroadcastBegins, BroadcastPasses,
       BroadcastChooses, BroadcastNumbers, BroadcastSends, BroadcastEnds

(* The five kinds of step the proofs below distinguish.                    *)
LEMMA StepKinds ==
    ASSUME [Next]_vars
    PROVE  \/ \E c \in Clients : HandlerStep(c)
           \/ \E c \in Clients, s \in Symbols, id \in RequestIds : ReceiveStep(c, s, id)
           \/ \E c \in Clients : Disconnect(c)
           \/ WorkerAnswer
           \/ Quiet
<1>1. ASSUME NEW c \in Clients, SecurityDefinitions(c)
      PROVE  Quiet
  BY <1>1 DEF SecurityDefinitions, Quiet
<1>2. ASSUME BroadcastStep
      PROVE  Quiet
  BY <1>2, BroadcastQuiet DEF BroadcastKeeps, Quiet
<1>3. CASE UNCHANGED vars
  BY <1>3 DEF vars, Quiet
<1> QED
  BY <1>1, <1>2, <1>3 DEF Next, ClientStep, ReceiveStep

(* What the three kinds of request do to the handler's state.              *)
LEMMA ReceiveEffect ==
    ASSUME TypeOK, NEW c \in Clients, NEW s \in Symbols, NEW id \in RequestIds,
           ReceiveStep(c, s, id)
    PROVE  /\ pc[c] = "idle"
           /\ \E action \in Actions, i \in Ids, point \in {"subscribe", "unsubscribe", "reply"} :
                /\ request' = [request EXCEPT ![c] = [action |-> action, symbol |-> s, id |-> i]]
                /\ success' = [success EXCEPT ![c] = (action = "unsubscribe")]
                /\ pc' = [pc EXCEPT ![c] = point]
                /\ point = "subscribe" <=> action = "subscribe"
                /\ point = "unsubscribe" <=> action = "unsubscribe"
                /\ symbolToId' = IF action = "subscribe"
                                 THEN [symbolToId EXCEPT ![c][s] = i] ELSE symbolToId
                /\ subscribed' = IF action = "unsubscribe"
                                 THEN [subscribed EXCEPT ![c] = @ \ {s}] ELSE subscribed
           /\ UNCHANGED <<feedVars, workerVars, mutexOwner, delisted, feedStored, lastSent>>
<1>1. id \in Ids /\ AssignedId(c, id) \in Ids
  BY AssignedIdType, ServerAssumption DEF ServerAssumption, Ids
<1>2. CASE ReceiveSubscribe(c, s, id)
  <2> DEFINE i == AssignedId(c, id)
  <2>1. /\ Receive(c, "subscribe", s, i, FALSE, "subscribe")
        /\ symbolToId' = [symbolToId EXCEPT ![c][s] = i]
        /\ UNCHANGED subscribed
    BY <1>2 DEF ReceiveSubscribe
  <2> HIDE DEF i
  <2> QED
    BY <1>1, <2>1 DEF Receive, Actions, i
<1>3. CASE ReceiveUnsubscribe(c, s, id)
  BY <1>1, <1>3 DEF ReceiveUnsubscribe, Receive, Actions
<1>4. CASE ReceiveSnapshot(c, s, id)
  BY <1>1, <1>4 DEF ReceiveSnapshot, Receive, Actions, sessionVars
<1> QED
  BY <1>2, <1>3, <1>4 DEF ReceiveStep

-----------------------------------------------------------------------------
LEMMA PhasesStep ==
    ASSUME TypeOK, RequestPhases, [Next]_vars
    PROVE  RequestPhases'
<1>1. ASSUME NEW c \in Clients, HandlerStep(c)
      PROVE  RequestPhases'
  <2>1. CASE Reply(c)
    BY <2>1 DEF TypeOK, RequestPhases, Reply, sessionVars
  <2>2. CASE FeedMissing(c) \/ SubscribeTrades(c) \/ UnsubscribeFeed(c)
    BY <2>2 DEF TypeOK, RequestPhases, FeedMissing, SubscribeTrades, UnsubscribeFeed, sessionVars
  <2>3. CASE TradesResult(c) \/ SubscribeLevel2(c) \/ Level2Result(c)
    BY <2>3 DEF TypeOK, RequestPhases, TradesResult, SubscribeLevel2, Level2Result, sessionVars
  <2> QED
    BY <1>1, <2>1, <2>2, <2>3 DEF HandlerStep
<1>2. ASSUME NEW c \in Clients, NEW s \in Symbols, NEW id \in RequestIds, ReceiveStep(c, s, id)
      PROVE  RequestPhases'
  <2>1. NoId \notin Ids
    BY ServerAssumption DEF NoId, Ids, ServerAssumption
  <2>2. PICK action \in Actions, i \in Ids, point \in {"subscribe", "unsubscribe", "reply"} :
          /\ request' = [request EXCEPT ![c] = [action |-> action, symbol |-> s, id |-> i]]
          /\ success' = [success EXCEPT ![c] = (action = "unsubscribe")]
          /\ pc' = [pc EXCEPT ![c] = point]
          /\ point = "subscribe" <=> action = "subscribe"
          /\ point = "unsubscribe" <=> action = "unsubscribe"
          /\ symbolToId' = IF action = "subscribe"
                           THEN [symbolToId EXCEPT ![c][s] = i] ELSE symbolToId
    BY <1>2, ReceiveEffect
  <2>3. /\ request'[c] = [action |-> action, symbol |-> s, id |-> i]
        /\ action = "unsubscribe" => success'[c]
        /\ action # "unsubscribe" => ~success'[c]
        /\ pc'[c] = point
        /\ action = "subscribe" => symbolToId'[c][s] # NoId
    BY <2>1, <2>2 DEF TypeOK
  <2>4. \A d \in Clients : d # c =>
          /\ request'[d] = request[d] /\ success'[d] = success[d] /\ pc'[d] = pc[d]
          /\ symbolToId'[d] = symbolToId[d]
    BY <2>2 DEF TypeOK
  <2>5. ASSUME NEW d \in Clients
        PROVE  /\ pc'[d] = "idle" => request'[d] = NoRequest
               /\ pc'[d] \in {"subscribe", "trades", "level2", "level2Wait"} =>
                     request'[d].action = "subscribe" /\ symbolToId'[d][request'[d].symbol] # NoId
               /\ pc'[d] \in {"subscribe", "trades"} => ~success'[d]
               /\ pc'[d] = "unsubscribe" => request'[d].action = "unsubscribe" /\ success'[d]
    <3>1. CASE d = c
      BY <2>2, <2>3, <3>1
    <3>2. CASE d # c
      BY <2>4, <3>2 DEF RequestPhases
    <3> QED
      BY <3>1, <3>2
  <2> QED
    BY <2>5 DEF RequestPhases
<1>3. ASSUME NEW c \in Clients, Disconnect(c)
      PROVE  RequestPhases'
  BY <1>3 DEF TypeOK, RequestPhases, Disconnect, handlerVars
<1>4. CASE WorkerAnswer \/ Quiet
  BY <1>4 DEF RequestPhases, WorkerAnswer, Quiet, sessionVars, handlerVars
<1> QED
  BY <1>1, <1>2, <1>3, <1>4, StepKinds

(* A failure entry is made by an error message only, and only a failure    *)
(* entry makes a handler's success FALSE after subscribe_trades().         *)
LEMMA FailuresStep ==
    ASSUME TypeOK, FailuresAreRefusals, [Next]_vars
    PROVE  FailuresAreRefusals'
<1>1. ASSUME NEW c \in Clients, HandlerStep(c)
      PROVE  FailuresAreRefusals'
  <2> DEFINE p == ProductOf[request[c].symbol]
  <2>1. pc[c] # "idle" => p \in Products
    BY FeedAssumption DEF TypeOK, Request, FeedAssumption
  <2>2. CASE TradesResult(c)
    <3>1. /\ pc[c] = "trades"
          /\ results' = [results EXCEPT ![p] = "absent"]
          /\ success' = [success EXCEPT ![c] = results[p] # "failure"]
          /\ pc' = [pc EXCEPT ![c] = "level2"]
          /\ UNCHANGED <<request, refused>>
      BY <2>2 DEF TradesResult, TradesAnswered, WaitSucceeds
    <3> QED
      BY <2>1, <3>1 DEF TypeOK, FeedTypeOK, FailuresAreRefusals
  <2>3. CASE Level2Result(c)
    <3>1. /\ pc[c] = "level2Wait"
          /\ results' = [results EXCEPT ![p] = "absent"]
          /\ pc' = [pc EXCEPT ![c] = "reply"]
          /\ UNCHANGED <<request, success, refused>>
      BY <2>3 DEF Level2Result, Level2Answered
    <3> QED
      BY <2>1, <3>1 DEF TypeOK, FeedTypeOK, FailuresAreRefusals
  <2>4. CASE SubscribeTrades(c) \/ SubscribeLevel2(c)
    BY <2>4 DEF TypeOK, FailuresAreRefusals, SubscribeTrades, SubscribeLevel2,
                TradesRequested, Level2Requested
  <2>5. CASE FeedMissing(c)
    BY <2>5 DEF TypeOK, FailuresAreRefusals, FeedMissing, feedVars
  <2>6. CASE UnsubscribeFeed(c)
    BY <2>6 DEF TypeOK, FailuresAreRefusals, UnsubscribeFeed, Unsubscribed, feedVars
  <2>7. CASE Reply(c)
    BY <2>7 DEF TypeOK, FailuresAreRefusals, Reply, feedVars
  <2> QED
    BY <1>1, <2>2, <2>3, <2>4, <2>5, <2>6, <2>7 DEF HandlerStep
<1>2. ASSUME NEW c \in Clients, NEW s \in Symbols, NEW id \in RequestIds, ReceiveStep(c, s, id)
      PROVE  FailuresAreRefusals'
  <2>1. PICK point \in {"subscribe", "unsubscribe", "reply"} :
          pc' = [pc EXCEPT ![c] = point]
    BY <1>2, ReceiveEffect
  <2>2. /\ UNCHANGED <<results, refused>>
        /\ \E r : request' = [request EXCEPT ![c] = r]
        /\ \E b : success' = [success EXCEPT ![c] = b]
    BY <1>2, ReceiveEffect DEF feedVars
  <2>3. \A d \in Clients : pc'[d] \in {"level2", "level2Wait"} =>
          d # c /\ pc'[d] = pc[d] /\ request'[d] = request[d] /\ success'[d] = success[d]
    BY <2>1, <2>2 DEF TypeOK
  <2> QED
    BY <2>2, <2>3 DEF FailuresAreRefusals
<1>3. CASE WorkerAnswer
  <2>1. /\ refused \subseteq refused'
        /\ \A p \in Products : results'[p] = "failure"
                               => results[p] = "failure" \/ p \in refused'
    BY <1>3, WorkerKeepsFeedTypes DEF TypeOK, WorkerAnswer
  <2> QED
    BY <1>3, <2>1 DEF FailuresAreRefusals, WorkerAnswer, handlerVars
<1>4. CASE Quiet \/ \E c \in Clients : Disconnect(c)
  BY <1>4 DEF FailuresAreRefusals, Quiet, Disconnect, feedVars, handlerVars
<1> QED
  BY <1>1, <1>2, <1>3, <1>4, StepKinds

(* The mutex is what keeps two handlers from waiting at the same time.     *)
LEMMA OneWaiterStep ==
    ASSUME TypeOK, OneWaiter, [Next]_vars
    PROVE  OneWaiter'
<1>1. NoClient \notin Clients
  BY ServerAssumption DEF ServerAssumption
<1>2. ASSUME NEW c \in Clients, HandlerStep(c)
      PROVE  OneWaiter'
  <2> DEFINE p == ProductOf[request[c].symbol]
  <2>1. ASSUME mutexOwner = c
        PROVE  pending = IF Waiting(c) THEN {p} ELSE {}
    BY <2>1 DEF OneWaiter, InFeedCall, Waiting
  <2>2. ASSUME mutexOwner = NoClient
        PROVE  pending = {}
    BY <1>1, <2>2 DEF OneWaiter, InFeedCall, Waiting
  <2>3. CASE SubscribeTrades(c)
    <3>1. /\ mutexOwner = NoClient /\ mutexOwner' = c
          /\ pc' = [pc EXCEPT ![c] = "trades"]
          /\ pending' = {p}
          /\ UNCHANGED request
      BY <2>2, <2>3 DEF SubscribeTrades, TradesRequested
    <3> QED
      BY <1>1, <3>1 DEF TypeOK, OneWaiter, InFeedCall, Waiting
  <2>4. CASE TradesResult(c)
    <3>1. /\ pc[c] = "trades" /\ mutexOwner = c /\ mutexOwner' = c
          /\ pc' = [pc EXCEPT ![c] = "level2"]
          /\ pending' = pending \ {p}
          /\ UNCHANGED request
      BY <2>4 DEF TradesResult, TradesAnswered, OneWaiter, InFeedCall
    <3>2. pending' = {}
      BY <2>1, <3>1
    <3> QED
      BY <3>1, <3>2 DEF TypeOK, OneWaiter, InFeedCall, Waiting
  <2>5. CASE SubscribeLevel2(c)
    <3>1. /\ pc[c] = "level2" /\ mutexOwner = c /\ mutexOwner' = c
          /\ pc' = [pc EXCEPT ![c] = "level2Wait"]
          /\ pending' = pending \cup {p}
          /\ UNCHANGED request
      BY <2>5 DEF SubscribeLevel2, Level2Requested, OneWaiter, InFeedCall
    <3>2. pending' = {p}
      BY <2>1, <3>1 DEF Waiting
    <3> QED
      BY <3>1, <3>2 DEF TypeOK, OneWaiter, InFeedCall, Waiting
  <2>6. CASE Level2Result(c)
    <3>1. /\ pc[c] = "level2Wait" /\ mutexOwner = c /\ mutexOwner' = NoClient
          /\ pc' = [pc EXCEPT ![c] = "reply"]
          /\ pending' = pending \ {p}
          /\ UNCHANGED request
      BY <2>6 DEF Level2Result, Level2Answered, OneWaiter, InFeedCall
    <3>2. pending' = {}
      BY <2>1, <3>1
    <3> QED
      BY <1>1, <3>1, <3>2 DEF TypeOK, OneWaiter, InFeedCall, Waiting
  <2>7. CASE FeedMissing(c) \/ UnsubscribeFeed(c) \/ Reply(c)
    <3>1. /\ pc[c] \in {"subscribe", "unsubscribe", "reply"}
          /\ \E point \in {"reply", "idle"} : pc' = [pc EXCEPT ![c] = point]
          /\ \A d \in Clients : d # c => request'[d] = request[d]
          /\ UNCHANGED <<pending, mutexOwner>>
      BY <2>7 DEF FeedMissing, UnsubscribeFeed, Unsubscribed, Reply, TypeOK, feedVars
    <3> QED
      BY <3>1 DEF TypeOK, OneWaiter, InFeedCall, Waiting
  <2> QED
    BY <1>2, <2>3, <2>4, <2>5, <2>6, <2>7 DEF HandlerStep
<1>3. ASSUME NEW c \in Clients, NEW s \in Symbols, NEW id \in RequestIds, ReceiveStep(c, s, id)
      PROVE  OneWaiter'
  <2>1. /\ pc[c] = "idle"
        /\ \E point \in {"subscribe", "unsubscribe", "reply"} : pc' = [pc EXCEPT ![c] = point]
        /\ \A d \in Clients : d # c => request'[d] = request[d]
        /\ UNCHANGED <<pending, mutexOwner>>
    BY <1>3, ReceiveEffect DEF TypeOK, feedVars
  <2>2. \A d \in Clients :
          /\ InFeedCall(d)' <=> InFeedCall(d)
          /\ Waiting(d)' <=> Waiting(d)
          /\ Waiting(d) => request'[d] = request[d]
    BY <2>1 DEF TypeOK, InFeedCall, Waiting
  <2> QED
    BY <2>1, <2>2 DEF OneWaiter
<1>4. CASE WorkerAnswer
  BY <1>4, WorkerKeepsFeedTypes
     DEF TypeOK, WorkerAnswer, OneWaiter, InFeedCall, Waiting, handlerVars
<1>5. CASE Quiet \/ \E c \in Clients : Disconnect(c)
  BY <1>5 DEF OneWaiter, InFeedCall, Waiting, Quiet, Disconnect, feedVars, handlerVars
<1> QED
  BY <1>2, <1>3, <1>4, <1>5, StepKinds

(* The id is in the map before the symbol can be in the list.              *)
LEMMA IdsStep ==
    ASSUME TypeOK, RequestPhases, SubscribedSymbolsHaveIds, [Next]_vars
    PROVE  SubscribedSymbolsHaveIds'
<1>1. ASSUME NEW c \in Clients, HandlerStep(c)
      PROVE  SubscribedSymbolsHaveIds'
  <2>1. CASE Level2Result(c)
    <3> DEFINE s == request[c].symbol
    <3>1. symbolToId[c][s] # NoId /\ UNCHANGED symbolToId
      BY <2>1 DEF Level2Result, RequestPhases
    <3>2. \A d \in Clients : subscribed'[d] \subseteq
             IF d = c THEN subscribed[c] \cup {s} ELSE subscribed[d]
      BY <2>1 DEF Level2Result, TypeOK
    <3> QED
      BY <3>1, <3>2 DEF SubscribedSymbolsHaveIds
  <2>2. CASE ~Level2Result(c)
    <3>1. UNCHANGED <<subscribed, symbolToId>>
      BY <1>1, <2>2 DEF HandlerStep, FeedMissing, SubscribeTrades, TradesResult,
                        SubscribeLevel2, UnsubscribeFeed, Reply, sessionVars
    <3> QED
      BY <3>1 DEF SubscribedSymbolsHaveIds
  <2> QED
    BY <2>1, <2>2
<1>2. ASSUME NEW c \in Clients, NEW s \in Symbols, NEW id \in RequestIds, ReceiveStep(c, s, id)
      PROVE  SubscribedSymbolsHaveIds'
  <2>1. NoId \notin Ids
    BY ServerAssumption DEF NoId, Ids, ServerAssumption
  <2>2. PICK action \in Actions, i \in Ids :
          /\ symbolToId' = IF action = "subscribe"
                           THEN [symbolToId EXCEPT ![c][s] = i] ELSE symbolToId
          /\ subscribed' = IF action = "unsubscribe"
                           THEN [subscribed EXCEPT ![c] = @ \ {s}] ELSE subscribed
    BY <1>2, ReceiveEffect
  <2>3. ASSUME NEW d \in Clients
        PROVE  /\ subscribed'[d] \subseteq subscribed[d]
               /\ \A t \in Symbols : symbolToId'[d][t] \in {i, symbolToId[d][t]}
    BY <2>2 DEF TypeOK
  <2> QED
    BY <2>1, <2>3 DEF SubscribedSymbolsHaveIds, TypeOK
<1>3. ASSUME NEW c \in Clients, Disconnect(c)
      PROVE  SubscribedSymbolsHaveIds'
  BY <1>3 DEF TypeOK, SubscribedSymbolsHaveIds, Disconnect
<1>4. CASE WorkerAnswer \/ Quiet
  BY <1>4 DEF SubscribedSymbolsHaveIds, WorkerAnswer, Quiet, sessionVars
<1> QED
  BY <1>1, <1>2, <1>3, <1>4, StepKinds

(* A client's connection is not dropped during a broadcast, so the id the  *)
(* worker is about to look up stays, whatever the handler does meanwhile.  *)
LEMMA TargetStep ==
    ASSUME TypeOK, SubscribedSymbolsHaveIds, TargetHasId, [Next]_vars
    PROVE  TargetHasId'
<1>1. NoClient \notin Clients /\ NoId \notin Ids /\ Products \subseteq Symbols
  BY ServerAssumption, FeedAssumption DEF ServerAssumption, FeedAssumption, NoId, Ids
<1>2. target # NoClient => target \in Clients /\ update \in Update /\ update.product \in Symbols
  BY <1>1 DEF TypeOK, WorkerTypeOK, Update
<1>3. ASSUME UNCHANGED workerVars, UNCHANGED symbolToId
      PROVE  TargetHasId'
  BY <1>3 DEF TargetHasId, workerVars
<1>4. ASSUME NEW c \in Clients, HandlerStep(c)
      PROVE  TargetHasId'
  <2>1. UNCHANGED workerVars /\ UNCHANGED symbolToId
    BY <1>4 DEF HandlerStep, FeedMissing, SubscribeTrades, TradesResult, SubscribeLevel2,
                Level2Result, UnsubscribeFeed, Reply, sessionVars
  <2> QED
    BY <1>3, <2>1
<1>5. ASSUME NEW c \in Clients, NEW s \in Symbols, NEW id \in RequestIds, ReceiveStep(c, s, id)
      PROVE  TargetHasId'
  <2>1. PICK action \in Actions, i \in Ids :
          symbolToId' = IF action = "subscribe"
                        THEN [symbolToId EXCEPT ![c][s] = i] ELSE symbolToId
    BY <1>5, ReceiveEffect
  <2>2. UNCHANGED workerVars
    BY <1>5, ReceiveEffect
  <2>3. \A d \in Clients : \A t \in Symbols : symbolToId'[d][t] \in {i, symbolToId[d][t]}
    BY <2>1 DEF TypeOK
  <2> QED
    BY <1>1, <1>2, <2>2, <2>3 DEF TargetHasId, workerVars
<1>6. ASSUME NEW c \in Clients, Disconnect(c)
      PROVE  TargetHasId'
  BY <1>6 DEF Disconnect, TypeOK, WorkerTypeOK, TargetHasId, workerVars
<1>7. ASSUME NEW c \in Clients, SecurityDefinitions(c)
      PROVE  TargetHasId'
  BY <1>3, <1>7 DEF SecurityDefinitions, sessionVars
<1>8. CASE WorkerAnswer \/ UNCHANGED vars
  BY <1>3, <1>8 DEF WorkerAnswer, vars, sessionVars
<1>9. CASE BroadcastStep
  <2>1. UNCHANGED symbolToId
    BY <1>9, BroadcastQuiet DEF BroadcastKeeps, sessionVars
  <2>2. ASSUME NEW c \in Clients, BroadcastChooses(c)
        PROVE  TargetHasId'
    BY <2>1, <2>2 DEF BroadcastChooses, TargetHasId, SubscribedSymbolsHaveIds
  <2>3. ASSUME NEW c \in Clients, BroadcastPasses(c)
        PROVE  TargetHasId'
    BY <2>1, <2>3 DEF BroadcastPasses, TargetHasId
  <2>4. ASSUME NEW p \in Products, OnTradeData(p) \/ OnLevel2Data(p)
        PROVE  TargetHasId'
    BY <2>1, <2>4 DEF OnTradeData, OnLevel2Data, BroadcastBegins, TargetHasId, TypeOK, WorkerTypeOK
  <2>5. CASE BroadcastNumbers \/ BroadcastSends \/ BroadcastEnds
    BY <2>1, <2>5 DEF BroadcastNumbers, BroadcastSends, BroadcastEnds, TargetHasId
  <2> QED
    BY <1>9, <2>2, <2>3, <2>4, <2>5 DEF BroadcastStep
<1> QED
  BY <1>4, <1>5, <1>6, <1>7, <1>8, <1>9 DEF Next, ClientStep, ReceiveStep

(* How a step of the server changes the two tables of the feed: a          *)
(* successful subscribe_trades() adds to both, unsubscribe() takes from    *)
(* both, and nothing else touches the trades keys.                         *)
TablesKept ==
    /\ tickerProducts' = tickerProducts
    /\ \A t \in Symbols : <<t, "trades">> \in subscriptions' <=> <<t, "trades">> \in subscriptions
TablesGain(s) ==
    /\ tickerProducts' = tickerProducts \cup {ProductOf[s]}
    /\ subscriptions' = subscriptions \cup {<<s, "trades">>}
TablesLose(s) ==
    /\ tickerProducts' = tickerProducts \ {ProductOf[s]}
    /\ subscriptions' = subscriptions \ {<<s, "trades">>, <<s, "level2">>}

LEMMA TablesEffect ==
    ASSUME TypeOK, [Next]_vars
    PROVE  TablesKept \/ \E s \in Symbols : TablesGain(s) \/ TablesLose(s)
<1>1. ASSUME NEW c \in Clients, HandlerStep(c)
      PROVE  TablesKept \/ \E s \in Symbols : TablesGain(s) \/ TablesLose(s)
  <2> DEFINE s == request[c].symbol
  <2>1. pc[c] # "idle" => s \in Symbols
    BY DEF TypeOK, Request
  <2>2. CASE TradesResult(c)
    <3>1. TablesKept \/ TablesGain(s)
      BY <2>2 DEF TradesResult, TradesAnswered, TablesKept, TablesGain
    <3> QED
      BY <2>1, <2>2, <3>1 DEF TradesResult
  <2>3. CASE UnsubscribeFeed(c)
    <3>1. Unsubscribed(s) /\ s \in Symbols
      BY <2>1, <2>3 DEF UnsubscribeFeed
    <3>2. TablesKept \/ TablesLose(s)
      BY <3>1, UnsubscribedTables DEF TypeOK, TablesKept, TablesLose
    <3> QED
      BY <3>1, <3>2
  <2>4. CASE SubscribeTrades(c) \/ SubscribeLevel2(c) \/ Level2Result(c)
    BY <2>4 DEF SubscribeTrades, SubscribeLevel2, Level2Result,
                TradesRequested, Level2Requested, Level2Answered, TablesKept
  <2>5. CASE FeedMissing(c) \/ Reply(c)
    BY <2>5 DEF FeedMissing, Reply, feedVars, TablesKept
  <2> QED
    BY <1>1, <2>2, <2>3, <2>4, <2>5 DEF HandlerStep
<1>2. ASSUME NEW c \in Clients, NEW s \in Symbols, NEW id \in RequestIds, ReceiveStep(c, s, id)
      PROVE  TablesKept
  BY <1>2, ReceiveEffect DEF feedVars, TablesKept
<1>3. CASE WorkerAnswer
  BY <1>3, WorkerKeepsFeedTypes DEF TypeOK, WorkerAnswer, TablesKept
<1>4. CASE Quiet \/ \E c \in Clients : Disconnect(c)
  BY <1>4 DEF Quiet, Disconnect, feedVars, TablesKept
<1> QED
  BY <1>1, <1>2, <1>3, <1>4, StepKinds

LEMMA KeysStep ==
    ASSUME TypeOK, TickerProductsHaveKeys, [Next]_vars
    PROVE  TickerProductsHaveKeys'
<1>1. CASE TablesKept
  BY <1>1 DEF TablesKept, TickerProductsHaveKeys
<1>2. ASSUME NEW s \in Symbols, TablesGain(s)
      PROVE  TickerProductsHaveKeys'
  BY <1>2 DEF TablesGain, TickerProductsHaveKeys
<1>3. ASSUME NEW s \in Symbols, TablesLose(s)
      PROVE  TickerProductsHaveKeys'
  BY <1>3 DEF TablesLose, TickerProductsHaveKeys
<1> QED
  BY <1>1, <1>2, <1>3, TablesEffect

(* A handler comes to "reply" without success from the level2 wait, where  *)
(* FailuresAreRefusals speaks, or because there is no feed.                *)
LEMMA RejectsStep ==
    ASSUME TypeOK, RequestPhases, FailuresAreRefusals, RejectsGoBackToRefusals, [Next]_vars
    PROVE  RejectsGoBackToRefusals'
<1>1. ASSUME NEW c \in Clients, HandlerStep(c)
      PROVE  RejectsGoBackToRefusals'
  <2>1. UNCHANGED <<refused, feedStored>>
    BY <1>1 DEF HandlerStep, FeedMissing, SubscribeTrades, TradesResult, SubscribeLevel2,
                Level2Result, UnsubscribeFeed, Reply, TradesRequested, TradesAnswered,
                Level2Requested, Level2Answered, Unsubscribed, feedVars
  <2>2. CASE Level2Result(c)
    BY <2>1, <2>2 DEF TypeOK, FailuresAreRefusals, RejectsGoBackToRefusals, Level2Result
  <2>3. CASE UnsubscribeFeed(c)
    BY <2>1, <2>3 DEF TypeOK, RequestPhases, RejectsGoBackToRefusals, UnsubscribeFeed
  <2>4. CASE FeedMissing(c)
    BY <2>1, <2>4 DEF RejectsGoBackToRefusals, FeedMissing
  <2>5. CASE SubscribeTrades(c) \/ SubscribeLevel2(c) \/ TradesResult(c)
    BY <2>1, <2>5 DEF TypeOK, RejectsGoBackToRefusals, SubscribeTrades, SubscribeLevel2,
                      TradesResult
  <2>6. CASE Reply(c)
    BY <2>1, <2>6 DEF TypeOK, RejectsGoBackToRefusals, Reply
  <2> QED
    BY <1>1, <2>2, <2>3, <2>4, <2>5, <2>6 DEF HandlerStep
<1>2. ASSUME NEW c \in Clients, NEW s \in Symbols, NEW id \in RequestIds, ReceiveStep(c, s, id)
      PROVE  RejectsGoBackToRefusals'
  <2>1. PICK action \in Actions, i \in Ids, point \in {"subscribe", "unsubscribe", "reply"} :
          /\ request' = [request EXCEPT ![c] = [action |-> action, symbol |-> s, id |-> i]]
          /\ success' = [success EXCEPT ![c] = (action = "unsubscribe")]
          /\ pc' = [pc EXCEPT ![c] = point]
          /\ point = "subscribe" <=> action = "subscribe"
    BY <1>2, ReceiveEffect
  <2>2. UNCHANGED <<refused, feedStored>>
    BY <1>2, ReceiveEffect DEF feedVars
  <2> QED
    BY <2>1, <2>2 DEF TypeOK, RejectsGoBackToRefusals
<1>3. CASE WorkerAnswer
  BY <1>3, WorkerKeepsFeedTypes
     DEF TypeOK, RejectsGoBackToRefusals, WorkerAnswer, handlerVars
<1>4. CASE Quiet \/ \E c \in Clients : Disconnect(c)
  BY <1>4 DEF RejectsGoBackToRefusals, Quiet, Disconnect, feedVars, handlerVars
<1> QED
  BY <1>1, <1>2, <1>3, <1>4, StepKinds

-----------------------------------------------------------------------------
LEMMA InitInv == Init => HandlerInv
<1> SUFFICES ASSUME Init PROVE HandlerInv
  OBVIOUS
<1>1. NoClient \notin Clients
  BY ServerAssumption DEF ServerAssumption
<1> QED
  BY <1>1 DEF Init, FeedInit, HandlerInv, RequestPhases, FailuresAreRefusals, OneWaiter,
              InFeedCall, Waiting, SubscribedSymbolsHaveIds, TargetHasId, TickerProductsHaveKeys,
              RejectsGoBackToRefusals

LEMMA NextInv == TypeOK /\ HandlerInv /\ [Next]_vars => HandlerInv'
BY PhasesStep, FailuresStep, OneWaiterStep, IdsStep, TargetStep, KeysStep, RejectsStep
   DEF HandlerInv

(* HandlerInv holds in every reachable state, for any number of clients.   *)
THEOREM HandlerInvariant == Spec => []HandlerInv
BY TypesAreCorrect, InitInv, NextInv, PTL DEF Spec

(* Never two handlers between a feed request and its result, and pending_- *)
(* subscriptions_ is exactly the product of the one that waits.            *)
THEOREM OneWaiterAtATime == Spec => []OneWaiter
<1>1. HandlerInv => OneWaiter
  BY DEF HandlerInv
<1> QED
  BY <1>1, HandlerInvariant, PTL

(* No broadcast drops an update for want of an id: a listed symbol has one *)
(* and keeps it while the worker is between its list and its map.          *)
THEOREM ListedSymbolsHaveIds == Spec => [](SubscribedSymbolsHaveIds /\ TargetHasId)
<1>1. HandlerInv => SubscribedSymbolsHaveIds /\ TargetHasId
  BY DEF HandlerInv
<1> QED
  BY <1>1, HandlerInvariant, PTL

(* ticker_products_ never holds a product that could not be unsubscribed.  *)
THEOREM TickerListHasKeys == Spec => []TickerProductsHaveKeys
<1>1. HandlerInv => TickerProductsHaveKeys
  BY DEF HandlerInv
<1> QED
  BY <1>1, HandlerInvariant, PTL

(* Deadlines and answers for other products cause no reject.               *)
THEOREM RejectsHaveCauses == Spec => []RejectsGoBackToRefusals
<1>1. HandlerInv => RejectsGoBackToRefusals
  BY DEF HandlerInv
<1> QED
  BY <1>1, HandlerInvariant, PTL

-----------------------------------------------------------------------------
(* No two spellings of one product: what the GUI client sends, which only  *)
(* knows the product ids of the security definitions.                      *)
NoAliases == \A s, t \in Symbols : ProductOf[s] = ProductOf[t] => s = t

(* subscriptions_ and ticker_products_ agree after any history of          *)
(* subscribes, failures and unsubscribes by any number of clients.         *)
THEOREM FeedTablesAgree == ASSUME NoAliases PROVE Spec => []TablesAgree
<1>1. Init => TablesAgree
  BY DEF Init, FeedInit, TablesAgree
<1>2. TypeOK /\ TablesAgree /\ [Next]_vars => TablesAgree'
  <2> SUFFICES ASSUME TypeOK, TablesAgree, [Next]_vars PROVE TablesAgree'
    OBVIOUS
  <2>1. CASE TablesKept
    BY <2>1 DEF TablesKept, TablesAgree
  <2>2. ASSUME NEW s \in Symbols, TablesGain(s)
        PROVE  TablesAgree'
    BY <2>2 DEF TablesGain, TablesAgree
  <2>3. ASSUME NEW s \in Symbols, TablesLose(s)
        PROVE  TablesAgree'
    <3>1. \A t \in Symbols : t # s => ProductOf[t] # ProductOf[s]
      BY DEF NoAliases
    <3>2. \A t \in Symbols : <<t, "trades">> \in subscriptions'
                             <=> t # s /\ <<t, "trades">> \in subscriptions
      BY <2>3 DEF TablesLose
    <3> QED
      BY <2>3, <3>1, <3>2 DEF TablesLose, TablesAgree
  <2> QED
    BY <2>1, <2>2, <2>3, TablesEffect
<1> QED
  BY <1>1, <1>2, TypesAreCorrect, PTL DEF Spec

-----------------------------------------------------------------------------
(* What is still on the wire is answered in order; what the exchange has   *)
(* answered is place 0.  A request keeps standing while what is sent after *)
(* it does not drop its product.                                           *)
Stands(p) == \E n \in 0 .. Len(wire) : StandsAt(p, n)

NoneDrops(more, p) == \A k \in 1 .. Len(more) : ~Drops(more[k], p)

LEMMA RequestsKeepStanding ==
    ASSUME FeedTypeOK, NEW p, Stands(p), NEW more \in Seq(ChannelRequest),
           wire' = wire \o more, exTicker' = exTicker, NoneDrops(more, p)
    PROVE  Stands(p)'
<1>1. wire \in Seq(ChannelRequest)
  BY DEF FeedTypeOK
<1>2. PICK n \in 0 .. Len(wire) : StandsAt(p, n)
  BY DEF Stands
<1>3. /\ Len(wire') = Len(wire) + Len(more)
      /\ \A k \in 1 .. Len(wire) : wire'[k] = wire[k]
      /\ \A k \in Len(wire) + 1 .. Len(wire') :
            k - Len(wire) \in 1 .. Len(more) /\ wire'[k] = more[k - Len(wire)]
  BY <1>1
<1>4. IF n = 0 THEN p \in exTicker' ELSE wire'[n] = Subscribe("ticker", {p})
  BY <1>1, <1>2, <1>3 DEF StandsAt
<1>5. ASSUME NEW k \in (n + 1) .. Len(wire')
      PROVE  ~Drops(wire'[k], p)
  <2>1. CASE k <= Len(wire)
    BY <1>2, <1>3, <2>1 DEF StandsAt
  <2>2. CASE k > Len(wire)
    <3>1. k \in Len(wire) + 1 .. Len(wire')
      BY <1>1, <2>2
    <3> QED
      BY <1>3, <3>1 DEF NoneDrops
  <2> QED
    BY <1>1, <2>1, <2>2
<1>6. n \in 0 .. Len(wire')
  BY <1>1, <1>3
<1> QED
  BY <1>4, <1>5, <1>6 DEF Stands, StandsAt

(* A request for one listed product is confirmed, and stands from then on  *)
(* as what the exchange streams.                                           *)
LEMMA RequestsOutliveAnswers ==
    ASSUME FeedTypeOK, ~SubscribeReplaces, NEW p \in Listed, Stands(p), WorkerProcessesAnswer
    PROVE  Stands(p)'
<1>1. /\ wire \in Seq(ChannelRequest)
      /\ wire # <<>> /\ wire' = Tail(wire)
  BY DEF FeedTypeOK, WorkerProcessesAnswer, ExchangeConfirms, ExchangeRefuses
<1>2. /\ Len(wire') = Len(wire) - 1
      /\ \A k \in 1 .. Len(wire') : wire'[k] = wire[k + 1]
      /\ Head(wire) = wire[1]
      /\ Len(wire) \in Nat \ {0}
  BY <1>1
<1>3. PICK n \in 0 .. Len(wire) : StandsAt(p, n)
  BY DEF Stands
<1>4. CASE n = 0
  <2>1. p \in exTicker /\ ~Drops(Head(wire), p)
    BY <1>2, <1>3, <1>4 DEF StandsAt
  <2>2. p \in exTicker'
    BY <2>1 DEF WorkerProcessesAnswer, ExchangeConfirms, ExchangeRefuses, ChannelAfter, Drops
  <2>3. \A k \in 1 .. Len(wire') : ~Drops(wire'[k], p)
    BY <1>2, <1>3, <1>4 DEF StandsAt
  <2> QED
    BY <1>2, <2>2, <2>3 DEF Stands, StandsAt
<1>5. CASE n = 1
  <2>1. Head(wire) = Subscribe("ticker", {p})
    BY <1>2, <1>3, <1>5 DEF StandsAt
  <2>2. ExchangeConfirms
    <3>1. Refusable(Head(wire)) = {}
      BY <2>1 DEF Refusable, Subscribe
    <3> QED
      BY <3>1 DEF WorkerProcessesAnswer, ExchangeRefuses
  <2>3. p \in exTicker'
    BY <2>1, <2>2 DEF ExchangeConfirms, ChannelAfter, Subscribe
  <2>4. \A k \in 1 .. Len(wire') : ~Drops(wire'[k], p)
    BY <1>2, <1>3, <1>5 DEF StandsAt
  <2> QED
    BY <1>2, <2>3, <2>4 DEF Stands, StandsAt
<1>6. CASE n > 1
  <2> DEFINE m == n - 1
  <2>1. /\ m \in 0 .. Len(wire') /\ m # 0
        /\ wire'[m] = Subscribe("ticker", {p})
    BY <1>2, <1>3, <1>6 DEF StandsAt
  <2>2. \A k \in (m + 1) .. Len(wire') : ~Drops(wire'[k], p)
    BY <1>2, <1>3, <1>6 DEF StandsAt
  <2> HIDE DEF m
  <2> QED
    BY <2>1, <2>2 DEF Stands, StandsAt
<1> QED
  BY <1>2, <1>3, <1>4, <1>5, <1>6

(* One call of unsubscribe() sends nothing without its key, and an         *)
(* unsubscribe for no product but its own.                                 *)
LEMMA AfterUnsubscribeSends ==
    ASSUME NEW s \in Symbols, NEW kind \in Kinds, NEW feed \in FeedTables
    PROVE  \E more \in Seq(ChannelRequest) :
              /\ AfterUnsubscribe(<<s, kind>>, feed).sent = feed.sent \o more
              /\ \A q \in Products : <<s, kind>> \notin feed.keys \/ q # ProductOf[s]
                                     => NoneDrops(more, q)
<1> DEFINE key   == <<s, kind>>
           p     == ProductOf[s]
           rest  == feed.ticker \ {p}
           first == IF rest # {} THEN Subscribe("ticker", rest)
                                 ELSE Unsubscribe("ticker", {p})
           last  == Unsubscribe("level2", {p})
<1>1. /\ p \in Products
      /\ rest \in SUBSET Products
      /\ key[1] = s
      /\ feed.sent \in Seq(ChannelRequest)
  BY FeedAssumption DEF FeedAssumption, FeedTables
<1>2. CASE key \in feed.keys
  <2>1. AfterUnsubscribe(key, feed).sent = feed.sent \o <<first, last>>
    BY <1>1, <1>2 DEF AfterUnsubscribe
  <2>2. first \in ChannelRequest /\ last \in ChannelRequest
    BY <1>1, RequestTypes DEF Channels
  <2>3. ASSUME NEW q \in Products, q # p
        PROVE  ~Drops(first, q) /\ ~Drops(last, q)
    BY <2>3 DEF Drops, Subscribe, Unsubscribe
  <2> HIDE DEF first, last
  <2>4. <<first, last>> \in Seq(ChannelRequest)
    BY <2>2
  <2>5. ASSUME NEW q \in Products, q # p
        PROVE  NoneDrops(<<first, last>>, q)
    <3>1. \A k \in 1 .. Len(<<first, last>>) : k = 1 \/ k = 2
      OBVIOUS
    <3> QED
      BY <2>3, <2>5, <3>1 DEF NoneDrops
  <2> HIDE DEF p, key
  <2>6. WITNESS <<first, last>> \in Seq(ChannelRequest)
  <2> QED
    BY <1>2, <2>1, <2>5 DEF p, key
<1>3. CASE key \notin feed.keys
  <2>1. AfterUnsubscribe(key, feed).sent = feed.sent \o << >>
    BY <1>1, <1>3 DEF AfterUnsubscribe
  <2>2. WITNESS << >> \in Seq(ChannelRequest)
  <2> QED
    BY <2>1 DEF NoneDrops
<1> QED
  BY <1>2, <1>3

(* Both calls: a product that stays in ticker_products_ is not dropped.    *)
LEMMA UnsubscribedSends ==
    ASSUME FeedTypeOK, NEW s \in Symbols, Unsubscribed(s)
    PROVE  \E more \in Seq(ChannelRequest) :
              /\ wire' = wire \o more
              /\ \A q \in tickerProducts' : NoneDrops(more, q)
<1> DEFINE before == [keys |-> subscriptions, ticker |-> tickerProducts, sent |-> wire]
           middle == AfterUnsubscribe(<<s, "trades">>, before)
           after  == AfterUnsubscribe(<<s, "level2">>, middle)
<1>1. before \in FeedTables
  BY DEF FeedTypeOK, FeedTables
<1>2. /\ middle \in FeedTables
      /\ middle.keys = before.keys \ {<<s, "trades">>}
      /\ \E more \in Seq(ChannelRequest) :
              /\ middle.sent = before.sent \o more
              /\ \A q \in Products : <<s, "trades">> \notin before.keys \/ q # ProductOf[s]
                                     => NoneDrops(more, q)
  <2> HIDE DEF before
  <2> QED
    BY <1>1, AfterUnsubscribeTables, AfterUnsubscribeSends DEF Kinds
<1>3. \E more \in Seq(ChannelRequest) :
          /\ after.sent = middle.sent \o more
          /\ \A q \in Products : <<s, "level2">> \notin middle.keys \/ q # ProductOf[s]
                                 => NoneDrops(more, q)
  <2> HIDE DEF middle
  <2> QED
    BY <1>2, AfterUnsubscribeSends DEF Kinds
<1>4. wire' = after.sent
  BY DEF Unsubscribed
<1>5. before.keys = subscriptions /\ before.sent = wire
  OBVIOUS
<1> HIDE DEF before, middle, after
<1>6. PICK some \in Seq(ChannelRequest) :
          /\ middle.sent = wire \o some
          /\ \A q \in Products : <<s, "trades">> \notin subscriptions \/ q # ProductOf[s]
                                 => NoneDrops(some, q)
  BY <1>2, <1>5
<1>7. PICK more \in Seq(ChannelRequest) :
          /\ wire' = middle.sent \o more
          /\ \A q \in Products : <<s, "level2">> \notin subscriptions \/ q # ProductOf[s]
                                 => NoneDrops(more, q)
  BY <1>2, <1>3, <1>4, <1>5
<1>8. wire' = wire \o (some \o more) /\ some \o more \in Seq(ChannelRequest)
  BY <1>6, <1>7 DEF FeedTypeOK
<1>9. ASSUME NEW q \in tickerProducts'
      PROVE  NoneDrops(some \o more, q)
  <2>1. NoneDrops(some, q) /\ NoneDrops(more, q)
    BY <1>6, <1>7, UnsubscribedTables DEF FeedTypeOK
  <2>2. \A k \in 1 .. Len(some \o more) :
            \/ k \in 1 .. Len(some) /\ (some \o more)[k] = some[k]
            \/ k - Len(some) \in 1 .. Len(more) /\ (some \o more)[k] = more[k - Len(some)]
    OBVIOUS
  <2> QED
    BY <2>1, <2>2 DEF NoneDrops
<1> QED
  BY <1>8, <1>9

(* One request more that is not an unsubscribe drops nothing.              *)
LEMMA RequestsSurviveSubscribes ==
    ASSUME FeedTypeOK, NEW p, Stands(p), NEW ch \in Channels, NEW P \in SUBSET Products,
           wire' = Append(wire, Subscribe(ch, P)), exTicker' = exTicker
    PROVE  Stands(p)'
<1> DEFINE more == <<Subscribe(ch, P)>>
<1>1. Subscribe(ch, P) \in ChannelRequest
  BY RequestTypes
<1>2. ~Drops(Subscribe(ch, P), p)
  BY DEF Drops, Subscribe
<1>3. more \in Seq(ChannelRequest) /\ wire' = wire \o more
  BY <1>1 DEF FeedTypeOK
<1>4. NoneDrops(more, p)
  BY <1>2 DEF NoneDrops
<1> HIDE DEF more
<1> QED
  BY <1>3, <1>4, RequestsKeepStanding

LEMMA RequestsStandStep ==
    ASSUME ~SubscribeReplaces, TypeOK, OneWaiter, RequestsStand, [Next]_vars
    PROVE  RequestsStand'
<1>1. FeedTypeOK /\ \A p \in Listed : p \in tickerProducts \/ WaitsForTrades(p) => Stands(p)
  BY DEF TypeOK, RequestsStand, Stands
<1>2. SUFFICES ASSUME NEW p \in Listed, (p \in tickerProducts \/ WaitsForTrades(p))'
               PROVE  Stands(p)'
  BY DEF RequestsStand, Stands
<1>3. ASSUME UNCHANGED <<wire, exTicker>>, Stands(p)
      PROVE  Stands(p)'
  BY <1>3 DEF Stands, StandsAt
<1>4. ASSUME NEW c \in Clients, HandlerStep(c)
      PROVE  Stands(p)'
  <2> DEFINE q == ProductOf[request[c].symbol]
  <2>1. pc[c] # "idle" => request[c].symbol \in Symbols /\ q \in Products
    BY FeedAssumption DEF TypeOK, Request, FeedAssumption
  <2>2. ASSUME ~SubscribeTrades(c)
        PROVE  WaitsForTrades(p)' => WaitsForTrades(p)
    <3>1. /\ \A d \in Clients : pc'[d] = "trades" => pc[d] = "trades" /\ d # c
          /\ \A d \in Clients : d # c => request'[d] = request[d]
      BY <1>4, <2>2 DEF HandlerStep, FeedMissing, TradesResult, SubscribeLevel2,
                        Level2Result, UnsubscribeFeed, Reply, TypeOK
    <3> QED
      BY <3>1 DEF WaitsForTrades
  <2>3. CASE SubscribeTrades(c)
    <3>1. /\ q \in Products
          /\ wire' = Append(wire, Subscribe("ticker", {q}))
          /\ UNCHANGED <<tickerProducts, exTicker, request>>
          /\ pc' = [pc EXCEPT ![c] = "trades"]
      BY <2>1, <2>3 DEF SubscribeTrades, TradesRequested
    <3>2. CASE p = q
      <4>1. wire \in Seq(ChannelRequest) /\ Subscribe("ticker", {q}) \in ChannelRequest
        BY <1>1, <3>1, RequestTypes DEF FeedTypeOK, Channels
      <4> DEFINE n == Len(wire) + 1
      <4>2. n \in 0 .. Len(wire') /\ n # 0 /\ n = Len(wire')
            /\ wire'[n] = Subscribe("ticker", {p})
        BY <3>1, <3>2, <4>1
      <4> HIDE DEF n
      <4> QED
        BY <4>2 DEF Stands, StandsAt
    <3>3. CASE p # q
      <4>1. p \in tickerProducts \/ WaitsForTrades(p)
        BY <1>2, <3>1, <3>3 DEF WaitsForTrades, TypeOK
      <4> QED
        BY <1>1, <3>1, <4>1, RequestsSurviveSubscribes DEF Channels
    <3> QED
      BY <3>2, <3>3
  <2>4. CASE TradesResult(c)
    <3>1. /\ pc[c] = "trades"
          /\ tickerProducts' \subseteq tickerProducts \cup {q}
          /\ tickerProducts' \in SUBSET Products
          /\ UNCHANGED exTicker
          /\ wire' = wire \/ wire' = Append(wire, Subscribe("ticker", tickerProducts'))
      BY <2>1, <2>4 DEF TradesResult, TradesAnswered, TypeOK, FeedTypeOK
    <3>2. ~SubscribeTrades(c)
      BY <3>1 DEF SubscribeTrades
    <3>3. Stands(p)
      BY <1>1, <1>2, <2>2, <3>1, <3>2 DEF WaitsForTrades
    <3> QED
      BY <1>1, <1>3, <3>1, <3>3, RequestsSurviveSubscribes DEF Channels
  <2>5. CASE UnsubscribeFeed(c)
    <3>1. /\ mutexOwner = NoClient /\ NoClient \notin Clients
          /\ Unsubscribed(request[c].symbol) /\ request[c].symbol \in Symbols
          /\ UNCHANGED exTicker
      BY <2>1, <2>5, ServerAssumption DEF UnsubscribeFeed, Unsubscribed, ServerAssumption
    <3>2. ~WaitsForTrades(p)
      BY <3>1 DEF WaitsForTrades, OneWaiter, InFeedCall
    <3>3. p \in tickerProducts' /\ tickerProducts' \subseteq tickerProducts
      BY <1>1, <1>2, <2>2, <2>5, <3>1, <3>2, UnsubscribedTables DEF SubscribeTrades, UnsubscribeFeed
    <3> QED
      BY <1>1, <3>1, <3>3, UnsubscribedSends, RequestsKeepStanding
  <2>6. CASE SubscribeLevel2(c)
    <3>1. /\ q \in Products
          /\ wire' = Append(wire, Subscribe("level2", {q}))
          /\ UNCHANGED <<tickerProducts, exTicker>>
          /\ ~SubscribeTrades(c)
      BY <2>1, <2>6 DEF SubscribeLevel2, Level2Requested, SubscribeTrades
    <3> QED
      BY <1>1, <1>2, <2>2, <3>1, RequestsSurviveSubscribes DEF Channels
  <2>7. CASE Level2Result(c) \/ FeedMissing(c) \/ Reply(c)
    <3>1. UNCHANGED <<wire, tickerProducts, exTicker>>
      BY <2>7 DEF Level2Result, Level2Answered, FeedMissing, Reply, feedVars
    <3>2. ~SubscribeTrades(c)
      BY <2>7 DEF Level2Result, FeedMissing, Reply, SubscribeTrades
    <3> QED
      BY <1>1, <1>2, <1>3, <2>2, <3>1, <3>2
  <2> QED
    BY <1>4, <2>3, <2>4, <2>5, <2>6, <2>7 DEF HandlerStep
<1>5. ASSUME NEW c \in Clients, NEW s \in Symbols, NEW id \in RequestIds, ReceiveStep(c, s, id)
      PROVE  Stands(p)'
  <2>1. /\ \E point \in {"subscribe", "unsubscribe", "reply"} : pc' = [pc EXCEPT ![c] = point]
        /\ \A d \in Clients : d # c => request'[d] = request[d]
        /\ UNCHANGED <<tickerProducts, wire, exTicker>>
    BY <1>5, ReceiveEffect DEF TypeOK, feedVars
  <2> QED
    BY <1>1, <1>2, <1>3, <2>1 DEF WaitsForTrades, TypeOK
<1>6. CASE WorkerAnswer
  <2>1. p \in tickerProducts \/ WaitsForTrades(p)
    BY <1>1, <1>2, <1>6, WorkerKeepsFeedTypes DEF WorkerAnswer, WaitsForTrades, handlerVars
  <2> QED
    BY <1>1, <1>6, <2>1, RequestsOutliveAnswers DEF WorkerAnswer
<1>7. CASE Quiet \/ \E c \in Clients : Disconnect(c)
  BY <1>1, <1>2, <1>3, <1>7 DEF WaitsForTrades, Quiet, Disconnect, feedVars, handlerVars
<1> QED
  BY <1>4, <1>5, <1>6, <1>7, StepKinds

(* Behind every listed product of ticker_products_ stands a request the    *)
(* exchange cannot refuse, whatever else is subscribed, refused and        *)
(* unsubscribed.                                                           *)
THEOREM FeedRequestsStand == ASSUME ~SubscribeReplaces PROVE Spec => []RequestsStand
<1>1. Init => RequestsStand
  <2> SUFFICES ASSUME Init PROVE RequestsStand
    OBVIOUS
  <2>1. tickerProducts = {} /\ \A p : ~WaitsForTrades(p)
    BY DEF Init, FeedInit, WaitsForTrades
  <2> QED
    BY <2>1 DEF RequestsStand
<1>2. TypeOK /\ OneWaiter /\ RequestsStand /\ [Next]_vars => RequestsStand'
  BY RequestsStandStep
<1> QED
  BY <1>1, <1>2, TypesAreCorrect, OneWaiterAtATime, PTL DEF Spec

(* Once everything is answered and nobody is in a feed call, the exchange  *)
(* streams every listed product of ticker_products_.                       *)
THEOREM QuiescentFeed == ASSUME ~SubscribeReplaces PROVE Spec => []QuiescentFeedIsServed
<1>1. RequestsStand => QuiescentFeedIsServed
  <2> SUFFICES ASSUME RequestsStand, wire = <<>>, NEW p \in tickerProducts \cap Listed
               PROVE  p \in exTicker
    BY DEF QuiescentFeedIsServed
  <2>1. PICK n \in 0 .. Len(wire) : StandsAt(p, n)
    BY DEF RequestsStand
  <2>2. n = 0
    OBVIOUS
  <2> QED
    BY <2>1, <2>2 DEF StandsAt
<1> QED
  BY <1>1, FeedRequestsStand, PTL

-----------------------------------------------------------------------------
(* Clients leave the ids to the server, and it is asked fewer times than a *)
(* 16-bit id has values.                                                   *)
ServerChoosesIds == RequestIds = {0} /\ MaxRequests < IdModulus

(* Ids already given out are below the counter, and so the next is new.    *)
IdsBelowCounter ==
    \A c \in Clients :
        /\ nextSymbolId[c] <= requestCount + 1
        /\ \A s \in Symbols : symbolToId[c][s] # NoId =>
              /\ symbolToId[c][s] < nextSymbolId[c]
              /\ idToSymbol[c][symbolToId[c][s]] = s

LEMMA SmallRemainder ==
    ASSUME NEW m \in Nat, NEW n \in Nat, n < m
    PROVE  n % m = n
OBVIOUS

LEMMA IdsBelowCounterStep ==
    ASSUME ServerChoosesIds, TypeOK, IdsBelowCounter, [Next]_vars
    PROVE  IdsBelowCounter'
<1> USE DEF NoId
<1>1. ASSUME NEW c \in Clients, NEW s \in Symbols, NEW id \in RequestIds, ReceiveSubscribe(c, s, id)
      PROVE  IdsBelowCounter'
  <2> DEFINE i == nextSymbolId[c]
  <2>1. id = 0 /\ IdModulus \in Nat /\ i \in Nat /\ i < IdModulus
    BY <1>1, ServerAssumption
       DEF ServerChoosesIds, ServerAssumption, TypeOK, IdsBelowCounter, ReceiveSubscribe, Receive
  <2>2. AssignedId(c, id) = i /\ i \in Ids
    BY <2>1, SmallRemainder DEF AssignedId, Ids
  <2>3. /\ nextSymbolId' = [nextSymbolId EXCEPT ![c] = @ + 1]
        /\ symbolToId' = [symbolToId EXCEPT ![c][s] = i]
        /\ idToSymbol' = [idToSymbol EXCEPT ![c][i] = s]
        /\ requestCount' = requestCount + 1
    BY <1>1, <2>1, <2>2 DEF ReceiveSubscribe, Receive
  <2>4. /\ nextSymbolId'[c] = i + 1
        /\ \A t \in Symbols : symbolToId'[c][t] = IF t = s THEN i ELSE symbolToId[c][t]
        /\ \A j \in Ids : idToSymbol'[c][j] = IF j = i THEN s ELSE idToSymbol[c][j]
        /\ \A d \in Clients : d # c => /\ nextSymbolId'[d] = nextSymbolId[d]
                                       /\ symbolToId'[d] = symbolToId[d]
                                       /\ idToSymbol'[d] = idToSymbol[d]
    BY <2>2, <2>3 DEF TypeOK
  <2>5. ASSUME NEW d \in Clients, NEW t \in Symbols, symbolToId'[d][t] # NoId
        PROVE  symbolToId'[d][t] < nextSymbolId'[d] /\ idToSymbol'[d][symbolToId'[d][t]] = t
    <3>1. CASE d # c
      BY <2>4, <2>5, <3>1 DEF IdsBelowCounter
    <3>2. CASE d = c /\ t = s
      BY <2>1, <2>2, <2>4, <3>2
    <3>3. CASE d = c /\ t # s
      <4>1. /\ symbolToId[c][t] \in Ids /\ symbolToId'[c][t] = symbolToId[c][t]
            /\ symbolToId[c][t] < i
            /\ idToSymbol[c][symbolToId[c][t]] = t
        BY <2>4, <2>5, <3>3 DEF IdsBelowCounter, TypeOK
      <4>2. symbolToId[c][t] \in Int
        BY <4>1, ServerAssumption DEF ServerAssumption, Ids
      <4> QED
        BY <2>1, <2>4, <3>3, <4>1, <4>2
    <3> QED
      BY <3>1, <3>2, <3>3
  <2>6. \A d \in Clients : nextSymbolId'[d] <= requestCount' + 1
    <3>1. \A d \in Clients : nextSymbolId[d] \in Nat /\ nextSymbolId[d] <= requestCount + 1
      BY DEF TypeOK, IdsBelowCounter
    <3> QED
      BY <2>1, <2>3, <2>4, <3>1 DEF TypeOK
  <2> QED
    BY <2>5, <2>6 DEF IdsBelowCounter
<1>2. ASSUME NEW c \in Clients, NEW s \in Symbols, NEW id \in RequestIds,
             ReceiveUnsubscribe(c, s, id) \/ ReceiveSnapshot(c, s, id)
      PROVE  IdsBelowCounter'
  <2>1. requestCount' = requestCount + 1 /\ UNCHANGED <<nextSymbolId, symbolToId, idToSymbol>>
    BY <1>2 DEF ReceiveUnsubscribe, ReceiveSnapshot, Receive, sessionVars
  <2> QED
    BY <2>1 DEF IdsBelowCounter, TypeOK
<1>3. ASSUME NEW c \in Clients, Disconnect(c)
      PROVE  IdsBelowCounter'
  BY <1>3 DEF TypeOK, IdsBelowCounter, Disconnect, NoSymbolIds
<1>4. ASSUME NEW c \in Clients, HandlerStep(c)
      PROVE  UNCHANGED <<nextSymbolId, symbolToId, idToSymbol, requestCount>>
  BY <1>4 DEF HandlerStep, FeedMissing, SubscribeTrades, TradesResult, SubscribeLevel2,
              Level2Result, UnsubscribeFeed, Reply, sessionVars
<1>5. ASSUME UNCHANGED <<nextSymbolId, symbolToId, idToSymbol>>,
             requestCount' \in {requestCount, requestCount + 1}
      PROVE  IdsBelowCounter'
  BY <1>5 DEF IdsBelowCounter, TypeOK
<1>6. WorkerAnswer \/ Quiet => /\ UNCHANGED <<nextSymbolId, symbolToId, idToSymbol>>
                              /\ requestCount' \in {requestCount, requestCount + 1}
  BY DEF WorkerAnswer, Quiet, sessionVars
<1> QED
  BY <1>1, <1>2, <1>3, <1>4, <1>5, <1>6, StepKinds DEF ReceiveStep

(* No symbol of a session shares its id with another one, as long as the   *)
(* 16-bit counter has not come round.                                      *)
THEOREM AssignedIdsUnique == ASSUME ServerChoosesIds PROVE Spec => []AssignedIdsAreUnique
<1>1. Init => IdsBelowCounter
  BY DEF Init, IdsBelowCounter, NoSymbolIds
<1>2. TypeOK /\ IdsBelowCounter /\ [Next]_vars => IdsBelowCounter'
  BY IdsBelowCounterStep
<1>3. IdsBelowCounter => AssignedIdsAreUnique
  BY DEF IdsBelowCounter, AssignedIdsAreUnique
<1> QED
  BY <1>1, <1>2, <1>3, TypesAreCorrect, PTL DEF Spec

-----------------------------------------------------------------------------
OneConnection == \E c \in Clients : Clients = {c}

(* A list and the feed cannot part while only one handler changes both.    *)
ListsInv ==
    \A c \in Clients :
        /\ \A s \in subscribed[c] : <<s, "trades">> \in subscriptions
        /\ pc[c] \in {"level2", "level2Wait"} /\ success[c]
              => <<request[c].symbol, "trades">> \in subscriptions
        /\ pc[c] = "unsubscribe" => request[c].symbol \notin subscribed[c]

LEMMA ListsStep ==
    ASSUME OneConnection, TypeOK, ListsInv, [Next]_vars
    PROVE  ListsInv'
<1>1. ASSUME NEW c \in Clients, HandlerStep(c)
      PROVE  ListsInv'
  <2> DEFINE s == request[c].symbol
  <2>1. Clients = {c}
    BY DEF OneConnection
  <2>2. CASE TradesResult(c)
    <3>1. /\ success' = [success EXCEPT ![c] = results[ProductOf[s]] # "failure"]
          /\ subscriptions' = IF results[ProductOf[s]] # "failure"
                              THEN subscriptions \cup {<<s, "trades">>} ELSE subscriptions
          /\ pc' = [pc EXCEPT ![c] = "level2"]
          /\ UNCHANGED <<subscribed, request>>
      BY <2>2 DEF TradesResult, TradesAnswered, WaitSucceeds, sessionVars
    <3> QED
      BY <2>1, <3>1 DEF TypeOK, ListsInv
  <2>3. CASE Level2Result(c)
    <3>1. /\ pc[c] = "level2Wait"
          /\ pc' = [pc EXCEPT ![c] = "reply"]
          /\ subscribed'[c] = IF success[c] THEN subscribed[c] \cup {s} ELSE subscribed[c]
          /\ subscriptions \subseteq subscriptions'
          /\ UNCHANGED <<request, success>>
      BY <2>3 DEF TypeOK, Level2Result, Level2Answered
    <3> QED
      BY <2>1, <3>1 DEF TypeOK, ListsInv
  <2>4. CASE UnsubscribeFeed(c)
    <3>1. /\ pc[c] = "unsubscribe" /\ s \in Symbols
          /\ pc' = [pc EXCEPT ![c] = "reply"]
          /\ UNCHANGED <<subscribed, request, success>>
      BY <2>4 DEF UnsubscribeFeed, TypeOK, Request, sessionVars
    <3>2. subscriptions' = subscriptions \ {<<s, "trades">>, <<s, "level2">>}
      BY <2>4, <3>1, UnsubscribedTables DEF UnsubscribeFeed, TypeOK
    <3> QED
      BY <2>1, <3>1, <3>2 DEF TypeOK, ListsInv
  <2>5. CASE SubscribeTrades(c) \/ SubscribeLevel2(c)
    BY <2>1, <2>5 DEF TypeOK, ListsInv, SubscribeTrades, SubscribeLevel2,
                      TradesRequested, Level2Requested, sessionVars
  <2>6. CASE FeedMissing(c) \/ Reply(c)
    BY <2>1, <2>6 DEF TypeOK, ListsInv, FeedMissing, Reply, feedVars, sessionVars
  <2> QED
    BY <1>1, <2>2, <2>3, <2>4, <2>5, <2>6 DEF HandlerStep
<1>2. ASSUME NEW c \in Clients, NEW s \in Symbols, NEW id \in RequestIds, ReceiveStep(c, s, id)
      PROVE  ListsInv'
  <2>1. PICK action \in Actions, i \in Ids, point \in {"subscribe", "unsubscribe", "reply"} :
          /\ request' = [request EXCEPT ![c] = [action |-> action, symbol |-> s, id |-> i]]
          /\ pc' = [pc EXCEPT ![c] = point]
          /\ point = "unsubscribe" <=> action = "unsubscribe"
          /\ subscribed' = IF action = "unsubscribe"
                           THEN [subscribed EXCEPT ![c] = @ \ {s}] ELSE subscribed
    BY <1>2, ReceiveEffect
  <2>2. UNCHANGED subscriptions
    BY <1>2, ReceiveEffect DEF feedVars
  <2>3. Clients = {c}
    BY DEF OneConnection
  <2> QED
    BY <2>1, <2>2, <2>3 DEF TypeOK, ListsInv
<1>3. ASSUME NEW c \in Clients, Disconnect(c)
      PROVE  ListsInv'
  BY <1>3 DEF TypeOK, ListsInv, Disconnect, feedVars, handlerVars
<1>4. CASE WorkerAnswer
  BY <1>4, WorkerKeepsFeedTypes DEF TypeOK, ListsInv, WorkerAnswer, sessionVars, handlerVars
<1>5. CASE Quiet
  BY <1>5 DEF ListsInv, Quiet, feedVars, sessionVars, handlerVars
<1> QED
  BY <1>1, <1>2, <1>3, <1>4, <1>5, StepKinds

(* One connection, with any number of disconnects and reconnects: what the *)
(* client was told it is subscribed to, the feed is subscribed to.         *)
THEOREM OneClientListsReachFeed == ASSUME OneConnection PROVE Spec => []SubscribedSymbolsStayInFeed
<1>1. Init => ListsInv
  BY DEF Init, ListsInv
<1>2. TypeOK /\ ListsInv /\ [Next]_vars => ListsInv'
  BY ListsStep
<1>3. ListsInv => SubscribedSymbolsStayInFeed
  BY DEF ListsInv, SubscribedSymbolsStayInFeed
<1> QED
  BY <1>1, <1>2, <1>3, TypesAreCorrect, PTL DEF Spec

-----------------------------------------------------------------------------
(* Refinement: the initial states agree, and every step is a step of the   *)
(* service or leaves what it shows unchanged.                              *)
LEMMA InitRefines == Init => Service!Init
BY DEF Init, Service!Init, Service!Nothing, Service!Silence, Service!NoneComing, NoSymbolIds,
       NoRequest, NoMessage, Verdict, OnItsWay

ServiceKept == UNCHANGED <<subscribed, symbolToId, request, Verdict, OnItsWay, lastSent>>

(* What is on its way is a matter of the worker alone.                     *)
LEMMA OnItsWayKept == UNCHANGED workerVars => UNCHANGED OnItsWay
BY DEF workerVars, OnItsWay

(* Steps between receiving a request and deciding it show nothing.         *)
LEMMA HandlerRefines ==
    ASSUME TypeOK, HandlerInv, NEW c \in Clients, HandlerStep(c)
    PROVE  Service!Decide(c) \/ Service!Answer(c) \/ ServiceKept
<1> DEFINE s == request[c].symbol
<1>1. pc[c] # "idle" /\ request[c] \in Request /\ request[c] # Service!Nothing
  <2>1. pc[c] # "idle"
    BY DEF HandlerStep, FeedMissing, SubscribeTrades, TradesResult, SubscribeLevel2,
           Level2Result, UnsubscribeFeed, Reply
  <2>2. request[c] \in Request
    BY <2>1 DEF TypeOK
  <2>3. request[c].symbol \in Symbols /\ NoSymbol \notin Symbols
    BY <2>2, ServerAssumption DEF Request, ServerAssumption
  <2> QED
    BY <2>1, <2>2, <2>3 DEF Service!Nothing
<1>2. UNCHANGED OnItsWay
  <2>1. UNCHANGED workerVars
    BY DEF HandlerStep, FeedMissing, SubscribeTrades, TradesResult, SubscribeLevel2,
           Level2Result, UnsubscribeFeed, Reply
  <2> QED
    BY <2>1, OnItsWayKept
<1>3. CASE SubscribeTrades(c) \/ TradesResult(c) \/ SubscribeLevel2(c)
  <2>1. /\ pc[c] # "reply" /\ \E point \in Points \ {"reply"} : pc' = [pc EXCEPT ![c] = point]
        /\ \A d \in Clients : d # c => success'[d] = success[d]
        /\ UNCHANGED <<subscribed, symbolToId, request, lastSent>>
    BY <1>3 DEF SubscribeTrades, TradesResult, SubscribeLevel2, sessionVars, TypeOK, Points
  <2>2. UNCHANGED Verdict
    BY <2>1 DEF Verdict, TypeOK
  <2> QED
    BY <1>2, <2>1, <2>2 DEF ServiceKept
<1>4. CASE Level2Result(c) \/ FeedMissing(c) \/ UnsubscribeFeed(c)
  <2>1. /\ pc[c] # "reply" /\ pc' = [pc EXCEPT ![c] = "reply"]
        /\ UNCHANGED <<symbolToId, request, success, lastSent>>
    BY <1>4 DEF Level2Result, FeedMissing, UnsubscribeFeed, sessionVars
  <2>2. /\ Verdict[c] = "none"
        /\ Verdict' = [Verdict EXCEPT ![c] = IF success[c] THEN "granted" ELSE "refused"]
    BY <2>1 DEF Verdict, TypeOK
  <2>3. CASE success[c]
    <3>1. subscribed' = [subscribed EXCEPT ![c] = IF request[c].action = "subscribe"
                                                  THEN @ \cup {s} ELSE @]
      <4>1. CASE Level2Result(c)
        <5>1. request[c].action = "subscribe"
          BY <4>1 DEF Level2Result, HandlerInv, RequestPhases
        <5> QED
          BY <2>3, <4>1, <5>1 DEF Level2Result
      <4>2. CASE UnsubscribeFeed(c)
        <5>1. request[c].action # "subscribe" /\ UNCHANGED subscribed
          BY <4>2 DEF UnsubscribeFeed, HandlerInv, RequestPhases, sessionVars
        <5> QED
          BY <5>1 DEF TypeOK
      <4>3. CASE FeedMissing(c)
        <5>1. request[c].action = "unsubscribe" /\ UNCHANGED subscribed
          BY <2>3, <4>3 DEF FeedMissing, HandlerInv, RequestPhases, sessionVars
        <5> QED
          BY <5>1 DEF TypeOK
      <4> QED
        BY <1>4, <4>1, <4>2, <4>3
    <3> QED
      BY <1>1, <1>2, <2>1, <2>2, <2>3, <3>1 DEF Service!Decide, Service!Grant
  <2>4. CASE ~success[c]
    <3>1. request[c].action = "subscribe" /\ UNCHANGED subscribed
      BY <1>4, <2>4 DEF Level2Result, FeedMissing, UnsubscribeFeed, HandlerInv, RequestPhases,
                        sessionVars
    <3> QED
      BY <1>1, <1>2, <2>1, <2>2, <2>4, <3>1 DEF Service!Decide, Service!Refuse
  <2> QED
    BY <2>3, <2>4
<1>5. CASE Reply(c)
  <2>1. /\ Verdict[c] = IF success[c] THEN "granted" ELSE "refused"
        /\ Verdict' = [Verdict EXCEPT ![c] = "none"]
    BY <1>5 DEF Reply, Verdict, TypeOK
  <2>2. /\ lastSent' = [lastSent EXCEPT ![c] =
               [type |-> IF success[c] THEN "response" ELSE "reject",
                id |-> request[c].id, symbols |-> IF success[c] THEN {s} ELSE {}]]
        /\ request' = [request EXCEPT ![c] = NoRequest]
        /\ UNCHANGED <<subscribed, symbolToId>>
    BY <1>5 DEF Reply, sessionVars
  <2> QED
    BY <1>1, <1>2, <2>1, <2>2 DEF Service!Answer, Service!Nothing, NoRequest
<1> QED
  BY <1>3, <1>4, <1>5 DEF HandlerStep

LEMMA ReceiveRefines ==
    ASSUME TypeOK, HandlerInv, NEW c \in Clients, NEW s \in Symbols, NEW id \in RequestIds,
           ReceiveStep(c, s, id)
    PROVE  \E action \in Actions, i \in Ids : Service!Ask(c, action, s, i)
<1>1. /\ pc[c] = "idle" /\ request[c] = Service!Nothing
      /\ UNCHANGED <<OnItsWay, lastSent>>
  BY ReceiveEffect, OnItsWayKept DEF HandlerInv, RequestPhases, Service!Nothing, NoRequest
<1>2. PICK action \in Actions, i \in Ids, point \in {"subscribe", "unsubscribe", "reply"} :
        /\ request' = [request EXCEPT ![c] = [action |-> action, symbol |-> s, id |-> i]]
        /\ success' = [success EXCEPT ![c] = (action = "unsubscribe")]
        /\ pc' = [pc EXCEPT ![c] = point]
        /\ point = "subscribe" <=> action = "subscribe"
        /\ point = "unsubscribe" <=> action = "unsubscribe"
        /\ symbolToId' = IF action = "subscribe"
                         THEN [symbolToId EXCEPT ![c][s] = i] ELSE symbolToId
        /\ subscribed' = IF action = "unsubscribe"
                         THEN [subscribed EXCEPT ![c] = @ \ {s}] ELSE subscribed
  BY ReceiveEffect
<1>3. point = "reply" <=> action = "snapshot"
  BY <1>2 DEF Actions
<1>4. Verdict' = [Verdict EXCEPT ![c] = IF action = "snapshot" THEN "refused" ELSE "none"]
  BY <1>2, <1>3 DEF Verdict, TypeOK
<1>5. subscribed' = [subscribed EXCEPT ![c] = IF action = "unsubscribe" THEN @ \ {s} ELSE @]
  BY <1>2 DEF TypeOK
<1> QED
  BY <1>1, <1>2, <1>4, <1>5 DEF Service!Ask

(* The worker's steps for one client are the service's; its test of        *)
(* symbol_to_id never fails.                                               *)
LEMMA BroadcastRefines ==
    ASSUME TypeOK, HandlerInv, BroadcastStep
    PROVE  Service!Next \/ ServiceKept
<1>1. /\ NoClient \notin Clients
      /\ NoUpdate \notin Update
      /\ NoId \notin Ids
      /\ Products \subseteq Symbols
  BY ServerAssumption, FeedAssumption
     DEF ServerAssumption, FeedAssumption, NoUpdate, Update, NoId, Ids
<1>2. WorkerTypeOK
  BY DEF TypeOK
<1>3. target # NoClient => /\ target \in Clients
                           /\ update \in Update
                           /\ parts \in 1 .. 3
  BY <1>2 DEF WorkerTypeOK
<1>4. UNCHANGED <<subscribed, symbolToId, request, Verdict>>
  BY BroadcastQuiet DEF BroadcastKeeps, sessionVars, handlerVars, Verdict
<1>5. ASSUME NEW p \in Products, OnTradeData(p) \/ OnLevel2Data(p)
      PROVE  ServiceKept
  <2>1. target = NoClient /\ UNCHANGED <<target, targetId, parts, lastSent>>
    BY <1>2, <1>5 DEF OnTradeData, OnLevel2Data, BroadcastBegins, WorkerTypeOK
  <2> QED
    BY <1>4, <2>1 DEF ServiceKept, OnItsWay
<1>6. ASSUME NEW c \in Clients, BroadcastPasses(c)
      PROVE  ServiceKept
  BY <1>4, <1>6 DEF BroadcastPasses, ServiceKept, OnItsWay
<1>7. ASSUME NEW c \in Clients, BroadcastChooses(c)
      PROVE  Service!Next
  <2>1. update \in Update /\ update # NoUpdate
    BY <1>1, <1>2, <1>7 DEF BroadcastChooses, WorkerTypeOK
  <2>2. /\ update.type \in {"trade", "level2"}
        /\ update.product \in Products
        /\ update.messages \in IF update.type = "trade" THEN {1} ELSE 1 .. 3
    BY <2>1, <1>7 DEF Update
  <2> QED
    <3>1. /\ OnItsWay = Service!NoneComing
          /\ OnItsWay' = [client |-> c, type |-> update.type, symbol |-> update.product,
                          id |-> NoId, left |-> update.messages]
          /\ UNCHANGED lastSent
      BY <1>1, <1>2, <1>7 DEF BroadcastChooses, WorkerTypeOK, OnItsWay, Service!NoneComing
    <3>2. update.product \in subscribed[c]
      BY <1>7 DEF BroadcastChooses
    <3> QED
      BY <1>4, <2>2, <3>1, <3>2 DEF Service!Next, Service!Update
<1>8. CASE BroadcastNumbers
  <2>1. OnItsWay.client = target /\ OnItsWay.symbol = update.product /\ OnItsWay.id = NoId
    BY <1>8 DEF BroadcastNumbers, OnItsWay
  <2>2. targetId' = symbolToId[target][update.product] /\ targetId' # NoId
    BY <1>8 DEF BroadcastNumbers, HandlerInv, TargetHasId
  <2>3. UNCHANGED <<update, target, parts, lastSent>>
    BY <1>8, <2>2 DEF BroadcastNumbers
  <2>4. OnItsWay' = [OnItsWay EXCEPT !.id = targetId']
    BY <2>3 DEF OnItsWay
  <2>5. OnItsWay # Service!NoneComing
    BY <1>8, <2>1 DEF BroadcastNumbers, Service!NoneComing
  <2> QED
    BY <1>4, <2>1, <2>2, <2>3, <2>4, <2>5 DEF Service!Next, Service!Number, OnItsWay
<1>9. CASE BroadcastSends
  <2>1. /\ target # NoClient /\ targetId # NoId
        /\ lastSent' = [lastSent EXCEPT ![target] =
               [type |-> update.type, id |-> targetId, symbols |-> {update.product}]]
        /\ parts' = parts - 1 /\ targetId' = NoId /\ update' = update
        /\ target' = IF parts = 1 THEN NoClient ELSE target
    BY <1>9 DEF BroadcastSends
  <2>2. OnItsWay = [client |-> target, type |-> update.type, symbol |-> update.product,
                    id |-> targetId, left |-> parts]
    BY <2>1 DEF OnItsWay
  <2>3. OnItsWay' = IF parts = 1 THEN Service!NoneComing
                    ELSE [OnItsWay EXCEPT !.id = NoId, !.left = @ - 1]
    <3>1. CASE parts = 1
      BY <2>1, <3>1 DEF OnItsWay, Service!NoneComing
    <3>2. CASE parts # 1
      BY <2>1, <2>2, <3>2 DEF OnItsWay
    <3> QED
      BY <3>1, <3>2
  <2> QED
    BY <1>4, <2>1, <2>2, <2>3 DEF Service!Next, Service!Send
<1>10. CASE BroadcastEnds
  BY <1>2, <1>4, <1>10 DEF BroadcastEnds, WorkerTypeOK, ServiceKept, OnItsWay
<1> QED
  BY <1>5, <1>6, <1>7, <1>8, <1>9, <1>10 DEF BroadcastStep

LEMMA NextRefines ==
    TypeOK /\ HandlerInv /\ [Next]_vars => [Service!Next]_(Service!vars)
<1> SUFFICES ASSUME TypeOK, HandlerInv, [Next]_vars
             PROVE  Service!Next \/ ServiceKept
  BY DEF ServiceKept, Service!vars
<1>1. ASSUME NEW c \in Clients, HandlerStep(c)
      PROVE  Service!Next \/ ServiceKept
  BY <1>1, HandlerRefines DEF Service!Next
<1>2. ASSUME NEW c \in Clients, NEW s \in Symbols, NEW id \in RequestIds, ReceiveStep(c, s, id)
      PROVE  Service!Next
  BY <1>2, ReceiveRefines DEF Service!Next, Actions
<1>3. ASSUME NEW c \in Clients, SecurityDefinitions(c)
      PROVE  Service!Next
  <2>1. request[c] = Service!Nothing
    BY <1>3 DEF SecurityDefinitions, HandlerInv, RequestPhases, Service!Nothing, NoRequest
  <2>2. UNCHANGED <<subscribed, symbolToId, request, Verdict, OnItsWay>>
    BY <1>3, OnItsWayKept DEF SecurityDefinitions, sessionVars, handlerVars, Verdict
  <2>3. \E offered \in SUBSET Products :
          lastSent' = [lastSent EXCEPT ![c] =
              [type |-> "definition", id |-> NoId, symbols |-> offered]]
    BY <1>3 DEF SecurityDefinitions
  <2> QED
    BY <2>1, <2>2, <2>3 DEF Service!Next, Service!Offer
<1>4. ASSUME NEW c \in Clients, Disconnect(c)
      PROVE  Service!Next
  <2>1. request[c] = Service!Nothing
    BY <1>4 DEF Disconnect, HandlerInv, RequestPhases, Service!Nothing, NoRequest
  <2>2. UNCHANGED <<request, Verdict, OnItsWay>>
    BY <1>4, OnItsWayKept DEF Disconnect, handlerVars, Verdict
  <2>3. OnItsWay.client # c
    BY <1>4, ServerAssumption
       DEF Disconnect, TypeOK, WorkerTypeOK, OnItsWay, ServerAssumption
  <2> QED
    BY <1>4, <2>1, <2>2, <2>3
       DEF Disconnect, Service!Next, Service!Leave, Service!Silence, NoSymbolIds, NoMessage
<1>5. CASE WorkerAnswer
  BY <1>5, OnItsWayKept DEF WorkerAnswer, ServiceKept, Verdict, sessionVars, handlerVars
<1>6. CASE BroadcastStep
  BY <1>6, BroadcastRefines
<1>7. CASE UNCHANGED vars
  BY <1>7, OnItsWayKept DEF vars, ServiceKept, Verdict, sessionVars, handlerVars
<1> QED
  BY <1>1, <1>2, <1>3, <1>4, <1>5, <1>6, <1>7 DEF Next, ClientStep, ReceiveStep

(* Behind the threads, the mutex, the shared feed and the exchange, each   *)
(* client sees the service.                                                *)
THEOREM ServerImplementsService == Spec => ImplementsService
BY InitRefines, NextRefines, TypesAreCorrect, HandlerInvariant, PTL
   DEF Spec, ImplementsService, Service!Spec
=============================================================================
