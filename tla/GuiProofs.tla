----------------------------- MODULE GuiProofs -----------------------------
(***************************************************************************)
(* For any symbols, any number of connections, requests and updates: the   *)
(* types, and that updates are logged under the symbol they are for as     *)
(* long as one side alone numbers the symbols.                             *)
(***************************************************************************)
EXTENDS GuiProperties, SequenceTheorems, TLAPS

-----------------------------------------------------------------------------
(* Lemmas about tables, messages and numbers.                              *)

LEMMA PutMaps ==
    ASSUME NEW K, NEW V, NEW map, NEW k \in K, NEW v \in V, Maps(map, K, V)
    PROVE  Maps(Put(map, k, v), K, V)
  BY DEF Maps, Put

LEMMA EmptyMaps == \A K, V : Maps(Empty, K, V)
  BY DEF Maps, Empty

LEMMA Modulus == IdModulus \in Nat \ {0, 1}
  BY GuiAssumption DEF GuiAssumption

LEMMA ModIsId == \A n \in Nat : n % IdModulus \in Ids
<1> SUFFICES ASSUME NEW n \in Nat PROVE n % IdModulus \in Ids
  OBVIOUS
<1>1. n % IdModulus \in 0 .. IdModulus - 1
  BY Modulus
<1> QED
  BY <1>1 DEF Ids

LEMMA ZeroIsId == 0 \in Ids /\ 1 \in Ids
  BY Modulus DEF Ids

LEMMA MessageType ==
    /\ \A type \in {"load", "reject"}, i \in Ids : Message(type, NoSymbol, i) \in Messages
    /\ \A type \in {"subscribe", "unsubscribe", "definition", "response", "update"},
          s \in Symbols, i \in Ids : Message(type, s, i) \in Messages
  BY DEF Message, Messages

LEMMA HeadTail ==
    ASSUME NEW q \in Seq(Messages), q # <<>>
    PROVE  /\ Head(q) \in Messages
           /\ Tail(q) \in Seq(Messages)
           /\ Len(q) \in Nat \ {0}
           /\ 1 \in DOMAIN q
           /\ Head(q) = q[1]
           /\ \A n \in DOMAIN Tail(q) : n + 1 \in DOMAIN q /\ Tail(q)[n] = q[n + 1]
  BY SMT

LEMMA AppendedElements ==
    ASSUME NEW q \in Seq(Messages), NEW m \in Messages
    PROVE  /\ Append(q, m) \in Seq(Messages)
           /\ \A n \in DOMAIN Append(q, m) :
                 (n \in DOMAIN q /\ Append(q, m)[n] = q[n]) \/ Append(q, m)[n] = m
  BY SMT

LEMMA FreshSession ==
    ASSUME NewSession
    PROVE  /\ serving' \in Serving
           /\ subscribed_symbols' \subseteq Symbols
           /\ Maps(symbol_to_id', Symbols, Ids)
           /\ session_next_id' \in Nat
  BY EmptyMaps, ZeroIsId DEF NewSession, Serving, Idle

-----------------------------------------------------------------------------
(* Types.                                                                  *)

LEMMA InitTypes == Init => TypeOK
<1> SUFFICES ASSUME Init PROVE TypeOK
  OBVIOUS
<1>1. /\ Maps(m_symbolToIdMap, Symbols, Ids)
      /\ Maps(m_idToSymbolMap, Ids, Symbols)
      /\ Maps(symbol_to_id, Symbols, Ids)
  BY EmptyMaps DEF Init
<1>2. /\ next_symbol_id \in Ids
      /\ serving \in Serving
      /\ m_editMarketData \in Panels
      /\ m_comboSymbols \subseteq Symbols
  BY ZeroIsId, GuiAssumption DEF Init, Idle, Serving, Panel, Panels, GuiAssumption
<1>3. toServer \in Seq(Messages) /\ toClient \in Seq(Messages)
  BY DEF Init
<1> QED
  BY <1>1, <1>2, <1>3 DEF Init, TypeOK

(* A request that is sent.                                                 *)
LEMMA SendTypes ==
    ASSUME TypeOK, link # "none", NEW message \in Messages, SendDTCMessage(message)
    PROVE  toServer' \in Seq(Messages)
<1>1. toServer \in Seq(Messages)
  BY DEF TypeOK
<1>2. toServer' = toServer \/ toServer' = Append(toServer, message)
  BY DEF SendDTCMessage
<1> QED
  BY <1>1, <1>2

LEMMA UserTypes == TypeOK /\ UserStep => TypeOK'
<1> SUFFICES ASSUME TypeOK, UserStep PROVE TypeOK'
  OBVIOUS
<1> USE DEF TypeOK
<1>1. CASE ConnectToServer
  BY <1>1 DEF ConnectToServer, tableVars, windowVars, sessionVars, countVars
<1>2. CASE UserDisconnects
  BY <1>2, FreshSession
     DEF UserDisconnects, DisconnectFromServer, tableVars, windowVars, countVars
<1>3. CASE LoadAvailableSymbols
  <2>1. toServer' \in Seq(Messages)
    BY <1>3, MessageType, ZeroIsId, SendTypes DEF LoadAvailableSymbols
  <2> QED
    BY <1>3, <2>1 DEF LoadAvailableSymbols, Click, tableVars, sessionVars
<1>4. CASE ToggleHideDelisted
  BY <1>4 DEF ToggleHideDelisted, Maps, tableVars, sessionVars, countVars
<1>5. ASSUME NEW s \in Symbols, SubscribeToSymbol(s)
      PROVE  TypeOK'
  <2> DEFINE i == IF s \in DOMAIN m_symbolToIdMap THEN m_symbolToIdMap[s] ELSE 0
  <2>1. i \in Ids
    BY ZeroIsId DEF Maps
  <2>2. toServer' \in Seq(Messages)
    BY <1>5, <2>1, MessageType, SendTypes DEF SubscribeToSymbol
  <2>3. Panel("subscribing", s) \in Panels
    BY DEF Panel, Panels
  <2>4. /\ m_editMarketData' \in Panels
        /\ unnumbered' \in BOOLEAN
        /\ clicks' \in Nat
        /\ link # "none"
    BY <1>5, <2>3 DEF SubscribeToSymbol, Click
  <2> QED
    BY <1>5, <2>2, <2>4 DEF SubscribeToSymbol, tableVars, sessionVars
<1>6. ASSUME NEW s \in Symbols, UnsubscribeFromSymbol(s)
      PROVE  TypeOK'
  <2>1. toServer' \in Seq(Messages)
    BY <1>6, MessageType, ZeroIsId, SendTypes DEF UnsubscribeFromSymbol
  <2>2. Panel("none", NoSymbol) \in Panels
    BY DEF Panel, Panels
  <2>3. m_editMarketData' \in Panels /\ is_subscribed' \in BOOLEAN
    BY <1>6, <2>2 DEF UnsubscribeFromSymbol
  <2>4. clicks' \in Nat /\ link # "none"
    BY <1>6 DEF UnsubscribeFromSymbol, Click
  <2> QED
    BY <1>6, <2>1, <2>3, <2>4 DEF UnsubscribeFromSymbol, tableVars, sessionVars
<1> QED
  BY <1>1, <1>2, <1>3, <1>4, <1>5, <1>6 DEF UserStep

(* What handling a message of any type leaves in order.                    *)
LEMMA HandleTypes ==
    ASSUME TypeOK, NEW type, Handle(type)
    PROVE  /\ Received \in Messages
           /\ toClient' \in Seq(Messages)
           /\ wrapped' \in BOOLEAN
           /\ link # "none"
           /\ UNCHANGED <<link, toServer, serving, subscribed_symbols, symbol_to_id,
                          session_next_id, unnumbered, clicks, updates>>
  BY HeadTail DEF TypeOK, Handle, Received, sessionVars

LEMMA ReceivingTypes == TypeOK /\ ProcessIncomingData => TypeOK'
<1> SUFFICES ASSUME TypeOK, ProcessIncomingData PROVE TypeOK'
  OBVIOUS
<1> USE DEF TypeOK
<1>1. CASE HandleDefinition
  <2>1. Handle("definition")
    BY <1>1 DEF HandleDefinition
  <2>2. Received.symbol \in Symbols
    BY <2>1, HandleTypes DEF Handle, Messages
  <2>3. /\ Maps(m_symbolToIdMap', Symbols, Ids)
        /\ Maps(m_idToSymbolMap', Ids, Symbols)
    BY <1>1, <2>2, PutMaps DEF HandleDefinition
  <2>4. next_symbol_id' \in Ids
    <3>1. next_symbol_id + 1 \in Nat
      BY Modulus DEF Ids
    <3> QED
      BY <1>1, <3>1, ModIsId DEF HandleDefinition
  <2>5. m_comboSymbols' \subseteq Symbols
    BY <1>1, <2>2 DEF HandleDefinition
  <2> QED
    BY <1>1, <2>1, <2>3, <2>4, <2>5, HandleTypes DEF HandleDefinition
<1>2. CASE HandleResponse
  <2>1. Handle("response")
    BY <1>2 DEF HandleResponse
  <2>2. Received.symbol \in Symbols /\ Received.id \in Ids
    BY <2>1, HandleTypes DEF Handle, Messages
  <2>3. /\ Maps(m_symbolToIdMap', Symbols, Ids)
        /\ Maps(m_idToSymbolMap', Ids, Symbols)
    BY <1>2, <2>2, PutMaps DEF HandleResponse
  <2>4. m_editMarketData' \in Panels
    BY <1>2, <2>2 DEF HandleResponse, Panel, Panels
  <2> QED
    BY <1>2, <2>1, <2>3, <2>4, HandleTypes DEF HandleResponse
<1>3. CASE HandleUpdate
  <2>1. Handle("update")
    BY <1>3 DEF HandleUpdate
  <2>2. SymbolName(Received.id) \in Symbols \cup {NoSymbol}
    BY DEF SymbolName, Maps
  <2>3. m_editMarketData' \in Panels
    BY <1>3, <2>2 DEF HandleUpdate, Panel, Panels
  <2> QED
    BY <1>3, <2>1, <2>3, HandleTypes DEF HandleUpdate, tableVars
<1>4. CASE DropReject
  BY <1>4, HandleTypes DEF DropReject, tableVars, windowVars
<1>5. CASE NoticeLoss
  BY <1>5, FreshSession
     DEF NoticeLoss, DisconnectFromServer, tableVars, windowVars, countVars
<1> QED
  BY <1>1, <1>2, <1>3, <1>4, <1>5 DEF ProcessIncomingData

(* The request that the server takes from the connection.                  *)
LEMMA RequestTypes ==
    ASSUME TypeOK, toServer # <<>>
    PROVE  /\ Head(toServer).id \in Ids
           /\ Head(toServer).type \in {"subscribe", "unsubscribe"} =>
                 Head(toServer).symbol \in Symbols
           /\ Tail(toServer) \in Seq(Messages)
<1>1. Head(toServer) \in Messages /\ Tail(toServer) \in Seq(Messages)
  BY HeadTail DEF TypeOK
<1> QED
  BY <1>1 DEF Messages

LEMMA AssignedIsId ==
    ASSUME TypeOK, toServer # <<>>
    PROVE  AssignedId(Head(toServer)) \in Ids
  BY RequestTypes, ModIsId DEF TypeOK, AssignedId

LEMMA ServerTypes ==
    TypeOK /\ ListInv /\ (HandlerStep \/ ServerUpdates \/ ServerCloses) => TypeOK'
<1> SUFFICES ASSUME TypeOK, ListInv, HandlerStep \/ ServerUpdates \/ ServerCloses PROVE TypeOK'
  OBVIOUS
<1> USE DEF TypeOK
<1>1. CASE ServerReceives
  <2>1. /\ toServer # <<>>
        /\ Tail(toServer) \in Seq(Messages)
        /\ AssignedId(Head(toServer)) \in Ids
        /\ Head(toServer).id \in Ids
        /\ link = "open"
    BY <1>1, RequestTypes, AssignedIsId DEF ServerReceives
  <2>2. /\ serving' \in Serving
        /\ subscribed_symbols' \subseteq Symbols
        /\ Maps(symbol_to_id', Symbols, Ids)
        /\ session_next_id' \in Nat
    <3>1. CASE ServeSubscribe
      <4>1. Head(toServer).symbol \in Symbols
        BY <2>1, <3>1, RequestTypes DEF ServeSubscribe
      <4>2. Maps(symbol_to_id', Symbols, Ids)
        BY <2>1, <3>1, <4>1, PutMaps DEF ServeSubscribe
      <4>3. serving' \in Serving
        BY <2>1, <3>1, <4>1 DEF ServeSubscribe, Serving
      <4> QED
        BY <3>1, <4>2, <4>3 DEF ServeSubscribe
    <3>2. CASE ServeUnsubscribe
      <4>1. Head(toServer).symbol \in Symbols
        BY <2>1, <3>2, RequestTypes DEF ServeUnsubscribe
      <4>2. serving' \in Serving
        BY <2>1, <3>2, <4>1 DEF ServeUnsubscribe, Serving
      <4> QED
        BY <3>2, <4>2 DEF ServeUnsubscribe
    <3>3. CASE ServeLoad
      <4>1. serving' \in Serving
        BY <3>3, ZeroIsId DEF ServeLoad, Serving, Idle
      <4> QED
        BY <3>3, <4>1 DEF ServeLoad
    <3> QED
      BY <1>1, <3>1, <3>2, <3>3 DEF ServerReceives
  <2> QED
    BY <1>1, <2>1, <2>2 DEF ServerReceives, tableVars, windowVars, countVars
<1>2. CASE ServerDefines
  <2>1. serving.symbol = NoSymbol /\ serving.id \in Ids /\ serving.left \in SUBSET Symbols
    BY <1>2 DEF ServerDefines, Serving
  <2>2. CASE serving.left = {}
    <3>1. serving' \in Serving
      BY <1>2, <2>2, ZeroIsId DEF ServerDefines, Serving, Idle
    <3> QED
      BY <1>2, <2>2, <3>1 DEF ServerDefines, tableVars, windowVars, countVars
  <2>3. CASE serving.left # {}
    <3>1. PICK s \in serving.left :
             /\ toClient' = Append(toClient, Message("definition", s, 0))
             /\ serving' = [serving EXCEPT !.left = @ \ {s}]
      BY <1>2, <2>3 DEF ServerDefines, Say
    <3>2. serving' \in Serving
      BY <1>2, <2>1, <3>1 DEF Serving, ServerDefines
    <3>3. toClient' \in Seq(Messages)
      BY <2>1, <3>1, MessageType, ZeroIsId, AppendedElements
    <3> QED
      BY <1>2, <3>2, <3>3 DEF ServerDefines, tableVars, windowVars, countVars
  <2> QED
    BY <2>2, <2>3
<1>3. CASE ServerAnswers
  <2>1. serving.symbol \in Symbols /\ serving.id \in Ids
    BY <1>3 DEF ServerAnswers, Serving
  <2>a. PICK message \in Messages : Say(message)
    <3>1. CASE Say(Message("response", serving.symbol, serving.id))
      BY <2>1, <3>1, MessageType
    <3>2. CASE Say(Message("reject", NoSymbol, serving.id))
      BY <2>1, <3>2, MessageType
    <3> QED
      BY <1>3, <3>1, <3>2 DEF ServerAnswers
  <2>b. toClient' \in Seq(Messages)
    BY <2>a, AppendedElements DEF Say
  <2>2. toClient' \in Seq(Messages) /\ subscribed_symbols' \subseteq Symbols
    BY <1>3, <2>1, <2>b DEF ServerAnswers
  <2>3. serving' \in Serving
    BY <1>3, ZeroIsId DEF ServerAnswers, Serving, Idle
  <2> QED
    BY <1>3, <2>2, <2>3 DEF ServerAnswers, tableVars, windowVars, countVars
<1>4. CASE ServerUpdates
  <2>1. PICK s \in subscribed_symbols :
           toClient' = Append(toClient, Message("update", s, symbol_to_id[s]))
    BY <1>4 DEF ServerUpdates, Say
  <2>2. s \in Symbols /\ symbol_to_id[s] \in Ids
    BY <1>4, <2>1 DEF ListInv, Maps
  <2>3. toClient' \in Seq(Messages)
    BY <2>1, <2>2, MessageType, AppendedElements
  <2> QED
    BY <1>4, <2>3 DEF ServerUpdates, tableVars, windowVars, sessionVars
<1>5. CASE ServerCloses
  BY <1>5, FreshSession DEF ServerCloses, tableVars, windowVars, countVars
<1> QED
  BY <1>1, <1>2, <1>3, <1>4, <1>5 DEF HandlerStep

LEMMA ListIsNumbered == TypeOK /\ ListInv /\ [Next]_vars => ListInv'
<1> SUFFICES ASSUME TypeOK, ListInv, [Next]_vars PROVE ListInv'
  OBVIOUS
<1> USE DEF ListInv
<1>1. CASE UserStep
  <2>1. CASE UserDisconnects
    BY <2>1 DEF UserDisconnects, DisconnectFromServer, NewSession, Idle
  <2>2. CASE ~UserDisconnects
    BY <1>1, <2>2 DEF UserStep, ConnectToServer, LoadAvailableSymbols, ToggleHideDelisted,
                      SubscribeToSymbol, UnsubscribeFromSymbol, sessionVars
  <2> QED
    BY <2>1, <2>2
<1>2. CASE ProcessIncomingData
  <2>1. CASE NoticeLoss
    BY <2>1 DEF NoticeLoss, DisconnectFromServer, NewSession, Idle
  <2>2. CASE ~NoticeLoss
    BY <1>2, <2>2 DEF ProcessIncomingData, HandleDefinition, HandleResponse, HandleUpdate,
                      DropReject, Handle, sessionVars
  <2> QED
    BY <2>1, <2>2
<1>3. CASE ServerReceives
  <2>1. CASE ServeSubscribe
    BY <2>1 DEF ServeSubscribe, Put
  <2>2. CASE ServeUnsubscribe
    BY <2>2 DEF ServeUnsubscribe
  <2>3. CASE ServeLoad
    BY <2>3 DEF ServeLoad, Idle
  <2> QED
    BY <1>3, <2>1, <2>2, <2>3 DEF ServerReceives
<1>4. CASE ServerDefines
  <2>1. serving.type = "load"
    BY <1>4 DEF ServerDefines
  <2>2. serving'.type # "subscribe" /\ UNCHANGED <<subscribed_symbols, symbol_to_id>>
    BY <1>4, <2>1 DEF ServerDefines, TypeOK, Serving, Idle
  <2> QED
    BY <2>2
<1>5. CASE ServerAnswers
  BY <1>5 DEF ServerAnswers, Idle
<1>6. CASE ServerUpdates
  BY <1>6 DEF ServerUpdates, sessionVars
<1>7. CASE ServerCloses
  BY <1>7 DEF ServerCloses, NewSession, Idle
<1>8. CASE UNCHANGED vars
  BY <1>8 DEF vars, sessionVars
<1> QED
  BY <1>1, <1>2, <1>3, <1>4, <1>5, <1>6, <1>7, <1>8 DEF Next, HandlerStep

LEMMA TypesAndList == Spec => [](TypeOK /\ ListInv)
<1>1. Init => TypeOK /\ ListInv
  BY InitTypes DEF Init, ListInv, Idle, Empty
<1>2. TypeOK /\ ListInv /\ [Next]_vars => TypeOK'
  <2> SUFFICES ASSUME TypeOK, ListInv, [Next]_vars PROVE TypeOK'
    OBVIOUS
  <2>1. CASE UNCHANGED vars
    BY <2>1 DEF vars, tableVars, windowVars, sessionVars, countVars, TypeOK
  <2> QED
    BY <2>1, UserTypes, ReceivingTypes, ServerTypes DEF Next
<1>3. TypeOK /\ ListInv /\ [Next]_vars => (TypeOK /\ ListInv)'
  BY <1>2, ListIsNumbered
<1> QED
  BY <1>1, <1>3, PTL DEF Spec

(* Every variable keeps its type, and no message outlives its connection.  *)
THEOREM TypesAreCorrect == Spec => []TypeOK
  BY TypesAndList, PTL

-----------------------------------------------------------------------------
(* Numbers.                                                                *)

(* Once both sides number symbols, they always do.                         *)
LEMMA NumberingStays ==
    ASSUME TypeOK, [Next]_vars, OneNumbering'
    PROVE  OneNumbering
<1> USE DEF OneNumbering, TypeOK
<1>1. CASE UserStep
  BY <1>1 DEF UserStep, ConnectToServer, UserDisconnects, DisconnectFromServer,
              LoadAvailableSymbols, ToggleHideDelisted, SubscribeToSymbol,
              UnsubscribeFromSymbol, countVars
<1>2. CASE ProcessIncomingData
  BY <1>2 DEF ProcessIncomingData, HandleDefinition, HandleResponse, HandleUpdate,
              DropReject, Handle, NoticeLoss, DisconnectFromServer, countVars
<1>3. CASE HandlerStep \/ ServerUpdates \/ ServerCloses
  BY <1>3 DEF HandlerStep, ServerReceives, ServerDefines, ServerAnswers, ServerUpdates,
              ServerCloses, countVars
<1>4. CASE UNCHANGED vars
  BY <1>4 DEF vars, countVars
<1> QED
  BY <1>1, <1>2, <1>3, <1>4 DEF Next

(* What a response tells the client it knows.                              *)
LEMMA ResponseIsKnown ==
    ASSUME TypeOK, KeyInv, HandleResponse
    PROVE  Received.id = 0 \/ Named(Received.symbol, Received.id)
<1>1. toClient # <<>> /\ Received.type = "response"
  BY DEF HandleResponse, Handle
<1>2. 1 \in DOMAIN toClient /\ Received = toClient[1]
  BY <1>1, HeadTail DEF TypeOK, Received
<1> QED
  BY <1>1, <1>2 DEF KeyInv, MessagesInv

LEMMA TableSteps ==
    ASSUME [Next]_vars
    PROVE  \/ HandleDefinition
           \/ HandleResponse
           \/ UNCHANGED tableVars
<1>1. CASE UserStep
  BY <1>1 DEF UserStep, ConnectToServer, UserDisconnects, DisconnectFromServer,
              LoadAvailableSymbols, ToggleHideDelisted, SubscribeToSymbol,
              UnsubscribeFromSymbol
<1>2. CASE ProcessIncomingData
  BY <1>2 DEF ProcessIncomingData, HandleUpdate, DropReject, NoticeLoss, DisconnectFromServer
<1>3. CASE HandlerStep \/ ServerUpdates \/ ServerCloses
  BY <1>3 DEF HandlerStep, ServerReceives, ServerDefines, ServerAnswers, ServerUpdates,
              ServerCloses
<1>4. CASE UNCHANGED vars
  BY <1>4 DEF vars
<1> QED
  BY <1>1, <1>2, <1>3, <1>4 DEF Next

(* The table never gives away a number twice.                              *)
LEMMA NamesAreKept ==
    ASSUME TypeOK, KeyInv, [Next]_vars, NEW s, NEW i, Named(s, i)
    PROVE  Named(s, i)'
<1>1. CASE HandleDefinition
  <2>1. i \in DOMAIN m_idToSymbolMap /\ i # next_symbol_id
    BY DEF Named, KeyInv, TableInv, TypeOK, Ids
  <2> QED
    BY <1>1, <2>1 DEF HandleDefinition, Put, Named
<1>2. CASE HandleResponse
  BY <1>2, ResponseIsKnown DEF HandleResponse, Put, Named
<1>3. CASE UNCHANGED tableVars
  BY <1>3 DEF Named, tableVars
<1> QED
  BY <1>1, <1>2, <1>3, TableSteps

LEMMA ModSmall == \A n \in Nat : n < IdModulus => n % IdModulus = n
<1> SUFFICES ASSUME NEW n \in Nat, n < IdModulus PROVE n % IdModulus = n
  OBVIOUS
<1> QED
  BY Modulus

LEMMA TableIsKept ==
    ASSUME TypeOK, KeyInv, [Next]_vars, OneNumbering'
    PROVE  TableInv'
<1>1. \A s, i : Named(s, i) => Named(s, i)'
  BY NamesAreKept
<1>2. CASE HandleDefinition
  <2>1. next_symbol_id \in Nat /\ next_symbol_id < IdModulus /\ next_symbol_id # 0
    BY Modulus DEF TypeOK, Ids, KeyInv, TableInv
  <2>2. next_symbol_id + 1 # IdModulus
    BY <1>2 DEF HandleDefinition, Handle, OneNumbering
  <2>3. next_symbol_id' = next_symbol_id + 1
    <3>1. next_symbol_id + 1 \in Nat /\ next_symbol_id + 1 < IdModulus
      BY <2>1, <2>2, Modulus
    <3> QED
      BY <1>2, <3>1, ModSmall DEF HandleDefinition
  <2>4. ASSUME NEW i \in DOMAIN m_idToSymbolMap'
        PROVE  i # 0 /\ i < next_symbol_id'
    <3>1. i \in DOMAIN m_idToSymbolMap \/ i = next_symbol_id
      BY <1>2 DEF HandleDefinition, Put
    <3>2. i \in DOMAIN m_idToSymbolMap => i \in Nat
      BY DEF TypeOK, Maps, Ids
    <3> QED
      BY <2>1, <2>3, <3>1, <3>2 DEF KeyInv, TableInv
  <2>5. ASSUME NEW s \in DOMAIN m_symbolToIdMap'
        PROVE  Named(s, m_symbolToIdMap[s])'
    <3>1. CASE s = Received.symbol
      BY <1>2, <2>1, <3>1 DEF HandleDefinition, Put, Named
    <3>2. CASE s # Received.symbol
      <4>1. s \in DOMAIN m_symbolToIdMap /\ m_symbolToIdMap'[s] = m_symbolToIdMap[s]
        BY <1>2, <3>2 DEF HandleDefinition, Put
      <4> QED
        BY <1>1, <4>1 DEF Named, KeyInv, TableInv
    <3> QED
      BY <3>1, <3>2
  <2> QED
    BY <2>1, <2>3, <2>4, <2>5 DEF TableInv
<1>3. CASE HandleResponse
  <2>1. DOMAIN m_idToSymbolMap' = DOMAIN m_idToSymbolMap /\ UNCHANGED next_symbol_id
    BY <1>3, ResponseIsKnown DEF HandleResponse, Put, Named
  <2>2. ASSUME NEW s \in DOMAIN m_symbolToIdMap'
        PROVE  Named(s, m_symbolToIdMap[s])'
    <3>1. CASE s \in DOMAIN m_symbolToIdMap /\ m_symbolToIdMap'[s] = m_symbolToIdMap[s]
      BY <1>1, <3>1 DEF Named, KeyInv, TableInv
    <3>2. CASE Received.id # 0 /\ s = Received.symbol /\ m_symbolToIdMap'[s] = Received.id
      BY <1>1, <1>3, <3>2, ResponseIsKnown DEF Named
    <3> QED
      BY <1>3, <3>1, <3>2 DEF HandleResponse, Put
  <2> QED
    BY <2>1, <2>2 DEF TableInv, KeyInv
<1>4. CASE UNCHANGED tableVars
  BY <1>4 DEF tableVars, TableInv, KeyInv, Named
<1> QED
  BY <1>2, <1>3, <1>4, TableSteps

(* The server uses the client's numbers.                                   *)
LEMMA SessionIsKept ==
    ASSUME TypeOK, KeyInv, [Next]_vars, OneNumbering'
    PROVE  SessionInv'
<1>1. \A s, i : Named(s, i) => Named(s, i)'
  BY NamesAreKept
<1>2. CASE NewSession
  BY <1>2 DEF NewSession, SessionInv, Idle, Empty
<1>3. CASE UNCHANGED sessionVars
  BY <1>1, <1>3 DEF sessionVars, SessionInv, KeyInv, Named
<1>4. CASE ServerReceives
  <2>1. 1 \in DOMAIN toServer /\ Head(toServer) = toServer[1]
    BY <1>4, HeadTail DEF ServerReceives, TypeOK
  <2>2. CASE ServeSubscribe
    <3>1. Named(toServer[1].symbol, toServer[1].id)
      BY <2>1, <2>2 DEF ServeSubscribe, KeyInv, RequestsInv
    <3>2. AssignedId(Head(toServer)) = toServer[1].id
      BY <2>1, <3>1 DEF AssignedId, Named
    <3>3. /\ symbol_to_id' = Put(symbol_to_id, toServer[1].symbol, toServer[1].id)
          /\ serving'.type = "subscribe"
          /\ serving'.symbol = toServer[1].symbol
          /\ serving'.id = toServer[1].id
      BY <2>1, <2>2, <3>2 DEF ServeSubscribe
    <3> QED
      BY <1>1, <3>1, <3>3 DEF SessionInv, KeyInv, Put, Named
  <2>3. CASE ServeUnsubscribe
    <3>1. toServer[1].id = 0
      BY <2>1, <2>3 DEF ServeUnsubscribe, KeyInv, RequestsInv
    <3>2. serving'.type = "unsubscribe" /\ serving'.id = 0 /\ UNCHANGED symbol_to_id
      BY <2>1, <2>3, <3>1 DEF ServeUnsubscribe
    <3> QED
      BY <1>1, <3>2 DEF SessionInv, KeyInv, Named
  <2>4. CASE ServeLoad
    <3>1. serving'.type = "load" /\ UNCHANGED symbol_to_id
      BY <2>4 DEF ServeLoad, Idle
    <3> QED
      BY <1>1, <3>1 DEF SessionInv, KeyInv, Named
  <2> QED
    BY <1>4, <2>2, <2>3, <2>4 DEF ServerReceives
<1>5. CASE ServerDefines \/ ServerAnswers
  <2>1. serving'.type \in {"idle", "load"} /\ UNCHANGED symbol_to_id
    BY <1>5 DEF ServerDefines, ServerAnswers, TypeOK, Serving, Idle
  <2> QED
    BY <1>1, <2>1 DEF SessionInv, KeyInv, Named
<1>6. CASE UserStep
  BY <1>2, <1>3, <1>6 DEF UserStep, ConnectToServer, UserDisconnects, DisconnectFromServer,
              LoadAvailableSymbols, ToggleHideDelisted, SubscribeToSymbol, UnsubscribeFromSymbol
<1>7. CASE ProcessIncomingData
  BY <1>2, <1>3, <1>7 DEF ProcessIncomingData, HandleDefinition, HandleResponse, HandleUpdate,
              DropReject, Handle, NoticeLoss, DisconnectFromServer
<1>8. CASE ServerUpdates \/ ServerCloses \/ UNCHANGED vars
  BY <1>2, <1>3, <1>8 DEF ServerUpdates, ServerCloses, vars
<1> QED
  BY <1>4, <1>5, <1>6, <1>7, <1>8 DEF Next, HandlerStep

(* The client sends the numbers of its table.                              *)
LEMMA RequestsAreKept ==
    ASSUME TypeOK, KeyInv, [Next]_vars, OneNumbering'
    PROVE  RequestsInv'
<1>1. \A s, i : Named(s, i) => Named(s, i)'
  BY NamesAreKept
<1>2. ASSUME \A n \in DOMAIN toServer' :
                \/ n \in DOMAIN toServer /\ toServer'[n] = toServer[n]
                \/ n + 1 \in DOMAIN toServer /\ toServer'[n] = toServer[n + 1]
                \/ toServer'[n].type = "subscribe"
                       /\ Named(toServer'[n].symbol, toServer'[n].id)
                \/ toServer'[n].type = "unsubscribe" /\ toServer'[n].id = 0
                \/ toServer'[n].type = "load"
      PROVE  RequestsInv'
  BY <1>1, <1>2 DEF RequestsInv, KeyInv, Named
<1>3. CASE toServer' = <<>> \/ UNCHANGED toServer
  BY <1>2, <1>3
<1>4. ASSUME NEW m \in Messages, SendDTCMessage(m),
             \/ m.type = "subscribe" /\ Named(m.symbol, m.id)
             \/ m.type = "unsubscribe" /\ m.id = 0
             \/ m.type = "load"
      PROVE  RequestsInv'
  <2>1. CASE toServer' = Append(toServer, m)
    <3>1. \A n \in DOMAIN toServer' :
             (n \in DOMAIN toServer /\ toServer'[n] = toServer[n]) \/ toServer'[n] = m
      BY <2>1, AppendedElements DEF TypeOK
    <3> QED
      BY <1>2, <1>4, <3>1
  <2> QED
    BY <1>3, <1>4, <2>1 DEF SendDTCMessage
<1>5. CASE LoadAvailableSymbols
  <2>1. Message("load", NoSymbol, 0) \in Messages
    BY MessageType, ZeroIsId
  <2> QED
    BY <1>4, <1>5, <2>1 DEF LoadAvailableSymbols, Message
<1>6. ASSUME NEW s \in Symbols, SubscribeToSymbol(s)
      PROVE  RequestsInv'
  <2>1. s \in DOMAIN m_symbolToIdMap
    BY <1>6 DEF SubscribeToSymbol, OneNumbering
  <2>2. m_symbolToIdMap[s] \in Ids /\ Named(s, m_symbolToIdMap[s])
    BY <2>1 DEF TypeOK, Maps, KeyInv, TableInv
  <2>3. Message("subscribe", s, m_symbolToIdMap[s]) \in Messages
    BY <2>2, MessageType
  <2>4. SendDTCMessage(Message("subscribe", s, m_symbolToIdMap[s]))
    BY <1>6, <2>1 DEF SubscribeToSymbol
  <2> QED
    BY <1>4, <2>2, <2>3, <2>4 DEF Message
<1>7. ASSUME NEW s \in Symbols, UnsubscribeFromSymbol(s)
      PROVE  RequestsInv'
  <2>1. Message("unsubscribe", s, 0) \in Messages
    BY MessageType, ZeroIsId
  <2> QED
    BY <1>4, <1>7, <2>1 DEF UnsubscribeFromSymbol, Message
<1>8. CASE ServerReceives
  <2>1. toServer # <<>> /\ toServer' = Tail(toServer)
    BY <1>8 DEF ServerReceives
  <2>2. \A n \in DOMAIN toServer' : n + 1 \in DOMAIN toServer /\ toServer'[n] = toServer[n + 1]
    BY <2>1, HeadTail DEF TypeOK
  <2> QED
    BY <1>2, <2>2
<1>9. CASE ConnectToServer \/ UserDisconnects \/ ToggleHideDelisted
  BY <1>3, <1>9 DEF ConnectToServer, UserDisconnects, DisconnectFromServer, ToggleHideDelisted
<1>10. CASE ProcessIncomingData
  BY <1>3, <1>10 DEF ProcessIncomingData, HandleDefinition, HandleResponse, HandleUpdate,
              DropReject, Handle, NoticeLoss, DisconnectFromServer
<1>11. CASE ServerDefines \/ ServerAnswers \/ ServerUpdates \/ ServerCloses \/ UNCHANGED vars
  BY <1>3, <1>11 DEF ServerDefines, ServerAnswers, ServerUpdates, ServerCloses, vars
<1> QED
  BY <1>5, <1>6, <1>7, <1>8, <1>9, <1>10, <1>11 DEF Next, UserStep, HandlerStep

(* Answers and updates carry the numbers of the session.                   *)
LEMMA MessagesAreKept ==
    ASSUME TypeOK, ListInv, KeyInv, [Next]_vars, OneNumbering'
    PROVE  MessagesInv'
<1>1. \A s, i : Named(s, i) => Named(s, i)'
  BY NamesAreKept
<1>2. ASSUME \A n \in DOMAIN toClient' :
                \/ n \in DOMAIN toClient /\ toClient'[n] = toClient[n]
                \/ n + 1 \in DOMAIN toClient /\ toClient'[n] = toClient[n + 1]
                \/ toClient'[n].type = "response" /\ toClient'[n].id = 0
                \/ Named(toClient'[n].symbol, toClient'[n].id)
                \/ toClient'[n].type \notin {"response", "update"}
      PROVE  MessagesInv'
  BY <1>1, <1>2 DEF MessagesInv, KeyInv, Named
<1>3. CASE toClient' = <<>> \/ UNCHANGED toClient
  BY <1>2, <1>3
<1>4. ASSUME NEW m \in Messages, Say(m),
             \/ m.type = "response" /\ m.id = 0
             \/ Named(m.symbol, m.id)
             \/ m.type \notin {"response", "update"}
      PROVE  MessagesInv'
  <2>1. \A n \in DOMAIN toClient' :
           (n \in DOMAIN toClient /\ toClient'[n] = toClient[n]) \/ toClient'[n] = m
    BY <1>4, AppendedElements DEF TypeOK, Say
  <2> QED
    BY <1>2, <1>4, <2>1
<1>5. ASSUME NEW type, Handle(type)
      PROVE  MessagesInv'
  <2>1. \A n \in DOMAIN toClient' : n + 1 \in DOMAIN toClient /\ toClient'[n] = toClient[n + 1]
    BY <1>5, HeadTail DEF TypeOK, Handle
  <2> QED
    BY <1>2, <2>1
<1>6. CASE ProcessIncomingData
  BY <1>3, <1>5, <1>6 DEF ProcessIncomingData, HandleDefinition, HandleResponse, HandleUpdate,
                          DropReject, NoticeLoss, DisconnectFromServer
<1>7. CASE ServerDefines
  <2>1. CASE serving.left = {}
    BY <1>3, <1>7, <2>1 DEF ServerDefines
  <2>2. CASE serving.left # {}
    <3>1. PICK s \in serving.left : Say(Message("definition", s, 0))
      BY <1>7, <2>2 DEF ServerDefines
    <3>2. Message("definition", s, 0) \in Messages
      BY <1>7, MessageType, ZeroIsId DEF ServerDefines, TypeOK, Serving
    <3> QED
      BY <1>4, <3>1, <3>2 DEF Message
  <2> QED
    BY <2>1, <2>2
<1>8. CASE ServerAnswers
  <2>1. serving.symbol \in Symbols /\ serving.id \in Ids
    BY <1>8 DEF ServerAnswers, TypeOK, Serving
  <2>2. CASE Say(Message("response", serving.symbol, serving.id))
    <3>1. serving.id = 0 \/ Named(serving.symbol, serving.id)
      BY <1>8 DEF ServerAnswers, KeyInv, SessionInv
    <3>2. Message("response", serving.symbol, serving.id) \in Messages
      BY <2>1, MessageType
    <3> QED
      BY <1>4, <2>2, <3>1, <3>2 DEF Message
  <2>3. CASE Say(Message("reject", NoSymbol, serving.id))
    <3>1. Message("reject", NoSymbol, serving.id) \in Messages
      BY <2>1, MessageType
    <3> QED
      BY <1>4, <2>3, <3>1 DEF Message
  <2> QED
    BY <1>8, <2>2, <2>3 DEF ServerAnswers
<1>9. CASE ServerUpdates
  <2>1. PICK s \in subscribed_symbols : Say(Message("update", s, symbol_to_id[s]))
    BY <1>9 DEF ServerUpdates
  <2>2. s \in Symbols /\ symbol_to_id[s] \in Ids /\ Named(s, symbol_to_id[s])
    BY <2>1 DEF ListInv, TypeOK, Maps, KeyInv, SessionInv
  <2>3. Message("update", s, symbol_to_id[s]) \in Messages
    BY <2>2, MessageType
  <2> QED
    BY <1>4, <2>1, <2>2, <2>3 DEF Message
<1>10. CASE UserStep
  BY <1>3, <1>10 DEF UserStep, ConnectToServer, UserDisconnects, DisconnectFromServer,
              LoadAvailableSymbols, ToggleHideDelisted, SubscribeToSymbol, UnsubscribeFromSymbol
<1>11. CASE ServerReceives \/ ServerCloses \/ UNCHANGED vars
  BY <1>3, <1>11 DEF ServerReceives, ServerCloses, vars
<1> QED
  BY <1>6, <1>7, <1>8, <1>9, <1>10, <1>11 DEF Next, HandlerStep

(* The inductive invariant: as long as the client alone numbers symbols,   *)
(* every number in its tables, in the session and on the way leads to its  *)
(* symbol, and new numbers are larger than all in use                      *)
(* (dtc_gui_client.cpp:1154-1158, server.cpp:738-746).                     *)
THEOREM NumberingInvariant == Spec => []NumberingInv
<1>1. Init => NumberingInv
  <2> SUFFICES ASSUME Init PROVE NumberingInv
    OBVIOUS
  <2>1. ListInv
    BY DEF Init, ListInv, Idle, Empty
  <2>2. TableInv /\ SessionInv
    BY DEF Init, TableInv, SessionInv, Idle, Empty
  <2>3. RequestsInv /\ MessagesInv
    BY DEF Init, RequestsInv, MessagesInv
  <2> QED
    BY <2>1, <2>2, <2>3 DEF NumberingInv, KeyInv
<1>2. TypeOK /\ NumberingInv /\ [Next]_vars => NumberingInv'
  <2> SUFFICES ASSUME TypeOK, NumberingInv, [Next]_vars PROVE NumberingInv'
    OBVIOUS
  <2>1. ListInv'
    BY ListIsNumbered DEF NumberingInv
  <2>2. ASSUME OneNumbering' PROVE KeyInv'
    <3>1. KeyInv /\ ListInv
      BY <2>2, NumberingStays DEF NumberingInv
    <3> QED
      BY <2>2, <3>1, TableIsKept, SessionIsKept, RequestsAreKept, MessagesAreKept DEF KeyInv
  <2> QED
    BY <2>1, <2>2 DEF NumberingInv
<1> QED
  BY <1>1, <1>2, TypesAreCorrect, PTL DEF Spec

(* Updates are logged under the symbol they are for, however many          *)
(* connections, lists of symbols and requests there have been, as long as  *)
(* the client alone numbers the symbols (dtc_gui_client.cpp:1239).         *)
THEOREM UpdatesHaveTheirNames == Spec => []NumberedUpdatesAreAttributed
<1>1. TypeOK /\ NumberingInv => NumberedUpdatesAreAttributed
  <2> SUFFICES ASSUME TypeOK, NumberingInv, OneNumbering, IsNext("update")
               PROVE  SymbolName(Received.id) = Received.symbol
    BY DEF NumberedUpdatesAreAttributed, UpdatesAreAttributed
  <2>1. 1 \in DOMAIN toClient /\ Received = toClient[1]
    BY HeadTail DEF TypeOK, IsNext, Received
  <2>2. Named(Received.symbol, Received.id)
    BY <2>1 DEF NumberingInv, KeyInv, MessagesInv, IsNext
  <2> QED
    BY <2>2 DEF Named, SymbolName
<1> QED
  BY <1>1, NumberingInvariant, TypesAreCorrect, PTL
=============================================================================
