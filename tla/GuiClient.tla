----------------------------- MODULE GuiClient -----------------------------
(***************************************************************************)
(* The GUI test client (src/dtc_test_client/dtc_gui_client.cpp): the table *)
(* of symbols and their numbers, the list of symbols to select from, the   *)
(* market data panel, and its conversation with one handler of the DTC     *)
(* server (src/core/server/server.cpp), which numbers symbols as well.     *)
(*                                                                         *)
(* All of the client runs in the thread of its window: a click or the      *)
(* handling of a message is one step.  toServer and toClient are the two   *)
(* directions of the connection with the receive buffers at their ends;    *)
(* DtcStream is about how messages get through these.  What is modelled of *)
(* the server is one connection; MarketDataServer is about several.  An    *)
(* update carries a number only; its symbol is in the model to compare     *)
(* with.                                                                   *)
(***************************************************************************)
EXTENDS Naturals, Sequences

CONSTANTS
    Symbols,
    NoSymbol,       \* in messages and texts without a symbol
    Presets,        \* in the list when the window opens ("BTC-USDC", ...)
    LikelyDelisted, \* IsLikelyDelisted()
    IdModulus,      \* a symbol id is 16 bits wide (65536)
    MaxClicks,      \* bound: requests of the user
    MaxUpdates      \* bound: updates sent

ASSUME GuiAssumption ==
    /\ NoSymbol \notin Symbols
    /\ Presets \subseteq Symbols
    /\ LikelyDelisted \subseteq Symbols
    /\ IdModulus \in Nat \ {0, 1}
    /\ MaxClicks \in Nat
    /\ MaxUpdates \in Nat

VARIABLES
    (* the client *)
    link,            \* none: no socket; open; lost: closed by the server
    m_symbolToIdMap,
    m_idToSymbolMap,
    next_symbol_id,  \* static in HandleDTCResponse(): outlives connections
    m_comboSymbols,  \* the symbols that can be selected
    m_hideDelisted,
    m_editMarketData,    \* what the market data panel says, of which symbol
    is_subscribed,   \* m_currentMarketData.is_subscribed
    (* the connection *)
    toServer, toClient,
    (* the handler of the connection and its session *)
    serving,         \* what it is serving, with the definitions left to send
    subscribed_symbols,
    symbol_to_id,
    session_next_id, \* session.next_symbol_id
    (* for the bounds and the properties *)
    unnumbered,      \* has the user subscribed to a symbol without a number?
    wrapped,         \* have the numbers run out?
    clicks, updates

tableVars   == <<m_symbolToIdMap, m_idToSymbolMap, next_symbol_id>>
windowVars  == <<m_comboSymbols, m_hideDelisted, m_editMarketData, is_subscribed>>
sessionVars == <<serving, subscribed_symbols, symbol_to_id, session_next_id>>
countVars   == <<unnumbered, wrapped, clicks, updates>>
vars == <<link, tableVars, windowVars, toServer, toClient, sessionVars, countVars>>

Ids == 0 .. IdModulus - 1

Message(type, s, i) == [type |-> type, symbol |-> s, id |-> i]
Messages ==
    [type : {"load", "reject"}, symbol : {NoSymbol}, id : Ids] \cup
    [type : {"subscribe", "unsubscribe", "definition", "response", "update"},
     symbol : Symbols, id : Ids]

Idle == [type |-> "idle", symbol |-> NoSymbol, id |-> 0, left |-> {}]
Serving ==
    [type : {"idle", "load"}, symbol : {NoSymbol}, id : Ids, left : SUBSET Symbols] \cup
    [type : {"subscribe", "unsubscribe"}, symbol : Symbols, id : Ids, left : SUBSET Symbols]

Panel(status, s) == [status |-> status, symbol |-> s]
Panels == [status : {"none", "subscribing", "subscribed", "live"},
           symbol : Symbols \cup {NoSymbol}]

(* std::map::operator[].                                                   *)
Put(map, key, value) ==
    [k \in DOMAIN map \cup {key} |-> IF k = key THEN value ELSE map[k]]
Empty == [k \in {} |-> 0]

NewSession ==
    /\ serving' = Idle
    /\ subscribed_symbols' = {}
    /\ symbol_to_id' = Empty
    /\ session_next_id' = 1

Init ==
    /\ link = "none"
    /\ m_symbolToIdMap = Empty
    /\ m_idToSymbolMap = Empty
    /\ next_symbol_id = 1
    /\ m_comboSymbols = Presets
    /\ m_hideDelisted = TRUE
    /\ m_editMarketData = Panel("none", NoSymbol)
    /\ is_subscribed = FALSE
    /\ toServer = <<>>
    /\ toClient = <<>>
    /\ serving = Idle
    /\ subscribed_symbols = {}
    /\ symbol_to_id = Empty
    /\ session_next_id = 1
    /\ unnumbered = FALSE
    /\ wrapped = FALSE
    /\ clicks = 0
    /\ updates = 0

-----------------------------------------------------------------------------
(* The user.                                                               *)

Click == clicks < MaxClicks /\ clicks' = clicks + 1

(* A connection that the server has closed still takes what is sent, or    *)
(* gives an error.                                                         *)
SendDTCMessage(message) ==
    IF link = "open" THEN toServer' = Append(toServer, message) ELSE UNCHANGED toServer

SendFails == link = "lost"

ConnectToServer ==
    /\ link = "none"
    /\ link' = "open"
    /\ UNCHANGED <<tableVars, windowVars, toServer, toClient, sessionVars, countVars>>

(* Mutant: m_incomingBuffer is not cleared.                                *)
DisconnectKeepsBuffer ==
    /\ link' = "none"
    /\ toServer' = <<>>
    /\ NewSession
    /\ UNCHANGED <<tableVars, windowVars, toClient, countVars>>

(* Tables and panel stay as they are; the server ends the session.         *)
DisconnectFromServer ==
    /\ link' = "none"
    /\ toServer' = <<>>
    /\ toClient' = <<>>
    /\ NewSession
    /\ UNCHANGED <<tableVars, windowVars, countVars>>

UserDisconnects == link # "none" /\ DisconnectFromServer

(* The list is cleared, whether the request was sent or not.               *)
LoadAvailableSymbols ==
    /\ link # "none"
    /\ Click
    /\ SendDTCMessage(Message("load", NoSymbol, 0))
    /\ m_comboSymbols' = {}
    /\ UNCHANGED <<link, tableVars, m_hideDelisted, m_editMarketData, is_subscribed,
                   toClient, sessionVars, unnumbered, wrapped, updates>>

SubscribeToSymbol(s) ==
    LET symbol_id == IF s \in DOMAIN m_symbolToIdMap THEN m_symbolToIdMap[s] ELSE 0
    IN /\ link # "none"
       /\ s \in m_comboSymbols
       /\ Click
       /\ SendDTCMessage(Message("subscribe", s, symbol_id))
       /\ \/ m_editMarketData' = Panel("subscribing", s)
          \/ SendFails /\ UNCHANGED m_editMarketData
       /\ unnumbered' = (unnumbered \/ s \notin DOMAIN m_symbolToIdMap)
       /\ UNCHANGED <<link, tableVars, m_comboSymbols, m_hideDelisted, is_subscribed,
                      toClient, sessionVars, wrapped, updates>>

UnsubscribeFromSymbol(s) ==
    /\ link # "none"
    /\ s \in m_comboSymbols
    /\ Click
    /\ SendDTCMessage(Message("unsubscribe", s, 0))
    /\ \/ /\ m_editMarketData' = Panel("none", NoSymbol)
          /\ is_subscribed' = FALSE
       \/ SendFails /\ UNCHANGED <<m_editMarketData, is_subscribed>>
    /\ UNCHANGED <<link, tableVars, m_comboSymbols, m_hideDelisted,
                   toClient, sessionVars, unnumbered, wrapped, updates>>

(* ID_CHK_HIDE_DELISTED and RefreshSymbolCombo(): all symbols known by     *)
(* number are listed.  The filter would leave out what a reject has named, *)
(* but parse_message() knows no rejects.                                   *)
ToggleHideDelisted ==
    /\ m_hideDelisted' = ~m_hideDelisted
    /\ m_comboSymbols' = DOMAIN m_symbolToIdMap
    /\ UNCHANGED <<link, tableVars, m_editMarketData, is_subscribed, toServer, toClient,
                   sessionVars, countVars>>

-----------------------------------------------------------------------------
(* The timer of the window: ProcessIncomingData() to HandleDTCResponse().  *)

Received == Head(toClient)

Handle(type) ==
    /\ toClient # <<>>
    /\ Received.type = type
    /\ toClient' = Tail(toClient)
    /\ wrapped' = (wrapped \/ (type = "definition" /\ next_symbol_id + 1 = IdModulus))
    /\ UNCHANGED <<link, toServer, sessionVars, unnumbered, clicks, updates>>

Hidden(s) == m_hideDelisted /\ s \in LikelyDelisted

(* Mutant: the number that a symbol had is taken out of the table.         *)
HandleDefinitionForgets ==
    LET s == Received.symbol
        old == IF s \in DOMAIN m_symbolToIdMap THEN {m_symbolToIdMap[s]} ELSE {}
        kept == [i \in DOMAIN m_idToSymbolMap \ old |-> m_idToSymbolMap[i]]
    IN /\ Handle("definition")
       /\ next_symbol_id' = (next_symbol_id + 1) % IdModulus
       /\ m_symbolToIdMap' = Put(m_symbolToIdMap, s, next_symbol_id)
       /\ m_idToSymbolMap' = Put(kept, next_symbol_id, s)
       /\ m_comboSymbols' = m_comboSymbols \cup IF Hidden(s) THEN {} ELSE {s}
       /\ UNCHANGED <<m_hideDelisted, m_editMarketData, is_subscribed>>

(* A symbol gets a new number each time it is defined; the old number      *)
(* still leads to the symbol.                                              *)
HandleDefinition ==
    LET s == Received.symbol
    IN /\ Handle("definition")
       /\ next_symbol_id' = (next_symbol_id + 1) % IdModulus
       /\ m_symbolToIdMap' = Put(m_symbolToIdMap, s, next_symbol_id)
       /\ m_idToSymbolMap' = Put(m_idToSymbolMap, next_symbol_id, s)
       /\ m_comboSymbols' = m_comboSymbols \cup IF Hidden(s) THEN {} ELSE {s}
       /\ UNCHANGED <<m_hideDelisted, m_editMarketData, is_subscribed>>

(* Mutant: a response without a number counts as well.                     *)
HandleResponseOfZero ==
    /\ Handle("response")
    /\ m_symbolToIdMap' = Put(m_symbolToIdMap, Received.symbol, Received.id)
    /\ m_idToSymbolMap' = Put(m_idToSymbolMap, Received.id, Received.symbol)
    /\ m_editMarketData' = Panel("subscribed", Received.symbol)
    /\ UNCHANGED <<next_symbol_id, m_comboSymbols, m_hideDelisted, is_subscribed>>

(* Responses always say success, to an unsubscribe too.                    *)
HandleResponse ==
    /\ Handle("response")
    /\ IF Received.id # 0
       THEN /\ m_symbolToIdMap' = Put(m_symbolToIdMap, Received.symbol, Received.id)
            /\ m_idToSymbolMap' = Put(m_idToSymbolMap, Received.id, Received.symbol)
       ELSE UNCHANGED <<m_symbolToIdMap, m_idToSymbolMap>>
    /\ m_editMarketData' = Panel("subscribed", Received.symbol)
    /\ UNCHANGED <<next_symbol_id, m_comboSymbols, m_hideDelisted, is_subscribed>>

(* "Unknown" in the code.                                                  *)
SymbolName(i) == IF i \in DOMAIN m_idToSymbolMap THEN m_idToSymbolMap[i] ELSE NoSymbol

(* UpdateMarketData() sets is_subscribed, and is called if it is set.      *)
HandleUpdate ==
    /\ Handle("update")
    /\ m_editMarketData' = IF is_subscribed /\ SymbolName(Received.id) # NoSymbol
                           THEN Panel("live", SymbolName(Received.id))
                           ELSE m_editMarketData
    /\ UNCHANGED <<tableVars, m_comboSymbols, m_hideDelisted, is_subscribed>>

(* parse_message() returns nothing for it.                                 *)
DropReject == Handle("reject") /\ UNCHANGED <<tableVars, windowVars>>

NoticeLoss ==
    /\ link = "lost"
    /\ toClient = <<>>
    /\ DisconnectFromServer

ProcessIncomingData ==
    HandleDefinition \/ HandleResponse \/ HandleUpdate \/ DropReject \/ NoticeLoss

-----------------------------------------------------------------------------
(* The server: the handler of the connection, and the worker that sends    *)
(* updates in between.                                                     *)

Say(message) == toClient' = Append(toClient, message)

AssignedId(r) == IF r.id = 0 THEN session_next_id % IdModulus ELSE r.id

ServeSubscribe ==
    LET r == Head(toServer)
        i == AssignedId(r)
    IN /\ r.type = "subscribe"
       /\ session_next_id' = IF r.id = 0 THEN session_next_id + 1 ELSE session_next_id
       /\ symbol_to_id' = Put(symbol_to_id, r.symbol, i)
       /\ serving' = [type |-> "subscribe", symbol |-> r.symbol, id |-> i, left |-> {}]
       /\ UNCHANGED subscribed_symbols

ServeUnsubscribe ==
    LET r == Head(toServer)
    IN /\ r.type = "unsubscribe"
       /\ subscribed_symbols' = subscribed_symbols \ {r.symbol}
       /\ serving' = [type |-> "unsubscribe", symbol |-> r.symbol, id |-> r.id, left |-> {}]
       /\ UNCHANGED <<symbol_to_id, session_next_id>>

(* Whatever the REST client gives, less what was filtered out and cut off. *)
ServeLoad ==
    /\ Head(toServer).type = "load"
    /\ \E offered \in SUBSET Symbols : serving' = [Idle EXCEPT !.type = "load", !.left = offered]
    /\ UNCHANGED <<subscribed_symbols, symbol_to_id, session_next_id>>

ServerReceives ==
    /\ link = "open"
    /\ serving = Idle
    /\ toServer # <<>>
    /\ toServer' = Tail(toServer)
    /\ ServeSubscribe \/ ServeUnsubscribe \/ ServeLoad
    /\ UNCHANGED <<link, tableVars, windowVars, toClient, countVars>>

ServerDefines ==
    /\ link = "open"
    /\ serving.type = "load"
    /\ IF serving.left = {}
       THEN serving' = Idle /\ UNCHANGED toClient
       ELSE \E s \in serving.left :
               /\ Say(Message("definition", s, 0))
               /\ serving' = [serving EXCEPT !.left = @ \ {s}]
    /\ UNCHANGED <<link, tableVars, windowVars, toServer, subscribed_symbols, symbol_to_id,
                   session_next_id, countVars>>

(* Mutant: a request that fails is not answered.                           *)
ServerAnswersSuccess ==
    /\ link = "open"
    /\ serving.type \in {"subscribe", "unsubscribe"}
    /\ serving' = Idle
    /\ \/ /\ Say(Message("response", serving.symbol, serving.id))
          /\ subscribed_symbols' = subscribed_symbols \cup
                 IF serving.type = "subscribe" THEN {serving.symbol} ELSE {}
       \/ /\ serving.type = "subscribe"
          /\ UNCHANGED <<toClient, subscribed_symbols>>
    /\ UNCHANGED <<link, tableVars, windowVars, toServer, symbol_to_id, session_next_id, countVars>>

ServerAnswers ==
    /\ link = "open"
    /\ serving.type \in {"subscribe", "unsubscribe"}
    /\ serving' = Idle
    /\ \/ /\ Say(Message("response", serving.symbol, serving.id))
          /\ subscribed_symbols' = subscribed_symbols \cup
                 IF serving.type = "subscribe" THEN {serving.symbol} ELSE {}
       \/ /\ serving.type = "subscribe"
          /\ Say(Message("reject", NoSymbol, serving.id))
          /\ UNCHANGED subscribed_symbols
    /\ UNCHANGED <<link, tableVars, windowVars, toServer, symbol_to_id, session_next_id, countVars>>

(* on_trade_data() or on_level2_data().                                    *)
ServerUpdates ==
    /\ link = "open"
    /\ updates < MaxUpdates
    /\ updates' = updates + 1
    /\ \E s \in subscribed_symbols : Say(Message("update", s, symbol_to_id[s]))
    /\ UNCHANGED <<link, tableVars, windowVars, toServer, sessionVars, unnumbered, wrapped, clicks>>

(* stop(), or the end of the process.                                      *)
ServerCloses ==
    /\ link = "open"
    /\ link' = "lost"
    /\ toServer' = <<>>
    /\ NewSession
    /\ UNCHANGED <<tableVars, windowVars, toClient, countVars>>

HandlerStep == ServerReceives \/ ServerDefines \/ ServerAnswers

UserStep ==
    \/ ConnectToServer \/ UserDisconnects \/ LoadAvailableSymbols \/ ToggleHideDelisted
    \/ \E s \in Symbols : SubscribeToSymbol(s) \/ UnsubscribeFromSymbol(s)

Next == UserStep \/ ProcessIncomingData \/ HandlerStep \/ ServerUpdates \/ ServerCloses

Spec == Init /\ [][Next]_vars

(* The timer of the window and the handler's thread go on.                 *)
FairSpec == Spec /\ WF_vars(ProcessIncomingData) /\ WF_vars(HandlerStep)
=============================================================================
