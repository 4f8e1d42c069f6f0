--------------------------- MODULE GuiProperties ---------------------------
(* What is claimed of the GUI client and the server it talks to.           *)
EXTENDS GuiClient

(* A std::map with some of the keys.                                       *)
Maps(map, keys, values) ==
    /\ map = [k \in DOMAIN map |-> map[k]]
    /\ DOMAIN map \subseteq keys
    /\ \A k \in DOMAIN map : map[k] \in values

(* Every variable has its type, and without a connection nothing of an     *)
(* earlier one is left to be handled on the next (dtc_gui_client.cpp:508). *)
TypeOK ==
    /\ link \in {"none", "open", "lost"}
    /\ Maps(m_symbolToIdMap, Symbols, Ids)
    /\ Maps(m_idToSymbolMap, Ids, Symbols)
    /\ next_symbol_id \in Ids
    /\ m_comboSymbols \subseteq Symbols
    /\ m_hideDelisted \in BOOLEAN
    /\ m_editMarketData \in Panels
    /\ is_subscribed \in BOOLEAN
    /\ toServer \in Seq(Messages)
    /\ toClient \in Seq(Messages)
    /\ link = "none" => toServer = <<>> /\ toClient = <<>>
    /\ serving \in Serving
    /\ subscribed_symbols \subseteq Symbols
    /\ Maps(symbol_to_id, Symbols, Ids)
    /\ session_next_id \in Nat
    /\ unnumbered \in BOOLEAN
    /\ wrapped \in BOOLEAN
    /\ clicks \in Nat
    /\ updates \in Nat

IsNext(type) == toClient # <<>> /\ Received.type = type

(* An update is logged under the symbol it is for, although it only        *)
(* carries a number, the table is filled anew with each list of symbols,   *)
(* connections end and begin, and the two sides number symbols             *)
(* independently (dtc_gui_client.cpp:1239).                                *)
UpdatesAreAttributed == IsNext("update") => SymbolName(Received.id) = Received.symbol

(* As long as the user subscribes to no symbol that has no number yet, and *)
(* the numbers last, this is so.                                           *)
OneNumbering == ~unnumbered /\ ~wrapped
NumberedUpdatesAreAttributed == OneNumbering => UpdatesAreAttributed

(* Why: the server never chooses a number then, so that every number on    *)
(* either side and on its way leads to its symbol in the client's table,   *)
(* which never gives a number away twice.                                  *)
Named(s, i) == i # 0 /\ i \in DOMAIN m_idToSymbolMap /\ m_idToSymbolMap[i] = s

TableInv ==
    /\ next_symbol_id # 0
    /\ \A i \in DOMAIN m_idToSymbolMap : i # 0 /\ i < next_symbol_id
    /\ \A s \in DOMAIN m_symbolToIdMap : Named(s, m_symbolToIdMap[s])

SessionInv ==
    /\ serving.type = "subscribe" => Named(serving.symbol, serving.id)
    /\ serving.type = "unsubscribe" => serving.id = 0
    /\ \A s \in DOMAIN symbol_to_id : Named(s, symbol_to_id[s])

RequestsInv ==
    \A n \in DOMAIN toServer :
        /\ toServer[n].type = "subscribe" => Named(toServer[n].symbol, toServer[n].id)
        /\ toServer[n].type = "unsubscribe" => toServer[n].id = 0

MessagesInv ==
    \A n \in DOMAIN toClient :
        /\ toClient[n].type = "response" =>
               toClient[n].id = 0 \/ Named(toClient[n].symbol, toClient[n].id)
        /\ toClient[n].type = "update" => Named(toClient[n].symbol, toClient[n].id)

ListInv ==
    /\ subscribed_symbols \subseteq DOMAIN symbol_to_id
    /\ serving.type = "subscribe" => serving.symbol \in DOMAIN symbol_to_id

KeyInv == TableInv /\ SessionInv /\ RequestsInv /\ MessagesInv

NumberingInv == ListInv /\ (OneNumbering => KeyInv)

(* The panel does not go on saying "Subscribing": while the connection     *)
(* lasts, a subscribe on its way is answered and the answer reaches the    *)
(* panel, unless it is a reject, which the client cannot read              *)
(* (dtc_gui_client.cpp:690, 1312).                                         *)
SubscribesAreAnswered ==
    \A s \in Symbols :
        m_editMarketData = Panel("subscribing", s)
          /\ (\E n \in DOMAIN toServer : toServer[n].type = "subscribe")
        ~> m_editMarketData # Panel("subscribing", s) \/ IsNext("reject") \/ link # "open"

-----------------------------------------------------------------------------
(* Statements of the code's comments that do not hold of it, and what      *)
(* would take 3,277 lists of 20 symbols to happen.                         *)

Quiet == link = "open" /\ toServer = <<>> /\ toClient = <<>> /\ serving = Idle

(* dtc_gui_client.cpp:1314, "Reflect status in market data panel": when    *)
(* all is answered, a symbol the panel calls subscribed is.                *)
PanelIsTrue ==
    Quiet /\ m_editMarketData.status = "subscribed"
        => m_editMarketData.symbol \in subscribed_symbols

(* dtc_gui_client.cpp:1282, "Update last price in our market data if we're *)
(* subscribed": an update of the symbol the panel calls subscribed is      *)
(* shown.                                                                  *)
LiveDataIsShown ==
    IsNext("update") /\ m_editMarketData = Panel("subscribed", Received.symbol)
        => is_subscribed

(* dtc_gui_client.cpp:1154, "Assign a sequential symbol ID": the numbers   *)
(* need not be told apart from earlier ones.                               *)
SixteenBitsAreEnough == ~unnumbered => UpdatesAreAttributed
=============================================================================
