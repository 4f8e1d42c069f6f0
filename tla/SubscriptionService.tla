------------------------ MODULE SubscriptionService -------------------------
(***************************************************************************)
(* What the DTC server promises each of its clients about market data,     *)
(* with no word about threads, locks, the feed or the exchange.            *)
(*                                                                         *)
(* A client has at most one request outstanding.  Its list of symbols      *)
(* changes only through its own requests: a subscribe adds its symbol when *)
(* it is granted and leaves the list alone when it is refused, an          *)
(* unsubscribe removes its symbol as soon as it is received.  Every        *)
(* request is answered once, with the id it was made for; a refusal does   *)
(* not name the symbol.                                                    *)
(*                                                                         *)
(* Updates reach one client at a time.  One is made for a client that      *)
(* lists the symbol, its messages (one for a trade, up to three for level2 *)
(* data) are each given the id of the client's newest subscribe, and sent. *)
(* So a client may still be sent the rest of one update after its          *)
(* unsubscribe was answered, and a message numbered before its newest      *)
(* subscribe, but no more than that.                                       *)
(*                                                                         *)
(* MarketDataProperties states that MarketDataServer implements it.        *)
(***************************************************************************)
EXTENDS Naturals

CONSTANTS Clients, NoClient, Symbols, Products, Ids, NoId, NoSymbol

VARIABLES
    list,     \* the symbols each client is subscribed to
    ids,      \* the id each client's updates for a symbol carry
    asked,    \* the client's outstanding request
    verdict,  \* has it been decided, and how
    coming,   \* the update on its way, if any, and to whom
    told      \* the newest message each client was sent

vars == <<list, ids, asked, verdict, coming, told>>

Nothing == [action |-> "snapshot", symbol |-> NoSymbol, id |-> NoId]
Silence == [type |-> "none", id |-> NoId, symbols |-> {}]

(* An update: whom it is for, what it tells, the id its next message has   *)
(* been given, and how many messages are left to send.                     *)
NoneComing == [client |-> NoClient, type |-> "none", symbol |-> NoSymbol, id |-> NoId, left |-> 0]

Init ==
    /\ list = [c \in Clients |-> {}]
    /\ ids = [c \in Clients |-> [s \in Symbols |-> NoId]]
    /\ asked = [c \in Clients |-> Nothing]
    /\ verdict = [c \in Clients |-> "none"]
    /\ coming = NoneComing
    /\ told = [c \in Clients |-> Silence]

(* A snapshot request is refused as it comes in, the others are decided    *)
(* later.                                                                  *)
Ask(c, action, s, i) ==
    /\ asked[c] = Nothing
    /\ asked' = [asked EXCEPT ![c] = [action |-> action, symbol |-> s, id |-> i]]
    /\ verdict' = [verdict EXCEPT ![c] = IF action = "snapshot" THEN "refused" ELSE "none"]
    /\ list' = [list EXCEPT ![c] = IF action = "unsubscribe" THEN @ \ {s} ELSE @]
    /\ ids' = IF action = "subscribe" THEN [ids EXCEPT ![c][s] = i] ELSE ids
    /\ UNCHANGED <<coming, told>>

(* Only a subscribe can be refused.                                        *)
Grant(c) ==
    /\ asked[c] # Nothing
    /\ verdict[c] = "none"
    /\ verdict' = [verdict EXCEPT ![c] = "granted"]
    /\ list' = [list EXCEPT ![c] = IF asked[c].action = "subscribe"
                                   THEN @ \cup {asked[c].symbol} ELSE @]
    /\ UNCHANGED <<ids, asked, coming, told>>

Refuse(c) ==
    /\ asked[c] # Nothing
    /\ asked[c].action = "subscribe"
    /\ verdict[c] = "none"
    /\ verdict' = [verdict EXCEPT ![c] = "refused"]
    /\ UNCHANGED <<list, ids, asked, coming, told>>

Answer(c) ==
    /\ asked[c] # Nothing
    /\ verdict[c] # "none"
    /\ told' = [told EXCEPT ![c] =
           [type |-> IF verdict[c] = "granted" THEN "response" ELSE "reject",
            id |-> asked[c].id,
            symbols |-> IF verdict[c] = "granted" THEN {asked[c].symbol} ELSE {}]]
    /\ asked' = [asked EXCEPT ![c] = Nothing]
    /\ verdict' = [verdict EXCEPT ![c] = "none"]
    /\ UNCHANGED <<list, ids, coming>>

Offer(c) ==
    /\ asked[c] = Nothing
    /\ \E offered \in SUBSET Products :
         told' = [told EXCEPT ![c] = [type |-> "definition", id |-> NoId, symbols |-> offered]]
    /\ UNCHANGED <<list, ids, asked, verdict, coming>>

(* A client's connection is given up only while nothing is on its way.     *)
Leave(c) ==
    /\ asked[c] = Nothing
    /\ coming.client # c
    /\ list' = [list EXCEPT ![c] = {}]
    /\ ids' = [ids EXCEPT ![c] = [s \in Symbols |-> NoId]]
    /\ told' = [told EXCEPT ![c] = Silence]
    /\ UNCHANGED <<asked, verdict, coming>>

(* An update is made for a client that lists the symbol at that moment.    *)
Update(c, type, p) ==
    /\ coming = NoneComing
    /\ p \in list[c]
    /\ \E n \in IF type = "trade" THEN {1} ELSE 1 .. 3 :
         coming' = [client |-> c, type |-> type, symbol |-> p, id |-> NoId, left |-> n]
    /\ UNCHANGED <<list, ids, asked, verdict, told>>

(* Its next message takes the id the symbol has now.                       *)
Number ==
    /\ coming # NoneComing
    /\ coming.id = NoId
    /\ coming' = [coming EXCEPT !.id = ids[coming.client][coming.symbol]]
    /\ coming'.id # NoId
    /\ UNCHANGED <<list, ids, asked, verdict, told>>

Send ==
    /\ coming.id # NoId
    /\ told' = [told EXCEPT ![coming.client] =
           [type |-> coming.type, id |-> coming.id, symbols |-> {coming.symbol}]]
    /\ coming' = IF coming.left = 1 THEN NoneComing
                 ELSE [coming EXCEPT !.id = NoId, !.left = @ - 1]
    /\ UNCHANGED <<list, ids, asked, verdict>>

Decide(c) == Grant(c) \/ Refuse(c)

Next ==
    \/ \E c \in Clients :
          \/ \E action \in {"subscribe", "unsubscribe", "snapshot"}, s \in Symbols, i \in Ids :
                Ask(c, action, s, i)
          \/ Decide(c) \/ Answer(c) \/ Offer(c) \/ Leave(c)
          \/ \E type \in {"trade", "level2"}, p \in Products : Update(c, type, p)
    \/ Number \/ Send

Spec == Init /\ [][Next]_vars

(* Every request is decided and answered, whatever the others do.          *)
FairSpec == Spec /\ \A c \in Clients : WF_vars(Decide(c) \/ Answer(c))
=============================================================================
