-------------------------- MODULE StreamProperties --------------------------
(* What is claimed of DtcStream and of the messages it carries.            *)
EXTENDS DtcStream

(* The bytes the receiver is not done with, in their order: in its buffer, *)
(* on their way, and not yet passed on by the thread that sends.           *)
Sending == {t \in Senders : left[t] # <<>>}
Unsent  == IF Sending = {} THEN <<>> ELSE left[CHOOSE t \in Sending : TRUE]
Ahead   == buffer \o wire \o Unsent

(* The first message the receiver is not done with.                        *)
Current == IF Ahead = <<>> THEN Len(sent) + 1 ELSE Ahead[1][1]

OneSender == \A t, u \in Sending : t = u

(* Every byte of the messages from number first on is ahead.               *)
NothingIsLost(ahead, first) ==
    \A i \in first .. Len(sent) : \A k \in 1 .. Size[sent[i]] :
        \E j \in 1 .. Len(ahead) : ahead[j] = <<i, k>>

(* A byte has its message around it, with no other message inside.         *)
MessageAround(ahead, j, i, n) ==
    /\ ahead[j] = <<i, n>>
    /\ \A k \in 1 .. Size[sent[i]] :
          j - n + k \in 1 .. Len(ahead) /\ ahead[j - n + k] = <<i, k>>

MessagesAreWhole(ahead) ==
    \A j \in 1 .. Len(ahead) : \E i \in 1 .. Len(sent) : \E n \in 1 .. Size[sent[i]] :
        MessageAround(ahead, j, i, n)

(* The order of the stream is that in which messages were sent; no byte is *)
(* there twice.                                                            *)
Before(b, c) == b[1] < c[1] \/ (b[1] = c[1] /\ b[2] < c[2])

BytesAreInOrder(ahead) ==
    \A k \in 1 .. Len(ahead) : \A j \in 1 .. k - 1 : Before(ahead[j], ahead[k])

(* Whatever pieces TCP makes of the stream and whichever threads send, the *)
(* buffer begins with the first byte of a message, and what follows are    *)
(* the bytes of all messages not yet processed, none lost, none twice, no  *)
(* message inside another (send_message under send_mutex_, the erase at    *)
(* the end of the framing loop).                                           *)
StreamKeepsMessages ==
    /\ OneSender
    /\ LET ahead == Ahead
       IN /\ NothingIsLost(ahead, Current)
          /\ MessagesAreWhole(ahead)
          /\ BytesAreInOrder(ahead)

(* With the types of the variables it is inductive.                        *)
StreamInv == TypeOK /\ StreamKeepsMessages

(* Stream and framing implement a channel of messages: in order, once,     *)
(* whole.  A message that parse_message() does not know disturbs no other: *)
(* it neither stays at the head of the buffer nor takes others with it,    *)
(* and no message waits for a later one to be pushed out by it.            *)
Pending == SubSeq(sent, Current, Len(sent))

Channel == INSTANCE MessageChannel WITH
    pending <- Pending, Readable <- Readable

ImplementsChannel == Channel!FairSpec

(* The members of the messages that do not arrive: a logon request and a   *)
(* heartbeat say nothing, a logon response has its text and most flags     *)
(* left out, a definition those the server never sets; and the size of a   *)
(* depth update is read into something else.                               *)
Lost == [
    LOGON_REQUEST |-> Members.LOGON_REQUEST,
    LOGON_RESPONSE |-> Members.LOGON_RESPONSE \ {"result", "server_name"},
    HEARTBEAT |-> Members.HEARTBEAT,
    MARKET_DATA_REQUEST |-> {},
    MARKET_DATA_RESPONSE |-> {},
    MARKET_DATA_REJECT |-> {},
    MARKET_DATA_UPDATE_TRADE |-> {},
    MARKET_DATA_UPDATE_BID_ASK |-> {},
    MARKET_DEPTH_INCREMENTAL_UPDATE |-> {"size"},
    POSITION_UPDATE |-> {},
    SECURITY_DEFINITION_FOR_SYMBOL_REQUEST |-> {},
    SECURITY_DEFINITION_RESPONSE |-> {"price_display_format",
        "display_price_multiplier", "exchange_symbol",
        "initial_margin_requirement", "maintenance_margin_requirement",
        "open_interest", "roll_over_date", "is_delayed"}]

(* serialize() stays inside the buffer that get_size() made.               *)
StaysInside(m) == Len(AllFields(m)) <= BodySize(m)

(* deserialize() gives all members of the message their values again, save *)
(* those that are lost.                                                    *)
IsReadBack(m) ==
    /\ StaysInside(m)
    /\ Deserialize(m).ok
    /\ Members[m.type] \ Lost[m.type] \subseteq Deserialize(m).fields

(* Every message type, with each of its texts empty or not.                *)
AllLayoutsAreReadBack == \A m \in Messages(Types, {0, 2}) : IsReadBack(m)

(* serialize(), deserialize() and get_size(), each with sums of its own,   *)
(* agree on all of these and on whatever the receiver is given: nothing is *)
(* written behind the buffer, no field is read at an offset where another  *)
(* one was written, and no written message is refused.                     *)
WhatIsWrittenIsRead ==
    AllLayoutsAreReadBack /\ \A m \in ToSet(received) : IsReadBack(m) /\ Parses(m)

(* A promise the code does not keep.  server.cpp ("Echo heartbeat back")   *)
(* and the GUI client have code for heartbeats, and the client for the     *)
(* reject of a subscription: what is sent to them reaches it.              *)
SentMessagesAreReceived == Len(received) = Current - 1
=============================================================================
