------------------------------ MODULE DtcCodec ------------------------------
(***************************************************************************)
(* How DTC messages are written and read (src/core/dtc/protocol.cpp): the  *)
(* fields serialize() writes, the fields deserialize() reads, get_size(),  *)
(* and what parse_message() makes of a message.                            *)
(*                                                                         *)
(* A message is its type and the lengths of its texts; a byte of its body  *)
(* is the field it belongs to and its place in it, so that a field has     *)
(* been read back when the bytes it was written as are read into it.       *)
(***************************************************************************)
EXTENDS Naturals, SequencesExt

HeaderSize == 4

(* The width of a text, which is written with a zero at its end.           *)
Text == 0

(* The members of the messages (protocol.hpp).                             *)
Members == [
    LOGON_REQUEST |-> {"protocol_version", "username", "password",
        "general_text_data", "integer_1", "integer_2",
        "heartbeat_interval_in_seconds", "unused_1", "trade_account",
        "hardware_identifier", "client_name"},
    LOGON_RESPONSE |-> {"protocol_version", "result", "result_text",
        "reconnect_address", "integer_1", "server_name",
        "market_depth_updates_best_bid_and_ask", "trading_is_supported",
        "order_cancel_replace_supported", "symbol_exchange_delimiter",
        "security_definitions_supported", "historical_price_data_supported",
        "resubscribe_when_market_data_feed_available",
        "market_depth_is_supported",
        "one_historical_price_data_request_per_connection",
        "use_integer_price_order_messages", "bracket_order_supported",
        "use_lookup_table_for_order_id"},
    HEARTBEAT |-> {"num_drops", "current_date_time"},
    MARKET_DATA_REQUEST |-> {"request_action", "symbol_id", "symbol", "exchange"},
    MARKET_DATA_RESPONSE |-> {"symbol_id", "symbol", "exchange", "result"},
    MARKET_DATA_REJECT |-> {"symbol_id", "reject_text"},
    MARKET_DATA_UPDATE_TRADE |-> {"symbol_id", "at_bid_or_ask", "price",
        "volume", "date_time"},
    MARKET_DATA_UPDATE_BID_ASK |-> {"symbol_id", "bid_price", "bid_quantity",
        "ask_price", "ask_quantity", "date_time", "is_bid_change",
        "is_ask_change"},
    MARKET_DEPTH_INCREMENTAL_UPDATE |-> {"symbol_id", "side", "position",
        "price", "size", "date_time"},
    POSITION_UPDATE |-> {"trade_account", "symbol", "quantity",
        "average_price", "position_identifier"},
    SECURITY_DEFINITION_FOR_SYMBOL_REQUEST |-> {"request_id", "symbol",
        "exchange", "product_type"},
    SECURITY_DEFINITION_RESPONSE |-> {"request_id", "symbol", "exchange",
        "security_type", "description", "min_price_increment",
        "price_display_format", "currency_value_per_increment",
        "has_market_depth_data", "display_price_multiplier",
        "exchange_symbol", "initial_margin_requirement",
        "maintenance_margin_requirement", "currency", "contract_size",
        "open_interest", "roll_over_date", "is_delayed", "display_name",
        "trading_disabled", "base_increment", "quote_increment",
        "base_currency", "quote_currency"}]

Types == DOMAIN Members

-----------------------------------------------------------------------------
(* serialize(): the fields each message writes, in their order, with their *)
(* widths.  A logon request and a heartbeat are a header and zeros.        *)

NoFields == <<>>

LogonResponseWrites == <<<<"result", 1>>, <<"server_name", Text>>>>

RequestWrites == <<<<"request_action", 2>>, <<"symbol_id", 2>>,
    <<"symbol", Text>>, <<"exchange", Text>>>>

ResponseWrites == <<<<"symbol_id", 2>>, <<"symbol", Text>>,
    <<"exchange", Text>>, <<"result", 1>>>>

RejectWrites == <<<<"symbol_id", 2>>, <<"reject_text", Text>>>>

TradeWrites == <<<<"symbol_id", 2>>, <<"at_bid_or_ask", 8>>, <<"price", 8>>,
    <<"volume", 8>>, <<"date_time", 8>>>>

BidAskWrites == <<<<"symbol_id", 2>>, <<"bid_price", 8>>, <<"bid_quantity", 4>>,
    <<"ask_price", 8>>, <<"ask_quantity", 4>>, <<"date_time", 8>>,
    <<"is_bid_change", 1>>, <<"is_ask_change", 1>>>>

DepthWrites == <<<<"symbol_id", 2>>, <<"side", 1>>, <<"position", 2>>,
    <<"price", 8>>, <<"size", 8>>, <<"date_time", 8>>>>

PositionWrites == <<<<"trade_account", Text>>, <<"symbol", Text>>,
    <<"quantity", 8>>, <<"average_price", 8>>, <<"position_identifier", Text>>>>

DefinitionRequestWrites == <<<<"request_id", 4>>, <<"symbol", Text>>,
    <<"exchange", Text>>, <<"product_type", Text>>>>

(* security_type is one byte, copied as four: three more come from behind  *)
(* it in memory, where padding is, and go there when they are read.        *)
DefinitionWrites == <<<<"request_id", 4>>, <<"symbol", Text>>,
    <<"exchange", Text>>, <<"description", Text>>, <<"currency", Text>>,
    <<"security_type", 1>>, <<"behind_security_type", 3>>,
    <<"min_price_increment", 4>>, <<"currency_value_per_increment", 4>>,
    <<"contract_size", 4>>, <<"has_market_depth_data", 1>>,
    <<"display_name", Text>>, <<"trading_disabled", 1>>,
    <<"base_increment", 4>>, <<"quote_increment", 4>>,
    <<"base_currency", Text>>, <<"quote_currency", Text>>>>

Written == [
    LOGON_REQUEST |-> NoFields,
    LOGON_RESPONSE |-> LogonResponseWrites,
    HEARTBEAT |-> NoFields,
    MARKET_DATA_REQUEST |-> RequestWrites,
    MARKET_DATA_RESPONSE |-> ResponseWrites,
    MARKET_DATA_REJECT |-> RejectWrites,
    MARKET_DATA_UPDATE_TRADE |-> TradeWrites,
    MARKET_DATA_UPDATE_BID_ASK |-> BidAskWrites,
    MARKET_DEPTH_INCREMENTAL_UPDATE |-> DepthWrites,
    POSITION_UPDATE |-> PositionWrites,
    SECURITY_DEFINITION_FOR_SYMBOL_REQUEST |-> DefinitionRequestWrites,
    SECURITY_DEFINITION_RESPONSE |-> DefinitionWrites]

-----------------------------------------------------------------------------
(* deserialize(): the fields each message reads, in their order, with      *)
(* their widths and with the bytes that must be left of the message, or    *)
(* deserialize() returns false.  A text goes to the next zero: most look   *)
(* for it with strnlen() among the bytes that are left, PositionUpdate and *)
(* MarketDataReject without that bound.                                    *)

(* The width of a text that takes all that is left.                        *)
Remaining == 65536

LogonResponseReads == <<<<"result", 1, 1>>, <<"server_name", Remaining, 0>>>>

RequestReads == <<<<"request_action", 2, 4>>, <<"symbol_id", 2, 2>>,
    <<"symbol", Text, 0>>, <<"exchange", Text, 1>>>>

ResponseReads == <<<<"symbol_id", 2, 3>>, <<"symbol", Text, 0>>,
    <<"exchange", Text, 1>>, <<"result", 1, 1>>>>

RejectReads == <<<<"symbol_id", 2, 2>>, <<"reject_text", Text, 0>>>>

TradeReads == <<<<"symbol_id", 2, 34>>, <<"at_bid_or_ask", 8, 0>>,
    <<"price", 8, 0>>, <<"volume", 8, 0>>, <<"date_time", 8, 0>>>>

BidAskReads == <<<<"symbol_id", 2, 36>>, <<"bid_price", 8, 0>>,
    <<"bid_quantity", 4, 0>>, <<"ask_price", 8, 0>>, <<"ask_quantity", 4, 0>>,
    <<"date_time", 8, 0>>, <<"is_bid_change", 1, 0>>, <<"is_ask_change", 1, 0>>>>

(* The size goes into the parameter of that name, not into the member.     *)
DepthReads == <<<<"symbol_id", 2, 29>>, <<"side", 1, 0>>, <<"position", 2, 0>>,
    <<"price", 8, 0>>, <<"parameter_size", 8, 0>>, <<"date_time", 8, 0>>>>

PositionReads == <<<<"trade_account", Text, 1>>, <<"symbol", Text, 1>>,
    <<"quantity", 8, 8>>, <<"average_price", 8, 8>>,
    <<"position_identifier", Text, 1>>>>

DefinitionRequestReads == <<<<"request_id", 4, 4>>, <<"symbol", Text, 0>>,
    <<"exchange", Text, 1>>, <<"product_type", Text, 1>>>>

(* Mutant: what must be left for the numbers is taken from get_size().     *)
DefinitionReadsAsSized == <<<<"request_id", 4, 4>>, <<"symbol", Text, 0>>,
    <<"exchange", Text, 1>>, <<"description", Text, 1>>, <<"currency", Text, 1>>,
    <<"security_type", 1, 21>>, <<"behind_security_type", 3, 0>>,
    <<"min_price_increment", 4, 0>>, <<"currency_value_per_increment", 4, 0>>,
    <<"contract_size", 4, 0>>, <<"not_written", 4, 0>>,
    <<"has_market_depth_data", 1, 0>>,
    <<"display_name", Text, 0>>, <<"trading_disabled", 1, 1>>,
    <<"base_increment", 4, 8>>, <<"quote_increment", 4, 0>>,
    <<"base_currency", Text, 0>>, <<"quote_currency", Text, 0>>>>

DefinitionReads == <<<<"request_id", 4, 4>>, <<"symbol", Text, 0>>,
    <<"exchange", Text, 1>>, <<"description", Text, 1>>, <<"currency", Text, 1>>,
    <<"security_type", 1, 17>>, <<"behind_security_type", 3, 0>>,
    <<"min_price_increment", 4, 0>>, <<"currency_value_per_increment", 4, 0>>,
    <<"contract_size", 4, 0>>, <<"has_market_depth_data", 1, 0>>,
    <<"display_name", Text, 0>>, <<"trading_disabled", 1, 1>>,
    <<"base_increment", 4, 8>>, <<"quote_increment", 4, 0>>,
    <<"base_currency", Text, 0>>, <<"quote_currency", Text, 0>>>>

Read == [
    LOGON_REQUEST |-> NoFields,
    LOGON_RESPONSE |-> LogonResponseReads,
    HEARTBEAT |-> NoFields,
    MARKET_DATA_REQUEST |-> RequestReads,
    MARKET_DATA_RESPONSE |-> ResponseReads,
    MARKET_DATA_REJECT |-> RejectReads,
    MARKET_DATA_UPDATE_TRADE |-> TradeReads,
    MARKET_DATA_UPDATE_BID_ASK |-> BidAskReads,
    MARKET_DEPTH_INCREMENTAL_UPDATE |-> DepthReads,
    POSITION_UPDATE |-> PositionReads,
    SECURITY_DEFINITION_FOR_SYMBOL_REQUEST |-> DefinitionRequestReads,
    SECURITY_DEFINITION_RESPONSE |-> DefinitionReads]

-----------------------------------------------------------------------------
(* The types parse_message() has a case for.                               *)
Parsed == Types \ {"HEARTBEAT", "MARKET_DATA_REJECT"}

Texts(type) == {f[1] : f \in {g \in ToSet(Written[type]) : g[2] = Text}}

(* The messages of some types whose texts have lengths in Lengths.         *)
Messages(types, Lengths) ==
    UNION {[type : {t}, length : [Texts(t) -> Lengths]] : t \in types}

Zero == <<"zero", 0>>

FieldBytes(m, f) ==
    IF f[2] = Text THEN Append([k \in 1 .. m.length[f[1]] |-> <<f[1], k>>], Zero)
                   ELSE [k \in 1 .. f[2] |-> <<f[1], k>>]

(* What serialize() has written of the message after each of its fields.   *)
Serialized(m) ==
    LET fields == Written[m.type]
        body[n \in 0 .. Len(fields)] ==
            IF n = 0 THEN <<>> ELSE body[n - 1] \o FieldBytes(m, fields[n])
    IN body

AllFields(m) == Serialized(m)[Len(Written[m.type])]

(* get_size(), without its header: a sum over the same fields by hand.     *)
BodySize(m) ==
    LET text(name) == m.length[name] + 1
    IN CASE m.type = "LOGON_REQUEST" -> 100
         [] m.type = "LOGON_RESPONSE" -> 1 + text("server_name")
         [] m.type = "HEARTBEAT" -> 20
         [] m.type = "MARKET_DATA_REQUEST" -> 2 + 2 + text("symbol") + text("exchange")
         [] m.type = "MARKET_DATA_RESPONSE" -> 2 + text("symbol") + text("exchange") + 1
         [] m.type = "MARKET_DATA_REJECT" -> 2 + text("reject_text")
         [] m.type = "MARKET_DATA_UPDATE_TRADE" -> 2 + 8 * 3 + 8
         [] m.type = "MARKET_DATA_UPDATE_BID_ASK" -> 2 + 8 + 4 + 8 + 4 + 8 + 1 + 1
         [] m.type = "MARKET_DEPTH_INCREMENTAL_UPDATE" -> 2 + 1 + 2 + 8 + 8 + 8
         [] m.type = "POSITION_UPDATE" ->
                text("trade_account") + text("symbol") + 8 * 2 + text("position_identifier")
         [] m.type = "SECURITY_DEFINITION_FOR_SYMBOL_REQUEST" ->
                4 + text("symbol") + text("exchange") + text("product_type")
         [] m.type = "SECURITY_DEFINITION_RESPONSE" ->
                4 + text("symbol") + text("exchange") + text("description")
                  + text("currency") + 4 + 4 * 4 + 1 + text("display_name") + 1
                  + 4 * 2 + text("base_currency") + text("quote_currency")

GetSize(m) == HeaderSize + BodySize(m)

(* get_size() returns 16 bits: what is longer cannot be sent, serialize()  *)
(* would write behind the buffer it made.                                  *)
Fits(m) == GetSize(m) < 65536

(* serialize() writes the fields into a buffer of get_size() zeros; what   *)
(* does not go in would be written behind it.                              *)
Body(m) ==
    [k \in 1 .. BodySize(m) |->
        IF k <= Len(AllFields(m)) THEN AllFields(m)[k] ELSE Zero]

(* The bytes a field of the message is read from when what is before it    *)
(* has been read.                                                          *)
FieldRead(rest, f) ==
    CASE f[2] = Text ->
           LET ends == {k \in 1 .. Len(rest) : rest[k] = Zero}
           IN SubSeq(rest, 1, CHOOSE k \in ends : \A e \in ends : k <= e)
      [] f[2] = Remaining -> rest
      [] OTHER -> SubSeq(rest, 1, f[2])

(* Reading goes on while enough bytes are left.  A field that would come   *)
(* from behind the message, looked for or not, has not been read either.   *)
CanRead(rest, f) ==
    /\ f[3] <= Len(rest)
    /\ f[2] = Text => Zero \in ToSet(rest)
    /\ f[2] # Remaining => f[2] <= Len(rest)

(* A field has arrived if it gets the bytes that were written for it.      *)
ReadField(m, state, f) ==
    IF ~state.ok \/ ~CanRead(state.rest, f)
    THEN [state EXCEPT !.ok = FALSE]
    ELSE LET bytes == FieldRead(state.rest, f)
         IN [ok |-> TRUE,
             rest |-> SubSeq(state.rest, Len(bytes) + 1, Len(state.rest)),
             fields |-> state.fields \cup
                 {w[1] : w \in {v \in ToSet(Written[m.type]) :
                                  v[1] = f[1] /\ FieldBytes(m, v) = bytes}}]

(* What deserialize() has read of the message after each of its fields.    *)
Reading(m) ==
    LET fields == Read[m.type]
        state[n \in 0 .. Len(fields)] ==
            IF n = 0 THEN [ok |-> TRUE, rest |-> Body(m), fields |-> {}]
                     ELSE ReadField(m, state[n - 1], fields[n])
    IN state

Deserialize(m) == Reading(m)[Len(Read[m.type])]

(* Whether parse_message() returns a message, not nullptr.                 *)
Parses(m) == m.type \in Parsed /\ Deserialize(m).ok
=============================================================================
