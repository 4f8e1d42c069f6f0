-------------------------- MODULE WebSocketFrames --------------------------
(***************************************************************************)
(* WebSocket frames as SSLWebSocketClient (ssl_websocket_client.cpp)       *)
(* writes and reads them: three pieces of code, create_websocket_frame(),  *)
(* calculate_frame_size() and parse_websocket_frame(), each with its own   *)
(* arithmetic.                                                             *)
(***************************************************************************)
EXTENDS Naturals, SequencesExt

Byte == 0 .. 255

Fin  == 128
Mask == 128
OpText == 1

(* What may come from the exchange.  "other" is text that is no JSON,      *)
(* "dependent" a compressed text that refers to an earlier one, "fragment" *)
(* the first part of a text, continued in a "continuation", and "masked" a *)
(* JSON text with a masking key, of which a server has no need.            *)
Kinds == {"json", "masked", "other", "compressed", "dependent", "fragment",
          "continuation", "binary", "close", "ping", "pong"}

FirstByte(kind) ==
    CASE kind \in {"json", "masked", "other"} -> Fin + OpText
      [] kind \in {"compressed", "dependent"} -> Fin + 64 + OpText
      [] kind = "fragment" -> OpText
      [] kind = "continuation" -> Fin
      [] kind = "binary" -> Fin + 2
      [] kind = "close" -> Fin + 8
      [] kind = "ping" -> Fin + 9
      [] kind = "pong" -> Fin + 10

(* Lengths stay below 2^31: the four upper bytes of eight are zero.        *)
Lengths == {n \in Nat : n <= 2147483647}

InTwoBytes(n) == <<126, n \div 256, n % 256>>

InEightBytes(n) ==
    <<127, 0, 0, 0, 0,
      n \div 16777216, (n \div 65536) % 256, (n \div 256) % 256, n % 256>>

(* Mutant: 126 is written as a length of its own.                          *)
LengthFieldLong(n) ==
    CASE n <= 126 -> <<n>>
      [] 126 < n /\ n < 65536 -> InTwoBytes(n)
      [] OTHER -> InEightBytes(n)

LengthField(n) ==
    CASE n < 126 -> <<n>>
      [] 126 <= n /\ n < 65536 -> InTwoBytes(n)
      [] OTHER -> InEightBytes(n)

MaskingKey == <<18, 52, 86, 120>>

(* The header that create_websocket_frame() makes, with a mask, and that   *)
(* of a frame of the exchange, without one.                                *)
Header(first, length, masked) ==
    LET field == LengthField(length)
    IN <<first, field[1] + IF masked THEN Mask ELSE 0>> \o Tail(field)
       \o IF masked THEN MaskingKey ELSE <<>>

Code(second)   == second % 128
Masked(second) == second >= 128

(* Bytes of the header between its second byte and the masking key.        *)
ExtraLength(second) ==
    CASE Code(second) = 126 -> 2
      [] Code(second) = 127 -> 8
      [] OTHER -> 0

Number(bytes) ==
    LET value[k \in 0 .. Len(bytes)] ==
            IF k = 0 THEN 0 ELSE 256 * value[k - 1] + bytes[k]
    IN value[Len(bytes)]

PayloadLength(second, extra) == IF extra = <<>> THEN Code(second) ELSE Number(extra)

(* Mutant: a frame's size is that of its payload and its first two bytes.  *)
FrameSizeShort(bytes) ==
    IF Len(bytes) < 2 \/ Len(bytes) < 2 + ExtraLength(bytes[2]) THEN 0
    ELSE LET n == ExtraLength(bytes[2])
         IN 2 + (IF Masked(bytes[2]) THEN 4 ELSE 0)
              + PayloadLength(bytes[2], SubSeq(bytes, 3, 2 + n))

(* calculate_frame_size(): 0 while the header's length is not there.       *)
FrameSize(bytes) ==
    IF Len(bytes) < 2 \/ Len(bytes) < 2 + ExtraLength(bytes[2]) THEN 0
    ELSE LET n == ExtraLength(bytes[2])
         IN 2 + n + (IF Masked(bytes[2]) THEN 4 ELSE 0)
              + PayloadLength(bytes[2], SubSeq(bytes, 3, 2 + n))

(* The key byte by byte over the payload: what create_websocket_frame()    *)
(* masks with it, parse_websocket_frame() unmasks with it.                 *)
Bit(n, weight) == (n \div weight) % 2
OneOf(m, n, weight) == weight * ((Bit(m, weight) + Bit(n, weight)) % 2)
Xor(m, n) ==
    OneOf(m, n, 1) + OneOf(m, n, 2) + OneOf(m, n, 4) + OneOf(m, n, 8)
      + OneOf(m, n, 16) + OneOf(m, n, 32) + OneOf(m, n, 64) + OneOf(m, n, 128)

WithKey(payload, key) ==
    [k \in 1 .. Len(payload) |-> Xor(payload[k], key[1 + ((k - 1) % 4)])]

-----------------------------------------------------------------------------
(* What the exchange puts into a frame of a kind: bytes that tell their    *)
(* places apart.  A text of JSON begins with '{', a compressed one with    *)
(* whether it can be inflated on its own.                                  *)
JsonStart   == 123
Independent == 1

Payload(kind, length) ==
    [k \in 1 .. length |->
        CASE k > 1 -> k % 256
          [] k = 1 /\ kind \in {"json", "masked", "fragment"} -> JsonStart
          [] k = 1 /\ kind = "compressed" -> Independent
          [] OTHER -> 0]

FrameBytes(f) ==
    LET masked  == f.kind = "masked"
        payload == Payload(f.kind, f.length)
    IN Header(FirstByte(f.kind), f.length, masked)
       \o IF masked THEN WithKey(payload, MaskingKey) ELSE payload

(* decompress_deflate(): a text longer than its payload, or none if there  *)
(* is nothing to inflate or zlib misses what came before.                  *)
Inflated(payload) ==
    IF payload = <<>> \/ payload[1] # Independent THEN <<>> ELSE <<JsonStart>> \o payload

-----------------------------------------------------------------------------
(* parse_websocket_frame(), which does the sums of calculate_frame_size()  *)
(* again.                                                                  *)

HeaderLength(second) ==
    (CASE second % 128 = 126 -> 4 [] second % 128 = 127 -> 10 [] OTHER -> 2)
      + (IF second >= 128 THEN 4 ELSE 0)

(* Mutant: the two bytes of a length in the wrong order.                   *)
StatedLengthSwapped(bytes) ==
    CASE bytes[2] % 128 = 126 -> 256 * bytes[4] + bytes[3]
      [] bytes[2] % 128 = 127 -> Number(SubSeq(bytes, 3, 10))
      [] OTHER -> bytes[2] % 128

StatedLength(bytes) ==
    CASE bytes[2] % 128 = 126 -> 256 * bytes[3] + bytes[4]
      [] bytes[2] % 128 = 127 -> Number(SubSeq(bytes, 3, 10))
      [] OTHER -> bytes[2] % 128

(* The payload, when the frame is as long as its header says.              *)
PayloadOf(bytes) ==
    LET header  == HeaderLength(bytes[2])
        payload == SubSeq(bytes, header + 1, header + StatedLength(bytes))
    IN IF bytes[2] >= 128
       THEN WithKey(payload, SubSeq(bytes, header - 3, header))
       ELSE payload

IsWhole(bytes) ==
    /\ Len(bytes) >= 2
    /\ Len(bytes) >= HeaderLength(bytes[2])
    /\ Len(bytes) >= HeaderLength(bytes[2]) + StatedLength(bytes)

(* The text in the frame: of opcode 1 whatever FIN says, inflated on its   *)
(* own if RSV1 is set; none of any other opcode.                           *)
ParseFrame(bytes) ==
    IF ~IsWhole(bytes) \/ bytes[1] % 16 # OpText THEN <<>>
    ELSE IF (bytes[1] \div 64) % 2 = 1 THEN Inflated(PayloadOf(bytes))
                                       ELSE PayloadOf(bytes)

(* is_valid_json_start(): '{' or '[' behind nothing but white space.       *)
Space == {32} \union 9 .. 13

IsJson(text) ==
    \E i \in 1 .. Len(text) : /\ text[i] \in {JsonStart, 91}
                              /\ \A j \in 1 .. i - 1 : text[j] \in Space

=============================================================================
