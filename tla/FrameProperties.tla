-------------------------- MODULE FrameProperties --------------------------
(* What is claimed of WebSocket frames and of the stream they come in.     *)
EXTENDS WebSocketStream

(* Whatever the length of a payload, and wherever it changes its form,     *)
(* calculate_frame_size() gives the frame that create_websocket_frame()    *)
(* makes the size it has, and takes no beginning of its header for a       *)
(* shorter frame; parse_websocket_frame() finds the payload behind the     *)
(* header and as long as it is: three pieces of code that do the same sums *)
(* by hand agree (ssl_websocket_client.cpp:849, 1004, 1113).               *)
SizesAreReadBack ==
    LET header == Header(Fin + OpText, request, TRUE)
        size == Len(header) + request
        Read(k) == FrameSize(SubSeq(header, 1, k))
    IN /\ \A k \in 0 .. Len(header) : Read(k) \in {0, size}
       /\ Read(Len(header)) = size
       /\ HeaderLength(header[2]) = Len(header)
       /\ StatedLength(header) = request

Pending == SubSeq(sent, messages_received_ + 1, Len(sent))

(* The receiver never loses step: the buffer and what is still on its way  *)
(* are the frames that have not been cut off, byte for byte, so that the   *)
(* next cut begins where a frame begins (ssl_websocket_client.cpp:807).    *)
ReceiverKeepsStep ==
    incoming_buffer_ \o wire = FlattenSeq([i \in DOMAIN Pending |-> Bytes[Pending[i]]])

(* What a frame means to bring the feed, if it is a text that the feed can *)
(* use and that can be inflated on its own.                                *)
Text(f) ==
    LET payload == Payload(f.kind, f.length)
    IN CASE f.length = 0 -> <<>>
         [] f.length > 0 /\ f.kind \in {"json", "masked", "fragment"} -> payload
         [] f.length > 0 /\ f.kind = "compressed" -> <<JsonStart>> \o payload
         [] OTHER -> <<>>

Texts == {Text(f) : f \in Frames}

(* Stream, sizing and parsing are a channel of texts: byte for byte, in    *)
(* order, once, whole, unmasked and inflated; frames that are no JSON      *)
(* text, or cannot be inflated, are passed over without harm to the        *)
(* others; with a worker that goes on, all arrive.  The first part of a    *)
(* text that is continued counts as a text of its own, as it does in the   *)
(* code (ssl_websocket_client.cpp:807, 1004).                              *)
FrameChannel == INSTANCE MessageChannel WITH
    Message  <- Texts,
    Readable <- Texts \ {<<>>},
    pending  <- [i \in 1 .. Len(sent) - messages_received_ |->
                    Text(sent[messages_received_ + i])]

ImplementsFrameChannel == FrameChannel!FairSpec

-----------------------------------------------------------------------------
(* Statements of the documents that do not hold of the code.               *)

(* ssl_websocket_client.hpp:49, "Full WebSocket protocol implementation    *)
(* (RFC 6455)": a text that comes in several frames is put together before *)
(* it is used.                                                             *)
OnlyWholeTextsAreReceived ==
    \A text \in ToSet(received) :
        \E f \in ToSet(sent) : f.kind # "fragment" /\ Text(f) = text

(* permessage-deflate is offered in the handshake                          *)
(* (ssl_websocket_client.cpp:626) without no_context_takeover: a           *)
(* compressed text that refers to an earlier one is received.              *)
CompressedTextsAreReceived ==
    \A i \in 1 .. messages_received_ :
        sent[i].kind \in {"compressed", "dependent"} =>
            <<JsonStart>> \o Payload(sent[i].kind, sent[i].length) \in ToSet(received)
=============================================================================
