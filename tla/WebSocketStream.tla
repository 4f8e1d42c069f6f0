-------------------------- MODULE WebSocketStream --------------------------
(***************************************************************************)
(* Frames on their way from the exchange to the feed: the byte stream in   *)
(* pieces of any size, and process_incoming_messages() of                  *)
(* SSLWebSocketClient, which appends what SSL_read() gives to              *)
(* incoming_buffer_ and cuts complete frames off.                          *)
(***************************************************************************)
EXTENDS WebSocketFrames

CONSTANTS
    Frames,     \* frames the exchange sends: kind and payload length
    Requests,   \* payload lengths of what the client sends
    Chunk,      \* what one read takes at most (4096)
    MaxFrames   \* bound: frames sent

ASSUME FramesAssumption ==
    /\ Frames \subseteq [kind : Kinds, length : Lengths]
    /\ Requests \subseteq Lengths
    /\ 0 \in Requests
    /\ Chunk \in Nat \ {0}
    /\ MaxFrames \in Nat

VARIABLES
    sent,               \* frames sent
    wire,               \* bytes of them that are not read yet
    incoming_buffer_,   \* bytes read and not yet cut into frames
    messages_received_, \* frames cut off
    receiver,           \* where process_incoming_messages() is: read, frame
    received,           \* the texts the feed was called with
    request             \* payload length of what the client sent last

vars == <<sent, wire, incoming_buffer_, messages_received_, receiver, received, request>>

Bytes == [f \in Frames |-> FrameBytes(f)]

TypeOK ==
    /\ sent \in Seq(Frames)
    /\ wire \in Seq(Byte)
    /\ incoming_buffer_ \in Seq(Byte)
    /\ messages_received_ \in 0 .. Len(sent)
    /\ receiver \in {"read", "frame"}
    /\ received \in Seq(Seq(Byte))
    /\ request \in Requests

Init ==
    /\ sent = <<>>
    /\ wire = <<>>
    /\ incoming_buffer_ = <<>>
    /\ messages_received_ = 0
    /\ receiver = "read"
    /\ received = <<>>
    /\ request = 0

ExchangeSends ==
    /\ Len(sent) < MaxFrames
    /\ \E f \in Frames : /\ sent' = Append(sent, f)
                         /\ wire' = wire \o Bytes[f]
    /\ UNCHANGED <<incoming_buffer_, messages_received_, receiver, received, request>>

(* send_message().                                                         *)
ClientSends ==
    /\ \E length \in Requests : request' = length
    /\ UNCHANGED <<sent, wire, incoming_buffer_, messages_received_, receiver, received>>

(* receive_ssl_data() gives some of what has arrived.                      *)
Receive ==
    /\ receiver = "read"
    /\ \E n \in 1 .. Chunk :
         /\ n <= Len(wire)
         /\ incoming_buffer_' = incoming_buffer_ \o SubSeq(wire, 1, n)
         /\ wire' = SubSeq(wire, n + 1, Len(wire))
    /\ receiver' = "frame"
    /\ UNCHANGED <<sent, messages_received_, received, request>>

Complete(size) == size # 0 /\ size <= Len(incoming_buffer_)

Give(text) == received' = IF IsJson(text) THEN Append(received, text) ELSE received

(* Mutant: what the feed has no use for stays in the buffer.               *)
CutUsed ==
    LET size == FrameSize(incoming_buffer_)
        text == ParseFrame(SubSeq(incoming_buffer_, 1, size))
    IN /\ receiver = "frame"
       /\ Complete(size)
       /\ incoming_buffer_' = IF IsJson(text)
                              THEN SubSeq(incoming_buffer_, size + 1, Len(incoming_buffer_))
                              ELSE incoming_buffer_
       /\ receiver' = IF IsJson(text) THEN "frame" ELSE "read"
       /\ messages_received_' = messages_received_ + 1
       /\ Give(text)
       /\ UNCHANGED <<sent, wire, request>>

(* One round of the loop: the frame is taken from the buffer, parsed, and  *)
(* the feed called with its text, if it is one.                            *)
Cut ==
    LET size == FrameSize(incoming_buffer_)
    IN /\ receiver = "frame"
       /\ Complete(size)
       /\ Give(ParseFrame(SubSeq(incoming_buffer_, 1, size)))
       /\ incoming_buffer_' = SubSeq(incoming_buffer_, size + 1, Len(incoming_buffer_))
       /\ messages_received_' = messages_received_ + 1
       /\ UNCHANGED <<sent, wire, receiver, request>>

WaitForData ==
    /\ receiver = "frame"
    /\ ~Complete(FrameSize(incoming_buffer_))
    /\ receiver' = "read"
    /\ UNCHANGED <<sent, wire, incoming_buffer_, messages_received_, received, request>>

Receiving == Receive \/ Cut \/ WaitForData

Next == ExchangeSends \/ ClientSends \/ Receiving

Spec == Init /\ [][Next]_vars

(* The worker goes on as long as there is something to read.               *)
FairSpec == Spec /\ WF_vars(Receiving)
=============================================================================
