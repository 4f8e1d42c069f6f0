----------------------------- MODULE DtcStream -----------------------------
(***************************************************************************)
(* One direction of a DTC connection: threads that send messages under     *)
(* send_mutex_ (ClientConnection::send_message), the TCP stream, which     *)
(* hands the bytes on in pieces of any size, and the receiver that puts    *)
(* the messages together again (client_handler_thread of the server;       *)
(* ProcessIncomingData and ProcessDTCMessages of the GUI client).          *)
(*                                                                         *)
(* A byte is the number of its message and its place in it: what a message *)
(* says is a matter of DtcCodec.                                           *)
(***************************************************************************)
EXTENDS DtcCodec

CONSTANTS
    Senders,       \* threads that send on the connection
    MessageTypes,  \* types sent in this direction
    TextLengths,   \* lengths of their texts
    Chunk,         \* what one recv() takes at most (4096)
    MaxMessages    \* bound: messages sent

ASSUME StreamAssumption ==
    /\ MessageTypes \subseteq Types
    /\ TextLengths \subseteq Nat
    /\ Chunk \in Nat \ {0}
    /\ MaxMessages \in Nat

VARIABLES
    sent,      \* messages in the order their sending began
    left,      \* bytes of a sender's message that send() has not passed on
    wire,      \* bytes on their way
    buffer,    \* incoming_buffer, m_incomingBuffer
    receiver,  \* recv: waits for data; frame: looks for complete messages
    received   \* messages given to process_dtc_message(), HandleDTCResponse()

vars == <<sent, left, wire, buffer, receiver, received>>

Message == {m \in Messages(MessageTypes, TextLengths) : Fits(m)}

Size == [m \in Message |-> GetSize(m)]

(* The messages parse_message() returns something for.                     *)
Readable == {m \in Message : Parses(m)}

Byte == (1 .. MaxMessages) \X Nat

TypeOK ==
    /\ sent \in Seq(Message)
    /\ left \in [Senders -> Seq(Byte)]
    /\ wire \in Seq(Byte)
    /\ buffer \in Seq(Byte)
    /\ receiver \in {"recv", "frame"}
    /\ received \in Seq(Message)

Bytes(i, m) == [k \in 1 .. Size[m] |-> <<i, k>>]

Init ==
    /\ sent = <<>>
    /\ left = [t \in Senders |-> <<>>]
    /\ wire = <<>>
    /\ buffer = <<>>
    /\ receiver = "recv"
    /\ received = <<>>

Begin(t) ==
    /\ Len(sent) < MaxMessages
    /\ \E m \in Message :
         /\ sent' = Append(sent, m)
         /\ left' = [left EXCEPT ![t] = Bytes(Len(sent'), m)]
    /\ UNCHANGED <<wire, buffer, receiver, received>>

(* Mutant: send_message() does not lock send_mutex_.                       *)
SendBeginsUnlocked(t) == left[t] = <<>> /\ Begin(t)

(* send_message(): send_mutex_ is held until the whole message has been    *)
(* passed on.                                                              *)
SendBegins(t) == (\A u \in Senders : left[u] = <<>>) /\ Begin(t)

(* send() passes bytes on as the socket has room for them.                 *)
SendPasses(t) ==
    /\ \E n \in 1 .. Len(left[t]) :
         /\ wire' = wire \o SubSeq(left[t], 1, n)
         /\ left' = [left EXCEPT ![t] = SubSeq(@, n + 1, Len(@))]
    /\ UNCHANGED <<sent, buffer, receiver, received>>

(* Mutant: what was left in the buffer is overwritten.                     *)
ReceiveOverwrites ==
    /\ receiver = "recv"
    /\ \E n \in 1 .. Len(wire) :
         /\ n <= Chunk
         /\ buffer' = SubSeq(wire, 1, n)
         /\ wire' = SubSeq(wire, n + 1, Len(wire))
    /\ receiver' = "frame"
    /\ UNCHANGED <<sent, left, received>>

(* recv() takes what has arrived, in any piece up to its buffer's size.    *)
Receive ==
    /\ receiver = "recv"
    /\ \E n \in 1 .. Len(wire) :
         /\ n <= Chunk
         /\ buffer' = buffer \o SubSeq(wire, 1, n)
         /\ wire' = SubSeq(wire, n + 1, Len(wire))
    /\ receiver' = "frame"
    /\ UNCHANGED <<sent, left, received>>

(* The size read from the first two bytes of the buffer.  It is that of a  *)
(* message if these are the first bytes of one; other bytes may say        *)
(* anything, for which 0 stands, a size that both receivers refuse.        *)
AnnouncedSize ==
    LET i == buffer[1][1]
    IN IF buffer[1] = <<i, 1>> /\ buffer[2] = <<i, 2>> THEN Size[sent[i]] ELSE 0

MessageComplete ==
    /\ Len(buffer) >= HeaderSize
    /\ AnnouncedSize >= HeaderSize
    /\ AnnouncedSize <= Len(buffer)

(* Mutant: a message that cannot be read stays in the buffer.              *)
ProcessReadable ==
    /\ receiver = "frame"
    /\ MessageComplete
    /\ LET m == sent[buffer[1][1]]
       IN IF m \in Readable
          THEN /\ received' = Append(received, m)
               /\ buffer' = SubSeq(buffer, AnnouncedSize + 1, Len(buffer))
               /\ UNCHANGED receiver
          ELSE receiver' = "recv" /\ UNCHANGED <<received, buffer>>
    /\ UNCHANGED <<sent, left, wire>>

(* A complete message is parsed, handled if that gives a message, and      *)
(* taken from the buffer in any case.                                      *)
Process ==
    /\ receiver = "frame"
    /\ MessageComplete
    /\ LET m == sent[buffer[1][1]]
       IN received' = IF m \in Readable THEN Append(received, m) ELSE received
    /\ buffer' = SubSeq(buffer, AnnouncedSize + 1, Len(buffer))
    /\ UNCHANGED <<sent, left, wire, receiver>>

WaitForData ==
    /\ receiver = "frame"
    /\ ~MessageComplete
    /\ receiver' = "recv"
    /\ UNCHANGED <<sent, left, wire, buffer, received>>

Receiving == Receive \/ Process \/ WaitForData

Next ==
    \/ \E t \in Senders : SendBegins(t) \/ SendPasses(t)
    \/ Receiving

Spec == Init /\ [][Next]_vars

(* The peer reads, so send() comes to its end, and the receiver goes on.   *)
FairSpec ==
    /\ Spec
    /\ \A t \in Senders : WF_vars(SendPasses(t))
    /\ WF_vars(Receiving)
=============================================================================
