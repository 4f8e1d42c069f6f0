--------------------------- MODULE MessageChannel ---------------------------
(* What the two ends of a DTC connection may take for granted: messages    *)
(* arrive whole, once and in the order they were sent, and those that the  *)
(* receiver cannot read are passed over without harm to the others.        *)
EXTENDS Naturals, Sequences

CONSTANTS
    Message,
    Readable   \* the messages the receiver can read

VARIABLES pending, received

Init == pending = <<>> /\ received = <<>>

Send(m) ==
    /\ pending' = Append(pending, m)
    /\ UNCHANGED received

Deliver ==
    /\ pending # <<>>
    /\ pending' = Tail(pending)
    /\ received' = IF Head(pending) \in Readable THEN Append(received, Head(pending))
                                              ELSE received

Next == (\E m \in Message : Send(m)) \/ Deliver

Spec     == Init /\ [][Next]_<<pending, received>>
FairSpec == Spec /\ WF_<<pending, received>>(Deliver)
=============================================================================
