---------------------------- MODULE FeedSession ----------------------------
(***************************************************************************)
(* What the connection to an exchange promises to the one who owns it and  *)
(* listens: sessions one after the other; messages are delivered in a      *)
(* session only, one at a time; a session is closed when the message in    *)
(* delivery has been dealt with; the owner is told of a session while it   *)
(* is open, and of its end only once nothing can be delivered any more.    *)
(***************************************************************************)

VARIABLES
    session,     \* closed, open, closing
    delivering,  \* the listener is being called
    told         \* what the owner was told last: none, up, down

vars == <<session, delivering, told>>

Init ==
    /\ session = "closed"
    /\ delivering = FALSE
    /\ told = "none"

Open ==
    /\ session = "closed"
    /\ told # "up"
    /\ session' = "open"
    /\ UNCHANGED <<delivering, told>>

TellUp ==
    /\ session = "open"
    /\ told' = "up"
    /\ UNCHANGED <<session, delivering>>

Deliver ==
    /\ session # "closed"
    /\ ~delivering
    /\ delivering' = TRUE
    /\ UNCHANGED <<session, told>>

Delivered ==
    /\ delivering
    /\ delivering' = FALSE
    /\ UNCHANGED <<session, told>>

(* Only a session the owner knows of is closed.                            *)
Closing ==
    /\ session = "open"
    /\ told = "up"
    /\ session' = "closing"
    /\ UNCHANGED <<delivering, told>>

Closed ==
    /\ session = "closing"
    /\ ~delivering
    /\ session' = "closed"
    /\ UNCHANGED <<delivering, told>>

TellDown ==
    /\ session = "closed"
    /\ told = "up"
    /\ told' = "down"
    /\ UNCHANGED <<session, delivering>>

Next == Open \/ TellUp \/ Deliver \/ Delivered \/ Closing \/ Closed \/ TellDown

Spec == Init /\ [][Next]_vars

(* A session that is being closed comes to its end, and the owner is told. *)
FairSpec == Spec /\ WF_vars(Delivered) /\ WF_vars(Closed) /\ WF_vars(TellDown)
=============================================================================
