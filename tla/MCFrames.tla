------------------------------ MODULE MCFrames ------------------------------
(* A small instance of WebSocketStream for TLC.                            *)
EXTENDS FrameProperties

F(kind, length) == [kind |-> kind, length |-> length]

(* A length of each of the two forms that fit into a small stream, and the *)
(* kinds that are passed over.                                             *)
SmallFrames == {F("json", 1), F("json", 126), F("masked", 5), F("compressed", 2),
                F("dependent", 2), F("fragment", 2), F("continuation", 1),
                F("other", 1), F("ping", 0), F("close", 2)}

(* The lengths around those at which a header changes its form.            *)
Boundaries == {0, 125, 126, 65535, 65536}
=============================================================================
