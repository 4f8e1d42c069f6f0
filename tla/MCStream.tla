------------------------------ MODULE MCStream ------------------------------
(* Small instances of DtcStream for TLC.                                   *)
EXTENDS StreamProperties

CONSTANTS handler, worker

ServerThreads == {handler, worker}
OneThread     == {handler}

(* The server's shortest messages, one of which the client cannot parse.   *)
FromServer == {"LOGON_RESPONSE", "MARKET_DATA_RESPONSE", "MARKET_DATA_REJECT"}

NoText == {0}
=============================================================================
