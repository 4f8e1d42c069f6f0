---------------------------- MODULE MCMarketData ----------------------------
(* Small instances of MarketDataServer for TLC.                            *)
EXTENDS MarketDataProperties, TLC

CONSTANTS c1, c2, btc, usdc, btcSlash

OneClient  == {c1}
TwoClients == {c1, c2}

PlainSymbols   == {btc, usdc}
SpelledSymbols == {btc, usdc, btcSlash}
TwoProducts    == {btc, usdc}
SlashSymbols   == {btc, btcSlash}
OneProduct     == {btc}

PlainProductOf   == [s \in PlainSymbols |-> s]
SpelledProductOf == [s \in SpelledSymbols |-> IF s = btcSlash THEN btc ELSE s]
SlashProductOf   == [s \in SlashSymbols |-> btc]

(* The messages sent feed back into nothing, and a broadcast only holds up *)
(* the worker and remove_client(): what is reached with one under way is   *)
(* reached without it.  Runs whose properties mention neither leave both   *)
(* out of the view, so that they explore no broadcast beyond its start.    *)
ServerView == <<feedVars, sessionVars, handlerVars, delisted, feedStored, requestCount>>

ClientSymmetry == Permutations(TwoClients)
=============================================================================
