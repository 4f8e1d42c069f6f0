----------------------------- MODULE MCExchange -----------------------------
(* Small instances of ExchangeConnection for TLC.                          *)
EXTENDS ExchangeProperties, TLC

CONSTANTS h1, h2, btc, eth

OneCaller   == {h1}
TwoCallers  == {h1, h2}
OneProduct  == {btc}
TwoProducts == {btc, eth}

CallerSymmetry == Permutations(Callers) \cup Permutations(Products)
=============================================================================
