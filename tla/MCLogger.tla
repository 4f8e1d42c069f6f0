------------------------------ MODULE MCLogger ------------------------------
(* Small instances of Logger for TLC.                                      *)
EXTENDS LoggerProperties, TLC

CONSTANTS handler1

TwoThreads == {Main, handler1}
=============================================================================
