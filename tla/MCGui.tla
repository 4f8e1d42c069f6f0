------------------------------- MODULE MCGui -------------------------------
(* A small instance of GuiClient for TLC.                                  *)
EXTENDS GuiProperties

CONSTANTS a, b

TwoSymbols == {a, b}
OnePreset == {a}
OneDelisted == {b}
=============================================================================
