----------------------------- MODULE MCSmcPureEa -----------------------------
(* A small instance of SmcPureEa: the stop is ten pips away, a fill two pips *)
(* better makes the levels of the management come before the target.         *)
EXTENDS SmcPureEa

MCPrices == {-10, 0, 9}
MCSlips == {-2}
=============================================================================
