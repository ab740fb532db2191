---------------------------- MODULE MCEaWatchdog ----------------------------
(* EaWatchdog for TLC, with shorter times than the code's 60, 3 and 3 s. *)
EXTENDS EaWatchdog
=============================================================================
