---------------------------- MODULE MCBrainService ----------------------------
(* A small instance of BrainService. *)
EXTENDS BrainService
=============================================================================
