---------------------------- MODULE MCLossLimits ----------------------------
(* A small instance of LossLimits: losses of two per cent, a limit of three, and
   an open position that stands at a great loss. *)
EXTENDS LossLimits

MCCfg == [maxDailyLoss |-> 30, maxWeeklyLoss |-> 60]
MCResults == {-2}
MCFloats == {-40}
=============================================================================
