----------------------------- MODULE MCEmaCross -----------------------------
(* A small instance of EmaCross: with periods 7 and 15 an average moves by a *)
(* quarter and an eighth, so 8^(MaxTicks - 1) keeps it whole.                *)
EXTENDS EmaCross

MCMids == {0, 8^9, 3 * 8^9}
=============================================================================
