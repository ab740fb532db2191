------------------------------ MODULE TickBags ------------------------------
(***************************************************************************)
(* Ticks, and what DataFrames of ticks are here: bags, that is, how often  *)
(* each tick is in them.  Whoever reads them sorts, so the order of their  *)
(* rows decides nothing.                                                   *)
(***************************************************************************)
EXTENDS Integers, FiniteSets

CONSTANT Tick  \* ticks, [symbol, bid, ask, ts]

ASSUME TickAssumption == IsFiniteSet(Tick)

NoTicks == [t \in Tick |-> 0]
Plus(a, b) == [t \in Tick |-> a[t] + b[t]]
Rows(bag) == Cardinality(UNION {{t} \X (1..bag[t]) : t \in Tick})
=============================================================================
