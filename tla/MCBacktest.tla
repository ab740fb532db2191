------------------------------ MODULE MCBacktest ------------------------------
(***************************************************************************)
(* A small instance of Backtest: two symbols, two days, ticks of one time, *)
(* one of them without a bid.                                              *)
(***************************************************************************)
EXTENDS Backtest

T(symbol, bid, ts) == [symbol |-> symbol, bid |-> bid, ask |-> bid + 1, ts |-> ts]

MCTick == {T("EURUSD", 10, 1), [symbol |-> "EURUSD", bid |-> NaN, ask |-> 12, ts |-> 1],
           T("EURUSD", 11, 2), T("XAUUSD", 90, 3)}

MCDayOf == [t \in MCTick |-> IF t.ts < 3 THEN 1 ELSE 2]

MCHeader == {{"local time", "bid", "ask", "askvolume"}, {"time", "bid"}}

R(full, ts, bid, ask) == [full |-> full, ts |-> ts, bid |-> bid, ask |-> ask]

MCRow == {R(TRUE, 1, 10, 11), R(TRUE, 2, 11, 12), R(TRUE, Unreadable, 10, 11),
          R(FALSE, 1, 10, 11), R(TRUE, 1, 11, 10), R(TRUE, 1, NaN, 12)}

S(train, test, step) == [train |-> train, test |-> test, step |-> step]

MCSizes == {S(1, 1, 1), S(2, 1, 1), S(1, 2, 2), S(1, 1, 2), S(0, 1, 1)}

MCFasts == <<2, 5>>
MCSlows == <<4, 6>>

O(trades, net, ratio) == [trades |-> trades, net |-> net, ratio |-> ratio]

MCOutcomes == {O(0, 0, NoRatio), O(5, -1, -2), O(6, 2, 1)}
=============================================================================
