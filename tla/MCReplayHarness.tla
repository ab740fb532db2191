--------------------------- MODULE MCReplayHarness ---------------------------
(***************************************************************************)
(* A small instance of ReplayHarness: a pair and a metal, a strategy that  *)
(* may buy and sell both, prices that stay, hit stops, hit targets and     *)
(* gap far beyond a stop.                                                  *)
(***************************************************************************)
EXTENDS ReplayHarness, TLC

MCCfg ==
  [maxRisk |-> 5, maxDailyLoss |-> 30, maxWeeklyLoss |-> 60, maxOpen |-> 3,
   maxUsd |-> 100, maxCluster |-> 60, blackout |-> 5, minSeconds |-> 0,
   farPct |-> 5, requireStop |-> TRUE]

MCMeta ==
  [s \in {"EURUSD", "XAUUSD"} |->
    [contract |-> 1, minLot |-> 1, lotStep |-> 1,
     cluster |-> IF s = "EURUSD" THEN "USD_MAJORS" ELSE "METALS"]]

MCClusterMembers == [c \in {"USD_MAJORS"} |-> {"EURUSD", "GBPUSD"}]

MCUsdSymbols == {"EURUSD", "XAUUSD"}

Intent(id, symbol, side, lots, entry, stop, target) ==
  [id |-> id, symbol |-> symbol, side |-> side, lots |-> lots,
   entry |-> entry, stop |-> stop, target |-> target]

MCIntents ==
  UNION {{Intent(id, "EURUSD", "buy", 30, 1000, 997, 1006),
          Intent(id, "EURUSD", "sell", 30, 999, 1002, NoStop),
          Intent(id, "XAUUSD", "buy", 30, 1000, 997, 1006)} : id \in Ids}

Quoted(symbol, bid) == [symbol |-> symbol, bid |-> bid, ask |-> bid + 1]

MCTicks ==
  {Quoted("EURUSD", 999), Quoted("EURUSD", 1006), Quoted("EURUSD", 600),
   Quoted("XAUUSD", 999), Quoted("XAUUSD", 600)}

IdSymmetry == Permutations(Ids)
=============================================================================
