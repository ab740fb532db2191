---------------------------- MODULE MCRiskManager ----------------------------
(***************************************************************************)
(* A small instance of RiskManager: two symbols of one cluster, accounts   *)
(* on either side of each loss limit, books on either side of each cap.    *)
(***************************************************************************)
EXTENDS RiskManager

MCCfg ==
  [maxRisk |-> 5, maxDailyLoss |-> 30, maxWeeklyLoss |-> 60, maxOpen |-> 3,
   maxUsd |-> 200, maxCluster |-> 150, blackout |-> 5, minSeconds |-> 2,
   farPct |-> 5, requireStop |-> TRUE]

MCMeta ==
  [s \in {"EURUSD", "XAUUSD"} |->
    [contract |-> 1, minLot |-> 1, lotStep |-> 1,
     cluster |-> IF s = "EURUSD" THEN "USD_MAJORS" ELSE "METALS"]]

MCClusterMembers == [c \in {"USD_MAJORS"} |-> {"EURUSD", "GBPUSD"}]

MCUsdSymbols == {"EURUSD", "GBPUSD", "XAUUSD"}

Intent(id, symbol, side, lots, entry, stop) ==
  [id |-> id, symbol |-> symbol, side |-> side, lots |-> lots,
   entry |-> entry, stop |-> stop]

MCIntents ==
  {Intent(id, "EURUSD", "buy", 10, 1000, 990) : id \in Ids}
    \cup {Intent(id, "XAUUSD", "sell", 10, 1000, 1010) : id \in Ids}
    \cup {Intent("a", "EURUSD", "buy", 10, 1000, NoStop),
          Intent("a", "NAS100", "buy", 10, 1000, 990),
          Intent("a", "EURUSD", "buy", 10, 1010, 1000)}

MCAccounts ==
  {[equity |-> 100000, pnlToday |-> 0, pnlWeek |-> 0],
   [equity |-> 100000, pnlToday |-> -3000, pnlWeek |-> -3000],
   [equity |-> 100000, pnlToday |-> 0, pnlWeek |-> -6000],
   [equity |-> 0, pnlToday |-> 0, pnlWeek |-> 0]}

Held(ticket, symbol, side, lots) ==
  [ticket |-> ticket, symbol |-> symbol, side |-> side, lots |-> lots]

MCBooks ==
  {{}, {Held(1, "EURUSD", "buy", 140)}, {Held(1, "EURUSD", "buy", 145)},
   {Held(k, "EURUSD", "buy", 1) : k \in 1..3},
   {Held(1, "GBPUSD", "buy", 100), Held(2, "XAUUSD", "buy", 100)}}

MCTicks == {[mid |-> 1000, minute |-> m] : m \in {0, 20}}

MCNews == {[symbol |-> "USD", at |-> 0, window |-> 5], [symbol |-> "EURUSD", at |-> 20, window |-> 10]}
=============================================================================
