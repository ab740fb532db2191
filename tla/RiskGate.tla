------------------------------ MODULE RiskGate ------------------------------
(***************************************************************************)
(* The stateless checks of RiskManager.check (brain/risk_manager.py): what *)
(* one order intent, the account, the open positions, the news events and  *)
(* the last tick decide on their own.  The checks that read the manager's  *)
(* own memory (kill switch, rate limit, idempotency) are in RiskManager.   *)
(*                                                                         *)
(* Numbers are integers: lots in hundredths, prices in points, money in    *)
(* account units, ratios of the configuration in thousandths, and the time *)
(* of ticks and news events in minutes.                                    *)
(***************************************************************************)
EXTENDS Integers, FiniteSets, FiniteSetsExt

CONSTANTS
  Cfg,             \* RiskConfig: the record of the configured limits
  Meta,            \* symbol |-> [contract, minLot, lotStep, cluster]
  ClusterMembers,  \* cluster name |-> set of symbols
  UsdSymbols,      \* the symbols whose name contains "USD"
  NoStop           \* the stop_loss None

-----------------------------------------------------------------------------
Abs(n) == IF n < 0 THEN -n ELSE n

SignedLots(p) == IF p.side = "buy" THEN p.lots ELSE -p.lots

NetLots(positions, symbols) ==
  MapThenSumSet(SignedLots, {p \in positions : p.symbol \in symbols})

\* "pnl_today <= -max_daily_loss * equity": with equity 0 and no loss at all
\* the two sides are equal and the account counts as breached.
DailyLossBreached(account) ==
  1000 * account.pnlToday <= -(Cfg.maxDailyLoss * account.equity)

WeeklyLossBreached(account) ==
  1000 * account.pnlWeek <= -(Cfg.maxWeeklyLoss * account.equity)

RoomForPosition_OffByOne(positions) == Cardinality(positions) <= Cfg.maxOpen

RoomForPosition(positions) == Cardinality(positions) < Cfg.maxOpen

StopPresent(intent) == Cfg.requireStop => intent.stop # NoStop

KnownSymbol(intent) == intent.symbol \in DOMAIN Meta

TradeRiskOk(intent, account) ==
  intent.stop # NoStop =>
    LET distance == Abs(intent.entry - intent.stop) IN
      /\ distance # 0
      /\ 1000 * distance * intent.lots * Meta[intent.symbol].contract
           <= Cfg.maxRisk * account.equity

ClusterSymbols(symbol) ==
  LET cluster == Meta[symbol].cluster IN
    {symbol} \cup
      (IF cluster \in DOMAIN ClusterMembers THEN ClusterMembers[cluster] ELSE {})

ClusterNetOk_BeforeEntry(intent, positions) ==
  Abs(NetLots(positions, ClusterSymbols(intent.symbol))) <= Cfg.maxCluster

ClusterNetOk(intent, positions) ==
  Abs(NetLots(positions, ClusterSymbols(intent.symbol)) + SignedLots(intent))
    <= Cfg.maxCluster

\* The net of the USD pairs is tested for every intent; only an intent on a
\* USD pair is added to it.
UsdNetOk(intent, positions) ==
  LET own == IF intent.symbol \in UsdSymbols THEN SignedLots(intent) ELSE 0
  IN  Abs(NetLots(positions, UsdSymbols) + own) <= Cfg.maxUsd

\* NewsCalendar.has_high_impact_within: the events of the symbol itself and,
\* for a USD pair, the events filed under "USD".
InBlackout(newsEvents, symbol, minute) ==
  \E e \in newsEvents :
    /\ e.symbol = symbol \/ (symbol \in UsdSymbols /\ e.symbol = "USD")
    /\ Abs(minute - e.at) <= Max({e.window, Cfg.blackout})

NearMarket(intent, mid) ==
  mid > 0 => 1000 * Abs(intent.entry - mid) <= Cfg.farPct * mid

LotSizeOk(intent) ==
  LET meta == Meta[intent.symbol] IN
    /\ intent.lots >= meta.minLot
    /\ intent.lots % meta.lotStep = 0

-----------------------------------------------------------------------------
(* Every check that depends on the arguments alone, for an account that has
   not breached its daily limit.  tick is [mid, minute].                   *)
WithinLimits(intent, account, positions, newsEvents, tick) ==
  /\ ~DailyLossBreached(account)
  /\ ~WeeklyLossBreached(account)
  /\ RoomForPosition(positions)
  /\ StopPresent(intent)
  /\ KnownSymbol(intent)
  /\ TradeRiskOk(intent, account)
  /\ ClusterNetOk(intent, positions)
  /\ UsdNetOk(intent, positions)
  /\ ~InBlackout(newsEvents, intent.symbol, tick.minute)
  /\ NearMarket(intent, tick.mid)
  /\ LotSizeOk(intent)
=============================================================================
