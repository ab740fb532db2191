---------------------------- MODULE ReplayHarness ----------------------------
(***************************************************************************)
(* ReplayHarness.run (replay/harness.py) with ExecutionModel               *)
(* (replay/simulator.py): recorded ticks go through exits, strategy, the   *)
(* live risk gate and simulated execution.  The gate is RiskManager itself;*)
(* its variables keep their names.                                         *)
(*                                                                         *)
(* The loop body is split where a decision falls: TakeTick counts a tick   *)
(* and closes what it hits, then each intent of the strategy, any of       *)
(* Intents, is one step.  A rejection only counts and is left out.  Units  *)
(* are those of RiskGate.                                                  *)
(***************************************************************************)
EXTENDS RiskGate, Sequences

CONSTANTS
  Ids, Intents,    \* as in RiskManager; an intent has a target here
  Ticks,           \* the ticks a recording may hold, [symbol, bid, ask]
  StartEquity,     \* starting_equity
  CommissionRate,  \* commission_per_lot_round, per hundredth of a lot
  SlipBase,        \* slippage_pips_base, in price units
  MaxIds, KeepIds, \* as in RiskManager
  Now,             \* time.time(): the virtual time of a replay never asks it
  MaxTicks         \* bound of the model on the length of a recording

\* run_replay.py, run_walk_forward.py and grid_search.py all set it to 0.
ASSUME ReplayAssumption == Cfg.minSeconds = 0
ASSUME MaxOpenAssumption == Cfg.maxOpen \in Nat
\* Every number is one: prices, costs and lots in the units of RiskGate.
ASSUME NumbersAssumption ==
  /\ StartEquity \in Int /\ CommissionRate \in Int /\ SlipBase \in Int
  /\ \A t \in Ticks : t.bid \in Int /\ t.ask \in Int
  /\ \A intent \in Intents : intent.lots \in Int
  /\ \A symbol \in DOMAIN Meta : Meta[symbol].contract \in Int

VARIABLES
  armed, reason, news, recentIds, lastOrder, clock, log, breached, trimmed,
  open,            \* _open: the positions, numbered by their approval
  closed,          \* closed_trades
  equity,          \* _equity
  commissions,     \* commissions_paid
  tick,            \* the tick in hand
  ticks,           \* ticks_processed
  done             \* run() has returned

Risk == INSTANCE RiskManager
          WITH Accounts <- {}, Books <- {}, News <- {}, StartClock <- Now, MaxClock <- Now

riskVars == <<armed, reason, news, recentIds, lastOrder, clock, log, breached, trimmed>>
ownVars == <<open, closed, equity, commissions, tick, ticks, done>>
vars == <<riskVars, ownVars>>

\* Before the first tick run() has none, and reads none.
NoTick == [symbol |-> "", bid |-> 0, ask |-> 0]

-----------------------------------------------------------------------------
(* What the gate is shown: no loss of the day or the week, ever. *)
Account == [equity |-> equity, pnlToday |-> 0, pnlWeek |-> 0]

Quote == [mid |-> (tick.bid + tick.ask) \div 2, minute |-> 0]

(* simulate_fill: the near side of the market, worse by the slippage, which
   grows by half a pip per lot above one (ten price units to a pip).  It never
   rejects, as run() leaves vol_regime at 1.0. *)
Slippage(lots) == SlipBase + (Max({0, lots - 100}) * 5) \div 100

FillPrice(intent, t) ==
  IF intent.side = "buy" THEN t.ask + Slippage(intent.lots)
                         ELSE t.bid - Slippage(intent.lots)

Commission(lots) == CommissionRate * lots

ExitPrice(position, t) == IF position.side = "buy" THEN t.bid ELSE t.ask

StopHit(position, t) ==
  /\ position.stop # NoStop
  /\ IF position.side = "buy" THEN t.bid <= position.stop ELSE t.ask >= position.stop

TargetHit(position, t) ==
  /\ position.target # NoStop
  /\ IF position.side = "buy" THEN t.bid >= position.target ELSE t.ask <= position.target

Pnl(trade) ==
  (IF trade.side = "buy" THEN trade.exit - trade.entry ELSE trade.entry - trade.exit)
    * trade.lots * Meta[trade.symbol].contract

Trade(position, t, at, why) ==
  [no |-> position.no, symbol |-> position.symbol, side |-> position.side,
   lots |-> position.lots, entry |-> position.entry, exit |-> ExitPrice(position, t),
   openedAt |-> position.openedAt, closedAt |-> at, why |-> why]

(* _close for each of the trades: book the result, record the trade. *)
Book_LastOnly(trades) ==
  /\ closed' = closed \cup trades
  /\ IF trades = {} THEN equity' = equity
     ELSE \E trade \in trades : equity' = equity + Pnl(trade)

Book(trades) ==
  /\ closed' = closed \cup trades
  /\ equity' = equity + MapThenSumSet(Pnl, trades)

Exits_OnePerTick(t) ==
  LET hit == {position \in open :
                position.symbol = t.symbol /\ (StopHit(position, t) \/ TargetHit(position, t))}
  IN  IF hit = {} THEN {} ELSE {CHOOSE position \in hit : TRUE}

(* The positions _check_exits takes out, the stop before the target. *)
Exits(t) ==
  {position \in open :
     position.symbol = t.symbol /\ (StopHit(position, t) \/ TargetHit(position, t))}

Remaining_SameSymbol(t) == {position \in open \ Exits(t) : position.symbol = t.symbol}

Remaining(t) == open \ Exits(t)

-----------------------------------------------------------------------------
Init ==
  /\ Risk!Init
  /\ open = {}
  /\ closed = {}
  /\ equity = StartEquity
  /\ commissions = 0
  /\ tick = NoTick
  /\ ticks = 0
  /\ done = FALSE

TakeTick(t) ==
  /\ ~done
  /\ ticks < MaxTicks
  /\ tick' = t
  /\ ticks' = ticks + 1
  /\ Book({Trade(position, t, ticks + 1, IF StopHit(position, t) THEN "sl" ELSE "tp") :
             position \in Exits(t)})
  /\ open' = Remaining(t)
  /\ UNCHANGED <<riskVars, commissions, done>>

(* An intent on this tick is approved, filled at once and charged. *)
Fill(intent) ==
  /\ ~done
  /\ ticks > 0
  /\ Risk!CheckApprove(intent, Account, open, Quote)
  /\ open' = open \cup
       {[no |-> Len(log'), symbol |-> intent.symbol, side |-> intent.side,
         lots |-> intent.lots, entry |-> FillPrice(intent, tick),
         stop |-> intent.stop, target |-> intent.target, openedAt |-> ticks]}
  /\ equity' = equity - Commission(intent.lots)
  /\ commissions' = commissions + Commission(intent.lots)
  /\ UNCHANGED <<closed, tick, ticks, done>>

(* An intent meets the daily limit, which only an empty account does. *)
Breach ==
  /\ ~done
  /\ ticks > 0
  /\ Risk!CheckBreach(Account)
  /\ UNCHANGED ownVars

(* The recording ends: what is open is closed at the last tick's bid or ask,
   of whatever symbol that tick is. *)
EndOfReplay ==
  /\ ~done
  /\ done' = TRUE
  /\ Book({Trade(position, tick, ticks, "eod") : position \in open})
  /\ open' = {}
  /\ UNCHANGED <<riskVars, commissions, tick, ticks>>

Next ==
  \/ \E t \in Ticks : TakeTick(t)
  \/ \E intent \in Intents : Fill(intent)
  \/ Breach
  \/ EndOfReplay

Spec == Init /\ [][Next]_vars

-----------------------------------------------------------------------------
(* What the harness owns is what it began with, plus the results of the closed
   trades, less the commissions: the balance a test computes at the end of a
   replay holds after every tick and every fill, and nothing is left open then. *)
EquityBalances ==
  /\ equity = StartEquity + MapThenSumSet(Pnl, closed) - commissions
  /\ done => open = {}

(* Every order the gate approved is one position, open or closed, never both,
   and none is lost: also positions of a symbol whose ticks are rare. *)
EachApprovalOnePosition ==
  /\ \A n \in 1..Len(log) : \E position \in open \cup closed : position.no = n
  /\ \A p, q \in open \cup closed : p.no = q.no => p = q
  /\ open \cap closed = {}

(* Here, where every fill is known at once, the account never holds more than
   max_open_positions; the live gate, which reads snapshots, does not reach it. *)
AtMostMaxOpen == Cardinality(open) <= Cfg.maxOpen

(* Whatever was closed before, an entry leaves the account within the net of
   the cluster and the net of the USD pairs. *)
EntryKeepsCaps ==
  [][\A position \in open' \ open :
       /\ Abs(NetLots(open', ClusterSymbols(position.symbol))) <= Cfg.maxCluster
       /\ position.symbol \in UsdSymbols =>
            Abs(NetLots(open', UsdSymbols)) <= Cfg.maxUsd]_vars

(* A position outlives a tick of its own symbol only if that tick is on the
   right side of its stop: at no moment is a loss carried beyond a stop the
   recording has already passed. *)
StopsAreKept ==
  \A position \in open :
    position.symbol = tick.symbol /\ position.openedAt < ticks => ~StopHit(position, tick)
=============================================================================
