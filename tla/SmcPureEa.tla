------------------------------- MODULE SmcPureEa -------------------------------
(***************************************************************************)
(* SMC_Pure_EA.mq5: entries by its own analysis or by hand, the limits of  *)
(* SafetyOK, the cooldown after losses, and the management of its one      *)
(* position.  The terminal queues events of an EA, one tick at most among  *)
(* them, and runs one handler at a time.  A deal of the EA is a "loss", a  *)
(* "win", or, as it opens a position, an "other", like the deals of others.*)
(*                                                                         *)
(* The analysis of bars is abstracted to its outcomes, the filters of time,*)
(* news, spread and volatility to one that may block any bar, the balance  *)
(* of the account, which others move too, to whether it is within the      *)
(* daily limit.  Prices are pips, volumes the smallest volume.             *)
(***************************************************************************)
EXTENDS Integers, Sequences, SequencesExt, FiniteSetsExt

CONSTANTS
  None,                 \* no position, no valid setup
  Sides,                \* 1 to buy, -1 to sell
  Prices, SetupPrices,  \* prices, those at which there may be a setup
  Distances,            \* of the stop of a setup
  Slips,                \* what an order is filled above or below the price
  Lots, MaxLot,         \* what CalcLot's risk allows, InpMaxLotSize
  MaxTradesDay, MaxConsecLoss, Cooldown,
  ScanDeals,            \* deals CheckTradeHistory looks at, 20 in the code
  HistorySpan,          \* how far back it selects them, 30 days in the code
  DayLength, MaxTime, MaxEntries, MaxReloads   \* bounds of the model

ASSUME SmcAssumption ==
  /\ MaxConsecLoss \in Nat \ {0} /\ ScanDeals \in Nat \ {0}
  /\ Cooldown \in Nat /\ HistorySpan \in Nat
  /\ Sides \subseteq {1, -1} /\ Prices \cup SetupPrices \cup Distances \subseteq Int

VARIABLES
  price, now, deals,   \* the market; the last ScanDeals deals of the account
  position,            \* the EA's position, [dir, op, sl, tp, vol], or None
  events,              \* of the EA, "tick", "loss" or "win"
  mode, waiting,       \* g_mode, g_waitingForClose
  ready, side, setup,  \* m5Ready, setup.isBuy; [dir, sl, tp], None if not valid
  daily,               \* ResetDaily's date, g_todayTrades, whether the balance is within the limit
  losses, until,       \* g_consecLoss, g_cooldownUntil
  reloads,
  entries,             \* history: positions opened
  streak, lastLoss,    \* history: the EA's losses since its last win, and when the last was
  forgot               \* history: the EA missed some of them

smcVars == <<price, now, deals, position, events, mode, waiting, ready, side, setup, daily,
          losses, until, reloads, entries, streak, lastLoss, forgot>>
setupVars == <<ready, side, setup>>
lossVars == <<losses, until>>
dealVars == <<deals, streak, lastLoss, forgot>>

Today == now \div DayLength

SmcInit ==
  /\ price \in SetupPrices /\ now = 0 /\ deals = <<>>
  /\ position = None
  /\ events = <<>>
  /\ mode = "auto" /\ waiting = FALSE
  /\ ready = FALSE /\ side \in Sides /\ setup = None
  /\ daily = [date |-> -1, trades |-> 0, within |-> TRUE]
  /\ losses = 0 /\ until = 0
  /\ reloads = 0 /\ entries = 0
  /\ streak = 0 /\ lastLoss = 0 /\ forgot = FALSE

-----------------------------------------------------------------------------
(* The account and the terminal's queue *)
Recorded(deal) == LET all == Append(deals, deal) IN SubSeq(all, Max({1, Len(all) - ScanDeals + 1}), Len(all))

Kinds == {"loss", "win", "other"}

Deal(kind) ==
  /\ deals' = Recorded([kind |-> kind, at |-> IF kind = "loss" THEN now ELSE 0])
  /\ streak' = IF kind = "win" THEN 0 ELSE IF kind = "loss" THEN streak + 1 ELSE streak
  /\ lastLoss' = IF kind = "loss" THEN now ELSE lastLoss
  /\ forgot' = (forgot /\ kind # "win")

Queued(queue, event) == IF event = "tick" /\ Contains(queue, "tick") THEN queue ELSE Append(queue, event)

Result(pos, exit, vol) == pos.dir * (exit - pos.op) * vol

Outcome(result) == IF result < 0 THEN "loss" ELSE "win"

(* A loss may take the balance out of the daily limit, a gain back into it. *)
Booked(d, result) ==
  {d} \cup (IF result = 0 THEN {} ELSE {[d EXCEPT !.within = (result > 0)]})

Hit(pos, p) == pos.dir * (p - pos.sl) <= 0 \/ pos.dir * (p - pos.tp) >= 0

PriceMoves(p) ==
  /\ price' = p
  /\ position # None => ~Hit(position, p)
  /\ events' = Queued(events, "tick")
  /\ UNCHANGED <<now, dealVars, position, mode, waiting, setupVars, daily, lossVars, reloads, entries>>

(* The broker closes the position at its stop or target, or beyond. *)
BrokerCloses(p) ==
  LET result == Result(position, p, position.vol)
  IN  /\ position # None /\ Hit(position, p)
      /\ price' = p
      /\ position' = None
      /\ daily' \in Booked(daily, result)
      /\ Deal(Outcome(result))
      /\ \/ events' = Queued(Queued(events, "tick"), Outcome(result))
         \/ events' = Queued(Queued(events, Outcome(result)), "tick")
      /\ UNCHANGED <<now, mode, waiting, setupVars, lossVars, reloads, entries>>

(* Other EAs of the account, and hands: their results move the balance too. *)
OthersDeal ==
  /\ Deal("other")
  /\ \E within \in BOOLEAN : daily' = [daily EXCEPT !.within = within]
  /\ UNCHANGED <<price, now, position, events, mode, waiting, setupVars, lossVars, reloads, entries>>

TimePasses ==
  /\ now < MaxTime
  /\ now' = now + 1
  /\ UNCHANGED <<price, dealVars, position, events, mode, waiting, setupVars, daily, lossVars,
                 reloads, entries>>

-----------------------------------------------------------------------------
(* OnInit, OnTradeTransaction: losses in a row and the cooldown *)
(* `known` are the deals whose tickets the terminal hands out: none of them if
   HistorySelect fails.  It selects the last HistorySpan. *)
Counted(n, known) ==
  n \in known /\ deals[n].kind = "loss" /\ deals[n].at >= now - HistorySpan

TrailingLosses_OfAll(known) ==
  LET broken == Max({0} \cup {n \in known : deals[n].kind # "loss"})
  IN  Cardinality({n \in broken + 1..Len(deals) : Counted(n, known)})

LastWin(known) == Max({0} \cup {n \in known : deals[n].kind = "win"})
TrailingLosses(known) ==
  Cardinality({n \in LastWin(known) + 1..Len(deals) : Counted(n, known)})

Cools(count) == count >= MaxConsecLoss

LossesInSight(known) ==
  Cardinality({n \in DOMAIN deals :
    Counted(n, known) /\ \A later \in n..Len(deals) : later \in known => deals[later].kind # "win"})

(* OnInit with CheckTradeHistory.  The static date of ResetDaily is kept when
   only the chart changes; the events queued for the old program are lost. *)
Restart ==
  /\ reloads < MaxReloads
  /\ reloads' = reloads + 1
  /\ events' = <<>>
  /\ mode' = "auto" /\ waiting' = FALSE
  /\ ready' = FALSE /\ setup' = None
  /\ \E date \in {daily.date, -1} : daily' = [date |-> date, trades |-> 0, within |-> TRUE]
  /\ \E known \in SUBSET DOMAIN deals :
       /\ losses' = TrailingLosses(known)
       /\ until' = IF Cools(TrailingLosses(known)) THEN now + Cooldown ELSE 0
       /\ forgot' = (forgot \/ LossesInSight(known) < Min({streak, MaxConsecLoss}))
  /\ UNCHANGED <<price, now, deals, position, side, entries, streak, lastLoss>>

Handles(event) == events # <<>> /\ Head(events) = event

OnLoss ==
  /\ Handles("loss")
  /\ events' = Tail(events)
  /\ losses' = losses + 1
  /\ until' = IF Cools(losses + 1) THEN now + Cooldown ELSE until
  /\ UNCHANGED <<price, now, dealVars, position, mode, waiting, setupVars, daily, reloads, entries>>

OnWin ==
  /\ Handles("win")
  /\ events' = Tail(events)
  /\ losses' = 0 /\ until' = 0
  /\ UNCHANGED <<price, now, dealVars, position, mode, waiting, setupVars, daily, reloads, entries>>

(* HistoryDealSelect fails: the deal is passed over. *)
OnUnread ==
  /\ Handles("loss") \/ Handles("win")
  /\ events' = Tail(events)
  /\ forgot' = (forgot \/ (Handles("loss") /\ streak > 0))
  /\ UNCHANGED <<price, now, deals, streak, lastLoss, position, mode, waiting, setupVars, daily,
                 lossVars, reloads, entries>>

-----------------------------------------------------------------------------
(* ManageOpenPositions *)
Gain(pos) == pos.dir * (price - pos.op)
Risk(pos) == IF pos.op > pos.sl THEN pos.op - pos.sl ELSE pos.sl - pos.op

(* 70 per cent at once the risk, else two thirds of the rest at twice it;
   rounded to whole volumes. *)
TakesFirst(pos) == Gain(pos) >= Risk(pos) /\ 2 * pos.vol > 3
TakesSecond(pos) == ~TakesFirst(pos) /\ Gain(pos) >= 2 * Risk(pos) /\ 10 * pos.vol > 12

Part(pos) ==
  IF TakesFirst(pos) THEN Max({1, (7 * pos.vol + 5) \div 10})
  ELSE IF TakesSecond(pos) THEN Max({1, (4 * pos.vol + 3) \div 6})
  ELSE 0

BreakEven(pos) == pos.op + 2 * pos.dir
Trailed(pos) == price - 4 * pos.dir

(* From three times the risk on the stop follows, if that is an improvement. *)
Trails(pos) == Gain(pos) >= 3 * Risk(pos) /\ pos.dir * (Trailed(pos) - pos.sl) > 0

(* Each request may be refused: to close a part, to move the stop to break
   even, to trail it.  Decisions use the position as it was read first. *)
Managed(pos) ==
  IF Risk(pos) = 0 THEN {[pos |-> pos, closed |-> 0]}
  ELSE {[pos |-> [pos EXCEPT !.vol = IF close THEN @ - Part(pos) ELSE @,
                             !.sl = IF trail /\ Trails(pos) THEN Trailed(pos)
                                    ELSE IF even /\ TakesFirst(pos) THEN BreakEven(pos) ELSE @],
         closed |-> IF close THEN Part(pos) ELSE 0] : close, even, trail \in BOOLEAN}

-----------------------------------------------------------------------------
(* OnTick *)
ResetDaily(d) == IF d.date # Today THEN [date |-> Today, trades |-> 0, within |-> TRUE] ELSE d

SafetyOK(d) == d.trades < MaxTradesDay /\ d.within /\ now >= until

(* What AnalyzeMTF makes of a new M5 bar, or CheckM1Entry of an M1 bar without
   a setup. *)
Analyzed ==
  \/ setup' = None /\ ready' = FALSE /\ UNCHANGED side
  \/ setup' = None /\ ready' = TRUE /\ side' \in Sides
  \/ setup' = None /\ ready /\ position = None /\ mode = "auto" /\ UNCHANGED <<ready, side>>

(* A tick within a bar ends the handler at once, which the first tick of a day
   is not; on a new bar the limits or a filter may end it before the analysis. *)
BarsWithoutEntry(d) ==
  \/ /\ d.date = Today
     /\ daily' = d
     /\ UNCHANGED setupVars
  \/ /\ daily' = ResetDaily(d)
     /\ (UNCHANGED setupVars \/ (SafetyOK(ResetDaily(d)) /\ Analyzed))

OnTickManaging ==
  /\ Handles("tick") /\ position # None
  /\ waiting' = TRUE
  /\ \E m \in Managed(position) :
       /\ position' = m.pos
       /\ IF m.closed = 0
            THEN UNCHANGED dealVars /\ events' = Tail(events)
            ELSE /\ Deal(Outcome(Result(position, price, m.closed)))
                 /\ events' = Append(Tail(events), Outcome(Result(position, price, m.closed)))
       /\ \E d \in Booked(daily, Result(position, price, m.closed)) : BarsWithoutEntry(d)
  /\ UNCHANGED <<price, now, mode, lossVars, reloads, entries>>

OnTickIdle ==
  /\ Handles("tick") /\ position = None
  /\ events' = Tail(events)
  /\ waiting' = FALSE
  /\ BarsWithoutEntry(daily)
  /\ UNCHANGED <<price, now, dealVars, position, mode, lossVars, reloads, entries>>

BuiltSetups(dir) ==
  IF price \in SetupPrices
    THEN {[dir |-> dir, sl |-> price - dir * distance, tp |-> price + dir * distance] :
            distance \in Distances}
    ELSE {}

(* CalcLot: the multiplier of losses, in quarters. *)
Lot(wanted) ==
  LET quarters == IF losses = 0 THEN 4 ELSE IF losses = 1 THEN 3 ELSE IF losses = 2 THEN 2 ELSE 1
  IN  Max({1, (Min({wanted, MaxLot}) * quarters) \div 4})

(* ExecuteEntry with the setup s: the spread, the lot or the broker refuses it,
   which leaves it valid, or it is filled. *)
EntryRefused(s) ==
  /\ setup' = s
  /\ UNCHANGED <<dealVars, position>>

EntryFilled(s) ==
  /\ \E slip \in Slips, wanted \in Lots :
       position' = [dir |-> s.dir, op |-> price + slip, sl |-> s.sl, tp |-> s.tp, vol |-> Lot(wanted)]
  /\ setup' = None
  /\ ready' = FALSE
  /\ waiting' = TRUE
  /\ Deal("other")

M1Setups_Kept(dir) == BuiltSetups(dir) \cup (IF setup = None THEN {} ELSE {setup})

(* CheckM1Entry begins with valid = false. *)
M1Setups(dir) == BuiltSetups(dir)

OnTickEntry(dir) ==
  LET d == ResetDaily(daily)
  IN  /\ Handles("tick") /\ position = None
      /\ mode = "auto" /\ SafetyOK(d)
      /\ events' = Tail(events)
      /\ waiting' = TRUE
      /\ side' = dir
      /\ \E s \in M1Setups(dir) :
           \/ EntryRefused(s) /\ ready' = TRUE /\ daily' = d /\ UNCHANGED entries
           \/ /\ entries < MaxEntries
              /\ EntryFilled(s)
              /\ daily' = [d EXCEPT !.trades = @ + 1]
              /\ entries' = entries + 1
      /\ UNCHANGED <<price, now, mode, lossVars, reloads>>

-----------------------------------------------------------------------------
(* OnChartEvent *)
ButtonMode ==
  /\ mode' = IF mode = "auto" THEN "manual" ELSE "auto"
  /\ UNCHANGED <<price, now, dealVars, position, events, waiting, setupVars, daily, lossVars,
                 reloads, entries>>

(* ManualEntry: no limit is looked at.  BuildSetup, when it finds the stop too
   near, leaves the setup as it was, valid or not. *)
ButtonEntry(dir) ==
  /\ ~waiting /\ ready /\ side = dir
  /\ \E s \in BuiltSetups(dir) \cup {setup, None} :
       \/ /\ s = None \/ position # None
          /\ setup' = s
          /\ UNCHANGED <<dealVars, position, waiting, ready, daily, entries>>
       \/ /\ s # None /\ position = None
          /\ EntryRefused(s)
          /\ UNCHANGED <<waiting, ready, daily, entries>>
       \/ /\ s # None /\ position = None
          /\ entries < MaxEntries
          /\ EntryFilled(s)
          /\ daily' = [daily EXCEPT !.trades = @ + 1]
          /\ entries' = entries + 1
  /\ UNCHANGED <<price, now, events, mode, side, lossVars, reloads>>

(* CloseAll; the close may be refused. *)
ButtonClose ==
  /\ waiting' = FALSE
  /\ ready' = FALSE
  /\ \/ UNCHANGED <<dealVars, position, events, daily>>
     \/ /\ position # None
        /\ position' = None
        /\ LET result == Result(position, price, position.vol)
           IN  /\ daily' \in Booked(daily, result)
               /\ Deal(Outcome(result))
               /\ events' = Append(events, Outcome(result))
  /\ UNCHANGED <<price, now, mode, side, setup, lossVars, reloads, entries>>

SmcNext ==
  \/ \E p \in Prices : PriceMoves(p) \/ BrokerCloses(p)
  \/ OthersDeal \/ TimePasses \/ Restart
  \/ OnLoss \/ OnWin \/ OnUnread
  \/ OnTickManaging \/ OnTickIdle
  \/ \E dir \in Sides : OnTickEntry(dir) \/ ButtonEntry(dir)
  \/ ButtonMode \/ ButtonClose

SmcSpec == SmcInit /\ [][SmcNext]_smcVars

-----------------------------------------------------------------------------
(* The EA opens a position in a tick's handler, not at a button. *)
Automatic == entries' # entries /\ events' # events

(* After MaxConsecLoss losses in a row nothing is entered automatically for the
   time of the cooldown.  Restarts count the losses anew and cool anew, with
   other deals between the losses or not.  The exceptions: a tick the terminal
   queued before the deal; a loss the terminal does not hand out, as its deal
   happens or when a restart looks for it; and a restart that does not see
   enough of the losses, as they are older than HistorySpan or pushed out of the
   last ScanDeals deals (SMC_Pure_EA.mq5:379, 388-407, 1131-1141, 1552-1589). *)
CooldownHolds ==
  [][Automatic /\ Cools(streak) /\ now < lastLoss + Cooldown /\ ~forgot
       => Contains(events, "loss")]_smcVars

(* An automatic entry has the stop of a setup built at its own price, also
   after orders that were refused (SMC_Pure_EA.mq5:324-331, 633). *)
AutomaticEntryIsFresh ==
  [][Automatic => \E distance \in Distances :
       position'.dir * (price - position'.sl) = distance]_smcVars
=============================================================================
