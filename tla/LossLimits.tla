------------------------------ MODULE LossLimits ------------------------------
(***************************************************************************)
(* The way of a loss to the kill switch: the broker's balance, the EA's    *)
(* PushAccount with its start of the day (ea/bridge_ea.mq5), the account   *)
(* TradingService keeps (brain/trading_service.py), and the loss checks of *)
(* the gate (RiskGate).  The other checks of the gate may reject any       *)
(* intent.  Days are those of TimeCurrent, all of them in one week.        *)
(*                                                                         *)
(* The EA writes to one connection at a time; each has a thread of its own *)
(* in the brain, which reads to the end what is left of an older one.      *)
(***************************************************************************)
EXTENDS RiskGate, Sequences

CONSTANTS
  StartBalance,
  Results,     \* what a closed position may change the balance by
  Floats,      \* the open positions' profit, equity less balance
  MaxConn,     \* bound: connections
  MaxLines,    \* bound: account lines under way in one
  MaxDay, MaxResults, MaxOrders, MaxRestarts  \* bounds of the model

ASSUME AmountsAssumption ==
  /\ StartBalance \in Int /\ Results \subseteq Int /\ Floats \subseteq Int
  /\ Cfg.maxDailyLoss \in Int
  /\ MaxConn \in Nat \ {0}

VARIABLES
  balance, floating, day,  \* at the broker
  dayStart,  \* g_day_start_date, g_day_start_balance
  conn,      \* the EA's connection
  lines,     \* conn |-> account lines its thread has not handled
  account,   \* _account
  armed,     \* the kill switch
  orders,    \* orders approved
  closed,    \* positions closed
  restarts,  \* of the EA, of the brain
  midnight,  \* history: the balance as the day began
  word,      \* history: what the brain was told of the account as it is now, with
             \* the day's true start: "unsent", "sent", "handled", or "overtaken"
             \* by an older line that was handled after it
  cause      \* history: the EA once told a loss at the limit, or did not know
             \* the start of its day

vars == <<balance, floating, day, dayStart, conn, lines, account, armed, orders, closed, restarts,
          midnight, word, cause>>
brokerVars == <<balance, floating, day, closed, midnight>>
linkVars == <<conn, lines>>
brainVars == <<account, armed, orders>>

Conns == 1..MaxConn

NoDate == 0
Unheard_Assumed == [equity |-> StartBalance, pnlToday |-> 0, pnlWeek |-> 0]

(* _account before the first account line of a process. *)
Unheard == [equity |-> 0, pnlToday |-> 0, pnlWeek |-> 0]

Init ==
  /\ balance = StartBalance /\ floating = 0 /\ day = 1
  /\ dayStart = [date |-> NoDate, balance |-> 0]
  /\ conn = 1 /\ lines = [c \in Conns |-> <<>>]
  /\ account = Unheard /\ armed = FALSE /\ orders = 0
  /\ closed = 0
  /\ restarts = [ea |-> 0, brain |-> 0]
  /\ midnight = StartBalance /\ word = "unsent" /\ cause = FALSE

-----------------------------------------------------------------------------
Equity == balance + floating

(* What the gate should be told. *)
Truth == [equity |-> Equity, pnlToday |-> balance - midnight, pnlWeek |-> balance - StartBalance]

(* The EA measures the day from where it began. *)
DayKnown == IF dayStart.date = day THEN dayStart.balance = midnight ELSE balance = midnight

Close(result) ==
  /\ closed < MaxResults
  /\ closed' = closed + 1
  /\ balance' = balance + result
  /\ floating' = 0
  /\ word' = "unsent"
  /\ UNCHANGED <<day, midnight, dayStart, linkVars, brainVars, restarts, cause>>

PricesMove(float) ==
  /\ floating' = float
  /\ word' = "unsent"
  /\ UNCHANGED <<balance, day, closed, midnight, dayStart, linkVars, brainVars, restarts, cause>>

NewDay ==
  /\ day < MaxDay
  /\ day' = day + 1
  /\ midnight' = balance
  /\ word' = "unsent"
  /\ UNCHANGED <<balance, floating, closed, dayStart, linkVars, brainVars, restarts, cause>>

-----------------------------------------------------------------------------
DayStart_SetOnce == IF dayStart.date = NoDate THEN [date |-> day, balance |-> balance] ELSE dayStart

DayStart == IF dayStart.date # day THEN [date |-> day, balance |-> balance] ELSE dayStart

(* The line of PushAccount: the day's closed profit, and no profit of the week. *)
Line == [equity |-> Equity, pnlToday |-> balance - dayStart'.balance]

(* The start of the day is noted also when the line then cannot be sent, or goes
   to a process that is gone. *)
PushAccount ==
  /\ dayStart' = DayStart
  /\ \/ /\ Len(lines[conn]) < MaxLines
        /\ lines' = [lines EXCEPT ![conn] = Append(@, Line)]
        /\ word' = IF DayKnown THEN "sent" ELSE "unsent"
        /\ cause' = (cause \/ ~DayKnown \/ DailyLossBreached(Truth))
     \/ UNCHANGED <<lines, word, cause>>
  /\ UNCHANGED <<brokerVars, conn, brainVars, restarts>>

(* The EA goes over to another connection; what it sent on the one before may
   still be handled. *)
NextConnection ==
  /\ conn < MaxConn
  /\ conn' = conn + 1
  /\ word' = IF word = "sent" THEN "unsent" ELSE word

Reconnect ==
  /\ NextConnection
  /\ UNCHANGED <<brokerVars, dayStart, lines, brainVars, restarts, cause>>

(* OnDeinit, OnInit: the globals of the program start anew. *)
EaRestart ==
  /\ restarts.ea < MaxRestarts
  /\ restarts' = [restarts EXCEPT !.ea = @ + 1]
  /\ dayStart' = [date |-> NoDate, balance |-> 0]
  /\ NextConnection
  /\ UNCHANGED <<brokerVars, lines, brainVars, cause>>

(* The thread of a connection that ended has read what reached it. *)
OnDisconnect(c) ==
  /\ c # conn /\ lines[c] # <<>>
  /\ lines' = [lines EXCEPT ![c] = <<>>]
  /\ UNCHANGED <<brokerVars, dayStart, conn, brainVars, restarts, word, cause>>

-----------------------------------------------------------------------------
(* What handling a line of connection c makes of the last word. *)
Heard(c) ==
  CASE c = conn /\ word = "sent" /\ Tail(lines[c]) = <<>> -> "handled"
    [] c # conn /\ word = "handled" -> "overtaken"
    [] OTHER -> word

HandleAccount_EquityOnly(c) ==
  /\ lines[c] # <<>>
  /\ account' = [equity |-> Head(lines[c]).equity, pnlToday |-> 0, pnlWeek |-> 0]
  /\ lines' = [lines EXCEPT ![c] = Tail(@)]
  /\ word' = Heard(c)
  /\ UNCHANGED <<brokerVars, dayStart, conn, armed, orders, restarts, cause>>

(* _handle_account in the thread of connection c, whichever that is; pnl_week is
   missing in the line and taken to be 0. *)
HandleAccount(c) ==
  /\ lines[c] # <<>>
  /\ account' = [equity |-> Head(lines[c]).equity, pnlToday |-> Head(lines[c]).pnlToday,
                 pnlWeek |-> 0]
  /\ lines' = [lines EXCEPT ![c] = Tail(@)]
  /\ word' = Heard(c)
  /\ UNCHANGED <<brokerVars, dayStart, conn, armed, orders, restarts, cause>>

(* An intent reaches the gate: the daily limit arms the kill switch. *)
IntentArms ==
  /\ ~armed /\ DailyLossBreached(account)
  /\ armed' = TRUE
  /\ UNCHANGED <<brokerVars, dayStart, linkVars, account, orders, restarts, word, cause>>

IntentApproved ==
  /\ ~armed /\ ~DailyLossBreached(account) /\ ~WeeklyLossBreached(account)
  /\ orders < MaxOrders
  /\ orders' = orders + 1
  /\ UNCHANGED <<brokerVars, dayStart, linkVars, account, armed, restarts, word, cause>>

(* The process ends with all its threads; the EA has to connect to the new one. *)
BrainRestart ==
  /\ restarts.brain < MaxRestarts
  /\ restarts' = [restarts EXCEPT !.brain = @ + 1]
  /\ account' = Unheard /\ armed' = FALSE
  /\ conn < MaxConn /\ conn' = conn + 1
  /\ lines' = [c \in Conns |-> <<>>] /\ word' = "unsent"
  /\ UNCHANGED <<brokerVars, dayStart, orders, cause>>

Next ==
  \/ \E result \in Results : Close(result)
  \/ \E float \in Floats : PricesMove(float)
  \/ NewDay
  \/ PushAccount \/ Reconnect \/ EaRestart
  \/ \E c \in Conns : OnDisconnect(c) \/ HandleAccount(c)
  \/ IntentArms \/ IntentApproved \/ BrainRestart

Spec == Init /\ [][Next]_vars

-----------------------------------------------------------------------------
Approves == orders' # orders

(* No order is approved once the account really stands at the daily limit and
   the brain has handled a line sent since, unless the EA had lost the start of
   the day when it sent that line, or a line left over from an older connection
   was handled after it (bridge_ea.mq5:202-219; trading_service.py:92-100;
   risk_manager.py:128-130). *)
NoOrderPastLoss == [][Approves /\ word = "handled" => ~DailyLossBreached(Truth)]_vars

(* A process that was not told the account approves nothing: an empty account
   counts as at the limit (risk_manager.py:128). *)
NoOrderUntold == [][Approves => account # Unheard]_vars

(* Closed losses of several days, each within its own limit, do not add up to
   an alarm: the switch is armed by a day at its limit, by an EA that lost the
   start of its day, or before the first account line
   (bridge_ea.mq5:204-211; risk_manager.py:128-130). *)
ArmedForCause == [][armed' /\ ~armed => cause \/ account = Unheard]_vars
=============================================================================
