----------------------------- MODULE RiskManager -----------------------------
(***************************************************************************)
(* RiskManager, KillSwitch and NewsCalendar (brain/risk_manager.py): the   *)
(* gate every order intent passes, with the memory it keeps between calls. *)
(*                                                                         *)
(* check() is one action per outcome that changes state.  A rejection      *)
(* other than the daily loss changes nothing and is a stuttering step.     *)
(* Positions, account and tick are arguments of the call: any value the    *)
(* callers may pass, drawn from the constant sets.                         *)
(***************************************************************************)
EXTENDS RiskGate, Sequences

CONSTANTS
  Ids,             \* client order ids
  Intents,         \* the intents a strategy may emit
  Accounts,        \* the account states the caller may pass
  Books,           \* the sets of open positions the caller may pass
  Ticks,           \* the last ticks the caller may pass
  News,            \* the events the calendar may be given
  MaxIds,          \* _recent_order_ids is trimmed above this size (10 000)
  KeepIds,         \* ... to this size (5 000)
  StartClock,      \* time.time() when the process starts
  MaxClock         \* bound of the model on the clock

ASSUME IdsAssumption == MaxIds \in Nat /\ KeepIds \in 0..MaxIds
ASSUME ClockAssumption == StartClock \in Nat /\ MaxClock \in Nat
ASSUME IntervalAssumption == Cfg.minSeconds \in Nat
\* The wall clock reads seconds since 1970, far above the interval, so
\* _last_order_ts = 0.0 never holds back the first order.
ASSUME EpochAssumption == StartClock >= Cfg.minSeconds
ASSUME IntentAssumption == \A i \in Intents : i.id \in Ids

VARIABLES
  armed,           \* KillSwitch._armed
  reason,          \* KillSwitch._reason
  news,            \* NewsCalendar._events
  recentIds,       \* _recent_order_ids
  lastOrder,       \* _last_order_ts
  clock,           \* time.time(), whole seconds
  log,             \* history: the approvals, [id, at] in order
  breached,        \* history: a check met the daily loss since the last disarm
  trimmed          \* history: _recent_order_ids was trimmed at least once

vars == <<armed, reason, news, recentIds, lastOrder, clock, log, breached, trimmed>>

Reasons == {"daily_loss_breached", "gateway_heartbeat_lost"}
NoReason == ""

-----------------------------------------------------------------------------
Init ==
  /\ armed = FALSE
  /\ reason = NoReason
  /\ news = {}
  /\ recentIds = {}
  /\ lastOrder = 0
  /\ clock = StartClock
  /\ log = << >>
  /\ breached = FALSE
  /\ trimmed = FALSE

(* KillSwitch.arm keeps the first reason. *)
ArmWith(r) ==
  /\ armed' = TRUE
  /\ reason' = IF armed THEN reason ELSE r

IntervalElapsed_OffByOne == clock - lastOrder >= Cfg.minSeconds - 1

IntervalElapsed == clock - lastOrder >= Cfg.minSeconds

FreshId_Unchecked(id) == id \in Ids

FreshId(id) == id \notin recentIds

(* set(list(ids)[-5_000:]): the order of a set of strings is arbitrary, so
   the ids that survive are any KeepIds of them, the newest included or not. *)
Remember(id) ==
  LET ids == recentIds \cup {id} IN
    IF Cardinality(ids) > MaxIds
    THEN /\ \E kept \in SUBSET ids : Cardinality(kept) = KeepIds /\ recentIds' = kept
         /\ trimmed' = TRUE
    ELSE recentIds' = ids /\ UNCHANGED trimmed

CheckBreach_Rejects(account) ==
  /\ ~armed
  /\ DailyLossBreached(account)
  /\ breached' = TRUE
  /\ UNCHANGED <<armed, reason, news, recentIds, lastOrder, clock, log, trimmed>>

(* check() meets the daily loss limit: the kill switch is armed. *)
CheckBreach(account) ==
  /\ ~armed
  /\ DailyLossBreached(account)
  /\ ArmWith("daily_loss_breached")
  /\ breached' = TRUE
  /\ UNCHANGED <<news, recentIds, lastOrder, clock, log, trimmed>>

(* check() approves the intent. *)
CheckApprove(intent, account, positions, tick) ==
  /\ ~armed
  /\ WithinLimits(intent, account, positions, news, tick)
  /\ IntervalElapsed
  /\ FreshId(intent.id)
  /\ Remember(intent.id)
  /\ lastOrder' = clock
  /\ log' = Append(log, [id |-> intent.id, at |-> clock])
  /\ UNCHANGED <<armed, reason, news, clock, breached>>

(* The service arms the switch itself when the gateway falls silent. *)
Arm ==
  /\ ~armed
  /\ ArmWith("gateway_heartbeat_lost")
  /\ UNCHANGED <<news, recentIds, lastOrder, clock, log, breached, trimmed>>

Disarm_KeepsReason ==
  /\ armed
  /\ armed' = FALSE
  /\ breached' = FALSE
  /\ UNCHANGED <<reason, news, recentIds, lastOrder, clock, log, trimmed>>

(* KillSwitch.disarm, an operator's call. *)
Disarm ==
  /\ armed
  /\ armed' = FALSE
  /\ reason' = NoReason
  /\ breached' = FALSE
  /\ UNCHANGED <<news, recentIds, lastOrder, clock, log, trimmed>>

AddEvent(event) ==
  /\ news' = news \cup {event}
  /\ UNCHANGED <<armed, reason, recentIds, lastOrder, clock, log, breached, trimmed>>

AdvanceClock ==
  /\ clock < MaxClock
  /\ clock' = clock + 1
  /\ UNCHANGED <<armed, reason, news, recentIds, lastOrder, log, breached, trimmed>>

Next ==
  \/ \E account \in Accounts : CheckBreach(account)
  \/ \E intent \in Intents, account \in Accounts, positions \in Books, tick \in Ticks :
       CheckApprove(intent, account, positions, tick)
  \/ Arm
  \/ Disarm
  \/ \E event \in News : AddEvent(event)
  \/ AdvanceClock

Spec == Init /\ [][Next]_vars

-----------------------------------------------------------------------------
(* Every variable has its type, and the switch has a reason exactly while it
   is armed (KillSwitch.arm and disarm write the two together). *)
TypeOK ==
  /\ armed \in BOOLEAN
  /\ reason \in (IF armed THEN Reasons ELSE {NoReason})
  /\ news \subseteq News
  /\ recentIds \subseteq Ids
  /\ lastOrder \in Nat
  /\ clock \in Nat
  /\ log \in Seq([id : Ids, at : Nat])
  /\ breached \in BOOLEAN
  /\ trimmed \in BOOLEAN

(* Two approvals of the gate, whatever was rejected, armed or disarmed in
   between, are at least min_seconds_between_orders apart. *)
RateSpacing ==
  \A i \in 1..Len(log) - 1 : log[i + 1].at - log[i].at >= Cfg.minSeconds

(* Until the memory of ids is trimmed for the first time, no client order id
   is approved twice (the idempotency check). *)
ApprovedOnceUntilTrimmed ==
  ~trimmed => \A i, j \in 1..Len(log) : log[i].id = log[j].id => i = j

(* A check that met the daily loss stops every order of every symbol, also
   for accounts that look healthy again, until an operator disarms. *)
BreachBlocksOrders == [][breached /\ breached' => log' = log]_vars
=============================================================================
