----------------------------- MODULE BrainService -----------------------------
(***************************************************************************)
(* The ZeroMQ pair: MT5Gateway.start (bridge/mt5_gateway.py) polls the     *)
(* terminal and publishes, BrainService.run_forever (brain/service.py)     *)
(* reads, trades and watches the gateway's heartbeat.  The publisher drops *)
(* what does not fit (bridge/transport.py); a frame whose signature does   *)
(* not match raises out of recv and ends the brain.                        *)
(*                                                                         *)
(* Of the gate only the kill switch is kept: any other check may reject.   *)
(* A dispatcher that raises changes nothing here.                          *)
(***************************************************************************)
EXTENDS Integers, FiniteSets, Sequences, SequencesExt, FiniteSetsExt

CONSTANTS
  Symbol,      \* the gateway's symbols
  HeartbeatS,  \* heartbeat_s
  TimeoutS,    \* heartbeat_timeout_s
  HighWater,   \* messages under way at most
  MaxTs,       \* bounds of the model: the terminal's clock
  MaxStarts    \*   and the starts of each process

ASSUME SymbolAssumption == IsFiniteSet(Symbol)
ASSUME HighWaterAssumption == HighWater \in Nat
ASSUME TimesAssumption == HeartbeatS \in Nat \ {0} /\ TimeoutS \in Nat /\ HeartbeatS <= TimeoutS

VARIABLES
  quote,     \* time_msc of the terminal's last tick of each symbol, 0: none
  gateway,   \* is it running?
  lastSeen,  \* last_seen
  beatAge,   \* seconds since _last_hb, no further than HeartbeatS
  queue,     \* messages between the sockets
  brain,     \* "down", "recv", or "check": a tick is handled, the panic check follows
  hbAge,     \* seconds since _last_gateway_hb, no further than past the timeout
  armed,     \* the kill switch
  handled,   \* history: time of the tick of each symbol the strategy saw last
  repeats,   \* history: ticks the strategy saw again, or late
  late,      \* history: ticks that led to an order after the timeout
  smooth,    \* history: no second passed with the gateway down or late, or messages waiting; none was lost
  starts     \* of each process

vars == <<quote, gateway, lastSeen, beatAge, queue, brain, hbAge, armed, handled, repeats,
          late, smooth, starts>>
terminalVars == <<quote>>
gatewayVars == <<gateway, lastSeen, beatAge>>
historyVars == <<handled, repeats, late>>

Never == [s \in Symbol |-> 0]

TickMessage(s) == [type |-> "tick", symbol |-> s, ts |-> quote[s]]
Heartbeat == [type |-> "heartbeat"]
Garbled == [type |-> "garbled"]

Init ==
  /\ quote = Never
  /\ gateway = FALSE /\ lastSeen = Never /\ beatAge = HeartbeatS
  /\ queue = <<>>
  /\ brain = "down" /\ hbAge = 0 /\ armed = FALSE
  /\ handled = Never /\ repeats = Never /\ late = 0
  /\ smooth = TRUE
  /\ starts = [gateway |-> 0, brain |-> 0]

-----------------------------------------------------------------------------
(* The environment *)
NewQuote(s) ==
  /\ quote[s] < MaxTs
  /\ quote' = [quote EXCEPT ![s] = @ + 1]
  /\ UNCHANGED <<gatewayVars, queue, brain, hbAge, armed, historyVars, smooth, starts>>

Second ==
  /\ beatAge' = Min({beatAge + 1, HeartbeatS})
  /\ hbAge' = IF brain = "down" THEN hbAge ELSE Min({hbAge + 1, TimeoutS + 1})
  /\ smooth' = (smooth /\ gateway /\ beatAge < HeartbeatS /\ queue = <<>>)
  /\ UNCHANGED <<terminalVars, gateway, lastSeen, queue, brain, armed, historyVars, starts>>

(* The connection breaks: what was under way is lost. *)
Lose ==
  /\ queue # <<>>
  /\ queue' = <<>>
  /\ smooth' = FALSE
  /\ UNCHANGED <<terminalVars, gatewayVars, brain, hbAge, armed, historyVars, starts>>

(* Something else writes to the port, or a frame is damaged. *)
CrossTalk ==
  /\ brain # "down" /\ Len(queue) < HighWater
  /\ queue' = Append(queue, Garbled)
  /\ UNCHANGED <<terminalVars, gatewayVars, brain, hbAge, armed, historyVars, smooth, starts>>

-----------------------------------------------------------------------------
(* The gateway *)
GatewayStart ==
  /\ ~gateway /\ starts.gateway < MaxStarts
  /\ gateway' = TRUE
  /\ lastSeen' = Never
  /\ beatAge' = HeartbeatS
  /\ starts' = [starts EXCEPT !.gateway = @ + 1]
  /\ UNCHANGED <<terminalVars, queue, brain, hbAge, armed, historyVars, smooth>>

GatewayStop ==
  /\ gateway
  /\ gateway' = FALSE
  /\ UNCHANGED <<terminalVars, lastSeen, beatAge, queue, brain, hbAge, armed, historyVars,
                 smooth, starts>>

Fresh_SameTime(s) == quote[s] # 0 /\ quote[s] >= lastSeen[s]

Fresh(s) == quote[s] > lastSeen[s]

(* send: without a subscriber, or beyond the high-water mark, messages are
   dropped. *)
Send(messages) ==
  /\ queue' = IF brain = "down" THEN queue
               ELSE SubSeq(queue \o messages, 1, Min({HighWater, Len(queue \o messages)}))
  /\ smooth' = (smooth /\ (brain # "down" => Len(queue \o messages) <= HighWater))

(* One round of start(): what is new of each symbol, in an order the model
   leaves open, and a heartbeat if due. *)
Poll ==
  LET new == {s \in Symbol : Fresh(s)}
      due == beatAge >= HeartbeatS
  IN  /\ gateway /\ (due \/ new # {})
      /\ lastSeen' = [s \in Symbol |-> IF Fresh(s) THEN quote[s] ELSE lastSeen[s]]
      /\ beatAge' = IF due THEN 0 ELSE beatAge
      /\ \E order \in SetToSeqs(new) :
           LET ticks == [n \in DOMAIN order |-> TickMessage(order[n])]
           IN  Send(IF due THEN Append(ticks, Heartbeat) ELSE ticks)
      /\ UNCHANGED <<terminalVars, gateway, brain, hbAge, armed, historyVars, starts>>

-----------------------------------------------------------------------------
(* The brain: a fresh process knows no tick, has no panic behind it and is
   armed by nothing. *)
BrainStart ==
  /\ brain = "down" /\ starts.brain < MaxStarts
  /\ brain' = "recv"
  /\ hbAge' = 0 /\ armed' = FALSE
  /\ handled' = Never /\ repeats' = Never /\ late' = 0
  /\ starts' = [starts EXCEPT !.brain = @ + 1]
  /\ UNCHANGED <<terminalVars, gatewayVars, queue, smooth>>

BrainEnds ==
  /\ brain' = "down"
  /\ queue' = <<>>
  /\ UNCHANGED <<terminalVars, gatewayVars, hbAge, armed, historyVars, smooth, starts>>

(* An operator, or the operating system. *)
BrainStop == brain # "down" /\ BrainEnds

Panic == armed' = (armed \/ hbAge > TimeoutS)

Receives(message) ==
  /\ brain = "recv" /\ queue # <<>>
  /\ Head(queue) = message

RecvNothing_NoCheck ==
  /\ brain = "recv" /\ queue = <<>>
  /\ UNCHANGED vars

(* recv() times out after half a second. *)
RecvNothing ==
  /\ brain = "recv" /\ queue = <<>>
  /\ Panic
  /\ UNCHANGED <<terminalVars, gatewayVars, queue, brain, hbAge, historyVars, smooth, starts>>

RecvHeartbeat_Kept ==
  /\ Receives(Heartbeat)
  /\ queue' = Tail(queue)
  /\ UNCHANGED <<terminalVars, gatewayVars, brain, hbAge, armed, historyVars, smooth, starts>>

RecvHeartbeat ==
  /\ Receives(Heartbeat)
  /\ queue' = Tail(queue)
  /\ hbAge' = 0
  /\ UNCHANGED <<terminalVars, gatewayVars, brain, armed, historyVars, smooth, starts>>

RecvGarbled == Receives(Garbled) /\ BrainEnds

AfterTick_NoCheck == "recv"

AfterTick == "check"

(* _handle_tick: the strategy sees the tick; orders, if the gate lets any
   through, are dispatched before the heartbeat is looked at. *)
HandleTick(s, ts, orders) ==
  /\ Receives([type |-> "tick", symbol |-> s, ts |-> ts])
  /\ queue' = Tail(queue)
  /\ brain' = AfterTick
  /\ orders => ~armed
  /\ handled' = [handled EXCEPT ![s] = ts]
  /\ repeats' = IF handled[s] >= ts THEN [repeats EXCEPT ![s] = @ + 1] ELSE repeats
  /\ late' = IF orders /\ hbAge > TimeoutS THEN late + 1 ELSE late
  /\ UNCHANGED <<terminalVars, gatewayVars, hbAge, armed, smooth, starts>>

CheckAfterTick ==
  /\ brain = "check"
  /\ brain' = "recv"
  /\ Panic
  /\ UNCHANGED <<terminalVars, gatewayVars, queue, hbAge, historyVars, smooth, starts>>

BrainStep ==
  \/ RecvNothing
  \/ RecvHeartbeat
  \/ RecvGarbled
  \/ \E s \in Symbol, ts \in 1..MaxTs, orders \in BOOLEAN : HandleTick(s, ts, orders)
  \/ CheckAfterTick

Next ==
  \/ \E s \in Symbol : NewQuote(s)
  \/ Second \/ Lose \/ CrossTalk
  \/ GatewayStart \/ GatewayStop \/ Poll
  \/ BrainStart \/ BrainStop \/ BrainStep

(* Time passes, and a running brain goes on. *)
Spec == Init /\ [][Next]_vars /\ WF_vars(Second) /\ WF_vars(BrainStep)

-----------------------------------------------------------------------------
(* A strategy sees a tick of a symbol twice only because the gateway
   restarted, at most once for each restart: last_seen is empty then and the
   quote of the moment published again (mt5_gateway.py:48, 57-59). *)
RepeatsOnlyAfterRestart ==
  \A s \in Symbol : repeats[s] > 0 => repeats[s] < starts.gateway

(* Once the heartbeat is overdue, one tick at most still leads to orders: they
   are dispatched before the check that arms the switch, which then stays
   armed although heartbeats return (service.py:65-66, 97-99). *)
OneLateTick == late <= 1

(* A gateway that runs, polls in time and is heard in time is never taken for
   lost (service.py:93-99, mt5_gateway.py:66-69). *)
NoFalseAlarm == smooth => ~armed

(* A gateway that is gone for good arms the switch of a brain that lives on,
   whatever is still under way (service.py:50-51, 93-99). *)
SilentGatewayArms == <>[](~gateway /\ brain # "down") => <>[]armed
=============================================================================
