-------------------------- MODULE BrainService_proofs --------------------------
(***************************************************************************)
(* Proofs about BrainService, for any symbols, times and high-water mark.  *)
(***************************************************************************)
EXTENDS BrainService, FiniteSetTheorems, SequenceTheorems, TLAPS

Message == [type : {"tick"}, symbol : Symbol, ts : Nat] \cup {Heartbeat, Garbled}

TypeInv ==
  /\ quote \in [Symbol -> Nat]
  /\ gateway \in BOOLEAN /\ beatAge \in Nat
  /\ queue \in Seq(Message)
  /\ brain \in {"down", "recv", "check"}
  /\ hbAge \in Nat /\ armed \in BOOLEAN
  /\ late \in Nat /\ smooth \in BOOLEAN

HeartbeatUnderWay == \E n \in 1..Len(queue) : queue[n] = Heartbeat

(* While all went well, the brain has heard the gateway's last heartbeat or
   is about to. *)
Heard ==
  smooth => /\ ~armed
            /\ brain # "down" => /\ hbAge <= HeartbeatS
                                 /\ hbAge <= beatAge \/ HeartbeatUnderWay

(* After a late tick the switch is armed, or will be before the next. *)
LateArms ==
  /\ late <= 1
  /\ late = 1 => armed \/ brain = "down" \/ (brain = "check" /\ hbAge > TimeoutS)

IInv == TypeInv /\ Heard /\ LateArms

-----------------------------------------------------------------------------
(* The smaller of two integers. *)
LEMMA MinOfTwo ==
  ASSUME NEW a \in Int, NEW b \in Int
  PROVE  Min({a, b}) = IF a <= b THEN a ELSE b
<1>1. \A x : (x \in {a, b} /\ \A y \in {a, b} : x <= y) <=> x = (IF a <= b THEN a ELSE b)
  OBVIOUS
<1>2. Min({a, b}) = CHOOSE x : x = (IF a <= b THEN a ELSE b)
  BY <1>1, Zenon DEF Min
<1>3. QED  BY <1>2

(* Taking the head off leaves a heartbeat under way that was not the head. *)
LEMMA TailKeeps ==
  ASSUME NEW q \in Seq(Message), q # <<>>, Head(q) # Heartbeat,
         \E n \in 1..Len(q) : q[n] = Heartbeat
  PROVE  \E n \in 1..Len(Tail(q)) : Tail(q)[n] = Heartbeat
<1>1. PICK n \in 1..Len(q) : q[n] = Heartbeat
  OBVIOUS
<1>2. n # 1
  BY <1>1
<1>3. n - 1 \in 1..Len(Tail(q)) /\ Tail(q)[n - 1] = Heartbeat
  BY <1>1, <1>2
<1>4. QED  BY <1>3

(* Sending keeps the types; when smooth stays, everything sent arrives. *)
LEMMA SendArrives ==
  ASSUME IInv, NEW messages \in Seq(Message), Send(messages)
  PROVE  /\ queue' \in Seq(Message)
         /\ smooth' \in BOOLEAN
         /\ smooth' => smooth /\ (brain # "down" => queue' = queue \o messages)
<1> DEFINE q == queue \o messages
<1>1. q \in Seq(Message) /\ Len(q) \in Nat /\ queue \in Seq(Message) /\ smooth \in BOOLEAN
  BY DEF IInv, TypeInv
<1>2. Min({HighWater, Len(q)}) = IF HighWater <= Len(q) THEN HighWater ELSE Len(q)
  BY <1>1, MinOfTwo, HighWaterAssumption
<1>3. queue' = IF brain = "down" THEN queue ELSE SubSeq(q, 1, Min({HighWater, Len(q)}))
  BY DEF Send
<1>4. smooth' = (smooth /\ (brain # "down" => Len(q) <= HighWater))
  BY DEF Send
<1> HIDE DEF q
<1>5. queue' \in Seq(Message)
  <2>1. Min({HighWater, Len(q)}) \in 0..Len(q)
    BY <1>1, <1>2, HighWaterAssumption
  <2>2. ASSUME NEW m \in 0..Len(q) PROVE SubSeq(q, 1, m) \in Seq(Message)
    BY <1>1, SubSeqProperties
  <2>3. QED  BY <1>1, <1>3, <2>1, <2>2
<1>6. ASSUME Len(q) <= HighWater
      PROVE  SubSeq(q, 1, Min({HighWater, Len(q)})) = q
  <2>1. Min({HighWater, Len(q)}) = Len(q)
    BY <1>1, <1>2, <1>6, HighWaterAssumption
  <2>2. QED  BY <1>1, <2>1
<1>7. QED  BY <1>1, <1>3, <1>4, <1>5, <1>6 DEF q

(* The batch of a poll is a sequence of messages; it ends with the heartbeat
   when that is due. *)
LEMMA BatchOfMessages ==
  ASSUME IInv, NEW new \in SUBSET Symbol, NEW order \in SetToSeqs(new)
  PROVE  LET ticks == [n \in DOMAIN order |-> TickMessage(order[n])]
         IN  /\ ticks \in Seq(Message)
             /\ Append(ticks, Heartbeat) \in Seq(Message)
             /\ \E n \in 1..Len(Append(ticks, Heartbeat)) : Append(ticks, Heartbeat)[n] = Heartbeat
<1> DEFINE ticks == [n \in DOMAIN order |-> TickMessage(order[n])]
<1>1. Cardinality(new) \in Nat
  BY SymbolAssumption, FS_Subset, FS_CardinalityType
<1>2. order \in [1..Cardinality(new) -> new]
  BY DEF SetToSeqs
<1>3. \A s \in Symbol : TickMessage(s) \in Message
  BY DEF IInv, TypeInv, TickMessage, Message
<1>4. ticks \in [1..Cardinality(new) -> Message]
  BY <1>2, <1>3
<1> HIDE DEF ticks
<1>5. ticks \in Seq(Message) /\ Heartbeat \in Message
  BY <1>1, <1>4 DEF Message
<1>6. /\ Append(ticks, Heartbeat) \in Seq(Message)
      /\ Len(ticks) + 1 \in 1..Len(Append(ticks, Heartbeat))
      /\ Append(ticks, Heartbeat)[Len(ticks) + 1] = Heartbeat
  BY <1>5
<1>7. QED  BY <1>5, <1>6 DEF ticks

(* A turn of the gateway keeps the invariant. *)
LEMMA PollKeeps == ASSUME IInv, Poll PROVE IInv'
<1> DEFINE new == {s \in Symbol : Fresh(s)}
           due == beatAge >= HeartbeatS
<1>1. PICK order \in SetToSeqs(new) :
        LET ticks == [n \in DOMAIN order |-> TickMessage(order[n])]
        IN  Send(IF due THEN Append(ticks, Heartbeat) ELSE ticks)
  BY DEF Poll
<1> DEFINE ticks == [n \in DOMAIN order |-> TickMessage(order[n])]
           sent == IF due THEN Append(ticks, Heartbeat) ELSE ticks
<1>2. sent \in Seq(Message) /\ (due => \E n \in 1..Len(sent) : sent[n] = Heartbeat)
  BY BatchOfMessages
<1>3. Send(sent)
  BY <1>1
<1> HIDE DEF sent
<1>4. /\ queue' \in Seq(Message)
      /\ smooth' \in BOOLEAN
      /\ smooth' => smooth /\ (brain # "down" => queue' = queue \o sent)
  BY <1>2, <1>3, SendArrives
<1>5. /\ beatAge' = IF due THEN 0 ELSE beatAge
      /\ UNCHANGED <<quote, gateway, brain, hbAge, armed, late>>
  BY DEF Poll, terminalVars, historyVars
<1>6. TypeInv'
  BY <1>4, <1>5 DEF IInv, TypeInv
<1>7. ASSUME smooth', brain # "down"
      PROVE  hbAge <= beatAge' \/ HeartbeatUnderWay'
  <2>1. queue' = queue \o sent /\ queue \in Seq(Message)
    BY <1>4, <1>7 DEF IInv, TypeInv
  <2>2. CASE due
    <3>1. PICK n \in 1..Len(sent) : sent[n] = Heartbeat
      BY <1>2, <2>2
    <3>2. Len(queue) + n \in 1..Len(queue') /\ queue'[Len(queue) + n] = Heartbeat
      BY <3>1, <2>1, <1>2
    <3>3. QED  BY <3>2 DEF HeartbeatUnderWay
  <2>3. CASE ~due
    <3>1. beatAge' = beatAge /\ (hbAge <= beatAge \/ HeartbeatUnderWay)
      BY <2>3, <1>4, <1>5, <1>7 DEF IInv, Heard
    <3>2. ASSUME NEW n \in 1..Len(queue), queue[n] = Heartbeat
          PROVE  n \in 1..Len(queue') /\ queue'[n] = Heartbeat
      BY <2>1, <1>2, <3>2
    <3>3. QED  BY <3>1, <3>2 DEF HeartbeatUnderWay
  <2>4. QED  BY <2>2, <2>3
<1>8. Heard'
  BY <1>4, <1>5, <1>7 DEF IInv, Heard
<1>9. LateArms'
  BY <1>5 DEF IInv, LateArms
<1>10. QED  BY <1>6, <1>8, <1>9 DEF IInv

(* A second that passes keeps it: both ages grow together. *)
LEMMA SecondKeeps == ASSUME IInv, Second PROVE IInv'
<1>1. beatAge \in Nat /\ hbAge \in Nat /\ HeartbeatS \in Nat /\ TimeoutS \in Nat
  BY TimesAssumption DEF IInv, TypeInv
<1>2. beatAge' = IF beatAge + 1 <= HeartbeatS THEN beatAge + 1 ELSE HeartbeatS
  BY <1>1, MinOfTwo DEF Second
<1>3. hbAge' = IF brain = "down" THEN hbAge
                ELSE IF hbAge + 1 <= TimeoutS + 1 THEN hbAge + 1 ELSE TimeoutS + 1
  BY <1>1, MinOfTwo DEF Second
<1>4. /\ smooth' = (smooth /\ gateway /\ beatAge < HeartbeatS /\ queue = <<>>)
      /\ UNCHANGED <<quote, gateway, queue, brain, armed, late>>
  BY DEF Second, terminalVars, historyVars
<1>5. TypeInv'
  BY <1>1, <1>2, <1>3, <1>4 DEF IInv, TypeInv
<1>6. ASSUME smooth', brain # "down"
      PROVE  hbAge' <= HeartbeatS /\ hbAge' <= beatAge'
  <2>1. ~HeartbeatUnderWay
    <3>1. queue = <<>>
      BY <1>4, <1>6
    <3>2. QED  BY <3>1 DEF HeartbeatUnderWay
  <2>2. hbAge <= beatAge /\ beatAge < HeartbeatS
    BY <1>4, <1>6, <2>1 DEF IInv, Heard
  <2>3. QED  BY <1>1, <1>2, <1>3, <1>6, <2>2
<1>7. Heard'
  BY <1>4, <1>6 DEF IInv, Heard
<1>8. LateArms'
  BY <1>1, <1>3, <1>4 DEF IInv, LateArms
<1>9. QED  BY <1>5, <1>7, <1>8 DEF IInv

(* The brain takes a message off that is no heartbeat. *)
LEMMA TakesOther ==
  ASSUME IInv, NEW message, Receives(message), message # Heartbeat, queue' = Tail(queue)
  PROVE  /\ queue' \in Seq(Message)
         /\ HeartbeatUnderWay => HeartbeatUnderWay'
<1>1. queue \in Seq(Message) /\ queue # <<>> /\ Head(queue) # Heartbeat
  BY DEF IInv, TypeInv, Receives
<1>2. QED  BY <1>1, TailKeeps DEF HeartbeatUnderWay

(* A tick handled, with or without an order, keeps it. *)
LEMMA HandleTickKeeps ==
  ASSUME IInv, NEW s \in Symbol, NEW ts \in 1..MaxTs, NEW orders \in BOOLEAN,
         HandleTick(s, ts, orders)
  PROVE  IInv'
<1> DEFINE message == [type |-> "tick", symbol |-> s, ts |-> ts]
<1>1. message.type = "tick" /\ Heartbeat.type = "heartbeat"
  BY DEF Heartbeat
<1>2. message # Heartbeat /\ Receives(message) /\ queue' = Tail(queue)
  BY <1>1 DEF HandleTick
<1>3. queue' \in Seq(Message) /\ (HeartbeatUnderWay => HeartbeatUnderWay')
  BY <1>2, TakesOther
<1>4. /\ brain = "recv" /\ brain' = "check"
      /\ orders => ~armed
      /\ late' = IF orders /\ hbAge > TimeoutS THEN late + 1 ELSE late
      /\ UNCHANGED <<quote, gateway, beatAge, hbAge, armed, smooth>>
  BY DEF HandleTick, Receives, AfterTick, terminalVars, gatewayVars
<1>5. TypeInv'
  BY <1>3, <1>4 DEF IInv, TypeInv
<1>6. Heard'
  BY <1>3, <1>4 DEF IInv, Heard
<1>7. LateArms'
  BY <1>4 DEF IInv, TypeInv, LateArms
<1>8. QED  BY <1>5, <1>6, <1>7 DEF IInv

(* The end of the brain keeps it. *)
LEMMA BrainEndsKeeps == ASSUME IInv, BrainEnds PROVE IInv'
<1>1. queue' \in Seq(Message)
  BY DEF BrainEnds
<1>2. QED  BY <1>1 DEF BrainEnds, IInv, TypeInv, Heard, LateArms, terminalVars, gatewayVars, historyVars

(* The initial states satisfy the invariant. *)
LEMMA Start == Init => IInv
<1> SUFFICES ASSUME Init PROVE IInv
  OBVIOUS
<1>1. TypeInv
  <2>1. beatAge \in Nat /\ queue \in Seq(Message)
    BY TimesAssumption DEF Init
  <2>2. QED  BY <2>1 DEF Init, TypeInv, Never
<1>2. Heard /\ LateArms
  BY DEF Init, Heard, LateArms
<1>3. QED  BY <1>1, <1>2 DEF IInv

(* Every step keeps the invariant. *)
LEMMA Step == IInv /\ [Next]_vars => IInv'
<1> SUFFICES ASSUME IInv, [Next]_vars PROVE IInv'
  OBVIOUS
<1> USE DEF terminalVars, gatewayVars, historyVars
<1>1. CASE UNCHANGED vars
  BY <1>1 DEF vars, IInv, TypeInv, Heard, LateArms, HeartbeatUnderWay
<1>2. ASSUME NEW s \in Symbol, NewQuote(s) PROVE IInv'
  BY <1>2 DEF NewQuote, IInv, TypeInv, Heard, LateArms, HeartbeatUnderWay
<1>3. CASE Second
  BY <1>3, SecondKeeps
<1>4. CASE Lose
  <2>1. queue' \in Seq(Message)
    BY <1>4 DEF Lose
  <2>2. QED  BY <1>4, <2>1 DEF Lose, IInv, TypeInv, Heard, LateArms
<1>5. CASE CrossTalk
  <2>1. queue \in Seq(Message) /\ Garbled \in Message /\ queue' = Append(queue, Garbled)
    BY <1>5 DEF CrossTalk, IInv, TypeInv, Message
  <2>2. queue' \in Seq(Message)
    BY <2>1
  <2>3. ASSUME NEW n \in 1..Len(queue), queue[n] = Heartbeat
        PROVE  n \in 1..Len(queue') /\ queue'[n] = Heartbeat
    BY <2>1, <2>3
  <2>4. HeartbeatUnderWay => HeartbeatUnderWay'
    BY <2>3 DEF HeartbeatUnderWay
  <2>5. QED  BY <1>5, <2>2, <2>4 DEF CrossTalk, IInv, TypeInv, Heard, LateArms
<1>6. CASE GatewayStart
  BY <1>6, TimesAssumption DEF GatewayStart, IInv, TypeInv, Heard, LateArms
<1>7. CASE GatewayStop
  BY <1>7 DEF GatewayStop, IInv, TypeInv, Heard, LateArms, HeartbeatUnderWay
<1>8. CASE Poll
  BY <1>8, PollKeeps
<1>9. CASE BrainStart
  <2>1. TypeInv'
    BY <1>9 DEF BrainStart, IInv, TypeInv
  <2>2. Heard'
    BY <1>9, TimesAssumption DEF BrainStart, IInv, TypeInv, Heard
  <2>3. LateArms'
    BY <1>9 DEF BrainStart, LateArms
  <2>4. QED  BY <2>1, <2>2, <2>3 DEF IInv
<1>10. CASE BrainStop \/ RecvGarbled
  BY <1>10, BrainEndsKeeps DEF BrainStop, RecvGarbled
<1>11. CASE RecvNothing
  BY <1>11, TimesAssumption
     DEF RecvNothing, Panic, IInv, TypeInv, Heard, LateArms, HeartbeatUnderWay
<1>12. CASE RecvHeartbeat
  <2>1. queue \in Seq(Message) /\ queue # <<>> /\ queue' = Tail(queue)
    BY <1>12 DEF RecvHeartbeat, Receives, IInv, TypeInv
  <2>2. queue' \in Seq(Message)
    BY <2>1
  <2>3. QED  BY <1>12, <2>2, TimesAssumption
             DEF RecvHeartbeat, Receives, IInv, TypeInv, Heard, LateArms
<1>13. ASSUME NEW s \in Symbol, NEW ts \in 1..MaxTs, NEW orders \in BOOLEAN, HandleTick(s, ts, orders)
       PROVE  IInv'
  BY <1>13, HandleTickKeeps
<1>14. CASE CheckAfterTick
  <2>1. TypeInv'
    BY <1>14 DEF CheckAfterTick, Panic, IInv, TypeInv
  <2>2. Heard'
    BY <1>14, TimesAssumption DEF CheckAfterTick, Panic, IInv, TypeInv, Heard, HeartbeatUnderWay
  <2>3. LateArms'
    BY <1>14 DEF CheckAfterTick, Panic, IInv, TypeInv, LateArms
  <2>4. QED  BY <2>1, <2>2, <2>3 DEF IInv
<1>15. QED
  BY <1>1, <1>2, <1>3, <1>4, <1>5, <1>6, <1>7, <1>8, <1>9, <1>10, <1>11, <1>12, <1>13, <1>14
  DEF Next, BrainStep

-----------------------------------------------------------------------------
(* The invariant behind NoFalseAlarm and OneLateTick holds in every state. *)
THEOREM Invariance == Spec => []IInv
BY Start, Step, PTL DEF Spec

(* A gateway that runs and is heard in time is never taken for lost, for every
   heartbeat interval within the timeout. *)
THEOREM NoFalseAlarms == Spec => []NoFalseAlarm
<1>1. IInv => NoFalseAlarm
  BY DEF IInv, Heard, NoFalseAlarm
<1>2. QED  BY <1>1, Invariance, PTL

(* After the timeout one tick at most leads to orders. *)
THEOREM OneTickLate == Spec => []OneLateTick
<1>1. IInv => OneLateTick
  BY DEF IInv, LateArms, OneLateTick
<1>2. QED  BY <1>1, Invariance, PTL
-----------------------------------------------------------------------------
(* Which of the gateway's starts a tick comes from orders what the brain sees:
   the ticks of a symbol under way come start by start, of one start in the
   order of their times and none later than last_seen, and what the brain has
   handled comes before them.  h is the start the last handled tick is of, f
   those of the messages under way. *)
IsTick(n, s) == queue[n].type = "tick" /\ queue[n].symbol = s

Ordered(s, h, f) ==
  /\ h = 0 => handled[s] = 0 /\ repeats[s] = 0
  /\ repeats[s] > 0 => repeats[s] < h
  /\ h = starts.gateway => handled[s] <= lastSeen[s]
  /\ \A n \in 1..Len(queue) : IsTick(n, s) =>
       /\ queue[n].ts \in Nat
       /\ f[n] >= h /\ f[n] \in 1..starts.gateway
       /\ f[n] = h => handled[s] < queue[n].ts
       /\ f[n] = starts.gateway => queue[n].ts <= lastSeen[s]
       /\ \A m \in n + 1..Len(queue) : IsTick(m, s) =>
            f[n] <= f[m] /\ (f[n] = f[m] => queue[n].ts < queue[m].ts)

OrderTypes ==
  /\ starts \in [gateway : Nat, brain : Nat]
  /\ lastSeen \in [Symbol -> Nat] /\ handled \in [Symbol -> Nat] /\ repeats \in [Symbol -> Nat]
  /\ gateway => starts.gateway > 0

HasOrder(s) == \E h \in 0..starts.gateway, f \in [1..Len(queue) -> Nat] : Ordered(s, h, f)

OrderInv == OrderTypes /\ \A s \in Symbol : HasOrder(s)

(* What neither sends nor receives keeps the order, and so does losing all
   that is under way. *)
LEMMA OrderUntouched ==
  ASSUME OrderInv, OrderTypes', NEW s \in Symbol,
         queue' = queue \/ queue' = <<>>,
         UNCHANGED <<handled, repeats, lastSeen, starts>>
  PROVE  HasOrder(s)'
<1>1. PICK h \in 0..starts.gateway, f \in [1..Len(queue) -> Nat] : Ordered(s, h, f)
  BY DEF OrderInv, HasOrder
<1>2. CASE queue' = queue
  <2>1. Ordered(s, h, f)'
    BY <1>1, <1>2 DEF Ordered, IsTick
  <2>2. QED  BY <1>2, <2>1 DEF HasOrder
<1>3. CASE queue' = <<>>
  <2> DEFINE g == [n \in 1..0 |-> 0]
  <2>1. g \in [1..Len(queue') -> Nat]
    BY <1>3
  <2>2. Ordered(s, h, g)'
    BY <1>1, <1>3 DEF Ordered
  <2>3. QED  BY <2>1, <2>2 DEF HasOrder
<1>4. QED  BY <1>2, <1>3

(* A gateway that starts sends its ticks in order, after those of its
   predecessors. *)
LEMMA OrderGatewayStart ==
  ASSUME OrderInv, GatewayStart, NEW s \in Symbol
  PROVE  HasOrder(s)'
<1>1. PICK h \in 0..starts.gateway, f \in [1..Len(queue) -> Nat] : Ordered(s, h, f)
  BY DEF OrderInv, HasOrder
<1>2. /\ starts'.gateway = starts.gateway + 1 /\ starts.gateway \in Nat
      /\ UNCHANGED <<queue, handled, repeats>>
  BY DEF GatewayStart, OrderInv, OrderTypes, historyVars
<1>3. Ordered(s, h, f)'
  BY <1>1, <1>2 DEF Ordered, IsTick
<1>4. QED  BY <1>2, <1>3 DEF HasOrder

(* A brain that starts changes nothing in the order of what is under way. *)
LEMMA OrderBrainStart ==
  ASSUME OrderInv, BrainStart, NEW s \in Symbol
  PROVE  HasOrder(s)'
<1>1. PICK h \in 0..starts.gateway, f \in [1..Len(queue) -> Nat] : Ordered(s, h, f)
  BY DEF OrderInv, HasOrder
<1>2. /\ starts'.gateway = starts.gateway /\ starts.gateway \in Nat /\ lastSeen[s] \in Nat
      /\ handled'[s] = 0 /\ repeats'[s] = 0
      /\ UNCHANGED <<queue, lastSeen>>
  BY DEF BrainStart, OrderInv, OrderTypes, Never, gatewayVars
<1>3. Ordered(s, 0, f)'
  BY <1>1, <1>2 DEF Ordered, IsTick
<1>4. QED  BY <1>2, <1>3 DEF HasOrder

(* A message taken off: the rest keeps its order; h says what is to hold of
   what was handled then. *)
LEMMA OrderTail ==
  ASSUME OrderInv, NEW s \in Symbol, NEW h \in 0..starts.gateway, NEW f \in [1..Len(queue) -> Nat],
         queue \in Seq(Message), queue # <<>>, queue' = Tail(queue),
         Ordered(s, h, f), UNCHANGED <<lastSeen, starts>>,
         NEW k \in h..starts.gateway,
         k = 0 => handled'[s] = 0 /\ repeats'[s] = 0,
         repeats'[s] > 0 => repeats'[s] < k,
         k = starts.gateway => handled'[s] <= lastSeen[s],
         \A m \in 2..Len(queue) : IsTick(m, s) =>
           f[m] >= k /\ (f[m] = k => handled'[s] < queue[m].ts)
  PROVE  HasOrder(s)'
<1>1. Len(queue) \in Nat /\ Len(queue') = Len(queue) - 1
      /\ \A n \in 1..Len(queue') : queue'[n] = queue[n + 1]
  BY HeadTailProperties, LenProperties
<1>2. PICK g \in [1..Len(queue') -> Nat] : \A n \in 1..Len(queue') : g[n] = f[n + 1]
  <2>1. [n \in 1..Len(queue') |-> f[n + 1]] \in [1..Len(queue') -> Nat]
    BY <1>1
  <2>2. QED  BY <2>1
<1>3. ASSUME NEW n \in 1..Len(queue'), IsTick(n, s)'
      PROVE  /\ queue'[n].ts \in Nat
             /\ g[n] >= k /\ g[n] \in 1..starts.gateway
             /\ g[n] = k => handled'[s] < queue'[n].ts
             /\ g[n] = starts.gateway => queue'[n].ts <= lastSeen[s]
             /\ \A m \in n + 1..Len(queue') : IsTick(m, s)' =>
                  g[n] <= g[m] /\ (g[n] = g[m] => queue'[n].ts < queue'[m].ts)
  <2>1. n + 1 \in 2..Len(queue) /\ IsTick(n + 1, s) /\ queue'[n] = queue[n + 1] /\ g[n] = f[n + 1]
    BY <1>1, <1>2, <1>3 DEF IsTick
  <2>2. ASSUME NEW m \in n + 1..Len(queue'), IsTick(m, s)'
        PROVE  m + 1 \in n + 2..Len(queue) /\ IsTick(m + 1, s) /\ queue'[m] = queue[m + 1] /\ g[m] = f[m + 1]
    <3>1. m \in 1..Len(queue') /\ m + 1 \in n + 2..Len(queue)
      BY <1>1, <2>2
    <3>2. queue'[m] = queue[m + 1] /\ g[m] = f[m + 1]
      BY <1>1, <1>2, <3>1
    <3>3. QED  BY <2>2, <3>1, <3>2 DEF IsTick
  <2>3. /\ queue[n + 1].ts \in Nat /\ f[n + 1] \in 1..starts.gateway
        /\ f[n + 1] = starts.gateway => queue[n + 1].ts <= lastSeen[s]
        /\ \A m \in n + 2..Len(queue) : IsTick(m, s) =>
             f[n + 1] <= f[m] /\ (f[n + 1] = f[m] => queue[n + 1].ts < queue[m].ts)
    BY <2>1 DEF Ordered
  <2>4. QED  BY <2>1, <2>2, <2>3
<1>4. Ordered(s, k, g)'
  BY <1>3 DEF Ordered
<1>5. k \in 0..starts'.gateway
  BY DEF OrderInv, OrderTypes
<1>6. QED  BY <1>2, <1>4, <1>5 DEF HasOrder
(* Messages sent after what is under way, as far as they fit. *)
LEMMA OrderSent ==
  ASSUME OrderInv, NEW s \in Symbol, queue \in Seq(Message), queue' \in Seq(Message),
         NEW sent \in Seq(Message),
         Len(queue') <= Len(queue) + Len(sent),
         \A n \in 1..Len(queue') :
           queue'[n] = IF n <= Len(queue) THEN queue[n] ELSE sent[n - Len(queue)],
         lastSeen'[s] \in Nat, lastSeen'[s] >= lastSeen[s],
         UNCHANGED <<handled, repeats, starts>>,
         \A j \in 1..Len(sent) : sent[j].type = "tick" /\ sent[j].symbol = s =>
           /\ starts.gateway > 0
           /\ sent[j].ts \in Nat /\ lastSeen[s] < sent[j].ts /\ sent[j].ts <= lastSeen'[s]
           /\ \A i \in j + 1..Len(sent) : ~(sent[i].type = "tick" /\ sent[i].symbol = s)
  PROVE  HasOrder(s)'
<1>1. PICK h \in 0..starts.gateway, f \in [1..Len(queue) -> Nat] : Ordered(s, h, f)
  BY DEF OrderInv, HasOrder
<1>2. Len(queue) \in Nat /\ Len(queue') \in Nat /\ Len(sent) \in Nat /\ starts.gateway \in Nat
      /\ lastSeen[s] \in Nat /\ handled[s] \in Nat
  BY LenProperties DEF OrderInv, OrderTypes
<1>3. PICK g \in [1..Len(queue') -> Nat] : \A n \in 1..Len(queue') :
        g[n] = IF n <= Len(queue) THEN f[n] ELSE starts.gateway
  <2>1. [n \in 1..Len(queue') |-> IF n <= Len(queue) THEN f[n] ELSE starts.gateway]
          \in [1..Len(queue') -> Nat]
    BY <1>2
  <2>2. QED  BY <2>1
<1>4. ASSUME NEW n \in 1..Len(queue'), IsTick(n, s)', n <= Len(queue)
      PROVE  n \in 1..Len(queue) /\ IsTick(n, s) /\ queue'[n] = queue[n] /\ g[n] = f[n]
  BY <1>2, <1>3, <1>4 DEF IsTick
<1>5. ASSUME NEW n \in 1..Len(queue'), IsTick(n, s)', ~(n <= Len(queue))
      PROVE  /\ g[n] = starts.gateway /\ starts.gateway > 0
             /\ queue'[n].ts \in Nat /\ lastSeen[s] < queue'[n].ts /\ queue'[n].ts <= lastSeen'[s]
             /\ \A m \in n + 1..Len(queue') : ~IsTick(m, s)'
  <2> DEFINE j == n - Len(queue)
  <2>1. j \in 1..Len(sent) /\ queue'[n] = sent[j] /\ g[n] = starts.gateway
    BY <1>2, <1>3, <1>5
  <2>2. sent[j].type = "tick" /\ sent[j].symbol = s
    BY <2>1, <1>5 DEF IsTick
  <2>3. ASSUME NEW m \in n + 1..Len(queue') PROVE ~IsTick(m, s)'
    <3>1. m \in 1..Len(queue') /\ ~(m <= Len(queue)) /\ m - Len(queue) \in j + 1..Len(sent)
      BY <1>2, <1>5, <2>3
    <3>2. queue'[m] = sent[m - Len(queue)]
      BY <3>1
    <3> HIDE DEF j
    <3>3. ~(sent[m - Len(queue)].type = "tick" /\ sent[m - Len(queue)].symbol = s)
      BY <2>1, <2>2, <3>1
    <3>4. QED  BY <3>2, <3>3 DEF IsTick
  <2> HIDE DEF j
  <2>4. QED  BY <2>1, <2>2, <2>3
<1>6. ASSUME NEW n \in 1..Len(queue'), IsTick(n, s)'
      PROVE  /\ queue'[n].ts \in Nat
             /\ g[n] >= h /\ g[n] \in 1..starts.gateway
             /\ g[n] = h => handled[s] < queue'[n].ts
             /\ g[n] = starts.gateway => queue'[n].ts <= lastSeen'[s]
             /\ \A m \in n + 1..Len(queue') : IsTick(m, s)' =>
                  g[n] <= g[m] /\ (g[n] = g[m] => queue'[n].ts < queue'[m].ts)
  <2>1. CASE n <= Len(queue)
    <3>1. /\ queue[n].ts \in Nat
          /\ f[n] >= h /\ f[n] \in 1..starts.gateway
          /\ f[n] = h => handled[s] < queue[n].ts
          /\ f[n] = starts.gateway => queue[n].ts <= lastSeen[s]
          /\ \A m \in n + 1..Len(queue) : IsTick(m, s) =>
               f[n] <= f[m] /\ (f[n] = f[m] => queue[n].ts < queue[m].ts)
      BY <1>1, <1>4, <1>6, <2>1 DEF Ordered
    <3>2. queue'[n] = queue[n] /\ g[n] = f[n]
      BY <1>4, <1>6, <2>1
    <3>3. ASSUME NEW m \in n + 1..Len(queue'), IsTick(m, s)'
          PROVE  g[n] <= g[m] /\ (g[n] = g[m] => queue'[n].ts < queue'[m].ts)
      <4>1. m \in 1..Len(queue')
        BY <3>3, <1>2
      <4>2. CASE m <= Len(queue)
        <5>1. m \in n + 1..Len(queue) /\ IsTick(m, s) /\ queue'[m] = queue[m] /\ g[m] = f[m]
          BY <1>4, <3>3, <4>1, <4>2
        <5>2. QED  BY <3>1, <3>2, <5>1
      <4>3. CASE ~(m <= Len(queue))
        <5>1. g[m] = starts.gateway /\ queue'[m].ts \in Nat /\ lastSeen[s] < queue'[m].ts
          BY <1>5, <3>3, <4>1, <4>3
        <5>2. QED  BY <1>2, <3>1, <3>2, <5>1
      <4>4. QED  BY <4>2, <4>3
    <3>4. QED  BY <1>2, <3>1, <3>2, <3>3
  <2>2. CASE ~(n <= Len(queue))
    <3>1. /\ g[n] = starts.gateway /\ starts.gateway > 0
          /\ queue'[n].ts \in Nat /\ lastSeen[s] < queue'[n].ts /\ queue'[n].ts <= lastSeen'[s]
          /\ \A m \in n + 1..Len(queue') : ~IsTick(m, s)'
      BY <1>5, <1>6, <2>2
    <3>2. h = starts.gateway => handled[s] <= lastSeen[s]
      BY <1>1 DEF Ordered
    <3>3. QED  BY <1>2, <3>1, <3>2
  <2>3. QED  BY <2>1, <2>2
<1>7. /\ h = 0 => handled[s] = 0 /\ repeats[s] = 0
      /\ repeats[s] > 0 => repeats[s] < h
      /\ h = starts.gateway => handled[s] <= lastSeen'[s]
  BY <1>1, <1>2 DEF Ordered
<1>8. Ordered(s, h, g)'
  BY <1>6, <1>7 DEF Ordered
<1>9. QED  BY <1>3, <1>8 DEF HasOrder

(* The tick handled was the oldest under way, so those left keep their order. *)
LEMMA OrderHandleTick ==
  ASSUME IInv, OrderInv, NEW t \in Symbol, NEW ts \in 1..MaxTs, NEW orders \in BOOLEAN,
         HandleTick(t, ts, orders), NEW s \in Symbol
  PROVE  HasOrder(s)'
<1>1. PICK h \in 0..starts.gateway, f \in [1..Len(queue) -> Nat] : Ordered(s, h, f)
  BY DEF OrderInv, HasOrder
<1>2. /\ queue \in Seq(Message) /\ queue # <<>> /\ queue' = Tail(queue)
      /\ Head(queue) = [type |-> "tick", symbol |-> t, ts |-> ts]
      /\ handled' = [handled EXCEPT ![t] = ts]
      /\ repeats' = IF handled[t] >= ts THEN [repeats EXCEPT ![t] = @ + 1] ELSE repeats
      /\ UNCHANGED <<lastSeen, starts>>
  BY DEF HandleTick, Receives, IInv, TypeInv, gatewayVars
<1>3. starts.gateway \in Nat /\ handled \in [Symbol -> Nat] /\ repeats \in [Symbol -> Nat]
      /\ lastSeen[s] \in Nat
  BY DEF OrderInv, OrderTypes
<1>4. CASE s # t
  <2>1. handled'[s] = handled[s] /\ repeats'[s] = repeats[s]
    BY <1>2, <1>3, <1>4
  <2>2. \A m \in 2..Len(queue) : IsTick(m, s) => f[m] >= h /\ (f[m] = h => handled'[s] < queue[m].ts)
    BY <1>1, <2>1 DEF Ordered
  <2>3. /\ h = 0 => handled'[s] = 0 /\ repeats'[s] = 0
        /\ repeats'[s] > 0 => repeats'[s] < h
        /\ h = starts.gateway => handled'[s] <= lastSeen[s]
    BY <1>1, <2>1 DEF Ordered
  <2>4. h \in h..starts.gateway
    BY <1>3
  <2>5. QED  BY <1>1, <1>2, <2>2, <2>3, <2>4, OrderTail
<1>5. CASE s = t
  <2>1. 1 \in 1..Len(queue) /\ queue[1].type = "tick" /\ queue[1].symbol = s /\ queue[1].ts = ts
    <3>1. 1 \in 1..Len(queue) /\ queue[1] = Head(queue)
      BY <1>2
    <3>2. QED  BY <1>2, <1>5, <3>1
  <2>2. /\ f[1] >= h /\ f[1] \in 1..starts.gateway
        /\ f[1] = h => handled[s] < ts
        /\ f[1] = starts.gateway => ts <= lastSeen[s]
        /\ \A m \in 2..Len(queue) : IsTick(m, s) =>
             f[1] <= f[m] /\ (f[1] = f[m] => ts < queue[m].ts)
    <3>1. IsTick(1, s) /\ 1 + 1 = 2
      BY <2>1 DEF IsTick
    <3>2. QED  BY <1>1, <2>1, <3>1 DEF Ordered
  <2>3. handled'[s] = ts /\ repeats'[s] = IF handled[s] >= ts THEN repeats[s] + 1 ELSE repeats[s]
    BY <1>2, <1>3, <1>5
  <2>4. (h = 0 => handled[s] = 0) /\ (repeats[s] > 0 => repeats[s] < h)
    BY <1>1 DEF Ordered
  <2>5. repeats'[s] > 0 => repeats'[s] < f[1]
    <3>1. repeats[s] \in Nat /\ handled[s] \in Nat /\ h \in Nat /\ f[1] \in Nat /\ ts >= 1
      BY <1>3, <2>2
    <3>2. QED  BY <2>2, <2>3, <2>4, <3>1
  <2>6. f[1] \in h..starts.gateway /\ f[1] # 0
    BY <1>3, <2>2
  <2>7. \A m \in 2..Len(queue) : IsTick(m, s) =>
          f[m] >= f[1] /\ (f[m] = f[1] => handled'[s] < queue[m].ts)
    <3>1. \A m \in 2..Len(queue) : f[m] \in Nat
      OBVIOUS
    <3>2. QED  BY <2>2, <2>3, <2>6, <3>1
  <2>8. f[1] = starts.gateway => handled'[s] <= lastSeen[s]
    BY <2>2, <2>3
  <2>9. QED  BY <1>1, <1>2, <2>5, <2>6, <2>7, <2>8, OrderTail
<1>6. QED  BY <1>4, <1>5
(* What fits of what is sent follows what is under way. *)
LEMMA SendFits ==
  ASSUME IInv, NEW messages \in Seq(Message), Send(messages), brain # "down"
  PROVE  /\ queue' \in Seq(Message)
         /\ Len(queue') <= Len(queue) + Len(messages)
         /\ \A n \in 1..Len(queue') :
              queue'[n] = IF n <= Len(queue) THEN queue[n] ELSE messages[n - Len(queue)]
<1> DEFINE q == queue \o messages
           m == Min({HighWater, Len(q)})
<1>1. queue \in Seq(Message) /\ q \in Seq(Message) /\ Len(q) = Len(queue) + Len(messages)
      /\ Len(queue) \in Nat /\ Len(messages) \in Nat
  BY ConcatProperties, LenProperties DEF IInv, TypeInv
<1>2. \A n \in 1..Len(q) : q[n] = IF n <= Len(queue) THEN queue[n] ELSE messages[n - Len(queue)]
  BY <1>1, ConcatProperties
<1>3. queue' = SubSeq(q, 1, m)
  BY DEF Send
<1> HIDE DEF q
<1>4. m \in 0..Len(q)
  BY <1>1, MinOfTwo, HighWaterAssumption
<1> HIDE DEF m
<1>5. queue' \in Seq(Message) /\ Len(queue') = m /\ \A n \in 1..m : queue'[n] = q[n]
  <2>1. \A i \in 1..m : q[i] \in Message
    BY <1>1, <1>4
  <2>2. /\ SubSeq(q, 1, m) \in Seq(Message)
        /\ Len(SubSeq(q, 1, m)) = IF 1 <= m THEN m - 1 + 1 ELSE 0
        /\ \A i \in 1..m - 1 + 1 : SubSeq(q, 1, m)[i] = q[1 + i - 1]
    BY <1>4, <2>1, SubSeqProperties
  <2>3. QED  BY <1>3, <1>4, <2>2
<1>6. QED  BY <1>1, <1>2, <1>4, <1>5

(* A round of the gateway puts at most one tick of a symbol, a newer one, at the end. *)
LEMMA OrderPoll ==
  ASSUME IInv, OrderInv, Poll, NEW s \in Symbol
  PROVE  HasOrder(s)'
<1> DEFINE new == {r \in Symbol : Fresh(r)}
           due == beatAge >= HeartbeatS
<1>1. PICK order \in SetToSeqs(new) :
        LET ticks == [n \in DOMAIN order |-> TickMessage(order[n])]
        IN  Send(IF due THEN Append(ticks, Heartbeat) ELSE ticks)
  BY DEF Poll
<1> DEFINE ticks == [n \in DOMAIN order |-> TickMessage(order[n])]
           sent == IF due THEN Append(ticks, Heartbeat) ELSE ticks
<1>2. Send(sent) /\ ticks \in Seq(Message) /\ sent \in Seq(Message)
  <2>1. ticks \in Seq(Message) /\ Append(ticks, Heartbeat) \in Seq(Message)
    BY BatchOfMessages
  <2>2. QED  BY <1>1, <2>1
<1>3. /\ queue \in Seq(Message) /\ quote \in [Symbol -> Nat] /\ lastSeen \in [Symbol -> Nat]
      /\ gateway /\ starts.gateway > 0
      /\ lastSeen' = [r \in Symbol |-> IF Fresh(r) THEN quote[r] ELSE lastSeen[r]]
      /\ UNCHANGED <<brain, handled, repeats, starts>>
  BY DEF Poll, IInv, TypeInv, OrderInv, OrderTypes, historyVars
<1>4. lastSeen'[s] \in Nat /\ lastSeen'[s] >= lastSeen[s]
  BY <1>3 DEF Fresh
<1>5. ASSUME NEW j \in 1..Len(sent), sent[j].type = "tick" /\ sent[j].symbol = s
      PROVE  /\ starts.gateway > 0
             /\ sent[j].ts \in Nat /\ lastSeen[s] < sent[j].ts /\ sent[j].ts <= lastSeen'[s]
             /\ \A i \in j + 1..Len(sent) : ~(sent[i].type = "tick" /\ sent[i].symbol = s)
  <2> DEFINE D == 1..Cardinality(new)
  <2>1. /\ order \in [D -> new] /\ \A i, k \in D : i # k => order[i] # order[k]
        /\ Cardinality(new) \in Nat
    BY SymbolAssumption, FS_Subset, FS_CardinalityType DEF SetToSeqs
  <2>2. Len(ticks) = Cardinality(new) /\ \A n \in D : ticks[n] = TickMessage(order[n])
    <3>1. ticks = [n \in D |-> TickMessage(order[n])] /\ Len(ticks) \in Nat /\ DOMAIN ticks = 1..Len(ticks)
      BY <1>2, <2>1, LenProperties
    <3>2. DOMAIN ticks = D
      BY <3>1
    <3>3. QED  BY <2>1, <3>1, <3>2
  <2> HIDE DEF ticks
  <2>3. ASSUME NEW i \in 1..Len(sent), sent[i].type = "tick" /\ sent[i].symbol = s
        PROVE  i \in D /\ order[i] = s /\ sent[i] = TickMessage(s)
    <3>1. CASE i \in D
      <4>1. sent[i] = ticks[i]
        BY <1>2, <2>2, <3>1
      <4>2. sent[i] = TickMessage(order[i])
        BY <2>2, <3>1, <4>1
      <4>3. order[i] = s
        BY <2>3, <4>2 DEF TickMessage
      <4>4. QED  BY <3>1, <4>2, <4>3
    <3>2. CASE i \notin D
      <4>1. sent[i] = Heartbeat
        BY <1>2, <2>1, <2>2, <3>2
      <4>2. QED  BY <2>3, <4>1 DEF Heartbeat
    <3>3. QED  BY <3>1, <3>2
  <2> HIDE DEF sent
  <2>4. j \in D /\ order[j] = s /\ sent[j] = TickMessage(s)
    BY <1>5, <2>3
  <2>5. Fresh(s)
    BY <2>1, <2>4
  <2>6. \A i \in j + 1..Len(sent) : ~(sent[i].type = "tick" /\ sent[i].symbol = s)
    <3>1. ASSUME NEW i \in j + 1..Len(sent), sent[i].type = "tick" /\ sent[i].symbol = s
          PROVE  FALSE
      <4>1. i \in 1..Len(sent) /\ i # j
        BY <1>2, <3>1, LenProperties
      <4>2. i \in D /\ order[i] = s
        BY <2>3, <3>1, <4>1
      <4>3. QED  BY <2>1, <2>4, <4>1, <4>2
    <3>2. QED  BY <3>1
  <2>7. sent[j].ts = quote[s]
    BY <2>4 DEF TickMessage
  <2>8. QED  BY <1>3, <2>5, <2>6, <2>7 DEF Fresh
<1> HIDE DEF sent
<1>6. CASE brain = "down"
  <2>1. queue' = queue
    BY <1>2, <1>6 DEF Send
  <2>2. <<>> \in Seq(Message) /\ Len(<<>>) = 0
    BY EmptySeq
  <2>3. /\ Len(queue) \in Nat /\ Len(queue') <= Len(queue) + Len(<<>>)
        /\ \A n \in 1..Len(queue') : queue'[n] = IF n <= Len(queue) THEN queue[n] ELSE <<>>[n - Len(queue)]
        /\ \A j \in 1..Len(<<>>) : FALSE
    BY <1>3, <2>1, <2>2, LenProperties
  <2>4. QED  BY <1>3, <1>4, <2>1, <2>2, <2>3, OrderSent
<1>7. CASE brain # "down"
  <2>1. /\ queue' \in Seq(Message)
        /\ Len(queue') <= Len(queue) + Len(sent)
        /\ \A n \in 1..Len(queue') :
             queue'[n] = IF n <= Len(queue) THEN queue[n] ELSE sent[n - Len(queue)]
    BY <1>2, <1>7, SendFits
  <2>2. QED  BY <1>2, <1>3, <1>4, <1>5, <2>1, OrderSent
<1>8. QED  BY <1>6, <1>7

(* Every step keeps the order of the ticks. *)
LEMMA OrderStep == IInv /\ OrderInv /\ [Next]_vars => OrderInv'
<1> SUFFICES ASSUME IInv, OrderInv, [Next]_vars PROVE OrderInv'
  OBVIOUS
<1> USE DEF terminalVars, gatewayVars, historyVars
<1>1. CASE UNCHANGED vars \/ Second \/ Lose \/ GatewayStop \/ BrainStop \/ RecvGarbled
           \/ RecvNothing \/ CheckAfterTick \/ \E s \in Symbol : NewQuote(s)
  <2>1. /\ queue' = queue \/ queue' = <<>>
        /\ gateway' => gateway
        /\ UNCHANGED <<handled, repeats, lastSeen, starts>>
    BY <1>1 DEF vars, Second, Lose, GatewayStop, BrainStop, RecvGarbled, RecvNothing, CheckAfterTick,
                NewQuote, BrainEnds
  <2>2. OrderTypes'
    BY <2>1 DEF OrderInv, OrderTypes
  <2>3. QED  BY <2>1, <2>2, OrderUntouched DEF OrderInv
<1>2. CASE CrossTalk
  <2>1. /\ queue \in Seq(Message) /\ Garbled \in Message /\ queue' = Append(queue, Garbled)
        /\ UNCHANGED <<gateway, handled, repeats, lastSeen, starts>>
    BY <1>2 DEF CrossTalk, IInv, TypeInv, Message
  <2>2. OrderTypes'
    BY <2>1 DEF OrderInv, OrderTypes
  <2>3. ASSUME NEW s \in Symbol PROVE HasOrder(s)'
    <3> DEFINE sent == <<Garbled>>
    <3>1. sent \in Seq(Message) /\ Len(sent) = 1 /\ sent[1] = Garbled
      BY <2>1
    <3>2. /\ queue' \in Seq(Message) /\ Len(queue') = Len(queue) + 1 /\ Len(queue) \in Nat
          /\ \A n \in 1..Len(queue') : queue'[n] = IF n <= Len(queue) THEN queue[n] ELSE Garbled
      BY <2>1
    <3> HIDE DEF sent
    <3>3. /\ Len(queue') <= Len(queue) + Len(sent)
          /\ \A n \in 1..Len(queue') :
               queue'[n] = IF n <= Len(queue) THEN queue[n] ELSE sent[n - Len(queue)]
      BY <3>1, <3>2
    <3>4. \A j \in 1..Len(sent) : sent[j].type # "tick"
      BY <3>1 DEF Garbled
    <3>5. lastSeen'[s] \in Nat /\ lastSeen'[s] >= lastSeen[s]
      BY <2>1 DEF OrderInv, OrderTypes
    <3>6. QED  BY <2>1, <3>1, <3>2, <3>3, <3>4, <3>5, OrderSent
  <2>4. QED  BY <2>2, <2>3 DEF OrderInv
<1>3. CASE GatewayStart
  <2>1. OrderTypes'
    BY <1>3 DEF GatewayStart, OrderInv, OrderTypes, Never
  <2>2. QED  BY <1>3, <2>1, OrderGatewayStart DEF OrderInv
<1>4. CASE Poll
  <2>1. OrderTypes'
    BY <1>4 DEF Poll, OrderInv, OrderTypes, IInv, TypeInv
  <2>2. QED  BY <1>4, <2>1, OrderPoll DEF OrderInv
<1>5. CASE BrainStart
  <2>1. OrderTypes'
    BY <1>5 DEF BrainStart, OrderInv, OrderTypes, Never
  <2>2. QED  BY <1>5, <2>1, OrderBrainStart DEF OrderInv
<1>6. CASE RecvHeartbeat
  <2>1. /\ queue \in Seq(Message) /\ queue # <<>> /\ queue' = Tail(queue)
        /\ UNCHANGED <<gateway, handled, repeats, lastSeen, starts>>
    BY <1>6 DEF RecvHeartbeat, Receives, IInv, TypeInv
  <2>2. OrderTypes'
    BY <2>1 DEF OrderInv, OrderTypes
  <2>3. ASSUME NEW s \in Symbol PROVE HasOrder(s)'
    <3>1. PICK h \in 0..starts.gateway, f \in [1..Len(queue) -> Nat] : Ordered(s, h, f)
      BY DEF OrderInv, HasOrder
    <3>2. h \in h..starts.gateway
      BY DEF OrderInv, OrderTypes
    <3>3. /\ h = 0 => handled'[s] = 0 /\ repeats'[s] = 0
          /\ repeats'[s] > 0 => repeats'[s] < h
          /\ h = starts.gateway => handled'[s] <= lastSeen[s]
          /\ \A m \in 2..Len(queue) : IsTick(m, s) =>
               f[m] >= h /\ (f[m] = h => handled'[s] < queue[m].ts)
      BY <2>1, <3>1 DEF Ordered
    <3>4. QED  BY <2>1, <3>1, <3>2, <3>3, OrderTail
  <2>4. QED  BY <2>2, <2>3 DEF OrderInv
<1>7. ASSUME NEW t \in Symbol, NEW ts \in 1..MaxTs, NEW orders \in BOOLEAN, HandleTick(t, ts, orders)
      PROVE  OrderInv'
  <2>1. ts \in Nat
    OBVIOUS
  <2>2. OrderTypes'
    BY <1>7, <2>1 DEF HandleTick, OrderInv, OrderTypes
  <2>3. QED  BY <1>7, <2>2, OrderHandleTick DEF OrderInv
<1>8. QED
  BY <1>1, <1>2, <1>3, <1>4, <1>5, <1>6, <1>7 DEF Next, BrainStep

(* The ticks of a symbol reach the brain in the order of the starts of the
   gateways that sent them. *)
THEOREM OrderInvariance == Spec => []OrderInv
<1>1. Init => OrderInv
  <2> SUFFICES ASSUME Init PROVE OrderInv
    OBVIOUS
  <2>1. OrderTypes
    BY DEF Init, OrderTypes, Never
  <2>2. ASSUME NEW s \in Symbol PROVE HasOrder(s)
    <3> DEFINE f == [n \in 1..0 |-> 0]
    <3>1. 0 \in 0..starts.gateway /\ f \in [1..Len(queue) -> Nat]
      BY DEF Init
    <3>2. Ordered(s, 0, f)
      BY DEF Init, Ordered, Never
    <3>3. QED  BY <3>1, <3>2 DEF HasOrder
  <2>3. QED  BY <2>1, <2>2 DEF OrderInv
<1>2. QED  BY <1>1, OrderStep, Invariance, PTL DEF Spec

(* A strategy is shown a tick again at most once for each restart of the
   gateway, whatever is lost, dropped or still under way when it restarts. *)
THEOREM RepeatsAreRestarts == Spec => []RepeatsOnlyAfterRestart
<1>1. OrderInv => RepeatsOnlyAfterRestart
  <2> SUFFICES ASSUME OrderInv, NEW s \in Symbol, repeats[s] > 0 PROVE repeats[s] < starts.gateway
    BY DEF RepeatsOnlyAfterRestart
  <2>1. PICK h \in 0..starts.gateway : repeats[s] < h
    BY DEF OrderInv, HasOrder, Ordered
  <2>2. QED  BY <2>1 DEF OrderInv, OrderTypes
<1>2. QED  BY <1>1, OrderInvariance, PTL
=============================================================================
