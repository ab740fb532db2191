------------------------- MODULE LivePipeline_proofs -------------------------
(***************************************************************************)
(* Proofs about LivePipeline, for every finite set of orders and every     *)
(* number of connections, restarts and waiting ticks.                      *)
(***************************************************************************)
EXTENDS LivePipeline, FiniteSetTheorems, TLAPS

-----------------------------------------------------------------------------
(* What the sequence operators do to the set of elements. *)

(* An empty queue holds no line. *)
LEMMA RangeEmpty == Range(<< >>) = {}
BY DEF Range

(* A line written to the end of a queue is added to what it holds. *)
LEMMA RangeAppend ==
  ASSUME NEW S, NEW s \in Seq(S), NEW e \in S
  PROVE  Append(s, e) \in Seq(S) /\ Range(Append(s, e)) = Range(s) \cup {e}
BY DEF Range

(* The line read is one of the queue, and what is left was there before. *)
LEMMA RangeTail ==
  ASSUME NEW S, NEW s \in Seq(S), s # << >>
  PROVE  /\ Tail(s) \in Seq(S)
         /\ Head(s) \in S
         /\ Head(s) \in Range(s)
         /\ Range(Tail(s)) \subseteq Range(s)
BY DEF Range

(* Lines written one after the other: the queue holds both parts. *)
LEMMA RangeConcat ==
  ASSUME NEW S, NEW s \in Seq(S), NEW t \in Seq(S)
  PROVE  s \o t \in Seq(S) /\ Range(s \o t) = Range(s) \cup Range(t)
<1> DEFINE st == s \o t
<1>1. /\ st \in Seq(S)
      /\ Len(st) = Len(s) + Len(t)
      /\ \A i \in 1..Len(s) : st[i] = s[i]
      /\ \A i \in 1..Len(t) : st[Len(s) + i] = t[i]
  OBVIOUS
<1>2. Range(st) \subseteq Range(s) \cup Range(t)
  <2> SUFFICES ASSUME NEW i \in 1..Len(st) PROVE st[i] \in Range(s) \cup Range(t)
    BY <1>1 DEF Range
  <2>1. CASE i <= Len(s)
    BY <2>1, <1>1 DEF Range
  <2>2. CASE i > Len(s)
    <3>1. i - Len(s) \in 1..Len(t) /\ st[i] = t[i - Len(s)]
      BY <2>2, <1>1
    <3>2. QED  BY <3>1 DEF Range
  <2>3. QED  BY <2>1, <2>2
<1>3. Range(s) \subseteq Range(st)
  BY <1>1 DEF Range
<1>4. Range(t) \subseteq Range(st)
  <2> SUFFICES ASSUME NEW i \in 1..Len(t) PROVE t[i] \in Range(st)
    BY DEF Range
  <2>1. Len(s) + i \in 1..Len(st) /\ st[Len(s) + i] = t[i]
    BY <1>1
  <2>2. QED
    <3>1. DOMAIN st = 1..Len(st)
      BY <1>1
    <3>2. QED  BY <2>1, <3>1 DEF Range
<1>5. Range(st) = Range(s) \cup Range(t)
  <2> HIDE DEF st
  <2>1. QED  BY <1>2, <1>3, <1>4
<1>6. QED  BY <1>1, <1>5

(* The lines that still went out before a send failed are some of them. *)
LEMMA RangeSubSeq ==
  ASSUME NEW S, NEW s \in Seq(S), NEW n \in 0..Len(s)
  PROVE  SubSeq(s, 1, n) \in Seq(S) /\ Range(SubSeq(s, 1, n)) \subseteq Range(s)
BY DEF Range

-----------------------------------------------------------------------------
(* The lines the EA writes. *)

(* ExecuteOrder answers the orders it was given, each according to what the
   broker did (bridge_ea.mq5:161-186). *)
LEMMA RepliesAreLines ==
  ASSUME NEW orders \in Seq(Orders), NEW executed
  PROVE  /\ Replies(orders, executed) \in Seq(Lines)
         /\ \A line \in Range(Replies(orders, executed)) :
              \E o \in Range(orders) :
                line = Reply(IF ~AllowExecution \/ o \in executed THEN "ok" ELSE "err", o)
BY DEF Replies, Reply, Lines, Range

(* A listing names some of the positions, each at most once: no more than there
   are. *)
LEMMA ListingType ==
  ASSUME NEW positions \in SUBSET Orders, NEW listing \in Listings(positions)
  PROVE  /\ Cardinality(positions) \in Nat
         /\ listing \in Seq(Orders) /\ Len(listing) \in Nat
         /\ Range(listing) \in SUBSET positions
         /\ Cardinality(Range(listing)) \in Nat
         /\ Cardinality(Range(listing)) <= Cardinality(positions)
<1>1. PICK listed \in SUBSET positions :
        listing \in [1..Cardinality(listed) -> listed] /\ Range(listing) = listed
  BY DEF Listings
<1>2. IsFiniteSet(positions) /\ IsFiniteSet(listed)
  BY OrdersAssumption, FS_Subset
<1>3. /\ Cardinality(positions) \in Nat /\ Cardinality(listed) \in Nat
      /\ Cardinality(listed) <= Cardinality(positions)
  BY <1>2, FS_CardinalityType, FS_Subset
<1>4. listing \in Seq(Orders)
  BY <1>1, <1>3
<1>5. QED  BY <1>1, <1>3, <1>4

(* PushPositions writes positions and the sentinel, no answers
   (bridge_ea.mq5:224-249). *)
LEMMA SnapshotIsLines ==
  ASSUME NEW positions \in SUBSET Orders, NEW listing \in Listings(positions), NEW total \in Nat
  PROVE  /\ Snapshot(listing, total) \in Seq(Lines)
         /\ \A line \in Range(Snapshot(listing, total)) : line.kind \in {"position", "positions_end"}
<1>1. listing \in Seq(Orders) /\ Range(listing) \in SUBSET Orders
  BY ListingType
<1> DEFINE rows == [i \in 1..Len(listing) |-> PositionLine(listing[i])]
           rest == <<EndLine(total, Range(listing))>>
<1>2. /\ rows \in Seq(Lines)
      /\ \A line \in Range(rows) : line.kind \in {"position", "positions_end"}
  BY <1>1 DEF PositionLine, Lines, Range
<1>3. EndLine(total, Range(listing)) \in Lines
  BY <1>1 DEF EndLine, Lines
<1>4. /\ rest \in Seq(Lines)
      /\ \A line \in Range(rest) : line.kind \in {"position", "positions_end"}
  <2>1. EndLine(total, Range(listing)).kind = "positions_end"
    BY DEF EndLine
  <2> HIDE DEF EndLine
  <2>2. QED  BY <1>3, <2>1 DEF Range
<1> HIDE DEF rows, rest
<1>5. rows \o rest \in Seq(Lines) /\ Range(rows \o rest) = Range(rows) \cup Range(rest)
  BY <1>2, <1>4, RangeConcat
<1>6. QED  BY <1>2, <1>4, <1>5 DEF Snapshot, rows, rest

(* What one round of SendLine calls does to the lines in flight. *)
LEMMA SendLinesKeeps ==
  ASSUME NEW c \in Conns, NEW lines \in Seq(Lines), NEW sent \in 0..Len(lines),
         up \in [Conns -> Seq(Lines)], sock = c, SendLines(c, lines, sent)
  PROVE  /\ up' \in [Conns -> Seq(Lines)]
         /\ sock' \in {c, None}
         /\ \A d \in Conns : Range(up'[d]) \subseteq Range(up[d]) \cup Range(lines)
<1> DEFINE part == SubSeq(lines, 1, sent)
<1>1. sock' \in {c, None}
  BY DEF SendLines
<1>2. part \in Seq(Lines) /\ Range(part) \subseteq Range(lines)
  BY RangeSubSeq
<1>3. CASE thread[c] = "done"
  BY <1>1, <1>3 DEF SendLines
<1>4. CASE thread[c] # "done"
  <2> HIDE DEF part
  <2>1. up' = [up EXCEPT ![c] = @ \o part]
    BY <1>4 DEF SendLines, part
  <2>2. up[c] \o part \in Seq(Lines) /\ Range(up[c] \o part) = Range(up[c]) \cup Range(part)
    BY <1>2, RangeConcat
  <2>3. QED  BY <1>1, <1>2, <2>1, <2>2
<1>5. QED  BY <1>3, <1>4

Connected == sock # None => sock \in Conns

(* OnTimer without its sequences: which orders were executed, and which lines
   can be in flight afterwards. *)
LEMMA OnTimerEffect ==
  ASSUME TypeOK, OnTimer
  PROVE  \E executed \in SUBSET Executable(sock) :
           /\ executed \subseteq Orders
           /\ book' = book \cup executed
           /\ fills' = [o \in Orders |-> fills[o] + (IF o \in executed THEN 1 ELSE 0)]
           /\ up' \in [Conns -> Seq(Lines)]
           /\ sock' \in {sock, None}
           /\ \A c \in Conns : \A line \in Range(up'[c]) :
                \/ line \in Range(up[c])
                \/ line.kind \in {"position", "positions_end"}
                \/ \E o \in Range(down[sock]) :
                     line = Reply(IF ~AllowExecution \/ o \in executed THEN "ok" ELSE "err", o)
<1>1. sock \in Conns
  BY DEF TypeOK, OnTimer
<1>2. PICK executed \in SUBSET Executable(sock), push \in BOOLEAN :
        /\ book' = book \cup executed
        /\ fills' = [o \in Orders |-> fills[o] + (IF o \in executed THEN 1 ELSE 0)]
        /\ \E listing \in Listings(book') :
             LET pushed == IF push THEN Snapshot(listing, Cardinality(book')) ELSE << >>
                 lines == Replies(down[sock], executed) \o pushed
             IN  \E sent \in 0..Len(lines) : SendLines(sock, lines, sent)
  BY DEF OnTimer
<1>3. down[sock] \in Seq(Orders)
  BY <1>1 DEF TypeOK
<1>4. Range(down[sock]) \subseteq Orders
  BY <1>3 DEF Range
<1>5. executed \subseteq Orders
  BY <1>2, <1>4 DEF Executable
<1>6. book' \subseteq Orders
  BY <1>2, <1>5 DEF TypeOK
<1>7. PICK listing \in Listings(book') :
        LET pushed == IF push THEN Snapshot(listing, Cardinality(book')) ELSE << >>
            lines == Replies(down[sock], executed) \o pushed
        IN  \E sent \in 0..Len(lines) : SendLines(sock, lines, sent)
  BY <1>2
<1> DEFINE answers == Replies(down[sock], executed)
           pushed == IF push THEN Snapshot(listing, Cardinality(book')) ELSE << >>
           lines == answers \o pushed
<1>8. PICK sent \in 0..Len(lines) : SendLines(sock, lines, sent)
  BY <1>7
<1>9. /\ answers \in Seq(Lines)
      /\ \A line \in Range(answers) : \E o \in Range(down[sock]) :
           line = Reply(IF ~AllowExecution \/ o \in executed THEN "ok" ELSE "err", o)
  BY <1>3, RepliesAreLines
<1>10. /\ pushed \in Seq(Lines)
       /\ \A line \in Range(pushed) : line.kind \in {"position", "positions_end"}
  <2>1. CASE push
    BY <2>1, <1>6, ListingType, SnapshotIsLines
  <2>2. CASE ~push
    BY <2>2, RangeEmpty
  <2>3. QED  BY <2>1, <2>2
<1> HIDE DEF answers, pushed
<1>11. lines \in Seq(Lines) /\ Range(lines) = Range(answers) \cup Range(pushed)
  BY <1>9, <1>10, RangeConcat
<1> HIDE DEF lines
<1>12. /\ up' \in [Conns -> Seq(Lines)]
       /\ sock' \in {sock, None}
       /\ \A d \in Conns : Range(up'[d]) \subseteq Range(up[d]) \cup Range(lines)
  BY <1>1, <1>8, <1>11, SendLinesKeeps DEF TypeOK
<1>13. ASSUME NEW c \in Conns, NEW line \in Range(up'[c])
       PROVE  \/ line \in Range(up[c])
              \/ line.kind \in {"position", "positions_end"}
              \/ \E o \in Range(down[sock]) :
                   line = Reply(IF ~AllowExecution \/ o \in executed THEN "ok" ELSE "err", o)
  <2>1. line \in Range(up[c]) \/ line \in Range(answers) \/ line \in Range(pushed)
    BY <1>11, <1>12
  <2>2. QED  BY <2>1, <1>9, <1>10
<1>14. QED
  BY <1>2, <1>5, <1>12, <1>13

-----------------------------------------------------------------------------
(* Type correctness, one action at a time. *)

(* The initial state has the types. *)
LEMMA TypeInit == Init => TypeOK
BY BoundsAssumption DEF Init, TypeOK, Conns, None, Idle

(* The steps of the EA and of the broker keep them. *)
LEMMA TypeEa ==
  ASSUME TypeOK, EaStep \/ \E o \in Orders : BrokerClose(o)
  PROVE  TypeOK'
<1>1. ASSUME NEW c \in Conns, ConnectBrain(c) PROVE TypeOK'
  BY <1>1 DEF TypeOK, ConnectBrain, viewVars, orderVars
<1>2. CASE OnDeinit
  BY <1>2 DEF TypeOK, OnDeinit, threadVars, viewVars, orderVars
<1>3. CASE OnTick
  <2>1. sock \in Conns
    BY <1>3 DEF TypeOK, OnTick
  <2>2. <<TickLine>> \in Seq(Lines) /\ Len(<<TickLine>>) = 1
    BY DEF TickLine, Lines
  <2>3. PICK sent \in 0..1 :
          /\ SendLines(sock, <<TickLine>>, sent)
          /\ down' = IF sent = 1 THEN down ELSE [down EXCEPT ![sock] = << >>]
    BY <1>3 DEF OnTick
  <2>4. up' \in [Conns -> Seq(Lines)] /\ sock' \in {sock, None}
    BY <2>1, <2>2, <2>3, SendLinesKeeps DEF TypeOK
  <2>5. down' \in [Conns -> Seq(Orders)]
    <3>1. << >> \in Seq(Orders)
      OBVIOUS
    <3>2. QED  BY <2>3, <3>1 DEF TypeOK
  <2>6. QED
    BY <1>3, <2>1, <2>4, <2>5 DEF TypeOK, OnTick, threadVars, viewVars, orderVars
<1>4. CASE OnTimer
  <2>1. PICK executed \in SUBSET Executable(sock) :
          /\ executed \subseteq Orders
          /\ book' = book \cup executed
          /\ fills' = [o \in Orders |-> fills[o] + (IF o \in executed THEN 1 ELSE 0)]
          /\ up' \in [Conns -> Seq(Lines)]
          /\ sock' \in {sock, None}
    BY <1>4, OnTimerEffect
  <2>2. fills' \in [Orders -> Nat]
    BY <2>1 DEF TypeOK
  <2>3. book' \subseteq Orders /\ sock' \in Conns \cup {None}
    BY <2>1 DEF TypeOK
  <2>4. /\ down' = [down EXCEPT ![sock] = << >>]
        /\ UNCHANGED <<task, crashes, thread, handler, registered, view, pendView,
                      pending, emitted, journal>>
    BY <1>4 DEF OnTimer, threadVars, viewVars, orderVars
  <2>5. down' \in [Conns -> Seq(Orders)]
    <3>1. << >> \in Seq(Orders)
      OBVIOUS
    <3>2. QED  BY <2>4, <3>1 DEF TypeOK
  <2>6. QED
    BY <2>1, <2>2, <2>3, <2>4, <2>5 DEF TypeOK
<1>5. ASSUME NEW o \in Orders, BrokerClose(o) PROVE TypeOK'
  BY <1>5 DEF TypeOK, BrokerClose, threadVars, viewVars, orderVars
<1>6. QED  BY <1>1, <1>2, <1>3, <1>4, <1>5 DEF EaStep

(* Reading a line takes the head of the connection's queue and adds nothing. *)
LEMMA ReadsKeeps ==
  ASSUME TypeOK, NEW c \in Conns, NEW kinds, Reads(c, kinds)
  PROVE  /\ up' \in [Conns -> Seq(Lines)]
         /\ Head(up[c]) \in Lines
         /\ Head(up[c]) \in Range(up[c])
         /\ Head(up[c]).kind \in kinds
         /\ \A d \in Conns : Range(up'[d]) \subseteq Range(up[d])
<1>1. /\ up[c] \in Seq(Lines) /\ up[c] # << >>
      /\ up' = [up EXCEPT ![c] = Tail(@)]
      /\ Head(up[c]).kind \in kinds
  BY DEF TypeOK, Reads
<1>2. /\ Tail(up[c]) \in Seq(Lines)
      /\ Head(up[c]) \in Lines
      /\ Head(up[c]) \in Range(up[c])
      /\ Range(Tail(up[c])) \subseteq Range(up[c])
  BY <1>1, RangeTail
<1>3. QED  BY <1>1, <1>2 DEF TypeOK

(* The steps of a server thread keep them. *)
LEMMA TypeBrain ==
  ASSUME TypeOK, NEW c \in Conns, BrainStep(c)
  PROVE  TypeOK'
<1>1. CASE OnConnect(c)
  BY <1>1 DEF TypeOK, OnConnect, eaVars, viewVars, orderVars
<1>2. CASE OnDisconnect(c)
  <2>1. up' \in [Conns -> Seq(Lines)]
    <3>1. << >> \in Seq(Lines)
      OBVIOUS
    <3>2. QED  BY <1>2, <3>1 DEF TypeOK, OnDisconnect
  <2>2. QED
    BY <1>2, <2>1 DEF TypeOK, OnDisconnect, HandlerWithout, eaVars, viewVars, orderVars
<1>3. CASE SendOrder(c)
  <2>1. task[c].at = "send" /\ task[c].order \in emitted /\ task[c].order \in Orders
    BY <1>3 DEF TypeOK, SendOrder, Idle
  <2>2. task' \in [Conns -> {Idle} \cup [at : {"send", "journal", "pend"}, order : emitted]]
    <3>1. TaskAt("journal", task[c].order) \in [at : {"send", "journal", "pend"}, order : emitted]
      BY <2>1 DEF TaskAt
    <3>2. \/ task' = [task EXCEPT ![c] = Idle]
          \/ task' = [task EXCEPT ![c] = TaskAt("journal", task[c].order)]
      BY <1>3 DEF SendOrder
    <3>3. QED  BY <3>1, <3>2 DEF TypeOK
  <2>3. down' \in [Conns -> Seq(Orders)]
    <3>1. CASE down' = down
      BY <3>1 DEF TypeOK
    <3>2. CASE handler # None /\ down' = [down EXCEPT ![handler] = Append(@, task[c].order)]
      <4>1. handler \in Conns /\ down[handler] \in Seq(Orders)
        BY <3>2 DEF TypeOK
      <4>2. Append(down[handler], task[c].order) \in Seq(Orders)
        BY <4>1, <2>1
      <4>3. QED  BY <3>2, <4>1, <4>2 DEF TypeOK
    <3>3. QED  BY <1>3, <3>1, <3>2 DEF SendOrder
  <2>4. QED
    BY <1>3, <2>2, <2>3 DEF TypeOK, SendOrder, eaVars, threadVars, viewVars
<1>4. CASE RecordSubmission(c)
  <2>1. task[c].at = "journal" /\ task[c].order \in emitted /\ task[c].order \in Orders
    BY <1>4 DEF TypeOK, RecordSubmission, Idle
  <2>2. QED
    BY <1>4, <2>1 DEF TypeOK, RecordSubmission, Write, TaskAt, eaVars, threadVars, viewVars
<1>5. CASE HandleQuietTick(c)
  BY <1>5, ReadsKeeps
     DEF TypeOK, HandleQuietTick, eaVars, threadVars, viewVars, orderVars
<1>6. ASSUME NEW o \in Orders, HandleTick(c, o) PROVE TypeOK'
  <2>1. up' \in [Conns -> Seq(Lines)]
    BY <1>6, ReadsKeeps DEF HandleTick
  <2>2. task' \in [Conns -> {Idle} \cup [at : {"send", "journal", "pend"}, order : emitted']]
    BY <1>6 DEF TypeOK, HandleTick, TaskAt
  <2>3. QED
    BY <1>6, <2>1, <2>2 DEF TypeOK, HandleTick, eaVars, threadVars, viewVars
<1>7. CASE HandlePosition(c)
  <2>1. up' \in [Conns -> Seq(Lines)] /\ Head(up[c]) \in Lines /\ Head(up[c]).kind = "position"
    BY <1>7, ReadsKeeps DEF HandlePosition
  <2>2. Head(up[c]).order \in Orders
    BY <2>1 DEF Lines
  <2>3. QED
    BY <1>7, <2>1, <2>2 DEF TypeOK, HandlePosition, eaVars, threadVars, orderVars
<1>8. CASE HandlePositionsEnd(c)
  BY <1>8, ReadsKeeps DEF TypeOK, HandlePositionsEnd, eaVars, threadVars, orderVars
<1>9. CASE HandleOrderReply(c)
  <2>1. /\ up' \in [Conns -> Seq(Lines)]
        /\ Head(up[c]) \in Lines
        /\ Head(up[c]).kind \in {"ok", "err"}
    BY <1>9, ReadsKeeps DEF HandleOrderReply
  <2>2. Head(up[c]).order \in Orders
    BY <2>1 DEF Lines
  <2>3. journal' \in [Orders -> {"none", "submitted", "filled", "rejected"}]
    BY <1>9, <2>2 DEF TypeOK, HandleOrderReply, Settle, Write
  <2>4. QED
    BY <1>9, <2>1, <2>3 DEF TypeOK, HandleOrderReply, eaVars, threadVars, viewVars
<1>10. CASE AddPending(c)
  <2>1. task[c].order \in emitted
    BY <1>10 DEF TypeOK, AddPending, Idle
  <2>2. QED
    BY <1>10, <2>1 DEF TypeOK, AddPending, eaVars, threadVars, viewVars
<1>11. QED
  BY <1>1, <1>2, <1>3, <1>4, <1>5, <1>6, <1>7, <1>8, <1>9, <1>10
     DEF BrainStep, InHandleTick, HandleLine

(* So does a restart of the brain. *)
LEMMA TypeRestart ==
  ASSUME TypeOK, BrainRestart
  PROVE  TypeOK'
<1>1. << >> \in Seq(Lines)
  OBVIOUS
<1>2. crashes' \in 0..MaxCrashes
  BY BoundsAssumption DEF TypeOK, BrainRestart
<1>3. QED  BY <1>1, <1>2 DEF TypeOK, BrainRestart, eaVars, None

(* Every variable keeps its type. *)
THEOREM TypeCorrect == Spec => []TypeOK
<1>1. TypeOK /\ [Next]_vars => TypeOK'
  <2>1. ASSUME TypeOK, UNCHANGED vars PROVE TypeOK'
    BY <2>1 DEF TypeOK, vars
  <2>2. QED  BY <2>1, TypeEa, TypeBrain, TypeRestart DEF Next
<1>2. QED  BY TypeInit, <1>1, PTL DEF Spec

-----------------------------------------------------------------------------
(* _handler is the connection registered last.  That needs one fact more: a
   registered connection's thread has been running. *)

RegisteredRan == registered # None => thread[registered] \in {"running", "done"}

HandlerInv == TypeOK /\ RegisteredRan /\ HandlerIsLatest

(* Every step keeps _handler at the connection registered last, or clears it
   once that one has ended (trading_service.py:60-69). *)
LEMMA HandlerStep ==
  ASSUME HandlerInv, TypeOK', [Next]_vars
  PROVE  HandlerInv'
<1> USE DEF HandlerInv, RegisteredRan, HandlerIsLatest
<1>1. ASSUME NEW c \in Conns, ConnectBrain(c) PROVE HandlerInv'
  BY <1>1 DEF TypeOK, ConnectBrain
<1>2. ASSUME NEW c \in Conns, OnConnect(c) PROVE HandlerInv'
  BY <1>2 DEF TypeOK, OnConnect, Conns, None
<1>3. ASSUME NEW c \in Conns, OnDisconnect(c) PROVE HandlerInv'
  BY <1>3 DEF TypeOK, OnDisconnect, HandlerWithout, Reading, Conns, None
<1>4. CASE BrainRestart
  BY <1>4 DEF TypeOK, BrainRestart
<1>5. ASSUME UNCHANGED threadVars PROVE HandlerInv'
  BY <1>5 DEF threadVars
<1>6. QED
  <2>1. \/ \E c \in Conns : ConnectBrain(c) \/ OnConnect(c) \/ OnDisconnect(c)
        \/ BrainRestart
        \/ UNCHANGED threadVars
    BY DEF Next, EaStep, OnDeinit, OnTick, OnTimer, BrokerClose, BrainStep, InHandleTick,
           SendOrder, RecordSubmission, AddPending, HandleLine, HandleQuietTick, HandleTick,
           HandlePosition, HandlePositionsEnd, HandleOrderReply, threadVars, vars
  <2>2. QED  BY <2>1, <1>1, <1>2, <1>3, <1>4, <1>5

(* The newest connection has the handler in every reachable state. *)
LEMMA HandlerInvariance == Spec => [](RegisteredRan /\ HandlerIsLatest)
<1>1. Init => RegisteredRan /\ HandlerIsLatest
  BY DEF Init, RegisteredRan, HandlerIsLatest
<1>2. TypeOK /\ TypeOK' /\ RegisteredRan /\ HandlerIsLatest /\ [Next]_vars
        => RegisteredRan' /\ HandlerIsLatest'
  BY HandlerStep DEF HandlerInv
<1>3. QED  BY <1>1, <1>2, TypeCorrect, PTL DEF Spec

(* The end of an old connection's thread never takes away the connection that
   registered after it. *)
THEOREM HandlerLatest == Spec => []HandlerIsLatest
BY HandlerInvariance, PTL

-----------------------------------------------------------------------------
(* The journal tells the truth.  The invariant follows an order on its way:
   before it is sent nothing in the system has heard of it; while it is in
   flight it is unexecuted, unanswered and unsettled; afterwards the answer
   that travels back, and the row it settles, agree with the broker. *)

InFlight(o) == \E c \in Conns : o \in Range(down[c])

Answer(o, kind) == \E c \in Conns : Reply(kind, o) \in Range(up[c])

Unanswered(o) == ~Answer(o, "ok") /\ ~Answer(o, "err")

Untouched(o) == fills[o] = 0 /\ journal[o] = "none" /\ ~InFlight(o) /\ Unanswered(o)

NewUntouched == \A o \in Orders \ emitted : Untouched(o)

SendingUntouched ==
  \A c \in Conns : task[c].at = "send" => Untouched(task[c].order)

JournalingUnrecorded ==
  \A c \in Conns : task[c].at = "journal" => journal[task[c].order] = "none"

OneThreadPerOrder ==
  \A c, d \in Conns : task[c] # Idle /\ task[c].order = task[d].order => c = d

InFlightOpen ==
  \A o \in Orders : InFlight(o) =>
    fills[o] = 0 /\ Unanswered(o) /\ journal[o] \in {"none", "submitted"}

OneCopyInFlight ==
  \A c, d \in Conns : \A o \in Range(down[c]) : o \in Range(down[d]) => c = d

AnswersTrue ==
  AllowExecution =>
    \A o \in Orders :
      /\ Answer(o, "ok") => fills[o] = 1
      /\ Answer(o, "err") => fills[o] = 0

OrderInv ==
  /\ NewUntouched
  /\ SendingUntouched
  /\ JournalingUnrecorded
  /\ OneThreadPerOrder
  /\ InFlightOpen
  /\ OneCopyInFlight
  /\ ExecutedOnce
  /\ AnswersTrue
  /\ JournalTruth

(* The fields of a task, so that the proofs below need not look inside. *)
LEMMA TaskFields ==
  /\ Idle.at = "idle" /\ Idle.order = NoOrder
  /\ \A step, o : TaskAt(step, o).at = step /\ TaskAt(step, o).order = o
BY DEF Idle, TaskAt

(* A thread that is not idle has an approved order in hand. *)
LEMMA TaskOrder ==
  ASSUME TypeOK, NEW c \in Conns, task[c] # Idle
  PROVE  task[c].order \in Orders /\ task[c].order \in emitted /\ task[c].order # NoOrder
BY OrdersAssumption DEF TypeOK

(* Nothing was sent, executed or journaled at first. *)
LEMMA OrderInit == Init => OrderInv
<1> SUFFICES ASSUME Init PROVE OrderInv
  OBVIOUS
<1>1. \A c \in Conns : Range(up[c]) = {} /\ Range(down[c]) = {} /\ task[c] = Idle
  BY RangeEmpty DEF Init
<1>2. \A o \in Orders : Untouched(o)
  BY <1>1 DEF Init, Untouched, InFlight, Unanswered, Answer
<1>3. NewUntouched /\ SendingUntouched /\ JournalingUnrecorded /\ OneThreadPerOrder
  BY <1>1, <1>2, TaskFields
     DEF NewUntouched, SendingUntouched, JournalingUnrecorded, OneThreadPerOrder
<1>4. InFlightOpen /\ OneCopyInFlight
  BY <1>1, <1>2 DEF InFlightOpen, OneCopyInFlight, Untouched
<1>5. \A o \in Orders : fills[o] = 0 /\ journal[o] = "none"
  BY <1>2 DEF Untouched
<1>6. ExecutedOnce /\ AnswersTrue /\ JournalTruth
  BY <1>2, <1>5 DEF ExecutedOnce, AnswersTrue, JournalTruth, Untouched, Unanswered
<1>7. QED  BY <1>3, <1>4, <1>6 DEF OrderInv

(* A step that executes nothing, sends nothing, journals nothing and starts
   nothing keeps the invariant, whatever it reads or forgets. *)
LEMMA OrderQuiet ==
  ASSUME TypeOK, OrderInv,
         UNCHANGED <<fills, journal, emitted>>,
         \A c \in Conns : task'[c] = task[c] \/ task'[c] = Idle,
         \A c \in Conns : Range(down'[c]) \subseteq Range(down[c]),
         \A c \in Conns : \A o \in Orders : \A kind \in {"ok", "err"} :
           Reply(kind, o) \in Range(up'[c]) => Reply(kind, o) \in Range(up[c])
  PROVE  OrderInv'
<1>1. \A o \in Orders : InFlight(o)' => InFlight(o)
  BY DEF InFlight
<1>2. \A o \in Orders : Unanswered(o) => Unanswered(o)'
  BY DEF Unanswered, Answer
<1>3. \A o \in Orders : Untouched(o) => Untouched(o)'
  BY <1>1, <1>2 DEF Untouched
<1>4. \A c \in Conns : task'[c].at \in {"send", "journal"} => task'[c] = task[c]
  BY TaskFields
<1>5. NewUntouched'
  BY <1>3 DEF OrderInv, NewUntouched
<1>6. SendingUntouched'
  <2> SUFFICES ASSUME NEW c \in Conns, task'[c].at = "send"
               PROVE  Untouched(task[c].order)' /\ task'[c] = task[c]
    BY DEF SendingUntouched
  <2>1. task'[c] = task[c] /\ task[c].at = "send" /\ task[c] # Idle
    BY <1>4, TaskFields
  <2>2. task[c].order \in Orders
    BY <2>1, TaskOrder
  <2>3. QED  BY <2>1, <2>2, <1>3 DEF OrderInv, SendingUntouched
<1>7. JournalingUnrecorded'
  BY <1>4 DEF OrderInv, JournalingUnrecorded
<1>8. OneThreadPerOrder'
  <2> SUFFICES ASSUME NEW c \in Conns, NEW d \in Conns,
                      task'[c] # Idle, task'[c].order = task'[d].order
               PROVE  c = d
    BY DEF OneThreadPerOrder
  <2>1. task[c] # Idle /\ task'[c].order = task[c].order
    BY TaskFields
  <2>2. task[c].order # NoOrder
    BY <2>1, TaskOrder
  <2>3. task'[d] # Idle
    BY <2>1, <2>2, TaskFields
  <2>4. task'[d].order = task[d].order
    BY <2>3, TaskFields
  <2>5. QED  BY <2>1, <2>4 DEF OrderInv, OneThreadPerOrder
<1>9. InFlightOpen'
  BY <1>1, <1>2 DEF OrderInv, InFlightOpen
<1>10. OneCopyInFlight'
  BY DEF OrderInv, OneCopyInFlight
<1>11. AnswersTrue' /\ JournalTruth' /\ ExecutedOnce'
  BY DEF OrderInv, AnswersTrue, JournalTruth, ExecutedOnce, Answer
<1>12. QED
  BY <1>5, <1>6, <1>7, <1>8, <1>9, <1>10, <1>11 DEF OrderInv

(* A step whose handling of one line, or of none, only takes from the queues. *)
QuietStep ==
  \/ \E c \in Conns : \/ ConnectBrain(c) \/ OnConnect(c) \/ OnDisconnect(c)
                      \/ HandleQuietTick(c) \/ HandlePosition(c) \/ HandlePositionsEnd(c)
                      \/ AddPending(c)
  \/ \E o \in Orders : BrokerClose(o)
  \/ OnDeinit \/ OnTick \/ BrainRestart

(* The steps that neither approve, send, execute, journal nor settle an order
   keep the invariant. *)
LEMMA OrderQuietStep ==
  ASSUME TypeOK, OrderInv, QuietStep
  PROVE  OrderInv'
<1> USE DEF eaVars, threadVars, viewVars, orderVars
<1>1. CASE UNCHANGED <<fills, journal, emitted, up, down, task>>
  BY <1>1, OrderQuiet
<1>2. ASSUME NEW c \in Conns, HandleQuietTick(c) \/ HandlePosition(c) \/ HandlePositionsEnd(c)
      PROVE  OrderInv'
  <2>1. \A d \in Conns : Range(up'[d]) \subseteq Range(up[d])
    BY <1>2, ReadsKeeps DEF HandleQuietTick, HandlePosition, HandlePositionsEnd
  <2>2. UNCHANGED <<fills, journal, emitted, down, task>>
    BY <1>2 DEF HandleQuietTick, HandlePosition, HandlePositionsEnd
  <2>3. QED  BY <2>1, <2>2, OrderQuiet
<1>3. ASSUME NEW c \in Conns, AddPending(c) PROVE OrderInv'
  <2>1. UNCHANGED <<fills, journal, emitted, up, down>>
    BY <1>3 DEF AddPending
  <2>2. \A d \in Conns : task'[d] = task[d] \/ task'[d] = Idle
    BY <1>3 DEF AddPending, TypeOK
  <2>3. QED  BY <2>1, <2>2, OrderQuiet
<1>4. ASSUME NEW c \in Conns, OnDisconnect(c) PROVE OrderInv'
  <2>1. UNCHANGED <<fills, journal, emitted, down, task>>
    BY <1>4 DEF OnDisconnect
  <2>2. \A d \in Conns : Range(up'[d]) \subseteq Range(up[d])
    BY <1>4, RangeEmpty DEF OnDisconnect, TypeOK
  <2>3. QED  BY <2>1, <2>2, OrderQuiet
<1>5. CASE OnDeinit
  <2>1. UNCHANGED <<fills, journal, emitted, up, task>>
    BY <1>5 DEF OnDeinit
  <2>2. \A d \in Conns : Range(down'[d]) \subseteq Range(down[d])
    BY <1>5, RangeEmpty DEF OnDeinit, TypeOK
  <2>3. QED  BY <2>1, <2>2, OrderQuiet
<1>6. CASE OnTick
  <2>1. UNCHANGED <<fills, journal, emitted, task>> /\ sock \in Conns
    BY <1>6 DEF OnTick, TypeOK
  <2>2. PICK sent \in 0..1 :
          /\ SendLines(sock, <<TickLine>>, sent)
          /\ down' = IF sent = 1 THEN down ELSE [down EXCEPT ![sock] = << >>]
    BY <1>6 DEF OnTick
  <2>3. /\ <<TickLine>> \in Seq(Lines) /\ Len(<<TickLine>>) = 1
        /\ Range(<<TickLine>>) = {TickLine}
    BY DEF TickLine, Lines, Range
  <2>4. \A d \in Conns : Range(up'[d]) \subseteq Range(up[d]) \cup {TickLine}
    BY <2>1, <2>2, <2>3, SendLinesKeeps DEF TypeOK
  <2>5. \A o, kind : kind \in {"ok", "err"} => Reply(kind, o) # TickLine
    BY DEF Reply, TickLine
  <2>6. \A d \in Conns : Range(down'[d]) \subseteq Range(down[d])
    BY <2>1, <2>2, RangeEmpty DEF TypeOK
  <2>7. QED  BY <2>1, <2>4, <2>5, <2>6, OrderQuiet
<1>7. CASE BrainRestart
  <2>1. UNCHANGED <<fills, journal, emitted, down>> /\ \A d \in Conns : task'[d] = Idle
    BY <1>7 DEF BrainRestart
  <2>2. \A d \in Conns : Range(up'[d]) = {}
    BY <1>7, RangeEmpty DEF BrainRestart
  <2>3. QED  BY <2>1, <2>2, OrderQuiet
<1>8. QED
  BY <1>1, <1>2, <1>3, <1>4, <1>5, <1>6, <1>7
     DEF QuietStep, ConnectBrain, OnConnect, BrokerClose

(* The order a thread takes up is new, so nothing has heard of it. *)
LEMMA OrderHandleTick ==
  ASSUME TypeOK, OrderInv, NEW c \in Conns, NEW o \in Orders, HandleTick(c, o)
  PROVE  OrderInv'
<1>1. /\ UNCHANGED <<fills, journal, down>>
      /\ task' = [task EXCEPT ![c] = TaskAt("send", o)]
      /\ emitted' = emitted \cup {o}
      /\ o \notin emitted
      /\ task[c] = Idle
  BY DEF HandleTick, FreshOrder, Reads, Reading, eaVars
<1>2. \A d \in Conns : Range(up'[d]) \subseteq Range(up[d])
  BY ReadsKeeps DEF HandleTick
<1>3. \A p \in Orders : InFlight(p)' <=> InFlight(p)
  BY <1>1 DEF InFlight
<1>4. \A p \in Orders : \A kind \in {"ok", "err"} : Answer(p, kind)' => Answer(p, kind)
  BY <1>2 DEF Answer
<1>5. \A p \in Orders : Untouched(p) => Untouched(p)'
  BY <1>1, <1>3, <1>4 DEF Untouched, Unanswered
<1>6. /\ task'[c] = TaskAt("send", o)
      /\ \A d \in Conns : d # c => task'[d] = task[d]
  BY <1>1 DEF TypeOK
<1>7. \A d \in Conns : task[d].order # o
  BY <1>1, TaskOrder, TaskFields, OrdersAssumption
<1>8. NewUntouched'
  BY <1>1, <1>5 DEF OrderInv, NewUntouched
<1>9. SendingUntouched'
  <2> SUFFICES ASSUME NEW d \in Conns, task'[d].at = "send"
               PROVE  Untouched(task[d].order)'
    BY DEF SendingUntouched
  <2>1. CASE d = c
    BY <2>1, <1>1, <1>5, <1>6, TaskFields DEF OrderInv, NewUntouched
  <2>2. CASE d # c
    <3>1. task'[d] = task[d] /\ task[d].order \in Orders
      BY <2>2, <1>6, TaskOrder, TaskFields
    <3>2. QED  BY <3>1, <1>5 DEF OrderInv, SendingUntouched
  <2>3. QED  BY <2>1, <2>2
<1>10. JournalingUnrecorded'
  BY <1>1, <1>6, TaskFields DEF OrderInv, JournalingUnrecorded
<1>11. OneThreadPerOrder'
  BY <1>6, <1>7, TaskFields DEF OrderInv, OneThreadPerOrder
<1>12. InFlightOpen' /\ OneCopyInFlight' /\ ExecutedOnce' /\ AnswersTrue' /\ JournalTruth'
  BY <1>1, <1>3, <1>4 DEF OrderInv, InFlightOpen, OneCopyInFlight, ExecutedOnce, AnswersTrue,
     JournalTruth, Unanswered
<1>13. QED  BY <1>8, <1>9, <1>10, <1>11, <1>12 DEF OrderInv

(* A sent order enters one queue, unexecuted, unanswered and unrecorded. *)
LEMMA OrderSend ==
  ASSUME TypeOK, OrderInv, NEW c \in Conns, SendOrder(c)
  PROVE  OrderInv'
<1> DEFINE o == task[c].order
<1>1. UNCHANGED <<fills, journal, emitted, up>> /\ task[c].at = "send" /\ task[c] # Idle
  BY TaskFields DEF SendOrder, eaVars
<1>2. o \in Orders /\ o \in emitted /\ Untouched(o)
  BY <1>1, TaskOrder DEF OrderInv, SendingUntouched
<1>3. CASE task' = [task EXCEPT ![c] = Idle] /\ UNCHANGED down
  <2>1. \A d \in Conns : task'[d] = task[d] \/ task'[d] = Idle
    BY <1>3 DEF TypeOK
  <2>2. QED  BY <2>1, <1>1, <1>3, OrderQuiet
<1>4. CASE task' = [task EXCEPT ![c] = TaskAt("journal", o)]
  <2>1. /\ task'[c] = TaskAt("journal", o)
        /\ \A d \in Conns : d # c => task'[d] = task[d]
    BY <1>4 DEF TypeOK
  <2>2. \E h \in Conns :
          \A d \in Conns : Range(down'[d]) \subseteq IF d = h THEN Range(down[d]) \cup {o}
                                                      ELSE Range(down[d])
    <3>1. CASE UNCHANGED down
      BY <3>1, <1>1 DEF SendOrder
    <3>2. CASE handler # None /\ down' = [down EXCEPT ![handler] = Append(@, o)]
      <4>1. handler \in Conns /\ down[handler] \in Seq(Orders)
        BY <3>2 DEF TypeOK
      <4>2. Range(Append(down[handler], o)) = Range(down[handler]) \cup {o}
        BY <4>1, <1>2, RangeAppend
      <4>3. QED  BY <3>2, <4>1, <4>2 DEF TypeOK
    <3>3. QED  BY <3>1, <3>2 DEF SendOrder
  <2>3. \A p \in Orders : p # o /\ InFlight(p)' => InFlight(p)
    BY <2>2 DEF InFlight
  <2>4. \A p \in Orders : Unanswered(p)' <=> Unanswered(p)
    BY <1>1 DEF Unanswered, Answer
  <2>5. \A p \in Orders : p # o /\ Untouched(p) => Untouched(p)'
    BY <1>1, <2>3, <2>4 DEF Untouched
  <2>6. \A d \in Conns : d # c => task[d].order # o
    BY <1>1 DEF OrderInv, OneThreadPerOrder
  <2>7. NewUntouched'
    BY <1>1, <1>2, <2>5 DEF OrderInv, NewUntouched
  <2>8. SendingUntouched'
    <3> SUFFICES ASSUME NEW d \in Conns, task'[d].at = "send"
                 PROVE  Untouched(task[d].order)'
      BY DEF SendingUntouched
    <3>1. d # c /\ task'[d] = task[d]
      BY <2>1, TaskFields
    <3>2. task[d].order \in Orders /\ task[d].order # o
      BY <3>1, <2>6, TaskOrder, TaskFields
    <3>3. QED  BY <3>1, <3>2, <2>5 DEF OrderInv, SendingUntouched
  <2>9. JournalingUnrecorded'
    BY <1>1, <1>2, <2>1, TaskFields DEF OrderInv, JournalingUnrecorded, Untouched
  <2>10. OneThreadPerOrder'
    BY <2>1, <2>6, TaskFields DEF OrderInv, OneThreadPerOrder
  <2>11. InFlightOpen'
    BY <1>1, <1>2, <2>3, <2>4 DEF OrderInv, InFlightOpen, Untouched
  <2>12. OneCopyInFlight'
    BY <1>2, <2>2 DEF OrderInv, OneCopyInFlight, Untouched, InFlight
  <2>13. ExecutedOnce' /\ AnswersTrue' /\ JournalTruth'
    BY <1>1 DEF OrderInv, ExecutedOnce, AnswersTrue, JournalTruth, Answer
  <2>14. QED
    BY <2>7, <2>8, <2>9, <2>10, <2>11, <2>12, <2>13 DEF OrderInv
<1>5. QED  BY <1>3, <1>4 DEF SendOrder

(* The row is inserted for an order that has none yet. *)
LEMMA OrderRecord ==
  ASSUME TypeOK, OrderInv, NEW c \in Conns, RecordSubmission(c)
  PROVE  OrderInv'
<1> DEFINE o == task[c].order
<1>1. /\ UNCHANGED <<fills, emitted, up, down>>
      /\ task[c].at = "journal" /\ task[c] # Idle
      /\ task' = [task EXCEPT ![c] = TaskAt("pend", o)]
      /\ journal' = [journal EXCEPT ![o] = "submitted"] \/ journal' = journal
  BY TaskFields DEF RecordSubmission, Write, eaVars
<1>2. o \in Orders /\ o \in emitted /\ journal[o] = "none"
  BY <1>1, TaskOrder DEF OrderInv, JournalingUnrecorded
<1>3. /\ task'[c] = TaskAt("pend", o)
      /\ \A d \in Conns : d # c => task'[d] = task[d] /\ task[d].order # o
  BY <1>1 DEF TypeOK, OrderInv, OneThreadPerOrder
<1>4. /\ \A p \in Orders : p # o => journal'[p] = journal[p]
      /\ journal'[o] \in {"none", "submitted"}
  BY <1>1, <1>2 DEF TypeOK
<1>5. \A p \in Orders : InFlight(p)' <=> InFlight(p)
  BY <1>1 DEF InFlight
<1>6. \A p \in Orders : Unanswered(p)' <=> Unanswered(p)
  BY <1>1 DEF Unanswered, Answer
<1>7. \A p \in Orders : p # o /\ Untouched(p) => Untouched(p)'
  BY <1>1, <1>4, <1>5, <1>6 DEF Untouched
<1>8. NewUntouched'
  BY <1>1, <1>2, <1>7 DEF OrderInv, NewUntouched
<1>9. \A d \in Conns : task'[d].at \in {"send", "journal"} =>
        task'[d] = task[d] /\ task[d].order \in Orders /\ task[d].order # o
  BY <1>3, TaskOrder, TaskFields
<1>10. SendingUntouched'
  <2> SUFFICES ASSUME NEW d \in Conns, task'[d].at = "send"
               PROVE  Untouched(task[d].order)'
    BY DEF SendingUntouched
  <2>1. QED  BY <1>7, <1>9 DEF OrderInv, SendingUntouched
<1>11. JournalingUnrecorded'
  BY <1>4, <1>9 DEF OrderInv, JournalingUnrecorded
<1>12. OneThreadPerOrder'
  BY <1>3, TaskFields DEF OrderInv, OneThreadPerOrder
<1>13. InFlightOpen' /\ OneCopyInFlight'
  BY <1>1, <1>4, <1>5, <1>6 DEF OrderInv, InFlightOpen, OneCopyInFlight
<1>14. ExecutedOnce' /\ AnswersTrue' /\ JournalTruth'
  BY <1>1, <1>4 DEF OrderInv, ExecutedOnce, AnswersTrue, JournalTruth, Answer
<1>15. QED
  BY <1>8, <1>10, <1>11, <1>12, <1>13, <1>14 DEF OrderInv

(* An answer settles the row of an order that is no longer in flight, in
   agreement with what the broker did. *)
LEMMA OrderReply ==
  ASSUME TypeOK, OrderInv, NEW c \in Conns, HandleOrderReply(c)
  PROVE  OrderInv'
<1> DEFINE line == Head(up[c])
           o == line.order
           status == IF line.kind = "ok" THEN "filled" ELSE "rejected"
<1>1. /\ UNCHANGED <<fills, emitted, task, down>>
      /\ line \in Lines
      /\ line \in Range(up[c])
      /\ line.kind \in {"ok", "err"}
      /\ \A d \in Conns : Range(up'[d]) \subseteq Range(up[d])
  BY ReadsKeeps DEF HandleOrderReply, eaVars
<1>2. o \in Orders /\ line = Reply(line.kind, o)
  BY <1>1 DEF Lines, Reply
<1>3. Answer(o, line.kind)
  BY <1>1, <1>2 DEF Answer
<1>4. \/ journal' = journal
      \/ journal[o] # "none" /\ journal' = [journal EXCEPT ![o] = status]
  BY DEF HandleOrderReply, Settle, Write
<1>5. CASE journal' = journal
  BY <1>1, <1>5, OrderQuiet
<1>6. CASE journal[o] # "none" /\ journal' = [journal EXCEPT ![o] = status]
  <2>1. /\ \A p \in Orders : p # o => journal'[p] = journal[p]
        /\ journal'[o] = status
    BY <1>2, <1>6 DEF TypeOK
  <2>2. \A p \in Orders : Untouched(p) => p # o
    BY <1>6 DEF Untouched
  <2>3. ~InFlight(o)
    BY <1>1, <1>2, <1>3 DEF OrderInv, InFlightOpen, Unanswered
  <2>4. \A p \in Orders : InFlight(p)' <=> InFlight(p)
    BY <1>1 DEF InFlight
  <2>5. \A p \in Orders : \A kind \in {"ok", "err"} : Answer(p, kind)' => Answer(p, kind)
    BY <1>1 DEF Answer
  <2>6. \A p \in Orders : Untouched(p) => Untouched(p)'
    BY <1>1, <2>1, <2>2, <2>4, <2>5 DEF Untouched, Unanswered
  <2>7. NewUntouched'
    BY <1>1, <2>6 DEF OrderInv, NewUntouched
  <2>8. SendingUntouched'
    <3> SUFFICES ASSUME NEW d \in Conns, task'[d].at = "send"
                 PROVE  Untouched(task[d].order)'
      BY DEF SendingUntouched
    <3>1. task[d].order \in Orders /\ task'[d] = task[d]
      BY <1>1, TaskOrder, TaskFields
    <3>2. QED  BY <3>1, <2>6 DEF OrderInv, SendingUntouched
  <2>9. JournalingUnrecorded'
    <3> SUFFICES ASSUME NEW d \in Conns, task[d].at = "journal"
                 PROVE  journal'[task[d].order] = "none"
      BY <1>1 DEF JournalingUnrecorded
    <3>1. task[d].order \in Orders /\ journal[task[d].order] = "none"
      BY TaskOrder, TaskFields DEF OrderInv, JournalingUnrecorded
    <3>2. QED  BY <3>1, <1>6, <2>1
  <2>10. OneThreadPerOrder' /\ OneCopyInFlight' /\ ExecutedOnce'
    BY <1>1 DEF OrderInv, OneThreadPerOrder, OneCopyInFlight, ExecutedOnce
  <2>11. InFlightOpen'
    BY <1>1, <2>1, <2>3, <2>4, <2>5 DEF OrderInv, InFlightOpen, Unanswered
  <2>12. AnswersTrue'
    BY <1>1, <2>5 DEF OrderInv, AnswersTrue
  <2>13. JournalTruth'
    BY <1>1, <1>2, <1>3, <2>1 DEF OrderInv, AnswersTrue, JournalTruth
  <2>14. QED
    BY <2>7, <2>8, <2>9, <2>10, <2>11, <2>12, <2>13 DEF OrderInv
<1>7. QED  BY <1>4, <1>5, <1>6

(* The EA empties one queue: what was in it is executed at most now, answered
   accordingly and in flight no more. *)
LEMMA OrderTimer ==
  ASSUME TypeOK, OrderInv, OnTimer
  PROVE  OrderInv'
<1>1. sock \in Conns
  BY DEF TypeOK, OnTimer
<1>2. /\ UNCHANGED <<journal, emitted, task>>
      /\ down' = [down EXCEPT ![sock] = << >>]
  BY DEF OnTimer, orderVars
<1>3. PICK executed \in SUBSET Executable(sock) :
        /\ executed \subseteq Orders
        /\ fills' = [o \in Orders |-> fills[o] + (IF o \in executed THEN 1 ELSE 0)]
        /\ \A c \in Conns : \A line \in Range(up'[c]) :
             \/ line \in Range(up[c])
             \/ line.kind \in {"position", "positions_end"}
             \/ \E o \in Range(down[sock]) :
                  line = Reply(IF ~AllowExecution \/ o \in executed THEN "ok" ELSE "err", o)
  BY OnTimerEffect
<1>4. /\ \A o \in executed : o \in Range(down[sock]) /\ InFlight(o) /\ fills[o] = 0
      /\ ~AllowExecution => executed = {}
  BY <1>1, <1>3 DEF Executable, InFlight, OrderInv, InFlightOpen
<1>5. \A o \in Orders :
        /\ o \in executed => fills'[o] = 1
        /\ o \notin executed => fills'[o] = fills[o]
  BY <1>3, <1>4 DEF TypeOK
<1>6. \A o \in Orders : InFlight(o)' <=> InFlight(o) /\ o \notin Range(down[sock])
  <2>1. /\ Range(down'[sock]) = {}
        /\ \A c \in Conns : c # sock => down'[c] = down[c]
    BY <1>1, <1>2, RangeEmpty DEF TypeOK
  <2>2. QED  BY <1>1, <2>1 DEF InFlight, OrderInv, OneCopyInFlight
<1>7. \A o \in Orders : \A kind \in {"ok", "err"} : Answer(o, kind)' =>
        \/ Answer(o, kind)
        \/ /\ o \in Range(down[sock])
           /\ kind = IF ~AllowExecution \/ o \in executed THEN "ok" ELSE "err"
  <2> SUFFICES ASSUME NEW o \in Orders, NEW kind \in {"ok", "err"}, NEW c \in Conns,
                      Reply(kind, o) \in Range(up'[c])
               PROVE  \/ Answer(o, kind)
                      \/ /\ o \in Range(down[sock])
                         /\ kind = IF ~AllowExecution \/ o \in executed THEN "ok" ELSE "err"
    BY DEF Answer
  <2>1. Reply(kind, o).kind = kind /\ Reply(kind, o).order = o
    BY DEF Reply
  <2>2. CASE Reply(kind, o) \in Range(up[c])
    BY <2>2 DEF Answer
  <2>3. CASE \E p \in Range(down[sock]) :
               Reply(kind, o) = Reply(IF ~AllowExecution \/ p \in executed THEN "ok" ELSE "err", p)
    BY <2>3, <2>1 DEF Reply
  <2>4. QED  BY <1>3, <2>1, <2>2, <2>3
<1>8. \A o \in Orders : Untouched(o) => Untouched(o)'
  BY <1>1, <1>2, <1>4, <1>5, <1>6, <1>7 DEF Untouched, Unanswered, InFlight
<1>9. NewUntouched'
  BY <1>2, <1>8 DEF OrderInv, NewUntouched
<1>10. SendingUntouched'
  <2> SUFFICES ASSUME NEW d \in Conns, task'[d].at = "send"
               PROVE  Untouched(task[d].order)'
    BY DEF SendingUntouched
  <2>1. task[d].order \in Orders /\ task'[d] = task[d]
    BY <1>2, TaskOrder, TaskFields
  <2>2. QED  BY <2>1, <1>8 DEF OrderInv, SendingUntouched
<1>11. JournalingUnrecorded' /\ OneThreadPerOrder'
  BY <1>2 DEF OrderInv, JournalingUnrecorded, OneThreadPerOrder
<1>12. OneCopyInFlight'
  BY <1>1, <1>2, RangeEmpty DEF OrderInv, OneCopyInFlight, TypeOK
<1>13. InFlightOpen'
  BY <1>2, <1>3, <1>4, <1>5, <1>6, <1>7 DEF OrderInv, InFlightOpen, Unanswered
<1>14. ExecutedOnce'
  BY <1>5 DEF OrderInv, ExecutedOnce
<1>15. AnswersTrue'
  <2> SUFFICES ASSUME AllowExecution, NEW o \in Orders
               PROVE  (Answer(o, "ok")' => fills'[o] = 1) /\ (Answer(o, "err")' => fills'[o] = 0)
    BY DEF AnswersTrue
  <2>1. CASE o \in Range(down[sock])
    <3>1. Unanswered(o) /\ fills[o] = 0
      BY <2>1, <1>1 DEF OrderInv, InFlightOpen, InFlight
    <3>2. QED  BY <3>1, <1>5, <1>7 DEF Unanswered
  <2>2. CASE o \notin Range(down[sock])
    BY <2>2, <1>4, <1>5, <1>7 DEF OrderInv, AnswersTrue
  <2>3. QED  BY <2>1, <2>2
<1>16. JournalTruth'
  BY <1>2, <1>4, <1>5 DEF OrderInv, JournalTruth, InFlightOpen
<1>17. QED
  BY <1>9, <1>10, <1>11, <1>12, <1>13, <1>14, <1>15, <1>16 DEF OrderInv

(* The order invariant holds in every reachable state. *)
THEOREM OrderInvariance == Spec => []OrderInv
<1>1. TypeOK /\ OrderInv /\ [Next]_vars => OrderInv'
  <2> SUFFICES ASSUME TypeOK, OrderInv, [Next]_vars PROVE OrderInv'
    OBVIOUS
  <2>1. CASE UNCHANGED vars
    BY <2>1, OrderQuiet DEF vars
  <2>2. CASE QuietStep
    BY <2>2, OrderQuietStep
  <2>3. CASE OnTimer
    BY <2>3, OrderTimer
  <2>4. ASSUME NEW c \in Conns,
               \/ \E o \in Orders : HandleTick(c, o)
               \/ SendOrder(c) \/ RecordSubmission(c) \/ HandleOrderReply(c)
        PROVE  OrderInv'
    BY <2>4, OrderHandleTick, OrderSend, OrderRecord, OrderReply
  <2>5. QED
    BY <2>1, <2>2, <2>3, <2>4
       DEF Next, EaStep, BrainStep, InHandleTick, HandleLine, QuietStep
<1>2. QED  BY OrderInit, <1>1, TypeCorrect, PTL DEF Spec

(* No order is executed twice. *)
THEOREM ExecutedAtMostOnce == Spec => []ExecutedOnce
<1>1. OrderInv => ExecutedOnce  BY DEF OrderInv
<1>2. QED  BY <1>1, OrderInvariance, PTL

(* A row that says filled or rejected agrees with the broker. *)
THEOREM JournalTruthful == Spec => []JournalTruth
<1>1. OrderInv => JournalTruth  BY DEF OrderInv
<1>2. QED  BY <1>1, OrderInvariance, PTL

-----------------------------------------------------------------------------
(* With execution allowed, every step of the pipeline is a step of OrderLedger
   or leaves the ledger alone. *)

Traded == {o \in Orders : fills[o] > 0}

ledgerVars == <<emitted, Traded, journal>>

(* OnTimer trades approved orders that are untraded and not settled. *)
LEMMA LedgerTrade ==
  ASSUME AllowExecution, TypeOK, OrderInv, OnTimer
  PROVE  [Ledger!Next]_ledgerVars
<1>1. sock \in Conns /\ UNCHANGED <<emitted, journal>>
  BY DEF TypeOK, OnTimer, orderVars
<1>2. PICK executed \in SUBSET Executable(sock) :
        /\ executed \subseteq Orders
        /\ fills' = [o \in Orders |-> fills[o] + (IF o \in executed THEN 1 ELSE 0)]
  BY OnTimerEffect
<1>3. \A o \in executed : InFlight(o) /\ fills[o] = 0 /\ journal[o] \in {"none", "submitted"}
  BY <1>1, <1>2 DEF Executable, InFlight, OrderInv, InFlightOpen
<1>4. executed \subseteq emitted
  BY <1>2, <1>3 DEF OrderInv, NewUntouched, Untouched
<1>5. Traded' = Traded \cup executed
  BY <1>2, <1>3 DEF TypeOK, Traded
<1>6. executed \subseteq Ledger!Open \ Traded
  BY <1>3, <1>4 DEF Ledger!Open, Traded
<1>7. Ledger!Trade(executed)
  BY <1>1, <1>5, <1>6 DEF Ledger!Trade, Traded
<1>8. QED  BY <1>2, <1>7 DEF Ledger!Next

(* The gate's approval is one of the ledger. *)
LEMMA LedgerApprove ==
  ASSUME TypeOK, NEW c \in Conns, NEW o \in Orders, HandleTick(c, o)
  PROVE  [Ledger!Next]_ledgerVars
<1>1. Ledger!Approve(o)
  BY DEF HandleTick, FreshOrder, eaVars, Ledger!Approve
<1>2. QED  BY <1>1 DEF Ledger!Next

(* record_submission writes the first row of an order. *)
LEMMA LedgerSubmit ==
  ASSUME TypeOK, OrderInv, NEW c \in Conns, RecordSubmission(c)
  PROVE  [Ledger!Next]_ledgerVars
<1> DEFINE o == task[c].order
<1>1. task[c].at = "journal" /\ o \in emitted /\ o \in Orders /\ journal[o] = "none"
  BY TaskOrder, TaskFields DEF RecordSubmission, OrderInv, JournalingUnrecorded
<1>2. UNCHANGED <<fills, emitted>>
  BY DEF RecordSubmission, eaVars
<1>3. CASE UNCHANGED journal
  BY <1>2, <1>3 DEF ledgerVars, Traded
<1>4. CASE journal' = [journal EXCEPT ![o] = "submitted"]
  BY <1>1, <1>2, <1>4 DEF Ledger!Next, Ledger!Submit
<1>5. QED  BY <1>3, <1>4 DEF RecordSubmission, Write

(* record_fill and record_reject settle a submitted row as the broker did. *)
LEMMA LedgerSettle ==
  ASSUME AllowExecution, TypeOK, OrderInv, NEW c \in Conns, HandleOrderReply(c)
  PROVE  [Ledger!Next]_ledgerVars
<1> DEFINE line == Head(up[c])
           o == line.order
           status == IF line.kind = "ok" THEN "filled" ELSE "rejected"
<1>1. /\ UNCHANGED <<fills, emitted>>
      /\ line \in Lines
      /\ line \in Range(up[c])
      /\ line.kind \in {"ok", "err"}
  BY ReadsKeeps DEF HandleOrderReply, eaVars
<1>2. o \in Orders /\ line = Reply(line.kind, o)
  BY <1>1 DEF Lines, Reply
<1>3. fills[o] = IF line.kind = "ok" THEN 1 ELSE 0
  BY <1>1, <1>2 DEF OrderInv, AnswersTrue, Answer
<1>4. CASE UNCHANGED journal
  BY <1>1, <1>4 DEF ledgerVars, Traded
<1>5. CASE journal[o] # "none" /\ journal' = [journal EXCEPT ![o] = status]
  <2>1. journal[o] \in {"submitted", status}
    BY <1>1, <1>2, <1>3, <1>5 DEF TypeOK, OrderInv, JournalTruth
  <2>2. CASE journal[o] = status
    <3>1. UNCHANGED journal
      BY <2>2, <1>2, <1>5 DEF TypeOK
    <3>2. QED  BY <3>1, <1>1 DEF ledgerVars, Traded
  <2>3. CASE journal[o] = "submitted"
    <3>1. o \in emitted
      BY <2>3, <1>2 DEF OrderInv, NewUntouched, Untouched
    <3>2. line.kind = "ok" => Ledger!Fill(o)
      BY <2>3, <1>1, <1>2, <1>3, <1>5 DEF Ledger!Fill
    <3>3. line.kind = "err" => Ledger!Reject(o)
      <4> SUFFICES ASSUME line.kind = "err" PROVE Ledger!Reject(o)
        OBVIOUS
      <4>1. fills[o] = 0 /\ journal' = [journal EXCEPT ![o] = "rejected"]
        BY <1>3, <1>5
      <4>2. o \in emitted \ {p \in Orders : fills[p] > 0}
        BY <3>1, <4>1
      <4>3. QED  BY <2>3, <4>1, <4>2, <1>1 DEF Ledger!Reject
    <3>4. QED  BY <3>2, <3>3, <1>1, <1>2 DEF Ledger!Next
  <2>4. QED  BY <2>1, <2>2, <2>3
<1>6. QED  BY <1>4, <1>5 DEF HandleOrderReply, Settle, Write

(* With execution allowed, the pipeline keeps the promise of OrderLedger. *)
THEOREM LedgerImplemented == AllowExecution => (Spec => LedgerSpec)
<1> SUFFICES ASSUME AllowExecution PROVE Spec => LedgerSpec
  OBVIOUS
<1>1. Init => Ledger!Init
  BY DEF Init, Ledger!Init
<1>2. TypeOK /\ OrderInv /\ [Next]_vars => [Ledger!Next]_ledgerVars
  <2> SUFFICES ASSUME TypeOK, OrderInv, [Next]_vars PROVE [Ledger!Next]_ledgerVars
    OBVIOUS
  <2>1. CASE UNCHANGED <<fills, emitted, journal>>
    BY <2>1 DEF ledgerVars, Traded
  <2>2. CASE OnTimer
    BY <2>2, LedgerTrade
  <2>3. ASSUME NEW c \in Conns,
               \/ \E o \in Orders : HandleTick(c, o)
               \/ RecordSubmission(c) \/ HandleOrderReply(c)
        PROVE  [Ledger!Next]_ledgerVars
    BY <2>3, LedgerApprove, LedgerSubmit, LedgerSettle
  <2>4. QED
    BY <2>1, <2>2, <2>3
       DEF Next, EaStep, BrainStep, InHandleTick, HandleLine, ConnectBrain, OnDeinit, OnTick,
           BrokerClose, OnConnect, OnDisconnect, SendOrder, AddPending, HandleQuietTick,
           HandlePosition, HandlePositionsEnd, BrainRestart, eaVars, orderVars, vars
<1>3. QED
  BY <1>1, <1>2, TypeCorrect, OrderInvariance, PTL
     DEF Spec, LedgerSpec, Ledger!Spec, ledgerVars, Ledger!lvars, Traded
-----------------------------------------------------------------------------
(* The first connection.  Until a second one is made, everything the brain
   reads comes in the order the EA wrote it, and one thread does all of the
   brain's steps.                                                           *)

OneConnection == \A c \in Conns : c # 1 => thread[c] = "none"

Alive(c) == thread[c] \in {"accepted", "running"}

(* The positions of a snapshot still to be read, and where it ends. *)
Listed(c) == {o \in Orders : \E i \in 1..Len(up[c]) : up[c][i] = PositionLine(o)}

EndAt(c, i) == up[c][i].kind = "positions_end"

(* What was read and what is still to be read of a snapshot is the whole of
   it, its end comes last, and between snapshots nothing is held. *)
SnapshotWhole(c) ==
  /\ \A i \in 1..Len(up[c]) : EndAt(c, i) =>
       /\ pendView \cup Listed(c) = up[c][i].listed
       /\ Cardinality(up[c][i].listed) <= up[c][i].count
       /\ \A j \in i + 1..Len(up[c]) : up[c][j].kind \notin {"position", "positions_end"}
  /\ sock = c /\ (\A i \in 1..Len(up[c]) : ~EndAt(c, i)) => pendView = {} /\ Listed(c) = {}

IsReply(line) == line.kind \in {"ok", "err"}

(* The orders on their way, to the EA or back as answers, are each there once
   and have a row, or the thread that is about to write it. *)
SentOnce(c) == \A i, j \in 1..Len(down[c]) : down[c][i] = down[c][j] => i = j

AnsweredOnce(c) ==
  \A i, j \in 1..Len(up[c]) :
    IsReply(up[c][i]) /\ IsReply(up[c][j]) /\ up[c][i].order = up[c][j].order => i = j

OnTheWay(c, o) ==
  \/ \E i \in 1..Len(down[c]) : down[c][i] = o
  \/ \E i \in 1..Len(up[c]) : IsReply(up[c][i]) /\ up[c][i].order = o

HasRow(c) ==
  ~JournalMayFail =>
    \A o \in Orders : OnTheWay(c, o) => task[c] = TaskAt("journal", o) \/ journal[o] = "submitted"

BusyRuns == \A c \in Conns : task[c] # Idle => thread[c] = "running"

NotYet ==
  \A c \in Conns : thread[c] = "none" => up[c] = << >> /\ down[c] = << >> /\ sock # c

NothingHeld == (\A c \in Conns : thread[c] = "none") => pendView = {}

ThreadInv == BusyRuns /\ NotYet /\ NothingHeld

InOrder(c) == SnapshotWhole(c) /\ SentOnce(c) /\ AnsweredOnce(c) /\ HasRow(c)

FirstInv == ThreadInv /\ (OneConnection => \A c \in Conns : Alive(c) => InOrder(c))

(* Two queues one after the other, index by index. *)
LEMMA ConcatAt ==
  ASSUME NEW S, NEW s \in Seq(S), NEW t \in Seq(S)
  PROVE  /\ s \o t \in Seq(S) /\ Len(s) \in Nat /\ Len(t) \in Nat
         /\ Len(s \o t) = Len(s) + Len(t)
         /\ \A i \in 1..Len(s \o t) : (s \o t)[i] = IF i <= Len(s) THEN s[i] ELSE t[i - Len(s)]
OBVIOUS

(* The members of the tail of a sequence. *)
LEMMA TailAt ==
  ASSUME NEW S, NEW s \in Seq(S), s # << >>
  PROVE  /\ Len(s) \in Nat \ {0} /\ Len(Tail(s)) = Len(s) - 1
         /\ \A i \in 1..Len(Tail(s)) : Tail(s)[i] = s[i + 1]
         /\ Head(s) = s[1]
OBVIOUS

(* A thread that has not begun does nothing, so while there is one connection
   it is the first that acts. *)
LEMMA OneActs == ASSUME OneConnection, NEW c \in Conns, thread[c] # "none" PROVE c = 1
BY DEF OneConnection

(* The snapshot, when nothing of one is written or read. *)
LEMMA SnapshotAppend ==
  ASSUME NEW c \in Conns, SnapshotWhole(c), up[c] \in Seq(Lines),
         NEW part \in Seq(Lines), up'[c] = up[c] \o part,
         \A i \in 1..Len(part) : part[i].kind \notin {"position", "positions_end"},
         pendView' = pendView, sock' \in {sock, None}
  PROVE  SnapshotWhole(c)'
<1>1. /\ Len(up[c]) \in Nat /\ Len(part) \in Nat /\ Len(up'[c]) = Len(up[c]) + Len(part)
      /\ \A i \in 1..Len(up'[c]) :
           up'[c][i] = IF i <= Len(up[c]) THEN up[c][i] ELSE part[i - Len(up[c])]
  BY ConcatAt
<1>2. ASSUME NEW i \in 1..Len(up'[c]), up'[c][i].kind \in {"position", "positions_end"}
      PROVE  i \in 1..Len(up[c]) /\ up'[c][i] = up[c][i]
  <2>1. CASE i <= Len(up[c])
    BY <1>1, <2>1
  <2>2. CASE ~(i <= Len(up[c]))
    <3>1. i - Len(up[c]) \in 1..Len(part) /\ up'[c][i] = part[i - Len(up[c])]
      BY <1>1, <2>2
    <3>2. QED  BY <1>2, <3>1
  <2>3. QED  BY <2>1, <2>2
<1>3. \A i \in 1..Len(up[c]) : i \in 1..Len(up'[c]) /\ up'[c][i] = up[c][i]
  BY <1>1
<1>4. Listed(c)' = Listed(c)
  <2>1. \A o : PositionLine(o).kind = "position"
    BY DEF PositionLine
  <2>2. ASSUME NEW o \in Orders
        PROVE (\E i \in 1..Len(up'[c]) : up'[c][i] = PositionLine(o))
                <=> (\E i \in 1..Len(up[c]) : up[c][i] = PositionLine(o))
    BY <1>2, <1>3, <2>1
  <2>3. QED  BY <2>2 DEF Listed, PositionLine
<1>5. ASSUME NEW i \in 1..Len(up'[c]), EndAt(c, i)'
      PROVE  /\ pendView' \cup Listed(c)' = up'[c][i].listed
             /\ Cardinality(up'[c][i].listed) <= up'[c][i].count
             /\ \A j \in i + 1..Len(up'[c]) : up'[c][j].kind \notin {"position", "positions_end"}
  <2>1. i \in 1..Len(up[c]) /\ EndAt(c, i) /\ up'[c][i] = up[c][i]
    BY <1>2, <1>5 DEF EndAt
  <2>2. pendView \cup Listed(c) = up[c][i].listed /\ Cardinality(up[c][i].listed) <= up[c][i].count
    BY <2>1 DEF SnapshotWhole
  <2>3. ASSUME NEW j \in i + 1..Len(up'[c]), up'[c][j].kind \in {"position", "positions_end"}
        PROVE  FALSE
    <3>1. j \in 1..Len(up'[c])
      BY <1>1, <2>1
    <3>2. j \in 1..Len(up[c]) /\ up'[c][j] = up[c][j]
      BY <1>2, <2>3, <3>1
    <3>3. j \in i + 1..Len(up[c])
      BY <3>2, <2>1
    <3>4. QED  BY <2>1, <2>3, <3>2, <3>3 DEF SnapshotWhole
  <2>4. QED  BY <1>4, <2>1, <2>2, <2>3
<1>6. sock' = c /\ (\A i \in 1..Len(up'[c]) : ~EndAt(c, i)') => pendView' = {} /\ Listed(c)' = {}
  BY <1>3, <1>4 DEF SnapshotWhole, EndAt, Conns, None
<1>7. QED  BY <1>5, <1>6 DEF SnapshotWhole

(* A line is read: of the snapshot, or another. *)
LEMMA SnapshotRead ==
  ASSUME NEW c \in Conns, SnapshotWhole(c), up[c] \in Seq(Lines), up[c] # << >>,
         up'[c] = Tail(up[c]), sock' = sock,
         pendView' = IF Head(up[c]).kind = "position" THEN pendView \cup {Head(up[c]).order}
                     ELSE IF Head(up[c]).kind = "positions_end" THEN {} ELSE pendView
  PROVE  SnapshotWhole(c)'
<1> DEFINE head == up[c][1]
<1>1. /\ Len(up[c]) \in Nat \ {0} /\ Len(up'[c]) = Len(up[c]) - 1
      /\ \A i \in 1..Len(up'[c]) : up'[c][i] = up[c][i + 1]
      /\ Head(up[c]) = head /\ head \in Lines
  BY TailAt
<1>2. \A i \in 1..Len(up'[c]) : i + 1 \in 2..Len(up[c]) /\ (EndAt(c, i)' <=> EndAt(c, i + 1))
  BY <1>1 DEF EndAt
<1>3. ASSUME NEW i \in 2..Len(up[c]) PROVE i - 1 \in 1..Len(up'[c]) /\ up'[c][i - 1] = up[c][i]
  BY <1>1
<1>4. Listed(c) = Listed(c)' \cup {o \in Orders : head = PositionLine(o)}
  <2>1. ASSUME NEW o \in Orders
        PROVE  (\E i \in 1..Len(up[c]) : up[c][i] = PositionLine(o))
                 <=> (\E i \in 1..Len(up'[c]) : up'[c][i] = PositionLine(o)) \/ head = PositionLine(o)
    <3>1. ASSUME NEW i \in 1..Len(up[c]), up[c][i] = PositionLine(o)
          PROVE  (\E k \in 1..Len(up'[c]) : up'[c][k] = PositionLine(o)) \/ head = PositionLine(o)
      <4>1. i = 1 \/ i \in 2..Len(up[c])
        BY <1>1
      <4>2. QED  BY <1>3, <3>1, <4>1
    <3>2. 1 \in 1..Len(up[c])
      BY <1>1
    <3>3. \A i \in 1..Len(up'[c]) : i + 1 \in 1..Len(up[c]) /\ up'[c][i] = up[c][i + 1]
      BY <1>1
    <3>4. QED  BY <3>1, <3>2, <3>3
  <2>2. QED  BY <2>1 DEF Listed, PositionLine
<1>5. CASE head.kind = "positions_end"
  <2>1. pendView' = {} /\ EndAt(c, 1) /\ 1 \in 1..Len(up[c])
    BY <1>1, <1>5 DEF EndAt
  <2>2. \A j \in 2..Len(up[c]) : up[c][j].kind \notin {"position", "positions_end"}
    BY <2>1 DEF SnapshotWhole
  <2>3. \A i \in 1..Len(up'[c]) : up'[c][i].kind \notin {"position", "positions_end"}
    BY <1>1, <1>2, <2>2
  <2>4. Listed(c)' = {}
    BY <2>3 DEF Listed, PositionLine
  <2>5. QED  BY <2>1, <2>3, <2>4 DEF SnapshotWhole, EndAt
<1>6. CASE head.kind # "positions_end"
  <2>1. pendView' \cup Listed(c)' = pendView \cup Listed(c)
    <3>1. CASE head.kind = "position"
      <4>1. head.order \in Orders /\ \A o \in Orders : head = PositionLine(o) <=> o = head.order
        BY <1>1, <3>1 DEF Lines, PositionLine
      <4>2. QED  BY <1>1, <1>4, <3>1, <4>1
    <3>2. CASE head.kind # "position"
      <4>1. \A o \in Orders : head # PositionLine(o)
        BY <3>2 DEF PositionLine
      <4>2. QED  BY <1>1, <1>4, <1>6, <3>2, <4>1
    <3>3. QED  BY <3>1, <3>2
  <2>2. ASSUME NEW i \in 1..Len(up'[c]), EndAt(c, i)'
        PROVE  /\ pendView' \cup Listed(c)' = up'[c][i].listed
             /\ Cardinality(up'[c][i].listed) <= up'[c][i].count
               /\ \A j \in i + 1..Len(up'[c]) : up'[c][j].kind \notin {"position", "positions_end"}
    <3>1. i + 1 \in 1..Len(up[c]) /\ EndAt(c, i + 1) /\ up'[c][i] = up[c][i + 1]
      BY <1>1, <1>2, <2>2
    <3>2. /\ pendView \cup Listed(c) = up[c][i + 1].listed
          /\ Cardinality(up[c][i + 1].listed) <= up[c][i + 1].count
          /\ \A j \in (i + 1) + 1..Len(up[c]) : up[c][j].kind \notin {"position", "positions_end"}
      BY <3>1 DEF SnapshotWhole
    <3>3. \A j \in i + 1..Len(up'[c]) : j + 1 \in (i + 1) + 1..Len(up[c]) /\ up'[c][j] = up[c][j + 1]
      BY <1>1
    <3>4. QED  BY <2>1, <3>1, <3>2, <3>3
  <2>3. ASSUME sock = c, \A i \in 1..Len(up'[c]) : ~EndAt(c, i)'
        PROVE  pendView' = {} /\ Listed(c)' = {}
    <3>1. ASSUME NEW i \in 1..Len(up[c]) PROVE ~EndAt(c, i)
      <4>1. CASE i = 1
        BY <1>6, <4>1 DEF EndAt
      <4>2. CASE i # 1
        <5>1. i - 1 \in 1..Len(up'[c]) /\ up'[c][i - 1] = up[c][i]
          BY <1>1, <4>2
        <5>2. QED  BY <2>3, <5>1 DEF EndAt
      <4>3. QED  BY <4>1, <4>2
    <3>2. pendView = {} /\ Listed(c) = {}
      BY <2>3, <3>1 DEF SnapshotWhole
    <3>3. QED  BY <2>1, <3>2
  <2>4. QED  BY <2>2, <2>3 DEF SnapshotWhole
<1>7. QED  BY <1>5, <1>6

(* What the EA pushes: the positions it listed, each on a line, and the end. *)
LEMMA SnapshotAt ==
  ASSUME NEW positions \in SUBSET Orders, NEW listing \in Listings(positions), NEW total \in Nat
  PROVE  LET n == Len(listing)
             lines == Snapshot(listing, total)
         IN  /\ n \in Nat /\ lines \in Seq(Lines) /\ Len(lines) = n + 1
             /\ \A i \in 1..n : listing[i] \in Range(listing) /\ lines[i] = PositionLine(listing[i])
             /\ \A o \in Range(listing) : \E i \in 1..n : listing[i] = o
             /\ lines[n + 1] = EndLine(total, Range(listing))
<1>1. listing \in Seq(Orders) /\ Len(listing) \in Nat /\ Range(listing) \in SUBSET Orders
  BY ListingType
<1>2. /\ \A i \in 1..Len(listing) : listing[i] \in Range(listing)
      /\ \A o \in Range(listing) : \E i \in 1..Len(listing) : listing[i] = o
  BY <1>1 DEF Range
<1> DEFINE n == Len(listing)
           end == EndLine(total, Range(listing))
           rows == [i \in 1..n |-> PositionLine(listing[i])]
           rest == <<end>>
<1>3. /\ rows \in Seq(Lines) /\ Len(rows) = n /\ \A i \in 1..n : rows[i] = PositionLine(listing[i])
  BY <1>1 DEF PositionLine, Lines
<1>4. end \in Lines
  BY <1>1 DEF EndLine, Lines
<1>5. n \in Nat
  BY <1>1
<1>6. Snapshot(listing, total) = rows \o rest
  BY DEF Snapshot
<1> HIDE DEF end
<1>7. rest \in Seq(Lines) /\ Len(rest) = 1 /\ rest[1] = end
  BY <1>4
<1> HIDE DEF rows, rest, n
<1>8. /\ rows \o rest \in Seq(Lines) /\ Len(rows \o rest) = n + 1
      /\ \A i \in 1..n + 1 : (rows \o rest)[i] = IF i <= n THEN rows[i] ELSE rest[i - n]
  BY <1>3, <1>5, <1>7, ConcatAt
<1>9. \A i \in 1..n : (rows \o rest)[i] = rows[i]
  BY <1>5, <1>8
<1>10. (rows \o rest)[n + 1] = rest[1]
  <2>1. n + 1 \in 1..n + 1 /\ ~(n + 1 <= n) /\ (n + 1) - n = 1
    BY <1>5
  <2>2. QED  BY <1>8, <2>1
<1>11. QED  BY <1>2, <1>3, <1>5, <1>6, <1>7, <1>8, <1>9, <1>10 DEF n, end

(* The replies answer the orders one by one, in their order. *)
LEMMA RepliesAt ==
  ASSUME NEW orders \in Seq(Orders), NEW executed
  PROVE  /\ Replies(orders, executed) \in Seq(Lines)
         /\ Len(Replies(orders, executed)) = Len(orders)
         /\ \A i \in 1..Len(orders) :
              /\ Replies(orders, executed)[i].kind \in {"ok", "err"}
              /\ Replies(orders, executed)[i].order = orders[i]
BY DEF Replies, Reply, Lines

(* No push is under way, so no line of one is in the queue. *)
LEMMA NoPushUnderWay ==
  ASSUME NEW c \in Conns, up[c] \in Seq(Lines),
         Pending(c, "positions_end") = 0, Pending(c, "position") = 0
  PROVE  \A i \in 1..Len(up[c]) : up[c][i].kind \notin {"position", "positions_end"}
<1>1. IsFiniteSet(1..Len(up[c]))
  BY FS_Interval
<1>2. ASSUME NEW kind, Pending(c, kind) = 0 PROVE {i \in 1..Len(up[c]) : up[c][i].kind = kind} = {}
  <2>1. IsFiniteSet({i \in 1..Len(up[c]) : up[c][i].kind = kind})
    BY <1>1, FS_Subset
  <2>2. QED  BY <1>2, <2>1, FS_EmptySet DEF Pending
<1>3. QED  BY <1>2

(* OnTimer, as far as the queue to the brain goes: answers to all that was
   read, and perhaps the positions, or the first lines of both. *)
Push(listing) == Snapshot(listing, Cardinality(book'))

TimerLines(c, executed, push, listing) ==
  Replies(down[c], executed) \o (IF push THEN Push(listing) ELSE << >>)

(* What a timer call does to the queue of a living connection. *)
LEMMA TimerQueue ==
  ASSUME TypeOK, OnTimer, Alive(sock)
  PROVE  \E executed \in SUBSET Executable(sock), push \in BOOLEAN, listing \in Listings(book') :
           \E sent \in 0..Len(TimerLines(sock, executed, push, listing)) :
             /\ book' \in SUBSET Orders
             /\ push => Pending(sock, "positions_end") = 0 /\ Pending(sock, "position") = 0
             /\ up' = [up EXCEPT ![sock] =
                         @ \o SubSeq(TimerLines(sock, executed, push, listing), 1, sent)]
             /\ sock' = IF sent = Len(TimerLines(sock, executed, push, listing)) THEN sock ELSE None
<1>1. PICK executed \in SUBSET Executable(sock), push \in PositionsDue :
        /\ book' = book \cup executed
        /\ push => Pending(sock, "positions_end") = 0 /\ Pending(sock, "position") = 0
        /\ \E listing \in Listings(book') :
             LET pushed == IF push THEN Push(listing) ELSE << >>
                 lines == Replies(down[sock], executed) \o pushed
             IN  \E sent \in 0..Len(lines) : SendLines(sock, lines, sent)
  BY DEF OnTimer, Push
<1>2. PICK listing \in Listings(book') :
        \E sent \in 0..Len(TimerLines(sock, executed, push, listing)) :
          SendLines(sock, TimerLines(sock, executed, push, listing), sent)
  BY <1>1 DEF TimerLines
<1>3. push \in BOOLEAN
  BY DueAssumption
<1>4. book' \in SUBSET Orders
  <2>1. sock \in Conns /\ down[sock] \in Seq(Orders)
    BY DEF OnTimer, TypeOK
  <2>2. Range(down[sock]) \subseteq Orders
    BY <2>1 DEF Range
  <2>3. QED  BY <1>1, <2>2 DEF Executable, TypeOK
<1>5. thread[sock] # "done"
  BY DEF Alive
<1> DEFINE lines == TimerLines(sock, executed, push, listing)
<1>6. PICK sent \in 0..Len(lines) : SendLines(sock, lines, sent)
  BY <1>2
<1> HIDE DEF lines
<1>7. /\ up' = [up EXCEPT ![sock] = @ \o SubSeq(lines, 1, sent)]
      /\ sock' = IF sent = Len(lines) THEN sock ELSE None
  BY <1>5, <1>6 DEF SendLines
<1>8. \E k \in 0..Len(TimerLines(sock, executed, push, listing)) :
        /\ book' \in SUBSET Orders
        /\ push => Pending(sock, "positions_end") = 0 /\ Pending(sock, "position") = 0
        /\ up' = [up EXCEPT ![sock] = @ \o SubSeq(TimerLines(sock, executed, push, listing), 1, k)]
        /\ sock' = IF k = Len(TimerLines(sock, executed, push, listing)) THEN sock ELSE None
  <2> HIDE DEF Pending
  <2>1. sent \in 0..Len(TimerLines(sock, executed, push, listing))
    BY DEF lines
  <2>2. QED  BY <1>1, <1>4, <1>7, <2>1 DEF lines
<1>9. QED  BY <1>3, <1>8

(* The first lines of an OnTimer went out: answers, then of the snapshot. *)
WentOut(c, executed, push, listing, sent) ==
  /\ down[c] \in Seq(Orders) /\ push \in BOOLEAN
  /\ book' \in SUBSET Orders /\ listing \in Listings(book')
  /\ sent \in 0..Len(TimerLines(c, executed, push, listing))

FirstLines(c, executed, push, listing, sent, part) ==
  /\ part \in Seq(Lines) /\ Len(part) = sent /\ sent \in Nat
  /\ Len(down[c]) \in Nat /\ Len(listing) \in Nat
  /\ Len(TimerLines(c, executed, push, listing))
       = Len(down[c]) + (IF push THEN Len(listing) + 1 ELSE 0)
  /\ \A i \in 1..sent :
       i <= Len(down[c]) => IsReply(part[i]) /\ part[i].order = down[c][i]
  /\ \A i \in 1..sent : ~(i <= Len(down[c])) =>
       /\ push /\ i - Len(down[c]) \in 1..Len(listing) + 1
       /\ part[i] = Push(listing)[i - Len(down[c])]

(* The lines that went out are the first of the lines to send. *)
LEMMA TimerPart ==
  ASSUME NEW c, NEW executed, NEW push, NEW listing, NEW sent,
         WentOut(c, executed, push, listing, sent)
  PROVE  FirstLines(c, executed, push, listing, sent,
                    SubSeq(TimerLines(c, executed, push, listing), 1, sent))
<1>0. /\ down[c] \in Seq(Orders) /\ push \in BOOLEAN
      /\ book' \in SUBSET Orders /\ listing \in Listings(book')
      /\ sent \in 0..Len(TimerLines(c, executed, push, listing))
  BY DEF WentOut
<1> DEFINE answers == Replies(down[c], executed)
           pushed == IF push THEN Push(listing) ELSE << >>
           m == Len(down[c])
           n == Len(listing)
           size == IF push THEN n + 1 ELSE 0
           lines == TimerLines(c, executed, push, listing)
           part == SubSeq(lines, 1, sent)
<1>1. /\ answers \in Seq(Lines) /\ Len(answers) = m /\ m \in Nat
      /\ \A i \in 1..m : IsReply(answers[i]) /\ answers[i].order = down[c][i]
  BY <1>0, RepliesAt DEF IsReply
<1>2. pushed \in Seq(Lines) /\ Len(pushed) = size /\ n \in Nat
  <2>1. Push(listing) \in Seq(Lines) /\ Len(Push(listing)) = n + 1 /\ n \in Nat
    BY <1>0, ListingType, SnapshotAt DEF Push
  <2>2. QED  BY <2>1
<1>3. lines = answers \o pushed
  BY DEF TimerLines
<1>4. push => pushed = Push(listing)
  OBVIOUS
<1>5. size = IF push THEN n + 1 ELSE 0
  OBVIOUS
<1> HIDE DEF answers, pushed, m, n, size, lines
<1>6. /\ lines \in Seq(Lines) /\ Len(lines) = m + size
      /\ \A i \in 1..Len(lines) : lines[i] = IF i <= m THEN answers[i] ELSE pushed[i - m]
  BY <1>1, <1>2, <1>3, ConcatAt
<1>7. sent \in 0..Len(lines) /\ Len(lines) \in Nat
  BY <1>0, <1>6 DEF lines
<1>8. part \in Seq(Lines) /\ Len(part) = sent /\ \A i \in 1..sent : part[i] = lines[i]
  BY <1>6, <1>7
<1> HIDE DEF part
<1>9. ASSUME NEW i \in 1..sent
      PROVE  IF i <= m THEN IsReply(part[i]) /\ part[i].order = down[c][i]
                       ELSE push /\ i - m \in 1..n + 1 /\ part[i] = Push(listing)[i - m]
  <2>1. i \in 1..Len(lines) /\ part[i] = IF i <= m THEN answers[i] ELSE pushed[i - m]
    BY <1>6, <1>7, <1>8
  <2>2. CASE i <= m
    BY <1>1, <2>1, <2>2
  <2>3. CASE ~(i <= m)
    <3>1. i - m \in 1..size
      BY <1>1, <1>2, <1>5, <1>6, <2>1, <2>3
    <3>2. push /\ size = n + 1
      BY <1>5, <3>1
    <3>3. QED  BY <1>4, <2>1, <2>3, <3>1, <3>2
  <2>4. QED  BY <2>2, <2>3
<1>10. sent \in Nat
  BY <1>7
<1>11. QED  BY <1>1, <1>2, <1>6, <1>8, <1>9, <1>10 DEF m, n, size, lines, part, FirstLines

(* A queue that ends with the lines of a snapshot, b others before them: its
   end comes last, after every position listed, with the number of positions. *)
Pushed(positions, listing, queue, size, b) ==
  /\ positions \in SUBSET Orders /\ listing \in Listings(positions)
  /\ size \in Nat /\ b \in Nat /\ size <= b + Len(listing) + 1
  /\ \A i \in 1..size : i <= b => queue[i].kind \notin {"position", "positions_end"}
  /\ \A i \in 1..size : ~(i <= b) => queue[i] = Snapshot(listing, Cardinality(positions))[i - b]

(* A queue that holds the end of a snapshot holds all its positions. *)
LEMMA PushedQueue ==
  ASSUME NEW positions, NEW listing, NEW queue, NEW size, NEW b,
         Pushed(positions, listing, queue, size, b)
  PROVE  /\ \A i \in 1..size : queue[i].kind = "positions_end" =>
              /\ i = size /\ queue[i].count = Cardinality(positions) /\ queue[i].listed = Range(listing)
              /\ {o \in Orders : \E j \in 1..size : queue[j] = PositionLine(o)} = Range(listing)
         /\ size = b + Len(listing) + 1 => \E i \in 1..size : queue[i].kind = "positions_end"
<1> DEFINE n == Len(listing)
<1>0. /\ positions \in SUBSET Orders /\ listing \in Listings(positions)
      /\ size \in Nat /\ b \in Nat /\ size <= b + n + 1
      /\ \A i \in 1..size : i <= b => queue[i].kind \notin {"position", "positions_end"}
      /\ \A i \in 1..size : ~(i <= b) => queue[i] = Snapshot(listing, Cardinality(positions))[i - b]
  BY DEF Pushed
<1>1. /\ n \in Nat /\ Range(listing) \in SUBSET Orders
      /\ \A i \in 1..n : listing[i] \in Range(listing) /\ Snapshot(listing, Cardinality(positions))[i] = PositionLine(listing[i])
      /\ \A o \in Range(listing) : \E i \in 1..n : listing[i] = o
      /\ Snapshot(listing, Cardinality(positions))[n + 1] = EndLine(Cardinality(positions), Range(listing))
  BY <1>0, ListingType, SnapshotAt
<1> HIDE DEF n
<1>2. \A o : PositionLine(o).kind = "position" /\ PositionLine(o).order = o
  BY DEF PositionLine
<1>3. EndLine(Cardinality(positions), Range(listing)).kind = "positions_end"
      /\ EndLine(Cardinality(positions), Range(listing)).count = Cardinality(positions)
      /\ EndLine(Cardinality(positions), Range(listing)).listed = Range(listing)
  BY DEF EndLine
<1>4. ASSUME NEW i \in 1..size, queue[i].kind \in {"position", "positions_end"}
      PROVE  i - b \in 1..n + 1 /\ queue[i] = Snapshot(listing, Cardinality(positions))[i - b]
  <2>1. ~(i <= b)
    BY <1>0, <1>4
  <2>2. QED  BY <1>0, <1>1, <2>1
<1>5. ASSUME NEW i \in 1..size, queue[i].kind = "positions_end" PROVE i = b + n + 1 /\ i = size
  <2>1. i - b \in 1..n + 1 /\ queue[i] = Snapshot(listing, Cardinality(positions))[i - b]
    BY <1>4, <1>5
  <2>2. ASSUME i - b \in 1..n PROVE FALSE
    <3>1. queue[i].kind = "position"
      BY <1>0, <1>1, <1>2, <2>1, <2>2
    <3>2. QED  BY <1>5, <3>1
  <2>3. i - b = n + 1
    BY <1>0, <1>1, <2>1, <2>2
  <2>4. QED  BY <1>0, <1>1, <2>3
<1>6. ASSUME size = b + n + 1
      PROVE  {o \in Orders : \E j \in 1..size : queue[j] = PositionLine(o)} = Range(listing)
  <2>1. ASSUME NEW o \in Orders, NEW j \in 1..size, queue[j] = PositionLine(o)
        PROVE  o \in Range(listing)
    <3>1. queue[j].kind = "position"
      BY <1>2, <2>1
    <3>2. j - b \in 1..n + 1 /\ queue[j] = Snapshot(listing, Cardinality(positions))[j - b]
      BY <1>4, <3>1
    <3>3. j - b # n + 1
      BY <1>0, <1>1, <1>3, <3>1, <3>2
    <3>4. j - b \in 1..n
      BY <1>0, <1>1, <3>2, <3>3
    <3>5. queue[j] = PositionLine(listing[j - b]) /\ listing[j - b] \in Range(listing)
      BY <1>0, <1>1, <3>2, <3>4
    <3>6. o = listing[j - b]
      BY <1>2, <2>1, <3>5
    <3>7. QED  BY <3>5, <3>6
  <2>2. ASSUME NEW o \in Range(listing) PROVE \E j \in 1..size : queue[j] = PositionLine(o)
    <3>1. PICK i \in 1..n : listing[i] = o
      BY <1>1
    <3>2. b + i \in 1..size /\ ~(b + i <= b) /\ (b + i) - b = i
      BY <1>0, <1>1, <1>6
    <3>3. queue[b + i] = Snapshot(listing, Cardinality(positions))[i]
      BY <1>0, <3>2
    <3>4. QED  BY <1>0, <1>1, <3>1, <3>2, <3>3
  <2>3. QED  BY <1>1, <2>1, <2>2
<1>7. ASSUME NEW i \in 1..size, i = b + n + 1 PROVE queue[i] = EndLine(Cardinality(positions), Range(listing))
  <2>1. ~(i <= b) /\ i - b = n + 1
    BY <1>0, <1>1, <1>7
  <2>2. QED  BY <1>0, <1>1, <2>1
<1>8. ASSUME size = b + n + 1 PROVE \E i \in 1..size : queue[i].kind = "positions_end"
  <2>1. size \in 1..size
    BY <1>0, <1>1, <1>8
  <2>2. QED  BY <1>3, <1>7, <1>8, <2>1
<1>9. ASSUME NEW i \in 1..size, queue[i].kind = "positions_end"
      PROVE  /\ i = size /\ queue[i].count = Cardinality(positions) /\ queue[i].listed = Range(listing)
             /\ {o \in Orders : \E j \in 1..size : queue[j] = PositionLine(o)} = Range(listing)
  BY <1>0, <1>1, <1>3, <1>5, <1>6, <1>7, <1>9
<1>10. QED  BY <1>8, <1>9 DEF n

(* OnTimer on the first connection, line by line. *)
TimerWrote(c, executed, push, listing, sent, part) ==
  /\ push \in BOOLEAN /\ book' \in SUBSET Orders /\ listing \in Listings(book')
  /\ push => Pending(c, "positions_end") = 0 /\ Pending(c, "position") = 0
  /\ FirstLines(c, executed, push, listing, sent, part)
  /\ up'[c] = up[c] \o part
  /\ sent <= Len(TimerLines(c, executed, push, listing))
  /\ sock' = IF sent = Len(TimerLines(c, executed, push, listing)) THEN c ELSE None

(* A timer call on a living connection writes such a part. *)
LEMMA TimerWrites ==
  ASSUME TypeOK, OnTimer, Alive(sock), NEW c \in Conns, c = sock
  PROVE  \E executed, push, listing, sent, part :
           TimerWrote(c, executed, push, listing, sent, part)
<1>1. PICK executed \in SUBSET Executable(sock), push \in BOOLEAN, listing \in Listings(book') :
        \E sent \in 0..Len(TimerLines(sock, executed, push, listing)) :
          /\ book' \in SUBSET Orders
          /\ push => Pending(sock, "positions_end") = 0 /\ Pending(sock, "position") = 0
          /\ up' = [up EXCEPT ![sock] = @ \o SubSeq(TimerLines(sock, executed, push, listing), 1, sent)]
          /\ sock' = IF sent = Len(TimerLines(sock, executed, push, listing)) THEN sock ELSE None
  BY TimerQueue
<1>2. PICK sent \in 0..Len(TimerLines(c, executed, push, listing)) :
          /\ book' \in SUBSET Orders
          /\ push => Pending(c, "positions_end") = 0 /\ Pending(c, "position") = 0
          /\ up' = [up EXCEPT ![c] = @ \o SubSeq(TimerLines(c, executed, push, listing), 1, sent)]
          /\ sock' = IF sent = Len(TimerLines(c, executed, push, listing)) THEN c ELSE None
  BY <1>1
<1>3. up[c] \in Seq(Lines) /\ down[c] \in Seq(Orders)
  BY DEF TypeOK
<1> DEFINE part == SubSeq(TimerLines(c, executed, push, listing), 1, sent)
           whole == Len(TimerLines(c, executed, push, listing))
<1>4. FirstLines(c, executed, push, listing, sent, part)
  <2>1. WentOut(c, executed, push, listing, sent)
    BY <1>1, <1>2, <1>3 DEF WentOut
  <2>2. QED  BY <2>1, TimerPart
<1>5. up'[c] = up[c] \o part
  BY <1>2 DEF TypeOK
<1>6. whole \in Nat
  <2>1. /\ whole = Len(down[c]) + (IF push THEN Len(listing) + 1 ELSE 0)
        /\ Len(down[c]) \in Nat /\ Len(listing) \in Nat
    BY <1>4 DEF FirstLines
  <2> HIDE DEF whole
  <2>2. \A x, y \in Nat : x + (IF push THEN y + 1 ELSE 0) \in Nat
    OBVIOUS
  <2>3. QED  BY <2>1, <2>2
<1>7. (sock' = IF sent = whole THEN c ELSE None) /\ sent <= whole
  <2>1. sent \in 0..whole /\ (sock' = IF sent = whole THEN c ELSE None)
    BY <1>2
  <2> HIDE DEF whole
  <2>2. QED  BY <1>6, <2>1
<1> HIDE DEF part, whole
<1>8. TimerWrote(c, executed, push, listing, sent, part)
  BY <1>1, <1>2, <1>4, <1>5, <1>7 DEF TimerWrote, whole
<1>9. QED  BY <1>8

(* A push ends with its count; without one, nothing of the snapshot changes. *)
LEMMA SnapshotTimer ==
  ASSUME TypeOK, OnTimer, Alive(sock), NEW c \in Conns, c = sock, SnapshotWhole(c)
  PROVE  SnapshotWhole(c)'
<1>1. PICK executed, push, listing, sent, part : TimerWrote(c, executed, push, listing, sent, part)
  BY TimerWrites
<1>2. /\ push => Pending(c, "positions_end") = 0 /\ Pending(c, "position") = 0
      /\ push \in BOOLEAN /\ book' \in SUBSET Orders /\ listing \in Listings(book')
  BY <1>1 DEF TimerWrote
<1>3. /\ up[c] \in Seq(Lines) /\ down[c] \in Seq(Orders) /\ pendView' = pendView
      /\ SnapshotWhole(c) /\ sock = c /\ c # None
  BY DEF TypeOK, OnTimer, viewVars, Conns, None
<1> DEFINE m == Len(down[c])
           n == Len(listing)
           k == Len(up[c])
           whole == m + (IF push THEN n + 1 ELSE 0)
<1>4. /\ part \in Seq(Lines) /\ Len(part) = sent /\ sent \in Nat /\ m \in Nat /\ n \in Nat
      /\ Len(TimerLines(c, executed, push, listing)) = whole
      /\ \A i \in 1..sent : i <= m => IsReply(part[i]) /\ part[i].order = down[c][i]
      /\ \A i \in 1..sent : ~(i <= m) =>
           push /\ i - m \in 1..n + 1 /\ part[i] = Push(listing)[i - m]
  BY <1>1 DEF TimerWrote, FirstLines
<1>5. up'[c] = up[c] \o part
  BY <1>1 DEF TimerWrote
<1>6. (sock' = IF sent = whole THEN c ELSE None) /\ sent <= whole
  <2> HIDE DEF m, n, k, whole
  <2>1. QED  BY <1>1, <1>4 DEF TimerWrote
<1>7. k \in Nat
  BY <1>3
<1>8. whole = m + (IF push THEN n + 1 ELSE 0)
  OBVIOUS
<1>9. n = Len(listing) /\ k = Len(up[c])
  OBVIOUS
<1> HIDE DEF m, n, k, whole
<1>10. CASE ~push
  <2>1. \A i \in 1..Len(part) : part[i].kind \notin {"position", "positions_end"}
    BY <1>4, <1>10 DEF IsReply
  <2>2. sock' \in {sock, None}
    BY <1>3, <1>6
  <2>3. QED  BY <1>3, <1>4, <1>5, <2>1, <2>2, SnapshotAppend
<1>11. CASE push
  <2>1. \A i \in 1..k : up[c][i].kind \notin {"position", "positions_end"}
    BY <1>2, <1>3, <1>9, <1>11, NoPushUnderWay
  <2>2. pendView = {}
    BY <1>3, <1>9, <2>1 DEF SnapshotWhole, EndAt
  <2>3. /\ Len(up'[c]) = k + sent
        /\ \A i \in 1..k + sent : up'[c][i] = IF i <= k THEN up[c][i] ELSE part[i - k]
    <3>1. /\ Len(up[c] \o part) = Len(up[c]) + Len(part)
          /\ \A i \in 1..Len(up[c] \o part) :
               (up[c] \o part)[i] = IF i <= Len(up[c]) THEN up[c][i] ELSE part[i - Len(up[c])]
      <4>1. up[c] \in Seq(Lines) /\ part \in Seq(Lines)
        BY <1>3, <1>4
      <4>2. QED  BY <4>1, ConcatAt
    <3>2. QED  BY <1>4, <1>5, <1>9, <3>1
  <2>4. ASSUME NEW i \in 1..k + sent, i <= k + m
        PROVE  up'[c][i].kind \notin {"position", "positions_end"}
    <3>1. CASE i <= k
      <4>1. i \in 1..k
        BY <1>7, <3>1
      <4>2. QED  BY <2>1, <2>3, <3>1, <4>1
    <3>2. CASE ~(i <= k)
      <4>1. i - k \in 1..sent /\ i - k <= m /\ up'[c][i] = part[i - k]
        BY <1>4, <1>7, <2>3, <2>4, <3>2
      <4>2. IsReply(part[i - k])
        BY <1>4, <4>1
      <4>3. QED  BY <4>1, <4>2 DEF IsReply
    <3>3. QED  BY <3>1, <3>2
  <2>5. ASSUME NEW i \in 1..k + sent, ~(i <= k + m)
        PROVE  up'[c][i] = Push(listing)[i - (k + m)]
    <3>1. i - k \in 1..sent /\ ~(i - k <= m) /\ ~(i <= k) /\ (i - k) - m = i - (k + m)
      BY <1>4, <1>7, <2>5
    <3>2. up'[c][i] = part[i - k] /\ part[i - k] = Push(listing)[(i - k) - m]
      BY <1>4, <2>3, <3>1
    <3>3. QED  BY <3>1, <3>2
  <2>6. k + sent \in Nat /\ k + m \in Nat /\ k + sent <= (k + m) + n + 1
        /\ (sent = whole => k + sent = (k + m) + n + 1)
    <3>1. sent \in Nat /\ m \in Nat /\ n \in Nat /\ sent <= whole /\ whole = m + (n + 1)
      BY <1>4, <1>6, <1>8, <1>11
    <3>2. QED  BY <1>7, <3>1
  <2>7. /\ \A i \in 1..k + sent : up'[c][i].kind = "positions_end" =>
             /\ i = k + sent /\ up'[c][i].count = Cardinality(book') /\ up'[c][i].listed = Range(listing)
             /\ {o \in Orders : \E j \in 1..k + sent : up'[c][j] = PositionLine(o)} = Range(listing)
        /\ k + sent = (k + m) + n + 1 => \E i \in 1..k + sent : up'[c][i].kind = "positions_end"
    <3> DEFINE queue == up'[c]
               size == k + sent
               b == k + m
    <3>1. /\ size \in Nat /\ b \in Nat /\ size <= b + n + 1
          /\ \A i \in 1..size : i <= b => queue[i].kind \notin {"position", "positions_end"}
          /\ \A i \in 1..size : ~(i <= b) => queue[i] = Push(listing)[i - b]
      BY <2>4, <2>5, <2>6
    <3> HIDE DEF queue, size, b
    <3>2. Pushed(book', listing, queue, size, b)
      BY <1>1, <1>2, <1>9, <3>1 DEF Pushed, Push
    <3>3. /\ \A i \in 1..size : queue[i].kind = "positions_end" =>
               /\ i = size /\ queue[i].count = Cardinality(book') /\ queue[i].listed = Range(listing)
               /\ {o \in Orders : \E j \in 1..size : queue[j] = PositionLine(o)} = Range(listing)
          /\ size = b + n + 1 => \E i \in 1..size : queue[i].kind = "positions_end"
      BY <1>9, <3>2, PushedQueue
    <3>4. QED  BY <3>3 DEF queue, size, b
  <2>8. Listed(c)' = {o \in Orders : \E j \in 1..k + sent : up'[c][j] = PositionLine(o)}
    BY <2>3 DEF Listed, PositionLine
  <2>9. ASSUME NEW i \in 1..Len(up'[c]), EndAt(c, i)'
        PROVE  /\ pendView' \cup Listed(c)' = up'[c][i].listed
             /\ Cardinality(up'[c][i].listed) <= up'[c][i].count
               /\ \A j \in i + 1..Len(up'[c]) : up'[c][j].kind \notin {"position", "positions_end"}
    <3>1. up'[c][i].kind = "positions_end" /\ i \in 1..k + sent
      BY <2>3, <2>9 DEF EndAt
    <3>2. /\ i = k + sent /\ Listed(c)' = Range(listing)
          /\ up'[c][i].count = Cardinality(book') /\ up'[c][i].listed = Range(listing)
      BY <2>7, <2>8, <3>1
    <3>3. pendView' \cup Listed(c)' = Range(listing)
          /\ Cardinality(Range(listing)) <= Cardinality(book')
      BY <1>2, <1>3, <2>2, <3>2, ListingType
    <3>4. i + 1..Len(up'[c]) = {}
      BY <2>3, <2>6, <3>2
    <3>5. QED  BY <3>2, <3>3, <3>4
  <2>10. ASSUME sock' = c PROVE \E i \in 1..Len(up'[c]) : EndAt(c, i)'
    <3>1. sent = whole
      BY <1>3, <1>6, <2>10
    <3>2. QED  BY <2>3, <2>6, <2>7, <3>1 DEF EndAt
  <2>11. QED  BY <2>9, <2>10 DEF SnapshotWhole
<1>12. QED  BY <1>10, <1>11

-----------------------------------------------------------------------------
(* The answers on their way. *)

(* An answer in the queue is to an order that is not on its way to the EA. *)
LEMMA AnsweredIsHome ==
  ASSUME TypeOK, OrderInv, NEW c \in Conns, NEW i \in 1..Len(up[c]), IsReply(up[c][i])
  PROVE  /\ up[c][i].order \in Orders /\ ~InFlight(up[c][i].order)
         /\ \A j \in 1..Len(down[c]) : down[c][j] # up[c][i].order
<1>1. up[c] \in Seq(Lines) /\ down[c] \in Seq(Orders) /\ up[c][i] \in Lines
  BY DEF TypeOK
<1>2. /\ up[c][i].kind \in {"ok", "err"} /\ up[c][i].order \in Orders
      /\ up[c][i] = Reply(up[c][i].kind, up[c][i].order)
  BY <1>1 DEF IsReply, Lines, Reply
<1>3. up[c][i] \in Range(up[c])
  BY <1>1 DEF Range
<1>4. Answer(up[c][i].order, up[c][i].kind)
  BY <1>2, <1>3 DEF Answer
<1>5. ~Unanswered(up[c][i].order)
  BY <1>2, <1>4 DEF Unanswered
<1>6. ~InFlight(up[c][i].order)
  BY <1>2, <1>5 DEF OrderInv, InFlightOpen
<1>7. \A j \in 1..Len(down[c]) : down[c][j] \in Range(down[c])
  BY <1>1 DEF Range
<1>8. QED  BY <1>2, <1>6, <1>7 DEF InFlight

(* Nothing new is on its way. *)
LEMMA WayKept ==
  ASSUME NEW c \in Conns, up[c] \in Seq(Lines), down[c] \in Seq(Orders),
         up'[c] = up[c], down'[c] \in {down[c], << >>}
  PROVE  /\ SentOnce(c) => SentOnce(c)'
         /\ AnsweredOnce(c) => AnsweredOnce(c)'
         /\ \A o : OnTheWay(c, o)' => OnTheWay(c, o)
<1>1. CASE down'[c] = down[c]
  BY <1>1 DEF SentOnce, AnsweredOnce, OnTheWay
<1>2. CASE down'[c] = << >>
  <2>1. 1..Len(down'[c]) = {}
    BY <1>2
  <2>2. QED  BY <2>1 DEF SentOnce, AnsweredOnce, OnTheWay
<1>3. QED  BY <1>1, <1>2

(* A line that is no answer is written, or nothing. *)
LEMMA WayAppend ==
  ASSUME NEW c \in Conns, up[c] \in Seq(Lines), NEW part \in Seq(Lines),
         up'[c] = up[c] \o part, \A i \in 1..Len(part) : ~IsReply(part[i]),
         down[c] \in Seq(Orders), down'[c] \in {down[c], << >>}
  PROVE  /\ SentOnce(c) => SentOnce(c)'
         /\ AnsweredOnce(c) => AnsweredOnce(c)'
         /\ \A o : OnTheWay(c, o)' => OnTheWay(c, o)
<1>1. /\ Len(up[c]) \in Nat /\ Len(part) \in Nat /\ Len(up'[c]) = Len(up[c]) + Len(part)
      /\ \A i \in 1..Len(up'[c]) :
           up'[c][i] = IF i <= Len(up[c]) THEN up[c][i] ELSE part[i - Len(up[c])]
  BY ConcatAt
<1>2. ASSUME NEW i \in 1..Len(up'[c]), IsReply(up'[c][i])
      PROVE  i \in 1..Len(up[c]) /\ up'[c][i] = up[c][i]
  <2>1. CASE i <= Len(up[c])
    BY <1>1, <2>1
  <2>2. CASE ~(i <= Len(up[c]))
    <3>1. i - Len(up[c]) \in 1..Len(part) /\ up'[c][i] = part[i - Len(up[c])]
      BY <1>1, <2>2
    <3>2. QED  BY <1>2, <3>1
  <2>3. QED  BY <2>1, <2>2
<1>3. AnsweredOnce(c) => AnsweredOnce(c)'
  BY <1>2 DEF AnsweredOnce
<1>4. 1..Len(down'[c]) = {} \/ down'[c] = down[c]
  <2>1. down'[c] = << >> => 1..Len(down'[c]) = {}
    OBVIOUS
  <2>2. QED  BY <2>1
<1>5. SentOnce(c) => SentOnce(c)'
  BY <1>4 DEF SentOnce
<1>6. \A o : OnTheWay(c, o)' => OnTheWay(c, o)
  BY <1>2, <1>4 DEF OnTheWay
<1>7. QED  BY <1>3, <1>5, <1>6

(* A line is read. *)
LEMMA WayRead ==
  ASSUME NEW c \in Conns, up[c] \in Seq(Lines), up[c] # << >>, up'[c] = Tail(up[c]),
         down'[c] = down[c], AnsweredOnce(c)
  PROVE  /\ SentOnce(c) => SentOnce(c)'
         /\ AnsweredOnce(c)'
         /\ \A o : OnTheWay(c, o)' => OnTheWay(c, o)
         /\ IsReply(Head(up[c])) =>
              \A i \in 1..Len(up'[c]) :
                IsReply(up'[c][i]) => up'[c][i].order # Head(up[c]).order
<1>1. /\ Len(up[c]) \in Nat \ {0} /\ Len(up'[c]) = Len(up[c]) - 1
      /\ \A i \in 1..Len(up'[c]) : up'[c][i] = up[c][i + 1]
      /\ Head(up[c]) = up[c][1]
  BY TailAt
<1>2. ASSUME NEW i \in 1..Len(up'[c]) PROVE i + 1 \in 1..Len(up[c]) /\ up'[c][i] = up[c][i + 1] /\ i + 1 # 1
  BY <1>1
<1>3. 1 \in 1..Len(up[c])
  BY <1>1
<1>4. AnsweredOnce(c)'
  <2> SUFFICES ASSUME NEW i \in 1..Len(up'[c]), NEW j \in 1..Len(up'[c]),
                      IsReply(up'[c][i]), IsReply(up'[c][j]), up'[c][i].order = up'[c][j].order
               PROVE  i = j
    BY DEF AnsweredOnce, IsReply
  <2>1. i + 1 = j + 1
    BY <1>2 DEF AnsweredOnce
  <2>2. QED  BY <2>1
<1>5. SentOnce(c) => SentOnce(c)'
  BY DEF SentOnce
<1>6. \A o : OnTheWay(c, o)' => OnTheWay(c, o)
  BY <1>2 DEF OnTheWay
<1>7. ASSUME IsReply(Head(up[c])), NEW i \in 1..Len(up'[c]), IsReply(up'[c][i]),
             up'[c][i].order = Head(up[c]).order
      PROVE  FALSE
  BY <1>1, <1>2, <1>3, <1>7 DEF AnsweredOnce
<1>8. QED  BY <1>4, <1>5, <1>6, <1>7

(* The EA answers what it has read; nothing of it is in the queue yet. *)
LEMMA WayTimer ==
  ASSUME TypeOK, OrderInv, OnTimer, Alive(sock), NEW c \in Conns, c = sock,
         SentOnce(c), AnsweredOnce(c)
  PROVE  SentOnce(c)' /\ AnsweredOnce(c)' /\ \A o : OnTheWay(c, o)' => OnTheWay(c, o)
<1>1. PICK executed, push, listing, sent, part : TimerWrote(c, executed, push, listing, sent, part)
  BY TimerWrites
<1>2. push \in BOOLEAN /\ book' \in SUBSET Orders /\ listing \in Listings(book')
  BY <1>1 DEF TimerWrote
<1>3. up[c] \in Seq(Lines) /\ down[c] \in Seq(Orders) /\ 1..Len(down'[c]) = {}
  <2>1. down'[c] = << >>
    BY DEF TypeOK, OnTimer
  <2>2. up[c] \in Seq(Lines) /\ down[c] \in Seq(Orders)
    BY DEF TypeOK
  <2>3. QED  BY <2>1, <2>2
<1> DEFINE m == Len(down[c])
           n == Len(listing)
           k == Len(up[c])
<1>4. /\ part \in Seq(Lines) /\ Len(part) = sent /\ sent \in Nat /\ m \in Nat /\ n \in Nat
      /\ \A i \in 1..sent : i <= m => IsReply(part[i]) /\ part[i].order = down[c][i]
      /\ \A i \in 1..sent : ~(i <= m) => i - m \in 1..n + 1 /\ part[i] = Push(listing)[i - m]
  BY <1>1 DEF TimerWrote, FirstLines
<1>5. \A i \in 1..n + 1 : ~IsReply(Push(listing)[i])
  <2>1. /\ \A i \in 1..n : Push(listing)[i] = PositionLine(listing[i])
        /\ Push(listing)[n + 1] = EndLine(Cardinality(book'), Range(listing))
    BY <1>2, ListingType, SnapshotAt DEF Push
  <2>2. \A i \in 1..n + 1 : i \in 1..n \/ i = n + 1
    BY <1>4
  <2>3. \A o, x, y : ~IsReply(PositionLine(o)) /\ ~IsReply(EndLine(x, y))
    BY DEF IsReply, PositionLine, EndLine
  <2>4. QED  BY <2>1, <2>2, <2>3
<1>6. k \in Nat /\ Len(up'[c]) = k + sent
      /\ \A i \in 1..k + sent : up'[c][i] = IF i <= k THEN up[c][i] ELSE part[i - k]
  <2>1. up'[c] = up[c] \o part
    BY <1>1 DEF TimerWrote
  <2>2. up[c] \in Seq(Lines) /\ part \in Seq(Lines)
    BY <1>3, <1>4
  <2>3. /\ Len(up[c]) \in Nat /\ Len(up[c] \o part) = Len(up[c]) + Len(part)
        /\ \A i \in 1..Len(up[c] \o part) :
             (up[c] \o part)[i] = IF i <= Len(up[c]) THEN up[c][i] ELSE part[i - Len(up[c])]
    BY <2>2, ConcatAt
  <2>4. QED  BY <1>4, <2>1, <2>3
<1> HIDE DEF m, n, k
<1>7. ASSUME NEW i \in 1..k + sent, IsReply(up'[c][i])
      PROVE  \/ i \in 1..k /\ up'[c][i] = up[c][i]
             \/ ~(i <= k) /\ i - k \in 1..m /\ up'[c][i].order = down[c][i - k]
  <2>1. CASE i <= k
    BY <1>6, <2>1
  <2>2. CASE ~(i <= k)
    <3>1. i - k \in 1..sent /\ up'[c][i] = part[i - k]
      BY <1>4, <1>6, <2>2
    <3>2. i - k <= m
      BY <1>4, <1>5, <1>7, <3>1
    <3>3. i - k \in 1..m
      BY <1>4, <3>1, <3>2
    <3>4. QED  BY <1>4, <2>2, <3>1, <3>2, <3>3
  <2>3. QED  BY <2>1, <2>2
<1>8. ASSUME NEW i \in 1..k, IsReply(up[c][i]), NEW j \in 1..m, down[c][j] = up[c][i].order
      PROVE  FALSE
  BY <1>8, AnsweredIsHome DEF k, m
<1>9. ASSUME NEW i \in 1..k + sent, NEW j \in 1..k + sent,
             IsReply(up'[c][i]), IsReply(up'[c][j]), up'[c][i].order = up'[c][j].order
      PROVE  i = j
  <2>1. CASE i \in 1..k /\ up'[c][i] = up[c][i] /\ j \in 1..k /\ up'[c][j] = up[c][j]
    BY <1>9, <2>1 DEF AnsweredOnce, k
  <2>2. CASE ~(i <= k) /\ i - k \in 1..m /\ up'[c][i].order = down[c][i - k]
             /\ ~(j <= k) /\ j - k \in 1..m /\ up'[c][j].order = down[c][j - k]
    <3>1. i - k = j - k
      BY <1>9, <2>2 DEF SentOnce, m
    <3>2. QED  BY <1>6, <3>1
  <2>3. QED  BY <1>7, <1>8, <1>9, <2>1, <2>2
<1>10. AnsweredOnce(c)'
  BY <1>6, <1>9 DEF AnsweredOnce
<1>11. SentOnce(c)'
  BY <1>3 DEF SentOnce
<1>12. ASSUME NEW o, OnTheWay(c, o)' PROVE OnTheWay(c, o)
  <2>1. PICK i \in 1..k + sent : IsReply(up'[c][i]) /\ up'[c][i].order = o
    BY <1>3, <1>6, <1>12 DEF OnTheWay
  <2>2. QED  BY <1>7, <2>1 DEF OnTheWay, k, m
<1>13. QED  BY <1>10, <1>11, <1>12

(* Threads start once, and a connection is nothing before it is made. *)
LEMMA ThreadStep ==
  ASSUME TypeOK, HandlerInv, ThreadInv, [Next]_vars
  PROVE  ThreadInv'
<1> USE DEF ThreadInv, BusyRuns, NotYet, NothingHeld, eaVars, threadVars, viewVars, orderVars
<1>1. CASE UNCHANGED vars
  BY <1>1 DEF vars
<1>2. ASSUME NEW c \in Conns, ConnectBrain(c) PROVE ThreadInv'
  BY <1>2 DEF ConnectBrain, TypeOK
<1>3. CASE OnDeinit
  <2>1. sock \in Conns /\ thread[sock] # "none" /\ UNCHANGED <<thread, task, pendView, up>>
    BY <1>3 DEF OnDeinit, TypeOK
  <2>2. /\ \A d \in Conns : d # sock => down'[d] = down[d]
        /\ sock' = None
    BY <1>3, <2>1 DEF OnDeinit, TypeOK
  <2>3. \A d \in Conns : d # None
    BY DEF Conns, None
  <2>4. QED  BY <2>1, <2>2, <2>3
<1>4. ASSUME OnTick \/ OnTimer PROVE ThreadInv'
  <2>1. sock \in Conns /\ thread[sock] # "none" /\ UNCHANGED <<thread, task, pendView>>
    BY <1>4 DEF OnTick, OnTimer, TypeOK
  <2>2. \A d \in Conns : d # sock => up'[d] = up[d] /\ down'[d] = down[d]
    BY <1>4, <2>1 DEF OnTick, OnTimer, TypeOK, SendLines
  <2>3. sock' \in {sock, None}
    BY <1>4 DEF OnTick, OnTimer, SendLines
  <2>4. \A d \in Conns : d # None
    BY DEF Conns, None
  <2>5. QED  BY <2>1, <2>2, <2>3, <2>4
<1>5. ASSUME NEW o \in Orders, BrokerClose(o) PROVE ThreadInv'
  BY <1>5 DEF BrokerClose
<1>6. ASSUME NEW c \in Conns, OnConnect(c) \/ OnDisconnect(c) PROVE ThreadInv'
  BY <1>6 DEF OnConnect, OnDisconnect, Reading, TypeOK
<1>7. ASSUME NEW c \in Conns, HandleLine(c) PROVE ThreadInv'
  <2>1. /\ thread[c] = "running" /\ UNCHANGED <<thread, down, sock>>
        /\ \A d \in Conns : d # c => up'[d] = up[d] /\ task'[d] = task[d]
    BY <1>7 DEF HandleLine, HandleQuietTick, HandleTick, HandlePosition, HandlePositionsEnd,
                HandleOrderReply, Reads, Reading, TypeOK
  <2>2. QED  BY <2>1
<1>8. ASSUME NEW c \in Conns, InHandleTick(c) PROVE ThreadInv'
  <2>1. task[c] # Idle /\ thread[c] = "running" /\ UNCHANGED <<thread, up, sock, pendView>>
    BY <1>8, TaskFields DEF InHandleTick, SendOrder, RecordSubmission, AddPending
  <2>2. \A d \in Conns : d # c => task'[d] = task[d]
    BY <1>8 DEF InHandleTick, SendOrder, RecordSubmission, AddPending, TypeOK
  <2>3. \A d \in Conns : thread[d] = "none" => down'[d] = down[d]
    <3>1. CASE down' = down
      BY <3>1
    <3>2. CASE SendOrder(c) /\ down' # down
      <4>1. handler # None /\ down' = [down EXCEPT ![handler] = Append(@, task[c].order)]
        BY <3>2 DEF SendOrder
      <4>2. handler = registered /\ registered \in Conns /\ thread[handler] # "none"
        BY <4>1 DEF HandlerInv, HandlerIsLatest, RegisteredRan, TypeOK
      <4>3. QED  BY <4>1, <4>2 DEF TypeOK
    <3>3. QED  BY <1>8, <3>1, <3>2 DEF InHandleTick, RecordSubmission, AddPending
  <2>4. QED  BY <2>1, <2>2, <2>3
<1>9. CASE BrainRestart
  BY <1>9 DEF BrainRestart, TypeOK
<1>10. QED
  BY <1>1, <1>2, <1>3, <1>4, <1>5, <1>6, <1>7, <1>8, <1>9 DEF Next, EaStep, BrainStep

(* The snapshot when no line is written or read. *)
LEMMA SnapshotKept ==
  ASSUME NEW c \in Conns, SnapshotWhole(c), up'[c] = up[c], pendView' = pendView,
         sock' \in {sock, None}
  PROVE  SnapshotWhole(c)'
<1>1. Listed(c)' = Listed(c) /\ \A i : EndAt(c, i)' <=> EndAt(c, i)
  BY DEF Listed, EndAt, PositionLine
<1>2. sock' = c => sock = c
  BY DEF Conns, None
<1>3. QED  BY <1>1, <1>2 DEF SnapshotWhole

(* The rows when none is written and nothing more is on its way. *)
LEMMA RowsKept ==
  ASSUME NEW c \in Conns, HasRow(c), \A o : OnTheWay(c, o)' => OnTheWay(c, o),
         journal' = journal,
         task'[c] = task[c] \/ task[c].at # "journal"
  PROVE  HasRow(c)'
BY TaskFields DEF HasRow

(* The steps that leave the lines alone, or take what goes to the EA. *)
LEMMA InOrderKept ==
  ASSUME TypeOK, NEW c \in Conns, InOrder(c), up'[c] = up[c], down'[c] \in {down[c], << >>},
         pendView' = pendView, sock' \in {sock, None}, journal' = journal,
         task'[c] = task[c] \/ task[c].at # "journal"
  PROVE  InOrder(c)'
<1>1. up[c] \in Seq(Lines) /\ down[c] \in Seq(Orders)
  BY DEF TypeOK
<1>2. SnapshotWhole(c)'
  BY SnapshotKept DEF InOrder
<1>3. SentOnce(c)' /\ AnsweredOnce(c)' /\ \A o : OnTheWay(c, o)' => OnTheWay(c, o)
  BY <1>1, WayKept DEF InOrder
<1>4. HasRow(c)'
  BY <1>3, RowsKept DEF InOrder
<1>5. QED  BY <1>2, <1>3, <1>4 DEF InOrder

(* OnTick writes its line, or finds the connection gone. *)
LEMMA InOrderTick ==
  ASSUME TypeOK, OnTick, NEW c \in Conns, c = sock, Alive(c), InOrder(c)
  PROVE  InOrder(c)'
<1>1. up[c] \in Seq(Lines) /\ down[c] \in Seq(Orders) /\ thread[c] # "done"
      /\ UNCHANGED <<pendView, journal, task>>
  BY DEF TypeOK, OnTick, Alive, viewVars, orderVars
<1>2. PICK sent \in 0..1 :
        /\ SendLines(c, <<TickLine>>, sent)
        /\ down' = IF sent = 1 THEN down ELSE [down EXCEPT ![c] = << >>]
  BY DEF OnTick
<1> DEFINE line == <<TickLine>>
           part == SubSeq(line, 1, sent)
<1>3. line \in Seq(Lines) /\ Len(line) = 1 /\ line[1] = TickLine
  BY DEF TickLine, Lines
<1>4. up' = [up EXCEPT ![c] = @ \o part] /\ sock' \in {sock, None}
  BY <1>1, <1>2 DEF SendLines
<1> HIDE DEF line
<1>5. part \in Seq(Lines) /\ \A i \in 1..Len(part) : part[i] = TickLine
  BY <1>3
<1> HIDE DEF part
<1>6. up'[c] = up[c] \o part /\ down'[c] \in {down[c], << >>}
  BY <1>2, <1>4 DEF TypeOK
<1>7. TickLine.kind = "tick"
  BY DEF TickLine
<1>8. \A i \in 1..Len(part) :
        part[i].kind \notin {"position", "positions_end"} /\ ~IsReply(part[i])
  BY <1>5, <1>7 DEF IsReply
<1>9. SnapshotWhole(c)'
  BY <1>1, <1>4, <1>5, <1>6, <1>8, SnapshotAppend DEF InOrder
<1>10. SentOnce(c)' /\ AnsweredOnce(c)' /\ \A o : OnTheWay(c, o)' => OnTheWay(c, o)
  BY <1>1, <1>5, <1>6, <1>8, WayAppend DEF InOrder
<1>11. HasRow(c)'
  BY <1>1, <1>10, RowsKept DEF InOrder
<1>12. QED  BY <1>9, <1>10, <1>11 DEF InOrder

(* A timer call keeps the lines of its connection in order. *)
LEMMA InOrderTimer ==
  ASSUME TypeOK, OrderInv, OnTimer, NEW c \in Conns, c = sock, Alive(c), InOrder(c)
  PROVE  InOrder(c)'
<1>1. SnapshotWhole(c)'
  BY SnapshotTimer DEF InOrder
<1>2. SentOnce(c)' /\ AnsweredOnce(c)' /\ \A o : OnTheWay(c, o)' => OnTheWay(c, o)
  BY WayTimer DEF InOrder
<1>3. journal' = journal /\ task' = task
  BY DEF OnTimer, orderVars
<1>4. HasRow(c)'
  BY <1>2, <1>3, RowsKept DEF InOrder
<1>5. QED  BY <1>1, <1>2, <1>4 DEF InOrder

(* A line is read: an answer finds its row and is the last to its order. *)
LEMMA InOrderRead ==
  ASSUME TypeOK, OrderInv, NEW c \in Conns, HandleLine(c), InOrder(c)
  PROVE  InOrder(c)'
<1>1. /\ up[c] \in Seq(Lines) /\ up[c] # << >> /\ up'[c] = Tail(up[c])
      /\ down' = down /\ sock' = sock /\ task[c] = Idle
  BY DEF HandleLine, HandleQuietTick, HandleTick, HandlePosition, HandlePositionsEnd,
         HandleOrderReply, Reads, Reading, TypeOK, eaVars
<1> DEFINE head == Head(up[c])
<1>2. pendView' = IF head.kind = "position" THEN pendView \cup {head.order}
                  ELSE IF head.kind = "positions_end" THEN {} ELSE pendView
  BY DEF HandleLine, HandleQuietTick, HandleTick, HandlePosition, HandlePositionsEnd,
         HandleOrderReply, Reads, viewVars
<1>3. SnapshotWhole(c)'
  BY <1>1, <1>2, SnapshotRead DEF InOrder
<1>4. /\ SentOnce(c)' /\ AnsweredOnce(c)' /\ \A o : OnTheWay(c, o)' => OnTheWay(c, o)
      /\ IsReply(head) => \A i \in 1..Len(up'[c]) : IsReply(up'[c][i]) => up'[c][i].order # head.order
  BY <1>1, WayRead DEF InOrder
<1>5. task[c].at # "journal"
  BY <1>1, TaskFields
<1>6. CASE journal' = journal
  BY <1>3, <1>4, <1>5, <1>6, RowsKept DEF InOrder
<1>7. CASE HandleOrderReply(c)
  <2>1. IsReply(head) /\ head = up[c][1] /\ 1 \in 1..Len(up[c])
    BY <1>1, <1>7, TailAt DEF HandleOrderReply, Reads, IsReply
  <2>2. ASSUME NEW o, OnTheWay(c, o)' PROVE o # head.order
    <3>1. \A j \in 1..Len(down[c]) : down[c][j] # head.order
      BY <2>1, AnsweredIsHome
    <3>2. QED  BY <1>1, <1>4, <2>1, <2>2, <3>1 DEF OnTheWay
  <2>3. \A o \in Orders : o # head.order => journal'[o] = journal[o]
    BY <1>7 DEF HandleOrderReply, Settle, Write, TypeOK
  <2>4. HasRow(c)'
    <3> SUFFICES ASSUME ~JournalMayFail, NEW o \in Orders, OnTheWay(c, o)'
                 PROVE  journal'[o] = "submitted"
      BY DEF HasRow
    <3>1. o # head.order /\ OnTheWay(c, o)
      BY <1>4, <2>2
    <3>2. QED  BY <1>5, <2>3, <3>1, TaskFields DEF InOrder, HasRow
  <2>5. QED  BY <1>3, <1>4, <2>4 DEF InOrder
<1>8. QED
  BY <1>6, <1>7 DEF HandleLine, HandleQuietTick, HandleTick, HandlePosition, HandlePositionsEnd,
     orderVars

(* An order goes out: the one the thread has in hand, not on its way before. *)
LEMMA InOrderSend ==
  ASSUME TypeOK, OrderInv, NEW c \in Conns, SendOrder(c), InOrder(c), handler \in {c, None}
  PROVE  InOrder(c)'
<1> DEFINE o == task[c].order
<1>1. /\ task[c].at = "send" /\ task[c] # Idle
      /\ UNCHANGED <<up, journal, sock, pendView>>
  BY TaskFields DEF SendOrder, eaVars, viewVars
<1>2. o \in Orders /\ ~InFlight(o)
  BY <1>1, TaskOrder DEF OrderInv, SendingUntouched, Untouched
<1>3. up[c] \in Seq(Lines) /\ down[c] \in Seq(Orders)
  BY DEF TypeOK
<1>4. CASE down' = down
  <2>1. task[c].at # "journal"
    BY <1>1
  <2>2. QED  BY <1>1, <1>4, <2>1, InOrderKept
<1>5. CASE task' = [task EXCEPT ![c] = TaskAt("journal", o)]
           /\ down' = [down EXCEPT ![handler] = Append(@, o)] /\ handler # None
  <2>1. handler = c /\ task'[c] = TaskAt("journal", o) /\ down'[c] = Append(down[c], o)
    BY <1>5 DEF TypeOK
  <2> HIDE DEF o
  <2>2. /\ Len(down[c]) \in Nat /\ Len(down'[c]) = Len(down[c]) + 1
        /\ \A i \in 1..Len(down[c]) : down'[c][i] = down[c][i]
        /\ down'[c][Len(down[c]) + 1] = o
    BY <1>2, <1>3, <2>1
  <2>3. \A i \in 1..Len(down[c]) : down[c][i] # o
    <3>1. \A i \in 1..Len(down[c]) : down[c][i] \in Range(down[c])
      BY <1>3 DEF Range
    <3>2. QED  BY <1>2, <3>1 DEF InFlight
  <2>4. \A i \in 1..Len(down'[c]) : i \in 1..Len(down[c]) \/ i = Len(down[c]) + 1
    BY <2>2
  <2>5. SentOnce(c)'
    <3>1. ASSUME NEW i \in 1..Len(down'[c]), NEW j \in 1..Len(down'[c]), down'[c][i] = down'[c][j]
          PROVE  i = j
      <4>1. CASE i \in 1..Len(down[c]) /\ j \in 1..Len(down[c])
        BY <2>2, <3>1, <4>1 DEF InOrder, SentOnce
      <4>2. QED  BY <2>2, <2>3, <2>4, <3>1, <4>1
    <3>2. QED  BY <3>1 DEF SentOnce
  <2>6. SnapshotWhole(c)'
    BY <1>1, SnapshotKept DEF InOrder
  <2>7. AnsweredOnce(c)'
    BY <1>1 DEF InOrder, AnsweredOnce
  <2>8. HasRow(c)'
    <3> SUFFICES ASSUME ~JournalMayFail, NEW p \in Orders, OnTheWay(c, p)', p # o
                 PROVE  journal'[p] = "submitted"
      BY <2>1 DEF HasRow
    <3>1. OnTheWay(c, p)
      BY <1>1, <2>2, <2>4 DEF OnTheWay
    <3>2. task[c] # TaskAt("journal", p)
      BY <1>1, TaskFields
    <3>3. QED  BY <1>1, <3>1, <3>2 DEF InOrder, HasRow
  <2>9. QED  BY <2>5, <2>6, <2>7, <2>8 DEF InOrder
<1>6. QED  BY <1>4, <1>5 DEF SendOrder

(* Its row is written before the thread reads the next line. *)
LEMMA InOrderRecord ==
  ASSUME TypeOK, NEW c \in Conns, RecordSubmission(c), InOrder(c)
  PROVE  InOrder(c)'
<1> DEFINE o == task[c].order
<1>1. /\ task[c].at = "journal" /\ task[c] # Idle
      /\ UNCHANGED <<up, down, sock, pendView>>
      /\ Write(o, "submitted")
  BY TaskFields DEF RecordSubmission, eaVars, viewVars
<1>2. o \in Orders
  BY <1>1, TaskOrder
<1>3. SnapshotWhole(c)'
  BY <1>1, SnapshotKept DEF InOrder
<1>4. SentOnce(c)' /\ AnsweredOnce(c)' /\ \A p : OnTheWay(c, p)' => OnTheWay(c, p)
  <2>1. up[c] \in Seq(Lines) /\ down[c] \in Seq(Orders)
    BY DEF TypeOK
  <2>2. QED  BY <1>1, <2>1, WayKept DEF InOrder
<1>5. HasRow(c)'
  <2> SUFFICES ASSUME ~JournalMayFail, NEW p \in Orders, OnTheWay(c, p)'
               PROVE  journal'[p] = "submitted"
    BY DEF HasRow
  <2>1. journal' = [journal EXCEPT ![o] = "submitted"]
    BY <1>1 DEF Write
  <2>2. CASE p = o
    BY <1>2, <2>1, <2>2 DEF TypeOK
  <2>3. CASE p # o
    <3>1. task[c] # TaskAt("journal", p)
      BY <2>3, TaskFields
    <3>2. journal[p] = "submitted"
      BY <1>4, <3>1 DEF InOrder, HasRow
    <3>3. QED  BY <2>1, <2>3, <3>2 DEF TypeOK
  <2>4. QED  BY <2>2, <2>3
<1>6. QED  BY <1>3, <1>4, <1>5 DEF InOrder

(* The connection is made: nothing is on its way. *)
LEMMA InOrderConnect ==
  ASSUME TypeOK, NEW c \in Conns, ConnectBrain(c), up[c] = << >>, down[c] = << >>, pendView = {}
  PROVE  InOrder(c)'
<1>1. UNCHANGED <<up, down, pendView>>
  BY DEF ConnectBrain, viewVars
<1>2. 1..Len(up'[c]) = {} /\ 1..Len(down'[c]) = {}
  BY <1>1
<1>3. Listed(c)' = {}
  BY <1>2 DEF Listed
<1>4. SnapshotWhole(c)' /\ SentOnce(c)' /\ AnsweredOnce(c)' /\ HasRow(c)'
  BY <1>1, <1>2, <1>3 DEF SnapshotWhole, SentOnce, AnsweredOnce, HasRow, OnTheWay
<1>5. QED  BY <1>4 DEF InOrder

(* While there is one connection, every step acts on it and keeps the order. *)
LEMMA FirstStep ==
  ASSUME TypeOK, HandlerInv, OrderInv, ThreadInv, [Next]_vars, OneConnection',
         NEW c \in Conns, Alive(c)', Alive(c) => InOrder(c)
  PROVE  InOrder(c)'
<1>1. c = 1 /\ \A d \in Conns : d # c => thread'[d] = "none"
  BY DEF OneConnection, Alive
<1>2. \A d \in Conns : thread'[d] = "none" => thread[d] = "none"
  BY DEF Next, EaStep, BrainStep, InHandleTick, HandleLine, ConnectBrain, OnDeinit, OnTick, OnTimer,
         BrokerClose, OnConnect, OnDisconnect, SendOrder, RecordSubmission, AddPending,
         HandleQuietTick, HandleTick, HandlePosition, HandlePositionsEnd, HandleOrderReply,
         BrainRestart, threadVars, vars, TypeOK
<1>3. \A d \in Conns : thread[d] # "none" \/ thread'[d] # "none" => d = c
  BY <1>1, <1>2
<1>4. sock # None => sock = c
  BY <1>3 DEF ThreadInv, NotYet, TypeOK
<1>5. handler \in {c, None}
  BY <1>3 DEF HandlerInv, HandlerIsLatest, RegisteredRan, TypeOK
<1>6. ASSUME NEW d \in Conns, task[d] # Idle \/ Reading(d) PROVE d = c
  BY <1>3, <1>6 DEF ThreadInv, BusyRuns, Reading
<1>7. ASSUME thread'[c] = thread[c] PROVE Alive(c) /\ InOrder(c)
  BY <1>7 DEF Alive
<1> USE DEF eaVars, threadVars, viewVars, orderVars
<1>8. ASSUME UNCHANGED vars \/ \E o \in Orders : BrokerClose(o) PROVE InOrder(c)'
  <2>1. UNCHANGED <<thread, up, down, pendView, sock, journal, task>>
    BY <1>8 DEF vars, BrokerClose
  <2>2. QED  BY <1>7, <2>1, InOrderKept
<1>9. ASSUME NEW d \in Conns, ConnectBrain(d) PROVE InOrder(c)'
  <2>1. thread[d] = "none" /\ thread'[d] = "accepted"
    BY <1>9 DEF ConnectBrain, TypeOK
  <2>2. d = c
    BY <1>3, <2>1
  <2>3. \A e \in Conns : thread[e] = "none"
    BY <1>3, <2>1, <2>2
  <2>4. up[c] = << >> /\ down[c] = << >> /\ pendView = {}
    BY <2>3 DEF ThreadInv, NotYet, NothingHeld
  <2>5. QED  BY <1>9, <2>2, <2>4, InOrderConnect
<1>10. CASE OnDeinit
  <2>1. UNCHANGED <<thread, up, pendView, journal, task>> /\ sock' = None /\ sock = c
        /\ down'[c] = << >>
    BY <1>4, <1>10 DEF OnDeinit, TypeOK
  <2>2. QED  BY <1>7, <2>1, InOrderKept
<1>11. CASE OnTick
  BY <1>4, <1>7, <1>11, InOrderTick DEF OnTick
<1>12. CASE OnTimer
  BY <1>4, <1>7, <1>12, InOrderTimer DEF OnTimer
<1>13. ASSUME NEW d \in Conns, OnConnect(d) PROVE InOrder(c)'
  <2>1. thread[d] = "accepted" /\ UNCHANGED <<up, down, pendView, sock, journal, task>>
    BY <1>13 DEF OnConnect
  <2>2. d = c
    BY <1>3, <2>1
  <2>3. InOrder(c)
    BY <2>1, <2>2 DEF Alive
  <2>4. QED  BY <2>1, <2>3, InOrderKept
<1>14. ASSUME NEW d \in Conns, OnDisconnect(d) PROVE FALSE
  <2>1. d = c
    BY <1>6, <1>14 DEF OnDisconnect
  <2>2. thread'[c] = "done"
    BY <1>14, <2>1 DEF OnDisconnect, TypeOK
  <2>3. QED  BY <2>2 DEF Alive
<1>15. ASSUME NEW d \in Conns, HandleLine(d) PROVE InOrder(c)'
  <2>1. Reading(d) /\ thread' = thread
    BY <1>15 DEF HandleLine, HandleQuietTick, HandleTick, HandlePosition, HandlePositionsEnd,
                 HandleOrderReply, Reads
  <2>2. d = c
    BY <1>6, <2>1
  <2>3. QED  BY <1>7, <1>15, <2>1, <2>2, InOrderRead
<1>16. ASSUME NEW d \in Conns, InHandleTick(d) PROVE InOrder(c)'
  <2>1. task[d] # Idle /\ thread' = thread
    BY <1>16, TaskFields DEF InHandleTick, SendOrder, RecordSubmission, AddPending
  <2>2. d = c
    BY <1>6, <2>1
  <2>3. CASE AddPending(c)
    <3>1. task[c].at # "journal" /\ UNCHANGED <<up, down, pendView, sock, journal>>
      BY <2>3 DEF AddPending
    <3>2. QED  BY <1>7, <2>1, <3>1, InOrderKept
  <2>4. CASE SendOrder(c)
    BY <1>5, <1>7, <2>1, <2>4, InOrderSend
  <2>5. CASE RecordSubmission(c)
    BY <1>7, <2>1, <2>5, InOrderRecord
  <2>6. QED  BY <1>16, <2>2, <2>3, <2>4, <2>5 DEF InHandleTick
<1>17. CASE BrainRestart
  BY <1>17 DEF BrainRestart, Alive
<1>18. QED
  BY <1>8, <1>9, <1>10, <1>11, <1>12, <1>13, <1>14, <1>15, <1>16, <1>17
     DEF Next, EaStep, BrainStep

(* On the only connection so far the lines stay in order, in every state. *)
LEMMA FirstInvariance == Spec => []FirstInv
<1>1. Init => FirstInv
  <2> SUFFICES ASSUME Init PROVE FirstInv
    OBVIOUS
  <2>1. ThreadInv
    BY DEF Init, ThreadInv, BusyRuns, NotYet, NothingHeld, Conns, None
  <2>2. \A c \in Conns : ~Alive(c)
    BY DEF Init, Alive
  <2>3. QED  BY <2>1, <2>2 DEF FirstInv
<1>2. TypeOK /\ RegisteredRan /\ HandlerIsLatest /\ OrderInv /\ FirstInv /\ [Next]_vars => FirstInv'
  <2> SUFFICES ASSUME TypeOK, RegisteredRan, HandlerIsLatest, OrderInv, FirstInv, [Next]_vars
               PROVE  FirstInv'
    OBVIOUS
  <2>1. HandlerInv /\ ThreadInv
    BY DEF HandlerInv, FirstInv
  <2>2. ThreadInv'
    BY <2>1, ThreadStep
  <2>3. OneConnection' => OneConnection
    BY DEF OneConnection, Next, EaStep, BrainStep, InHandleTick, HandleLine, ConnectBrain, OnDeinit,
         OnTick, OnTimer, BrokerClose, OnConnect, OnDisconnect, SendOrder, RecordSubmission,
         AddPending, HandleQuietTick, HandleTick, HandlePosition, HandlePositionsEnd,
         HandleOrderReply, BrainRestart, threadVars, vars, TypeOK
  <2>4. ASSUME OneConnection', NEW c \in Conns, Alive(c)' PROVE InOrder(c)'
    <3>1. Alive(c) => InOrder(c)
      BY <2>3, <2>4 DEF FirstInv
    <3>2. QED  BY <2>1, <2>4, <3>1, FirstStep
  <2>5. QED  BY <2>2, <2>4 DEF FirstInv
<1>3. QED  BY <1>1, <1>2, HandlerInvariance, TypeCorrect, OrderInvariance, PTL DEF Spec

(* Until the EA has made a second connection, what the brain swaps in is the
   last snapshot as the EA listed it, whole and without anything older, and no
   more than the EA counted (trading_service.py:103-121, bridge_ea.mq5:224-249).
   What the EA skipped it cannot hold. *)
THEOREM FirstSnapshotsAsListed == Spec => [](OneConnection => SnapshotAsListed)
<1>1. TypeOK /\ FirstInv => (OneConnection => SnapshotAsListed)
  <2> SUFFICES ASSUME TypeOK, FirstInv, OneConnection, NEW c \in Conns, EndsSnapshot(c)
               PROVE  pendView = Head(up[c]).listed /\ Cardinality(pendView) <= Head(up[c]).count
    BY DEF SnapshotAsListed
  <2> USE DEF EndsSnapshot
  <2>1. SnapshotWhole(c)
    BY DEF FirstInv, Alive, Reading, InOrder
  <2>2. up[c] \in Seq(Lines)
    BY DEF TypeOK
  <2>3. /\ Len(up[c]) \in Nat /\ 1 \in 1..Len(up[c]) /\ Head(up[c]) = up[c][1] /\ EndAt(c, 1)
    BY <2>2, TailAt DEF EndAt
  <2>4. /\ pendView \cup Listed(c) = up[c][1].listed
        /\ Cardinality(up[c][1].listed) <= up[c][1].count
        /\ \A j \in 1 + 1..Len(up[c]) : up[c][j].kind \notin {"position", "positions_end"}
    BY <2>1, <2>3 DEF SnapshotWhole
  <2>5. ASSUME NEW i \in 1..Len(up[c]) PROVE up[c][i].kind # "position"
    <3>1. i = 1 \/ i \in 1 + 1..Len(up[c])
      BY <2>3
    <3>2. QED  BY <2>3, <2>4, <3>1 DEF EndAt
  <2>6. Listed(c) = {}
    <3>1. \A o : PositionLine(o).kind = "position"
      BY DEF PositionLine
    <3>2. QED  BY <2>5, <3>1 DEF Listed
  <2>7. pendView \cup Listed(c) = pendView
    BY <2>6
  <2>8. QED  BY <2>3, <2>4, <2>7
<1>2. QED  BY <1>1, TypeCorrect, FirstInvariance, PTL

(* Until then an answer finds the row it settles: the thread that sent the
   order writes the row before it reads the next line
   (trading_service.py:142-170, journal.py). *)
THEOREM FirstRepliesFindRows == Spec => [](OneConnection => ReplyFindsRow)
<1>1. TypeOK /\ FirstInv => (OneConnection => ReplyFindsRow)
  <2> SUFFICES ASSUME TypeOK, FirstInv, OneConnection, ~JournalMayFail, NEW c \in Conns,
                      Reading(c), up[c] # << >>, Head(up[c]).kind \in {"ok", "err"}
               PROVE  journal[Head(up[c]).order] = "submitted"
    BY DEF ReplyFindsRow
  <2>1. HasRow(c)
    BY DEF FirstInv, Alive, Reading, InOrder
  <2>2. up[c] \in Seq(Lines)
    BY DEF TypeOK
  <2>3. /\ 1 \in 1..Len(up[c]) /\ Head(up[c]) = up[c][1] /\ IsReply(Head(up[c]))
        /\ Head(up[c]) \in Lines
    BY <2>2, TailAt DEF IsReply
  <2>4. Head(up[c]).order \in Orders
    BY <2>3 DEF Lines, IsReply
  <2>5. OnTheWay(c, Head(up[c]).order)
    BY <2>3 DEF OnTheWay
  <2>6. task[c].at # "journal"
    BY TaskFields DEF Reading
  <2>7. QED  BY <2>1, <2>4, <2>5, <2>6, TaskFields DEF HasRow
<1>2. QED  BY <1>1, TypeCorrect, FirstInvariance, PTL
=============================================================================
