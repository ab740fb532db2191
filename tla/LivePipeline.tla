---------------------------- MODULE LivePipeline ----------------------------
(***************************************************************************)
(* One order's way through the live system: the expert advisor            *)
(* (ea/bridge_ea.mq5), the TCP link, one server thread per connection      *)
(* (bridge/tcp_server.py), TradingService (brain/trading_service.py), the  *)
(* journal (persistence/journal.py) and back.                              *)
(*                                                                         *)
(* The EA is single-threaded: OnTick and OnTimer are atomic.  The brain    *)
(* runs the handlers of different connections in different threads, so     *)
(* _handle_tick is split where another thread may run in between.  Lines   *)
(* are atomic and in order within a connection, each with its newline.  A  *)
(* connection is lost by the EA (a send that returns 0, or OnDeinit) or by *)
(* the end of the brain's process.                                         *)
(*                                                                         *)
(* Of the risk gate this module keeps the limit on open positions, which   *)
(* reads the EA's snapshot; every other reason to reject, and a strategy   *)
(* that stays silent, is a tick without an intent.                         *)
(***************************************************************************)
EXTENDS Integers, Sequences, FiniteSets, Functions

CONSTANTS
  Orders,          \* client order ids; a position carries its order's id
  NoOrder,         \* a thread with no order in hand
  MaxConn,         \* bound: connections the EA opens
  MaxCrashes,      \* bound: restarts of the brain
  MaxTicks,        \* bound: ticks waiting in one connection
  MaxOpen,         \* max_open_positions
  AllowExecution,  \* EA input: FALSE is a dry run
  JournalMayFail,  \* TRUE when the database may refuse a write
  PositionsDue,    \* the outcomes of "is a snapshot due?": FALSE, or either
  MaySkip          \* TRUE when the EA may fail to select a position it counted

ASSUME OrdersAssumption == IsFiniteSet(Orders) /\ NoOrder \notin Orders
ASSUME BoundsAssumption ==
  MaxConn \in Nat /\ MaxCrashes \in Nat /\ MaxTicks \in Nat /\ MaxOpen \in Nat
ASSUME SwitchAssumption ==
  AllowExecution \in BOOLEAN /\ JournalMayFail \in BOOLEAN /\ MaySkip \in BOOLEAN
ASSUME DueAssumption == PositionsDue \in {{FALSE}, BOOLEAN}

Conns == 1..MaxConn
None == 0

VARIABLES
  (* the EA and the broker *)
  sock,       \* g_sock: the open connection, or None
  book,       \* the positions open at the broker
  fills,      \* history: order |-> how often it was executed
  (* the link: conn |-> lines in flight *)
  up,         \* EA to brain
  down,       \* brain to EA, the orders alone
  (* the brain: server threads and TradingService *)
  thread,     \* conn |-> none, accepted, running, done
  task,       \* conn |-> the order its thread is taking through _handle_tick
  handler,    \* _handler
  view,       \* _positions
  pendView,   \* _pending_positions
  pending,    \* _pending_orders
  emitted,    \* the orders the gate approved (ids are never reused)
  (* the database, which survives the brain *)
  journal,    \* order |-> status of its row
  (* history *)
  registered, \* the connection whose on_connect ran last
  crashes

eaVars == <<sock, book, fills>>
threadVars == <<thread, handler, registered>>
viewVars == <<view, pendView>>
orderVars == <<pending, emitted, journal>>
vars == <<sock, book, fills, up, down, thread, task, handler, view, pendView,
          pending, emitted, journal, registered, crashes>>

-----------------------------------------------------------------------------
TickLine == [kind |-> "tick"]
Reply(kind, o) == [kind |-> kind, order |-> o]
PositionLine(o) == [kind |-> "position", order |-> o]

(* The sentinel carries the count alone; `listed` is history: the positions
   sent before it. *)
EndLine(total, listed) == [kind |-> "positions_end", count |-> total, listed |-> listed]

Lines ==
  [kind : {"tick"}]
    \cup [kind : {"position", "ok", "err"}, order : Orders]
    \cup [kind : {"positions_end"}, count : Nat, listed : SUBSET Orders]

Idle == [at |-> "idle", order |-> NoOrder]
TaskAt(step, o) == [at |-> step, order |-> o]

Pending(c, kind) == Cardinality({i \in 1..Len(up[c]) : up[c][i].kind = kind})

Init ==
  /\ sock = None
  /\ book = {}
  /\ fills = [o \in Orders |-> 0]
  /\ up = [c \in Conns |-> << >>]
  /\ down = [c \in Conns |-> << >>]
  /\ thread = [c \in Conns |-> "none"]
  /\ task = [c \in Conns |-> Idle]
  /\ handler = None
  /\ view = {}
  /\ pendView = {}
  /\ pending = {}
  /\ emitted = {}
  /\ journal = [o \in Orders |-> "none"]
  /\ registered = None
  /\ crashes = 0

-----------------------------------------------------------------------------
(* The EA. *)

(* SendLine, once per line: the first `sent` lines reach the brain if its
   thread still reads, the next send fails and closes the socket.  A line
   sent to a process that is gone is lost without an error. *)
SendLines(c, lines, sent) ==
  /\ up' = IF thread[c] = "done" THEN up
           ELSE [up EXCEPT ![c] = @ \o SubSeq(lines, 1, sent)]
  /\ sock' = IF sent = Len(lines) THEN sock ELSE None

(* ConnectBrain from OnInit or OnTimer; the server accepts the connection
   and creates a thread that has not run yet. *)
ConnectBrain(c) ==
  /\ sock = None
  /\ thread[c] = "none"
  /\ \A d \in 1..(c - 1) : thread[d] # "none"
  /\ sock' = c
  /\ thread' = [thread EXCEPT ![c] = "accepted"]
  /\ UNCHANGED <<book, fills, up, down, task, handler, registered, crashes>>
  /\ UNCHANGED viewVars /\ UNCHANGED orderVars

(* OnDeinit: what the EA has not read from the socket is gone. *)
OnDeinit ==
  /\ sock # None
  /\ sock' = None
  /\ down' = [down EXCEPT ![sock] = << >>]
  /\ UNCHANGED <<book, fills, up, task, crashes>>
  /\ UNCHANGED threadVars /\ UNCHANGED viewVars /\ UNCHANGED orderVars

OnTick ==
  /\ sock # None
  /\ Pending(sock, "tick") < MaxTicks
  /\ \E sent \in 0..1 :
       /\ SendLines(sock, <<TickLine>>, sent)
       /\ down' = IF sent = 1 THEN down ELSE [down EXCEPT ![sock] = << >>]
  /\ UNCHANGED <<book, fills, task, crashes>>
  /\ UNCHANGED threadVars /\ UNCHANGED viewVars /\ UNCHANGED orderVars

(* The positions in some order; those whose ticket is 0 or whose selection
   fails are skipped. *)
Listings(positions) ==
  UNION {{s \in [1..Cardinality(listed) -> listed] : Range(s) = listed} :
           listed \in IF MaySkip THEN SUBSET positions ELSE {positions}}

(* PushPositions: the count was taken before any position was looked at. *)
Snapshot(listing, total) ==
  [i \in 1..Len(listing) |-> PositionLine(listing[i])] \o <<EndLine(total, Range(listing))>>

Replies_AlwaysOk(orders, executed) ==
  [i \in 1..Len(orders) |-> Reply("ok", orders[i])]

(* ExecuteOrder for every order read, given the orders g_trade.Buy or Sell
   returns true for: in a dry run nothing is executed and every answer is "ok". *)
Replies(orders, executed) ==
  [i \in 1..Len(orders) |->
     Reply(IF ~AllowExecution \/ orders[i] \in executed THEN "ok" ELSE "err", orders[i])]

(* The orders the EA may hand to the broker. *)
Executable(c) == IF AllowExecution THEN Range(down[c]) ELSE {}

(* OnTimer while connected: DrainSocket reads and executes every line, also
   those whose reply can no longer be sent; then the positions are pushed if
   they are due.  Dueness is left open, one push is in flight at a time. *)
OnTimer ==
  /\ sock # None
  /\ \E executed \in SUBSET Executable(sock), push \in PositionsDue :
       /\ book' = book \cup executed
       /\ fills' = [o \in Orders |-> fills[o] + (IF o \in executed THEN 1 ELSE 0)]
       /\ push => Pending(sock, "positions_end") = 0 /\ Pending(sock, "position") = 0
       /\ \E listing \in Listings(book') :
            LET pushed == IF push THEN Snapshot(listing, Cardinality(book')) ELSE << >>
                lines == Replies(down[sock], executed) \o pushed
            IN  \E sent \in 0..Len(lines) : SendLines(sock, lines, sent)
  /\ down' = [down EXCEPT ![sock] = << >>]
  /\ UNCHANGED <<task, crashes>>
  /\ UNCHANGED threadVars /\ UNCHANGED viewVars /\ UNCHANGED orderVars

(* Stop loss, take profit, the watchdog or a hand closes a position. *)
BrokerClose(o) ==
  /\ o \in book
  /\ book' = book \ {o}
  /\ UNCHANGED <<sock, fills, up, down, task, crashes>>
  /\ UNCHANGED threadVars /\ UNCHANGED viewVars /\ UNCHANGED orderVars

-----------------------------------------------------------------------------
(* The brain's server threads. *)

OnConnect(c) ==
  /\ thread[c] = "accepted"
  /\ thread' = [thread EXCEPT ![c] = "running"]
  /\ handler' = c
  /\ registered' = c
  /\ UNCHANGED <<up, down, task, crashes>>
  /\ UNCHANGED eaVars /\ UNCHANGED viewVars /\ UNCHANGED orderVars

HandlerWithout_Unguarded(c) == None

(* on_disconnect clears _handler only if it is still this connection's. *)
HandlerWithout(c) == IF handler = c THEN None ELSE handler

Reading(c) == thread[c] = "running" /\ task[c] = Idle

(* readline meets the end of the stream, or a reset that discards the lines
   not read yet. *)
OnDisconnect(c) ==
  /\ Reading(c)
  /\ sock # c
  /\ thread' = [thread EXCEPT ![c] = "done"]
  /\ handler' = HandlerWithout(c)
  /\ up' = [up EXCEPT ![c] = << >>]
  /\ UNCHANGED <<down, task, registered, crashes>>
  /\ UNCHANGED eaVars /\ UNCHANGED viewVars /\ UNCHANGED orderVars

(* The thread of c reads a line of this kind. *)
Reads(c, kinds) ==
  /\ Reading(c)
  /\ up[c] # << >>
  /\ Head(up[c]).kind \in kinds
  /\ up' = [up EXCEPT ![c] = Tail(@)]

(* _handle_tick, nothing to send. *)
HandleQuietTick(c) ==
  /\ Reads(c, {"tick"})
  /\ UNCHANGED <<down, task, crashes>>
  /\ UNCHANGED eaVars /\ UNCHANGED threadVars /\ UNCHANGED viewVars /\ UNCHANGED orderVars

RoomForPosition == Cardinality(view) < MaxOpen

FreshOrder_Unchecked(o) == TRUE

(* Ids are made of symbol, tick time and a counter, and the gate remembers
   the ids it approved. *)
FreshOrder(o) == o \notin emitted

(* _handle_tick, the strategy emits an intent and the gate approves it.
   One step, though unlocked: meanwhile another thread may replace the view or
   approve an id of its own, and ids differ. *)
HandleTick(c, o) ==
  /\ Reads(c, {"tick"})
  /\ FreshOrder(o)
  /\ RoomForPosition
  /\ emitted' = emitted \cup {o}
  /\ task' = [task EXCEPT ![c] = TaskAt("send", o)]
  /\ UNCHANGED <<down, pending, journal, crashes>>
  /\ UNCHANGED eaVars /\ UNCHANGED threadVars /\ UNCHANGED viewVars

(* _send_order: without a handler the order is dropped.  send_line swallows
   the error of a dead connection, so the order counts as sent. *)
SendOrder(c) ==
  /\ task[c].at = "send"
  /\ LET o == task[c].order IN
       \/ /\ handler = None
          /\ task' = [task EXCEPT ![c] = Idle]
          /\ UNCHANGED down
       \/ /\ handler # None
          /\ task' = [task EXCEPT ![c] = TaskAt("journal", o)]
          /\ IF sock = handler
             THEN down' = [down EXCEPT ![handler] = Append(@, o)]
             ELSE UNCHANGED down
  /\ UNCHANGED <<up, pending, emitted, journal, crashes>>
  /\ UNCHANGED eaVars /\ UNCHANGED threadVars /\ UNCHANGED viewVars

(* An UPDATE or INSERT of one row: commits, or raises and is logged. *)
Write(o, status) ==
  \/ journal' = [journal EXCEPT ![o] = status]
  \/ JournalMayFail /\ UNCHANGED journal

(* record_submission: the INSERT, after the send.  That it may also fail on an id
   the table has is one of the failures of Write. *)
RecordSubmission(c) ==
  /\ task[c].at = "journal"
  /\ Write(task[c].order, "submitted")
  /\ task' = [task EXCEPT ![c] = TaskAt("pend", task[c].order)]
  /\ UNCHANGED <<up, down, pending, emitted, crashes>>
  /\ UNCHANGED eaVars /\ UNCHANGED threadVars /\ UNCHANGED viewVars

AddPending(c) ==
  /\ task[c].at = "pend"
  /\ pending' = pending \cup {task[c].order}
  /\ task' = [task EXCEPT ![c] = Idle]
  /\ UNCHANGED <<up, down, emitted, journal, crashes>>
  /\ UNCHANGED eaVars /\ UNCHANGED threadVars /\ UNCHANGED viewVars

HandlePosition(c) ==
  /\ Reads(c, {"position"})
  /\ pendView' = pendView \cup {Head(up[c]).order}
  /\ UNCHANGED <<down, task, view, crashes>>
  /\ UNCHANGED eaVars /\ UNCHANGED threadVars /\ UNCHANGED orderVars

HandlePositionsEnd_KeepsPending(c) ==
  /\ Reads(c, {"positions_end"})
  /\ view' = pendView
  /\ UNCHANGED <<pendView, down, task, crashes>>
  /\ UNCHANGED eaVars /\ UNCHANGED threadVars /\ UNCHANGED orderVars

(* The swap; the count the line carries is not looked at. *)
HandlePositionsEnd(c) ==
  /\ Reads(c, {"positions_end"})
  /\ view' = pendView
  /\ pendView' = {}
  /\ UNCHANGED <<down, task, crashes>>
  /\ UNCHANGED eaVars /\ UNCHANGED threadVars /\ UNCHANGED orderVars

Settle_Upsert(o, status) == Write(o, status)

Settle_FillsOnly(o, status) ==
  IF status = "filled" THEN Write(o, status) ELSE UNCHANGED journal

(* record_fill and record_reject: an UPDATE, without effect on a row that
   does not exist. *)
Settle(o, status) ==
  IF journal[o] = "none" THEN UNCHANGED journal ELSE Write(o, status)

HandleOrderReply(c) ==
  /\ Reads(c, {"ok", "err"})
  /\ LET line == Head(up[c]) IN
       /\ pending' = pending \ {line.order}
       /\ Settle(line.order, IF line.kind = "ok" THEN "filled" ELSE "rejected")
  /\ UNCHANGED <<down, task, emitted, crashes>>
  /\ UNCHANGED eaVars /\ UNCHANGED threadVars /\ UNCHANGED viewVars

(* The brain's process ends and is started again: everything but the journal
   starts afresh.  What it had sent may still be read by the EA. *)
BrainRestart ==
  /\ crashes < MaxCrashes
  /\ crashes' = crashes + 1
  /\ thread' = [c \in Conns |-> IF thread[c] = "none" THEN "none" ELSE "done"]
  /\ up' = [c \in Conns |-> << >>]
  /\ task' = [c \in Conns |-> Idle]
  /\ handler' = None
  /\ view' = {}
  /\ pendView' = {}
  /\ pending' = {}
  /\ UNCHANGED <<down, emitted, journal, registered>>
  /\ UNCHANGED eaVars

-----------------------------------------------------------------------------
EaStep == (\E c \in Conns : ConnectBrain(c)) \/ OnDeinit \/ OnTick \/ OnTimer

InHandleTick(c) == SendOrder(c) \/ RecordSubmission(c) \/ AddPending(c)

HandleLine(c) ==
  \/ HandleQuietTick(c)
  \/ \E o \in Orders : HandleTick(c, o)
  \/ HandlePosition(c)
  \/ HandlePositionsEnd(c)
  \/ HandleOrderReply(c)

BrainStep(c) == OnConnect(c) \/ OnDisconnect(c) \/ InHandleTick(c) \/ HandleLine(c)

Next ==
  \/ EaStep
  \/ \E o \in Orders : BrokerClose(o)
  \/ \E c \in Conns : BrainStep(c)
  \/ BrainRestart

Spec == Init /\ [][Next]_vars

(* OnTimer fires every second, and a thread of a live process keeps running
   its handler; nothing makes ticks, disconnects or the broker happen. *)
FairSpec ==
  /\ Spec
  /\ WF_vars(OnTimer)
  /\ \A c \in Conns : WF_vars(InHandleTick(c)) /\ WF_vars(HandleLine(c))

-----------------------------------------------------------------------------
(* Every variable has its type; a thread has an order in hand exactly while it
   is inside _handle_tick, and only orders the gate approved are pending. *)
TypeOK ==
  /\ sock \in Conns \cup {None}
  /\ book \subseteq Orders
  /\ fills \in [Orders -> Nat]
  /\ up \in [Conns -> Seq(Lines)]
  /\ down \in [Conns -> Seq(Orders)]
  /\ thread \in [Conns -> {"none", "accepted", "running", "done"}]
  /\ task \in [Conns -> {Idle} \cup [at : {"send", "journal", "pend"}, order : emitted]]
  /\ handler \in Conns \cup {None}
  /\ view \subseteq Orders
  /\ pendView \subseteq Orders
  /\ emitted \subseteq Orders
  /\ pending \subseteq emitted
  /\ journal \in [Orders -> {"none", "submitted", "filled", "rejected"}]
  /\ registered \in Conns \cup {None}
  /\ crashes \in 0..MaxCrashes

(* No order is executed twice, over reconnects, restarts of the brain and lost
   replies. *)
ExecutedOnce == \A o \in Orders : fills[o] <= 1

(* The journal tells the truth about the broker: a row that says filled is an
   order that was executed, one that says rejected is an order that was not. *)
JournalTruth ==
  AllowExecution =>
    \A o \in Orders :
      /\ journal[o] = "filled" => fills[o] = 1
      /\ journal[o] = "rejected" => fills[o] = 0

(* The late end of an old connection's thread never takes away the connection
   that registered after it: _handler is the one registered last, or nothing
   and then that one has ended. *)
HandlerIsLatest ==
  /\ handler \in {registered, None}
  /\ handler = None /\ registered # None => thread[registered] = "done"

(* The journal, the broker and the gate together keep the promise of
   OrderLedger. *)
Ledger == INSTANCE OrderLedger WITH
  approved <- emitted,
  traded <- {o \in Orders : fills[o] > 0},
  ledger <- journal

LedgerSpec == Ledger!Spec

EndsSnapshot(c) == Reading(c) /\ up[c] # << >> /\ Head(up[c]).kind = "positions_end"

(* Nothing of another snapshot is taken over and nothing of this one missed:
   when the brain reads positions_end it holds exactly the positions the EA
   listed before it, which may be fewer than it counted, never more
   (bridge_ea.mq5:224-249, trading_service.py:103-121). *)
SnapshotAsListed ==
  \A c \in Conns :
    EndsSnapshot(c) => /\ pendView = Head(up[c]).listed
                       /\ Cardinality(pendView) <= Head(up[c]).count

(* The sentinel ends a complete snapshot (bridge_ea.mq5:245): when the brain
   reads positions_end it holds as many positions as the EA counted. *)
SnapshotComplete ==
  \A c \in Conns : EndsSnapshot(c) => Cardinality(pendView) = Head(up[c]).count

(* An answer finds its row: when the brain reads the EA's reply to an order,
   the order is journaled as submitted, so that the UPDATE has an effect. *)
ReplyFindsRow ==
  ~JournalMayFail =>
    \A c \in Conns :
      Reading(c) /\ up[c] # << >> /\ Head(up[c]).kind \in {"ok", "err"}
        => journal[Head(up[c]).order] = "submitted"

(* A submitted order is settled, unless the connection is lost. *)
SubmittedSettles ==
  \A o \in Orders :
    journal[o] = "submitted" ~> journal[o] \in {"filled", "rejected"} \/ sock = None

=============================================================================
