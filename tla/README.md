# A verification project for mt5_test_bot

TLA+ models of the trading stack in `src/`: what its parts keep in memory, what
each handler does to it, how the parts interleave, fail and restart. TLC checks
the models on small instances; TLAPS proves the most important properties for
every value of the constants. All paths below are relative to `src/`.

## 1. The system

Two languages and four processes' worth of code:

| component | code | state it keeps | operations |
|---|---|---|---|
| Risk gate | `brain/risk_manager.py`, `brain/types.py` | kill switch, news events, ids approved, time of the last approval | `check`, `arm`, `disarm`, `add_event` |
| Trading service | `brain/trading_service.py` | current handler, account, positions, half-received positions, pending orders | `on_connect`, `on_disconnect`, `on_message` |
| Bridge TCP server | `bridge/tcp_server.py` | one thread and one socket per connection | accept, `handle`, `send_line` |
| Bridge EA | `ea/bridge_ea.mq5` | socket, receive buffer, times of the last line, attempt and pushes, balance at the start of the day | `OnInit`, `OnDeinit`, `OnTick`, `OnTimer` |
| Trade journal | `persistence/journal.py` | rows of `orders` | INSERT at submission, UPDATE at fill or rejection |
| Paper service | `brain/service.py`, `brain/order_dispatcher.py` | last heartbeat, last ticks | loop over ZeroMQ, heartbeat panic |
| Gateway, transport | `bridge/mt5_gateway.py`, `bridge/transport.py` | last tick time per symbol | poll, publish, sign, verify |
| Tick recorder | `persistence/tick_recorder.py` | buffer, current day | `record`, `flush` |
| Strategy | `brain/strategies/ema_cross.py` | EMAs, window of mids, last side | `on_tick` |
| Replay | `replay/harness.py`, `replay/simulator.py` | open positions, equity, trades | `run` |
| Optimisation | `replay/walk_forward.py`, `replay/grid_search.py` | none | windows, search |
| Ingest | `ingest/dukascopy_csv.py` | none | parse, iterate |
| SMC EA | `ea/SMC_Pure_EA.mq5` | the day's trades and balance, losses in a row, cooldown, the setup, mode | `OnInit`, `OnTick`, `OnTradeTransaction`, `OnChartEvent` |

The live system is the first five: the EA connects to the brain as a TCP client,
sends a line for every tick, and every few seconds a heartbeat, the account and
a snapshot of positions that ends with a sentinel. The brain runs one thread per
connection; a tick goes through the strategy and the risk gate, an approved order
is sent to the EA, then journaled; the EA executes it at its next timer call and
answers; the answer updates the row. A watchdog in the EA's timer closes
everything when the brain has been silent.

Beside it stand the paper service, which trades on the ticks a gateway publishes
over ZeroMQ and arms the kill switch when the gateway's heartbeat is overdue; the
offline pipeline, in which ticks are recorded or ingested from a CSV, read back,
and walked forward over; and the SMC EA, which shares nothing with the rest but
the account.

What is hard here, and what no unit test of the repository reaches:

- **two connections at once.** A reconnecting EA has a new thread in the brain
  while the old one still runs; both use one `TradingService`;
- **three steps that are not one**: send, INSERT, note as pending;
- **lost lines**: replies, half a snapshot, orders written to a dead socket;
- **restarts of either side**, after which only the journal and the broker remember;
- **time**: rate limit, silence, reconnecting, all compared by different clocks;
- **stale state**: the gate decides on the last snapshot of positions;
- **bounded memory**: the set of approved ids is trimmed, the publisher drops;
- **files**: a flush rewrites the whole day, and may break off in it.

`PROJECT.json` lists each at its line under "hazards", with the property for it.

What makes each component correct: the *gate* spaces approvals, approves an id
once, and stops after a breach; the *service and server* keep the newest
connection and complete snapshots; the *journal* never contradicts the broker and
settles what can be settled; the *EA* executes an order once, comes back to a
living brain, never mistakes a talking brain for a silent one, and closes what a
hung brain leaves; the *losses* of a day stop its orders, across restarts; the
*replay* keeps exits, exposure and equity consistent; the *paper service* arms the
switch for a silent gateway and for no other; the *strategy* signals where its
averages cross, under ids that never recur; the *recorder* and the *ingest* keep
each tick once; the *windows* tile the data and never look ahead, the *search*
returns the best; the *SMC EA* keeps its cooldown and enters on no stale setup.

## 2. Modules

    RiskGate ──EXTENDS── RiskManager ── MCRiskManager, RiskManager_proofs
    OrderLedger ──INSTANCE── LivePipeline ── MCLivePipeline, LivePipeline_proofs
    EaWatchdog ── MCEaWatchdog
    RiskManager ──INSTANCE── ReplayHarness ── MCReplayHarness, ReplayHarness_proofs
    RiskGate ──EXTENDS── LossLimits ── MCLossLimits, LossLimits_proofs
    BrainService ── MCBrainService, BrainService_proofs
    EmaCross ── MCEmaCross, EmaCross_proofs
    TickBags ──EXTENDS── TickRecorder, DukascopyCsv
    TickRecorder, DukascopyCsv, WalkForward ──EXTENDS── Backtest ── MCBacktest, Backtest_proofs
    SmcPureEa ── MCSmcPureEa
    EaWatchdog, SmcPureEa ──EXTENDS── ExpertAdvisors_proofs

**RiskGate** holds the checks of `RiskManager.check` that depend on the arguments
alone, one operator each, on integers (hundredths of a lot, points, thousandths
for ratios, minutes for the blackout). `WithinLimits` is their conjunction; the
order of the checks does not matter where only the reason differs.

**RiskManager** adds what the manager remembers: `armed`, `reason` (`KillSwitch`),
`news`, `recentIds`, `lastOrder` and the wall clock. `check` is `CheckBreach` (the
daily loss arms the switch), `CheckApprove`, or a stuttering step for every other
rejection. `Remember` trims the ids as line 201 does: a Python set of strings has
no order, so any half may survive. `log`, `breached` and `trimmed` are history.
The wall clock is not set back.

**OrderLedger** is the abstract specification: what the journal promises about the
broker. Only approved orders trade, each at most once; a row goes from nothing to
submitted to filled (only if traded) or rejected (only if not traded, and then it
never is).

**LivePipeline** is the live system around one order: EA and broker (`sock`,
`book`, `fills`), the lines in flight per connection (`up`, `down`), the server
threads (`thread`, `task`), `TradingService` (`handler`, `view` = `_positions`,
`pendView` = `_pending_positions`, `pending` = `_pending_orders`) and the journal.

| action | code |
|---|---|
| `ConnectBrain`, `OnDeinit`, `OnTick`, `OnTimer` | the EA's handlers; single-threaded, hence atomic. `OnTimer` reads and executes every order, answers, and pushes positions when due; the connection may fail at any of its sends |
| `OnConnect`, `OnDisconnect` | the callbacks of a connection's thread; a disconnect may lose unread lines |
| `HandleQuietTick`, `HandleTick` | `_handle_tick` up to the gate's verdict |
| `SendOrder`, `RecordSubmission`, `AddPending` | the rest of `_handle_tick`, split where another thread can run |
| `HandlePosition`, `HandlePositionsEnd`, `HandleOrderReply` | the other messages |
| `BrokerClose` | stop, target, a hand |
| `BrainRestart` | the process ends anywhere and starts again; the journal stays |

Abstracted: a line is delivered whole and with its newline; prices, lots and
tickets are dropped, a position carries its order's id; of the gate remain the
limit on positions and the uniqueness of ids (an id is made of the symbol, the
tick's time and a counter, and is taken never to recur after a restart). An order
the brain had written before it stopped may still be read by the EA. `HandleTick`
is one step up to the gate's verdict, though two threads run that part without a
lock: meanwhile another thread may replace the view or approve an order of its own,
which is harmless to what is checked only as long as ids differ. An order counts as
executed when `g_trade.Buy` or `Sell` returns true; that the broker timed out or
merely placed it is not told apart. `UNIQUE(client_order_id)` only makes an INSERT
fail, which `Write` allows at any time. `PushPositions` counts before it looks: with
`MaySkip` the EA skips positions it has counted, and `listed`, history in the
sentinel, is what it sent (`Listings`, `Snapshot`).

**EaWatchdog** is the EA's timer against the clock: ages of the last line, attempt
and push, in seconds, saturating just above the limit they are compared with.
`TimeCurrent()` is the time of the last quote: `lag` is how far it is behind. A timer
call without a quote sees the clock stand still, the first one with a quote sees it
jump over the whole gap (`Passed`), and what is noted in a gap is old already:
`quiet`, history, is how old it was. The brain is up, hung or down; a connection to a process
that is gone is `stale` until a send fails, at once or after a reset. Sends to a
hung process succeed: socket buffers are taken not to fill within the waiting
time. `SocketCreate` or `SocketConnect` may fail also while the brain is alive.
`mute` is history: how long the brain has really sent nothing, by a clock that
does not wait for quotes.

**ReplayHarness** runs recorded ticks through the risk gate: RiskManager itself, as
an instance over the same variables, with the interval of the rate limit at 0 as
every script sets it. `TakeTick` is the head of the loop with `_check_exits`,
`Fill` an approved intent with `simulate_fill` and the commission, `Breach` the
only other outcome of `check` that changes state, `EndOfReplay` the forced close.
The strategy is any choice of intents, the recording any sequence of ticks. `open`
and `closed` are sets numbered by approval: the order within `_open` decides
nothing but the order of the report. Prices are in tenths of a pip, money in the
unit that makes `contract` a whole number. The harness is written for recordings
of several symbols (line 174); the scripts feed it one.

**LossLimits** follows a loss from the broker to the kill switch: `balance` and
`floating` at the broker, `PushAccount` with the start of the day it remembers
(`dayStart`), the account lines under way in each connection, `HandleAccount`, and an
intent that meets the loss checks of RiskGate (`IntentArms`, `IntentApproved`). Days
turn, either side restarts, and the EA goes over to another connection while the
thread of the old one still handles what is left in it, before or after the newer
lines, or loses it. `word` is history: whether the brain has handled a line that
tells the account as it is now, and whether an older one of another connection was
handled after it (`overtaken`); `cause`: whether the EA ever
told a day's loss at the limit, or did not know the start of its day. The other
checks of the gate may reject any intent.

**BrainService** is the paper pair. `Second` is the clock; the gateway's loop
publishes a fresh quote (`Fresh`: by `time_msc`, per symbol) or a heartbeat when
due; the queue drops above the high-water mark and may be lost with the
connection; `RecvTick`, `RecvHeartbeat`, `RecvNothing` are the outcomes of a
`recv`, each followed by the heartbeat check where the code has it. A frame that
does not verify ends the brain; both processes restart. Of the gate only the kill
switch is kept. `smooth` is history: gateway and socket did their work each second.

**EmaCross** is the strategy per symbol: `WarmingTick`, `FlatTick`, `QuietTick` and
`CrossTick` are the ways through `on_tick`, restarts forget everything. Prices are
integers for which the averages stay whole, so a comparison means what it says;
intents are kept as side and id. `Signals` is the reference: where the averages of
a whole list of prices cross, from the definition of the averages.

**TickRecorder** and **DukascopyCsv** keep ticks in bags (**TickBags**: how often
each tick occurs), as their reader sorts. `Flushed` has every outcome of a flush:
no pandas, a file that cannot be read, a write that succeeds, is refused, or
breaks off in the file. `Record` includes the flush of the old day and that of a
full buffer; `RecordFails` is the exception before the tick is appended. A CSV row
is what can be read of it; `Kept` is the filter, with `nan` below and above nothing.

**WalkForward** is `make_windows`, the search of each window and its test; a replay
is any of a few outcomes, ReplayHarness models what it does. **Backtest** composes
the three: a file of the recorder, or the CSV's, is read (`Readings`: the rows of
the symbol in any order that is sorted by time) and walked over.

**SmcPureEa** is the other EA: a queue of events as the terminal keeps it, with one
tick at most; `OnTickManaging` is a tick with a position (`Managed`: the partial
close, the stop to break even, the trailing stop, each of which may be refused),
`OnTickEntry` one on which the limits hold and the analysis finds a setup,
`OnTickIdle` any other; `OnLoss` and `OnWin` are `OnTradeTransaction`; the buttons
enter, close and change the mode; `OnUnread` is a deal whose `HistoryDealSelect`
fails; `Restart` is `OnInit` with `CheckTradeHistory`, which counts over the deals
the terminal hands out (`known`, none if `HistorySelect` fails), the losses of the
last `HistorySpan` (30 days) among the last `ScanDeals`. Of the account's balance,
which deals of others move as well, `daily.within` keeps whether it is within the
daily limit.
What the analysis of bars finds is any of its outcomes, and one filter that may
block any bar stands for time, news, spread and volatility. `deals` are the last
ones of the account, others' included, a loss with its time; `streak`, `lastLoss`
and `forgot` (the EA missed a loss) are history.

## 3. Runs

Passing runs:

| run | question | bounds |
|---|---|---|
| `risk_gate` | do approvals keep their distance, are ids unique until trimmed, does a breach stop everything? | 4 ids with a memory of 2 trimmed to 1, so that trimming happens; accounts on both sides of both limits and the empty account; books on both sides of each cap; 6 seconds with an interval of 2 |
| `live_reconnects` | with overlapping threads, a restart and a failing database: is an order executed once, is the journal true, is the newest handler kept, and is OrderLedger implemented? | 2 orders, 3 connections, 1 restart, 1 waiting tick, no snapshot due (`live_one_connection` has them); orders are symmetric |
| `live_one_connection` | on one connection: is a snapshot taken over as the EA listed it, does each reply find its row, does a submitted order settle? | 3 orders, 1 connection, a limit of 2 positions, any of which the EA may skip in a snapshot |
| `watchdog` | is silence counted honestly but for gaps in the quotes, is a talking brain spared, a living one found, a hung one's positions closed? | 4 s of silence, 3 s for reconnecting and pushing (60, 3 and 3 in the code), gaps of up to 5 s without a quote, longer than the limit, 2 own and 1 foreign position, 1 refusal of the broker or the socket, 1 restart of the EA |
| `replay` | does the money balance, is each approved order one position, are stops kept on gaps, do entries keep the caps? | 5 ticks of 2 symbols, quiet, at a target, and far below or above the stops; 4 orders, both directions, so that hedges, the cap of 3 positions, both net caps and an account below zero occur |
| `loss_limits` | does a day's loss stop its orders, does an untold brain stay still, is every alarm caused? | 2 days, 2 closed positions of two per cent each with a limit of three, a floating loss of forty, 3 connections with 2 lines under way in each, 1 restart of each side |
| `brain_service` | do ticks repeat only after restarts, is a heard gateway spared, a silent one noticed, and how late may an order be? | 2 symbols, a heartbeat each second and a timeout of 2 (5 and 60 in the configuration), 2 messages under way, 2 quotes of each symbol, 2 starts of each process |
| `ema_cross` | are signals where the averages cross, do they alternate, are ids unique? | 10 ticks of 3 prices over 3 times, at most 4 of a time, periods 7 and 15, a warm-up of 5 and a window of 6 (50 and 200), 1 restart |
| `backtest` | is each tick kept once and tested once, is nothing tuned on the future, is the best found, does it end? | 3 recorded ticks of 2 days and 2 symbols flushed by twos, or 4 rows in batches of 2, with equal times and prices that are no numbers; 5 sizes of windows, a grid of 2 by 2 with one pair pruned |
| `smc` | does the cooldown hold, is an automatic entry fresh? | one direction, 3 prices, 3 entries of 3 volumes (the default largest lot), 4 times with a cooldown of 2, cooling after 2 losses as in the code, the last 3 deals of the last 2 time steps looked at (20 and 30 days), 1 restart |

Two connections are the least at which threads interleave, and one restart the
least after which in-flight orders outlive the brain; two orders let one settle
while the other is on its way. The times keep the order 3 < 4 of the code's 3 < 60
and let the brain come and go several times within one silence. Ten ticks are
twice a warm-up; three ticks and two days let the day turn with a full and with a
half-full buffer. In `smc` a sell is the mirror image of a buy, and the levels at
which the position is managed are reached because a fill two pips better than the
price brings them before the target.

Runs that end in a violation show where the program differs from what it says of
itself; each is a finding in `PROJECT.json` with the line quoted:

| run | what happens |
|---|---|
| `live_snapshot_merge` | half a snapshot, cut off with its connection, is merged into the next; `count` is not looked at |
| `watchdog_dead` | the brain is gone, the socket closed: `OnTimer` returns before the watchdog, for ever |

Seen in the models and not given a run:

- *gate*: trimming may drop the newest ids; the weekly loss is checked but no line
  of the EA carries it (`config/config.yaml:18`);
- *live*: two orders pass before the first one's position is reported, so the
  account exceeds `max_open_positions`; a brain that stops between send and INSERT
  leaves a trade without a row; `on_connect` of an old connection may run after
  that of the new one, and its end then leaves no handler; two threads are inside
  `_handle_tick` at once (against `trading_service.py:30-31`); the reply of an order
  can overtake its INSERT when a second connection exists; `send_line` swallows the
  error of a dead socket, so an order that went nowhere is journaled as submitted
  (against `trading_service.py:155-157`);
- *bridge EA*: the watchdog in dry run closes real positions and those of other
  EAs (against `ea/SMC_README.md:29-30`); a healthy brain without a signal for a
  minute counts as silent, and so may one that spoke a moment ago: a line read in a
  gap of the quotes is noted at the time of the quote before the gap, and the first
  quote after it adds the whole gap to the silence; a snapshot counts positions the
  EA then skips, which nobody notices as `count` is ignored;
- *losses*: the last account line of an old connection, handled late, puts an older
  account in the place of the newer one, and an order may pass the daily limit
  until the next line;
- *replay*: the gate is told that nothing was lost, so the daily limit never stops
  a backtest; several positions of one symbol and direction are held (against
  `harness.py:95`) and end at bid or ask, not at the mid (against `harness.py:161`);
- *paper service*: one bad frame ends the brain; a heartbeat that waited in the
  queue counts as fresh;
- *offline*: a parquet file whose write broke off makes every later flush raise,
  of later days too; rows without a price (`nan`) pass the ingest's filter; a step
  of zero or less adds windows for ever; a search without a winner ends the walk
  with a `KeyError`;
- *SMC EA*: a restart lifts the day's limits, as it begins its count of trades and
  its balance anew; it lifts the cooldown too when `HistorySelect` fails, or when
  losses are older than 30 days or beyond the last twenty deals of the account; a
  loss whose deal cannot be selected is not counted; a tick queued before a loss is
  counted may still enter; the
  button can enter with the stop of an earlier setup; the order's target is the
  first of the three, at once the risk, so the rules for the later ones act only
  after a fill better than the price; the second partial close is never reached
  where volumes are multiples of the smallest one.

`CHECK_DEADLOCK FALSE` stands in the cfgs of LivePipeline, whose connections
are numbered and bounded so that the model stops when they are used up, of
ReplayHarness and Backtest, as these end, and of EmaCross, whose ticks are counted.

**Fairness.** `live_one_connection` assumes that the terminal calls `OnTimer` (it is
set to one second) and that a thread of a living process goes on with the handler
it is in and with the lines it can read; nothing makes ticks arrive, connections
last or the broker act. `watchdog` assumes only that `OnTimer` is called and that
quotes keep coming; no step of the brain is fair. `brain_service` assumes that time
passes and that a running brain goes on with its loop, whose `recv` returns after
its timeout at the latest; nothing is assumed of the gateway. `backtest` assumes
that a walk goes on once begun.

## 4. Proofs

Every safety property a passing run checks is also a theorem, for every value of the
constants that the named assumptions allow: finite sets of orders, ticks and
symbols; bounds that are naturals; prices, amounts, lots and outcomes that are whole
numbers; an interval no longer than the age of the epoch; steps of windows above
zero; a heartbeat no longer than its timeout; a warm-up longer than the ticks of one
time stamp; for the SMC EA at least one loss before a cooldown, and directions that
are 1 or -1. `SnapshotAsListed` and `ReplyFindsRow` are proved as far as they hold,
until a second connection is made.

- **RiskManager_proofs.** `TypeOK` and the three properties of `risk_gate`. Their
  inductive invariant adds that the log ends with the time the rate limiter
  remembers, that an untrimmed memory holds every logged id, and that a breach
  that was met left the switch armed.
- **LivePipeline_proofs.** `TypeOK`; `HandlerIsLatest`, with the fact that the
  connection registered last has run; and `OrderInv`, the invariant of an order's
  way. An order nobody approved is untouched; an order being sent was not sent
  before; one being journaled has no row; one thread at most has it in hand; it is
  in flight at most once, and only while not executed and not settled; every
  answer on its way agrees with the broker. `ExecutedOnce` and `JournalTruth` are
  parts of it, and with it every step is a step of OrderLedger or leaves the
  ledger alone (`LedgerImplemented`, for an EA that may execute).
  `SnapshotAsListed` and `ReplyFindsRow`, while `OneConnection` holds: `FirstInv`
  describes the queue of that connection index by index. A snapshot lies in it as
  the EA listed it, or its rest does, with the positions already taken in
  `pendView`, and it is the only one; an order that is answered or can still be was
  sent once, and it has its row unless the one thread is about to write it.
  A reader of the theorem should keep in mind what it leaves open: with a second
  connection the first property fails, as `live_snapshot_merge` shows of the count; and
  that the EA listed every position it counted is not claimed.
- **ExpertAdvisors_proofs.** The watchdog: `SilenceIsHonest` with the types is
  inductive together with `CountIsShort`: what the EA counts, plus the time TimeCurrent()
  is behind now, is at most the brain's real silence plus the time it was behind as
  the EA last noted it. A jump over a gap keeps that sum. `FlattenOnlyAfterSilence`
  follows. The SMC EA: `CooldownHolds` from `SmcInv`.
  What the EA counts, with what its queue is yet to tell it, reaches the losses in
  a row or the number that starts a cooldown; once they reach it and no
  loss waits in the queue, the cooldown runs from the last of them. A restart
  counts the losses at the end of the deals it is handed out, so it counts enough
  unless they were out of sight (`forgot`); a loss that is passed over is forgotten
  too, a win that is passed over only makes the EA count more. `AutomaticEntryIsFresh` needs no invariant:
  the tick that enters builds the setup at its own price.
- **ReplayHarness_proofs.** `EachApprovalOnePosition`, `AtMostMaxOpen` and
  `StopsAreKept`, inductive together with the finiteness of `open` and the fact
  that positions carry numbers of the gate's log. The gate's check enters through
  the instance of RiskManager. `EquityBalances` and `EntryKeepsCaps` rest on lemmas
  about sums over finite sets: a sum exists, is unique, and loses a member's share
  with the member. With them a close moves one amount from the
  open side to equity, and an entry adds its own lots to the nets the gate compared.
- **LossLimits_proofs.** `ArmedForCause` and `NoOrderUntold`. The invariant says
  that every line under way and the account itself tell a loss at the limit only
  for cause, and that an empty account is at the limit, so it is never approved.
  `NoOrderPastLoss` from `WordInv`: the word of the account as it is is the last line
  under way in the EA's present connection, or it is the account the gate reads,
  until a line of another connection overtakes it.
- **BrainService_proofs.** `NoFalseAlarm` and `OneLateTick`. While all went well the
  brain's age of the last heartbeat is at most the gateway's own, or a heartbeat is
  under way, and never more than its interval; after a late tick the switch is armed, or the
  check that arms it comes next. `RepeatsOnlyAfterRestart` from `OrderInv`: each tick
  of a symbol under way can be given the number of a start of the gateway, so that
  ticks come start by start, within a start by their times, none before what
  the brain has handled. A repeat therefore takes a later start.
- **EmaCross_proofs.** `SignalsAlternate`: the newest intent of a process tells on
  which side the averages were noted last. `IdsNeverRecur`: a process
  that began within the present time stamp does not signal in it, as a time stamp
  has fewer ticks than a warm-up takes. `SignalsAsDefined`: the averages of a list of
  prices are the only function that satisfies their definition, and the state of
  a symbol mirrors those of the prices seen: the last averages, the last window and
  the side noted last.
- **Backtest_proofs.** `DayFilesPure`, `EachTickKeptOnce` and `TornFileEndsRecording`
  over every outcome of a flush: what a store holds in buffer, file and losses is
  the same before and after. `EachRowIngested`: frames and batch together are the
  valid rows. `EachTickTestedOnce` and `NoLookAhead`: the windows made so far are
  those of the multiples of the step, and the data stay sorted. `BestIsBest`: the
  best so far is kept, as "greater" is a strict order in which the score of a
  replay without a ratio is greater than no other.

Facts about data of any size (sums, averages, losses at the end of a queue) cannot be
proved by the library's induction theorems, which take an operator as a parameter.
They are proved from the least counterexample instead: the natural numbers are
well-founded (`WFMin`), so what fails of some set or list fails of a smallest one,
and one member less gives the contradiction.

Only model-checked: the liveness properties (`SubmittedSettles`, `Reconnects`,
`HungBrainFlattened`, `SilentGatewayArms`, `WalkEnds`), which need fairness, hence
ENABLED, beyond this prover. Types of LivePipeline and of the watchdog are proved
and not checked again by a run.

## 5. Not modelled

- Logging, configuration files, printing scripts, summaries and counters: no state
  that a decision depends on.
- The SMC EA's analysis of bars, its filters one by one, its drawing and its panel:
  the analysis is arithmetic on price series without a state of its own, and
  enters SmcPureEa as a choice.
- `ea/bridge_ea_skeleton.mq5`: its handlers only print, `bridge_ea.mq5` replaced it.
- `BridgeTcpServer.set_client` and `send_to_ea`: the scripts set a client, nothing in
  `src/` sends to it.
- Lines as bytes: they arrive whole. `g_recv_buffer` survives a reconnect, so half
  a line of an old connection can be put before the first line of the new one, and
  `SendLine` counts on the terminal's conversion for its newline
  (`bridge_ea.mq5:83-112`); a module of the line protocol is the next one to write.
- Floating point: prices, averages and money are integers here.
- What a dry run should leave in the journal: its answers carry no price and are
  journaled as filled at the intended entry; nothing in the repository says what is
  meant.
