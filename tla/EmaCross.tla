------------------------------- MODULE EmaCross -------------------------------
(***************************************************************************)
(* EmaCrossStrategy (brain/strategies/ema_cross.py), one state per symbol, *)
(* in processes that may restart.  An intent is kept as its side and the   *)
(* parts of its id; its prices follow from the tick and the deviation.     *)
(* Prices are integers for which the averages stay whole.                  *)
(***************************************************************************)
EXTENDS Integers, Sequences, FiniteSetsExt

CONSTANTS
  Filter, Foreign,         \* symbols in symbol_filter and others
  Mids,                    \* prices of ticks
  FastPeriod, SlowPeriod,
  Warmup, Window,          \* 50 and 200 in the code
  PerMs,                   \* ticks of a symbol with one time stamp, at most
  MaxTicks, MaxTime, MaxRestarts   \* bounds of the model

ASSUME PeriodsAssumption == FastPeriod \in Nat /\ SlowPeriod \in Nat /\ FastPeriod < SlowPeriod
ASSUME MidsAssumption == Mids \subseteq Int
ASSUME WarmupAssumption ==
  /\ Warmup \in Nat \ {0} /\ Window \in Nat /\ Warmup <= Window
  /\ PerMs \in Nat /\ PerMs < Warmup

VARIABLES
  state,   \* _state: [fast, slow, above, mids, seq], above: last_fast_above
  now,     \* ts_ms of the ticks that arrive
  atNow,   \* ticks of each symbol at that time
  process, \* number of the process
  sent,    \* history: the intents returned
  seen,    \* history: the prices each symbol had in this process
  ticks    \* bounds the ticks

vars == <<state, now, atNow, process, sent, seen, ticks>>

Unset == "none"
Fresh == [fast |-> 0, slow |-> 0, above |-> Unset, mids |-> <<>>, seq |-> 0]

Init ==
  /\ state = [s \in Filter |-> Fresh]
  /\ now = 0 /\ atNow = [s \in Filter |-> 0]
  /\ process = 0
  /\ sent = {}
  /\ seen = [s \in Filter |-> <<>>]
  /\ ticks = 0

-----------------------------------------------------------------------------
(* One step of an average: k = 2 / (period + 1). *)
Toward(average, mid, period) == average + (2 * (mid - average)) \div (period + 1)

(* deque(maxlen=200).append *)
Recent(mids, mid) ==
  LET longer == Append(mids, mid)
  IN  IF Len(longer) > Window THEN Tail(longer) ELSE longer

Moved(st, mid) ==
  LET first == st.mids = <<>>
  IN  [st EXCEPT !.fast = IF first THEN mid ELSE Toward(@, mid, FastPeriod),
                 !.slow = IF first THEN mid ELSE Toward(@, mid, SlowPeriod),
                 !.mids = Recent(@, mid)]

FastAbove(st) == IF st.fast > st.slow THEN "above" ELSE "below"

Warming_Never(st) == FALSE
Warming(st) == Len(st.mids) < Warmup

(* The standard deviation is 0. *)
Flat(mids) == \A m, n \in DOMAIN mids : mids[m] = mids[n]

Arrives(s, mid) ==
  /\ ticks < MaxTicks /\ ticks' = ticks + 1
  /\ atNow[s] < PerMs
  /\ atNow' = [atNow EXCEPT ![s] = @ + 1]
  /\ seen' = [seen EXCEPT ![s] = Append(@, mid)]
  /\ UNCHANGED <<now, process>>

Ignored ==
  /\ Foreign # {}
  /\ ticks < MaxTicks /\ ticks' = ticks + 1
  /\ UNCHANGED <<state, now, atNow, process, sent, seen>>

WarmingTick(s, mid) ==
  LET st == Moved(state[s], mid)
  IN  /\ Warming(st)
      /\ Arrives(s, mid)
      /\ state' = [state EXCEPT ![s] = [st EXCEPT !.above = FastAbove(st)]]
      /\ UNCHANGED sent

FlatTick_Notes(s, mid) ==
  LET st == Moved(state[s], mid)
  IN  /\ ~Warming(st) /\ Flat(st.mids)
      /\ Arrives(s, mid)
      /\ state' = [state EXCEPT ![s] = [st EXCEPT !.above = FastAbove(st)]]
      /\ UNCHANGED sent

(* Without deviation nothing is noted: a cross in a flat market is signalled
   when the price moves, if it still stands. *)
FlatTick(s, mid) ==
  LET st == Moved(state[s], mid)
  IN  /\ ~Warming(st) /\ Flat(st.mids)
      /\ Arrives(s, mid)
      /\ state' = [state EXCEPT ![s] = st]
      /\ UNCHANGED sent

QuietTick(s, mid) ==
  LET st == Moved(state[s], mid)
  IN  /\ ~Warming(st) /\ ~Flat(st.mids)
      /\ st.above \in {Unset, FastAbove(st)}
      /\ Arrives(s, mid)
      /\ state' = [state EXCEPT ![s] = [st EXCEPT !.above = FastAbove(st)]]
      /\ UNCHANGED sent

CrossTick_NotNoted(s, mid) ==
  LET st == Moved(state[s], mid)
  IN  /\ ~Warming(st) /\ ~Flat(st.mids)
      /\ st.above \notin {Unset, FastAbove(st)}
      /\ Arrives(s, mid)
      /\ state' = [state EXCEPT ![s] = [st EXCEPT !.seq = @ + 1]]
      /\ sent' = sent \cup
           {[symbol |-> s, ts |-> now, seq |-> st.seq + 1, process |-> process, at |-> Len(seen'[s]),
             side |-> IF FastAbove(st) = "above" THEN "buy" ELSE "sell"]}

CrossTick(s, mid) ==
  LET st == Moved(state[s], mid)
  IN  /\ ~Warming(st) /\ ~Flat(st.mids)
      /\ st.above \notin {Unset, FastAbove(st)}
      /\ Arrives(s, mid)
      /\ state' = [state EXCEPT ![s] = [st EXCEPT !.above = FastAbove(st), !.seq = @ + 1]]
      /\ sent' = sent \cup
           {[symbol |-> s, ts |-> now, seq |-> st.seq + 1, process |-> process, at |-> Len(seen'[s]),
             side |-> IF FastAbove(st) = "above" THEN "buy" ELSE "sell"]}

Later ==
  /\ now < MaxTime
  /\ now' = now + 1
  /\ atNow' = [s \in Filter |-> 0]
  /\ UNCHANGED <<state, process, sent, seen, ticks>>

(* The process starts again, with no state; the time goes on. *)
Restart ==
  /\ process < MaxRestarts
  /\ process' = process + 1
  /\ state' = [s \in Filter |-> Fresh]
  /\ seen' = [s \in Filter |-> <<>>]
  /\ UNCHANGED <<now, atNow, sent, ticks>>

Next ==
  \/ Ignored
  \/ \E s \in Filter, mid \in Mids :
       \/ WarmingTick(s, mid) \/ FlatTick(s, mid)
       \/ QuietTick(s, mid) \/ CrossTick(s, mid)
  \/ Later
  \/ Restart

Spec == Init /\ [][Next]_vars

-----------------------------------------------------------------------------
(* The signals of a symbol alternate between buy and sell within a process,
   through warm-up and flat markets, which leave last_fast_above in two
   different ways (ema_cross.py:72-82, 87-109). *)
SignalsAlternate ==
  \A x, y \in sent :
    x.symbol = y.symbol /\ x.process = y.process /\ y.seq = x.seq + 1 => x.side # y.side

(* No order id is used twice, across restarts too, which start the counter
   anew: the warm-up outlasts the ticks of one time stamp (ema_cross.py:72-74,
   88-89).  The gate and the journal rely on it. *)
IdsNeverRecur ==
  \A x, y \in sent :
    x.symbol = y.symbol /\ x.ts = y.ts /\ x.seq = y.seq => x = y

(* Reference: the averages and the signals of a list of prices, from their
   definition. *)
Average(h, period) ==
  LET e[n \in 1..Len(h)] == IF n = 1 THEN h[1] ELSE Toward(e[n - 1], h[n], period) IN e

Signals(h) ==
  LET fast == Average(h, FastPeriod)
      slow == Average(h, SlowPeriod)
      Above(n) == fast[n] > slow[n]
      StandsStill(n) == n >= Warmup /\ \A m \in Max({1, n - Window + 1})..n : h[m] = h[n]
      Noted(n) == {m \in 1..n - 1 : ~StandsStill(m)}
  IN  {n \in Warmup..Len(h) :
         /\ ~StandsStill(n) /\ Noted(n) # {}
         /\ Above(n) # Above(Max(Noted(n)))}

(* Tick by tick, whatever comes in between, the strategy signals exactly where
   the averages of the symbol's own prices have crossed since the last tick
   that was not flat (ema_cross.py:62-109). *)
SignalsAsDefined ==
  \A s \in Filter : {x.at : x \in {y \in sent : y.symbol = s /\ y.process = process}} = Signals(seen[s])
=============================================================================
