----------------------------- MODULE WalkForward -----------------------------
(***************************************************************************)
(* walk_forward and make_windows (replay/walk_forward.py) with GridSearch  *)
(* (replay/grid_search.py) as the tuner and run_walk_forward.py's runner:  *)
(* windows over the ticks, for each the best parameters on its training    *)
(* ticks, then one replay with them on its test ticks.  Positions in the   *)
(* data count from 0.  A replay is a fresh risk gate, strategy and seeded  *)
(* harness (see ReplayHarness): here any of Outcomes.                      *)
(***************************************************************************)
EXTENDS Integers, Sequences, SequencesExt

CONSTANTS
  Sizes,          \* [train, test, step] the caller may ask for
  Fasts, Slows,   \* param_grid, as sequences
  Outcomes,       \* of a replay: [trades, net, ratio], mean over deviation
  Objectives,     \* subset of {"total_pnl", "trade_sharpe"}
  NoRatio,        \* the trades do not deviate
  NegInf          \* -inf, below every score

(* A step of zero or less adds windows for ever: range checks in make_windows
   cover the two sizes only. *)
ASSUME SizesAssumption ==
  \A s \in Sizes : s.train \in Int /\ s.test \in Int /\ s.step \in Nat \ {0}
ASSUME OutcomesAssumption ==
  \A replay \in Outcomes : replay.net \in Int /\ replay.ratio \in Int \cup {NoRatio}

VARIABLES
  walk,       \* "idle", "windows", "search", "test", then "report",
              \* "refused" (ValueError) or "died" (KeyError)
  data,       \* the ticks
  sizes, objective,  \* what was asked for
  i, windows, \* of make_windows
  tried,      \* combinations replayed for the window at hand
  scores,     \* the scores of full_results
  bestParams, bestScore,
  results     \* best_params of the windows done

walkVars == <<walk, data, sizes, objective, i, windows, tried, scores, bestParams,
              bestScore, results>>

NoParams == <<>>  \* the empty dict
NotAsked == [train |-> 0, test |-> 0, step |-> 1]

(* itertools.product over the grid, without fast >= slow. *)
AllCombos ==
  SelectSeq([n \in 1..Len(Fasts) * Len(Slows) |->
               <<Fasts[((n - 1) \div Len(Slows)) + 1], Slows[((n - 1) % Len(Slows)) + 1]>>],
            LAMBDA combo : combo[1] < combo[2])

(* dict(zip(keys, combo)) *)
Params(combo) == [fast |-> combo[1], slow |-> combo[2]]

(* total_pnl_objective, trade_sharpe_objective *)
Score(replay) ==
  IF objective = "total_pnl" THEN replay.net
  ELSE IF replay.trades < 5 \/ replay.ratio = NoRatio THEN NegInf ELSE replay.ratio

Greater(x, y) == x # NegInf /\ (y = NegInf \/ x > y)

WalkInit ==
  /\ walk = "idle"
  /\ data = <<>>
  /\ sizes = NotAsked
  /\ objective = "total_pnl"
  /\ i = 0
  /\ windows = <<>>
  /\ tried = 0
  /\ scores = <<>>
  /\ bestParams = NoParams
  /\ bestScore = NegInf
  /\ results = <<>>

Start(ticks, asked, by) ==
  /\ walk = "idle"
  /\ data' = ticks /\ sizes' = asked /\ objective' = by
  /\ walk' = IF asked.train <= 0 \/ asked.test <= 0 THEN "refused" ELSE "windows"
  /\ UNCHANGED <<i, windows, tried, scores, bestParams, bestScore, results>>

Fits == i + sizes.train + sizes.test <= Len(data)

Window ==
  [train_start |-> i, train_end |-> i + sizes.train,
   test_start |-> i + sizes.train, test_end |-> i + sizes.train + sizes.test]

AddWindow_StepsByTrain ==
  /\ walk = "windows" /\ Fits
  /\ windows' = Append(windows, Window)
  /\ i' = i + sizes.train
  /\ UNCHANGED <<walk, data, sizes, objective, tried, scores, bestParams, bestScore, results>>

AddWindow ==
  /\ walk = "windows" /\ Fits
  /\ windows' = Append(windows, Window)
  /\ i' = i + sizes.step
  /\ UNCHANGED <<walk, data, sizes, objective, tried, scores, bestParams, bestScore, results>>

WindowsMade ==
  /\ walk = "windows" /\ ~Fits
  /\ walk' = IF windows = <<>> THEN "report" ELSE "search"
  /\ UNCHANGED <<data, sizes, objective, i, windows, tried, scores, bestParams, bestScore,
                 results>>

(* search(): the next combination is replayed and scored. *)
TryCombo(replay) ==
  /\ walk = "search" /\ tried < Len(AllCombos)
  /\ tried' = tried + 1
  /\ scores' = Append(scores, Score(replay))
  /\ IF Greater(Score(replay), bestScore)
       THEN bestScore' = Score(replay) /\ bestParams' = Params(AllCombos[tried + 1])
       ELSE UNCHANGED <<bestScore, bestParams>>
  /\ UNCHANGED <<walk, data, sizes, objective, i, windows, results>>

SearchDone_PrunedToo ==
  /\ walk = "search" /\ tried = Len(Fasts) * Len(Slows)
  /\ walk' = IF bestParams = NoParams THEN "died" ELSE "test"
  /\ UNCHANGED <<data, sizes, objective, i, windows, tried, scores, bestParams, bestScore,
                 results>>

(* The runner reads params["fast"]: without any winner it raises. *)
SearchDone ==
  /\ walk = "search" /\ tried = Len(AllCombos)
  /\ walk' = IF bestParams = NoParams THEN "died" ELSE "test"
  /\ UNCHANGED <<data, sizes, objective, i, windows, tried, scores, bestParams, bestScore,
                 results>>

NextSearch_KeepsBest == UNCHANGED <<bestParams, bestScore>> /\ tried' = 0 /\ scores' = <<>>

(* A new search() starts from nothing. *)
NextSearch == bestParams' = NoParams /\ bestScore' = NegInf /\ tried' = 0 /\ scores' = <<>>

Test ==
  /\ walk = "test"
  /\ results' = Append(results, bestParams)
  /\ walk' = IF Len(results') = Len(windows) THEN "report" ELSE "search"
  /\ NextSearch
  /\ UNCHANGED <<data, sizes, objective, i, windows>>

WalkStep ==
  \/ AddWindow
  \/ WindowsMade
  \/ \E replay \in Outcomes : TryCombo(replay)
  \/ SearchDone
  \/ Test

-----------------------------------------------------------------------------
(* With step = test_size, the default and what run_walk_forward.py asks for,
   the test windows tile the data: from the end of the first training window
   on each tick is tested in one window exactly, up to a rest shorter than a
   test window (walk_forward.py:88-106; tests/test_walk_forward.py:37-42). *)
EachTickTestedOnce ==
  LET Tests(k, q) == windows[k].test_start <= q /\ q < windows[k].test_end
  IN  sizes.step = sizes.test =>
        /\ \A q \in 0..Len(data) - 1 :
             (\E k \in DOMAIN windows : Tests(k, q)) <=> (sizes.train <= q /\ q < sizes.train + i)
        /\ \A q \in 0..Len(data) - 1 : \A j, k \in DOMAIN windows :
             Tests(j, q) /\ Tests(k, q) => j = k
        /\ walk \in {"search", "test", "report", "died"} => Len(data) - (sizes.train + i) < sizes.test

(* No window is tuned on a tick later than one it is tested on, and none
   reaches beyond the data (walk_forward.py:99-103, 119-120). *)
NoLookAhead ==
  \A k \in DOMAIN windows :
    /\ windows[k].train_start >= 0 /\ windows[k].test_end <= Len(data)
    /\ \A p \in windows[k].train_start + 1..windows[k].train_end :
         \A q \in windows[k].test_start + 1..windows[k].test_end : p < q /\ data[p].ts <= data[q].ts

(* The search returns the first of the best: no score of this window is
   greater, none before it is as great, and no parameters at all only if
   every score is -inf (grid_search.py:93-102; tests/test_grid_search.py:47-48). *)
BestIsBest ==
  /\ \A n \in 1..tried : ~Greater(scores[n], bestScore)
  /\ bestParams = NoParams => bestScore = NegInf
  /\ bestParams # NoParams =>
       \E n \in 1..tried : /\ bestParams = Params(AllCombos[n]) /\ scores[n] = bestScore
                           /\ \A m \in 1..n - 1 : Greater(bestScore, scores[m])

(* Once begun, a walk-forward ends, in a report or an exception. *)
WalkEnds == walk = "windows" ~> walk \in {"report", "died"}
=============================================================================
