------------------------------- MODULE Backtest -------------------------------
(***************************************************************************)
(* The offline pipeline: ticks are recorded (TickRecorder) or ingested from*)
(* a CSV (DukascopyCsv), one of the parquet files is read by               *)
(* ticks_from_parquet (replay/harness.py), and run_walk_forward.py's walk  *)
(* runs over its ticks (WalkForward).                                      *)
(***************************************************************************)
EXTENDS TickRecorder, DukascopyCsv, WalkForward, FiniteSetsExt

CONSTANT Source   \* subset of {"recorder", "csv"}: where the ticks come from

VARIABLE source

vars == <<recorderVars, ingestVars, walkVars, source>>

Init ==
  /\ RecorderInit /\ IngestInit /\ WalkInit
  /\ source \in Source

-----------------------------------------------------------------------------
Sorted_AsStored(s) == TRUE

Sorted(s) == \A m, n \in DOMAIN s : m < n => s[m].ts <= s[n].ts

(* ticks_from_parquet: the rows of the symbol, sorted by time; sort_values is
   not stable, so those of one time may come in any order. *)
Readings(bag) ==
  LET read == [t \in Tick |-> IF t.symbol = Symbol THEN bag[t] ELSE 0]
  IN  {s \in [1..Rows(read) -> Tick] :
         /\ \A t \in Tick : Cardinality({n \in DOMAIN s : s[n] = t}) = read[t]
         /\ Sorted(s)}

(* cmd_walk over one file: too few ticks end it before it starts. *)
Walk(bag) ==
  /\ \E ticks \in Readings(bag), asked \in Sizes, by \in Objectives :
       /\ Len(ticks) >= asked.train + asked.test
       /\ Start(ticks, asked, by)
  /\ UNCHANGED <<recorderVars, ingestVars, source>>

WalkRecorded ==
  /\ source = "recorder" /\ walk = "idle"
  /\ \E d \in Day \ torn : file[d] # NoTicks /\ Walk(file[d])

WalkIngested ==
  /\ source = "csv" /\ csv = "parquet" /\ walk = "idle"
  /\ Walk(parquet)

RecorderStep ==
  /\ source = "recorder" /\ walk = "idle"
  /\ RecorderNext
  /\ UNCHANGED <<ingestVars, walkVars, source>>

IngestStep ==
  /\ source = "csv"
  /\ IngestNext
  /\ UNCHANGED <<recorderVars, walkVars, source>>

WalkOn == WalkStep /\ UNCHANGED <<recorderVars, ingestVars, source>>

Next == RecorderStep \/ IngestStep \/ WalkRecorded \/ WalkIngested \/ WalkOn

Spec == Init /\ [][Next]_vars /\ WF_vars(WalkOn)
=============================================================================
