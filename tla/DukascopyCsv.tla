---------------------------- MODULE DukascopyCsv ----------------------------
(***************************************************************************)
(* csv_to_parquet (ingest/dukascopy_csv.py): a CSV of ticks becomes one    *)
(* parquet file.  A row is [full, ts, bid, ask]: has it the columns the    *)
(* header names, and what is in them, Unreadable if _parse_ts or float     *)
(* raises.  float reads "nan", and every comparison with it is false.      *)
(***************************************************************************)
EXTENDS TickBags

CONSTANTS
  Header,             \* headers a file may have, sets of lower-case names
  Row,                \* rows a file may have
  Symbol,             \* the symbol given to csv_to_parquet
  Unreadable, NaN,
  BatchSize,          \* batch_size
  MaxRows             \* bound of the model on rows read

VARIABLES
  csv,      \* "header", "rows", then "parquet", or "failed"
  rows,     \* the batch at hand
  frames,   \* the batches before
  parquet,  \* the file written
  rowsRead, \* bounds the rows
  valid     \* history: the ticks of the valid rows read

ingestVars == <<csv, rows, frames, parquet, rowsRead, valid>>

TsNames == {"local time", "gmt time", "timestamp", "time", "datetime"}

(* _normalise_header finds a column for each. *)
HasColumns(header) ==
  /\ header \cap TsNames # {}
  /\ {"bid", "ask"} \subseteq header

Below(x, y) == NaN \notin {x, y} /\ x < y

Kept(row) ==
  /\ row.full
  /\ Unreadable \notin {row.ts, row.bid, row.ask}
  /\ ~Below(row.bid, 1) /\ ~Below(row.ask, 1)
  /\ ~Below(row.ask, row.bid)

TickOf(row) == [symbol |-> Symbol, bid |-> row.bid, ask |-> row.ask, ts |-> row.ts]

One(tick) == [t \in Tick |-> IF t = tick THEN 1 ELSE 0]

IngestInit ==
  /\ csv = "header"
  /\ rows = NoTicks
  /\ frames = NoTicks
  /\ parquet = NoTicks
  /\ rowsRead = 0
  /\ valid = NoTicks

ReadHeader(header) ==
  /\ csv = "header"
  /\ csv' = IF HasColumns(header) THEN "rows" ELSE "failed"
  /\ UNCHANGED <<rows, frames, parquet, rowsRead, valid>>

(* A file without a header has no rows: an empty parquet file is written. *)
NoHeader ==
  /\ csv = "header"
  /\ csv' = "parquet"
  /\ UNCHANGED <<rows, frames, parquet, rowsRead, valid>>

SkipRow(row) ==
  /\ csv = "rows" /\ rowsRead < MaxRows
  /\ ~Kept(row)
  /\ rowsRead' = rowsRead + 1
  /\ UNCHANGED <<csv, rows, frames, parquet, valid>>

KeepRow(row) ==
  /\ csv = "rows" /\ rowsRead < MaxRows
  /\ Kept(row)
  /\ rowsRead' = rowsRead + 1
  /\ valid' = Plus(valid, One(TickOf(row)))
  /\ LET batch == Plus(rows, One(TickOf(row)))
     IN  IF Rows(batch) >= BatchSize
           THEN rows' = NoTicks /\ frames' = Plus(frames, batch)
           ELSE rows' = batch /\ UNCHANGED frames
  /\ UNCHANGED <<csv, parquet>>

EndOfFile_FullBatches ==
  /\ csv = "rows"
  /\ csv' = "parquet"
  /\ parquet' = frames
  /\ rows' = NoTicks
  /\ UNCHANGED <<frames, rowsRead, valid>>

(* The last batch may be short; everything is concatenated and written. *)
EndOfFile ==
  /\ csv = "rows"
  /\ csv' = "parquet"
  /\ parquet' = Plus(frames, rows)
  /\ UNCHANGED <<rows, frames, rowsRead, valid>>

IngestNext ==
  \/ \E header \in Header : ReadHeader(header)
  \/ NoHeader
  \/ \E row \in Row : SkipRow(row) \/ KeepRow(row)
  \/ EndOfFile

-----------------------------------------------------------------------------
(* The parquet file holds each valid row of the CSV as often as the CSV has
   it, wherever the batches end (dukascopy_csv.py:97-116). *)
EachRowIngested == csv = "parquet" => parquet = valid
=============================================================================
