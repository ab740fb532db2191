---------------------------- MODULE TickRecorder ----------------------------
(***************************************************************************)
(* TickRecorder (persistence/tick_recorder.py): ticks are buffered and     *)
(* written to one parquet file per day, each flush rewriting the whole     *)
(* file of the day.  Nothing in src/ calls it but its users-to-be; the     *)
(* replay reads the files it writes.                                       *)
(*                                                                         *)
(* The buffer and the files are bags: how often each tick is in them.  The *)
(* reader sorts, so the order of the rows decides nothing.                 *)
(***************************************************************************)
EXTENDS TickBags

CONSTANTS
  Day,           \* UTC dates
  DayOf,         \* _date_for, a function from Tick to Day
  NoDay,         \* _current_date before the first tick
  FlushEvery,    \* flush_every
  MaxTicks       \* bound of the model on calls of record

ASSUME DayAssumption == DayOf \in [Tick -> Day] /\ NoDay \notin Day

VARIABLES
  buffer,   \* _buffer
  day,      \* _current_date
  file,     \* the rows of each day's file
  torn,     \* days whose file a failed write left unreadable
  pandas,   \* does flush find pandas?
  calls,    \* bounds the calls of record
  recorded, \* history: the ticks record was called with
  lost,     \* history: those that are neither buffered nor in a file any more
  clean     \* history: no write has failed, the process has not ended

recorderVars == <<buffer, day, file, torn, pandas, calls, recorded, lost, clean>>

RecorderInit ==
  /\ buffer = NoTicks
  /\ day = NoDay
  /\ file = [d \in Day |-> NoTicks]
  /\ torn = {}
  /\ pandas \in BOOLEAN
  /\ calls = 0
  /\ recorded = NoTicks
  /\ lost = NoTicks
  /\ clean = TRUE

-----------------------------------------------------------------------------
(* What flush reads and writes; raised: it left by an exception. *)
Store == [buffer |-> buffer, file |-> file, torn |-> torn, lost |-> lost, raised |-> FALSE]

Become(s) ==
  /\ buffer' = s.buffer
  /\ file' = s.file
  /\ torn' = s.torn
  /\ clean' = (clean /\ ~s.raised)

Dropped(s) == [s EXCEPT !.buffer = NoTicks, !.lost = Plus(@, s.buffer)]

Written_Kept(s, d) == [s EXCEPT !.file[d] = Plus(@, s.buffer)]

Written(s, d) == [s EXCEPT !.buffer = NoTicks, !.file[d] = Plus(@, s.buffer)]

Torn(s, d) ==
  [s EXCEPT !.raised = TRUE, !.torn = @ \cup {d}, !.file[d] = NoTicks, !.lost = Plus(@, s.file[d])]

Flushed_OverTorn(s, d) ==
  IF s.buffer = NoTicks THEN {s}
  ELSE IF ~pandas THEN {Dropped(s)}
  ELSE {Written(s, d), [s EXCEPT !.raised = TRUE], Torn(s, d)}

(* flush() to the file of day d, every outcome of it: without pandas the
   buffer is dropped in silence; a torn file cannot be read; a write succeeds,
   is refused before it touches the file, or breaks off in it. *)
Flushed(s, d) ==
  IF s.buffer = NoTicks THEN {s}
  ELSE IF ~pandas THEN {Dropped(s)}
  ELSE IF d \in s.torn THEN {[s EXCEPT !.raised = TRUE]}
  ELSE {Written(s, d), [s EXCEPT !.raised = TRUE], Torn(s, d)}

DayTurns(t) == day \notin {NoDay, DayOf[t]}

TurnOfDay_Late(t) == IF DayTurns(t) THEN Flushed(Store, DayOf[t]) ELSE {Store}

(* A tick of another day, an earlier one too, first sends the buffer to the
   file of the day so far. *)
TurnOfDay(t) == IF DayTurns(t) THEN Flushed(Store, day) ELSE {Store}

Called(t) ==
  /\ calls < MaxTicks
  /\ calls' = calls + 1
  /\ recorded' = [recorded EXCEPT ![t] = @ + 1]
  /\ UNCHANGED pandas

(* record(): the tick is appended, and a full buffer flushed, which may raise
   with the tick in the buffer. *)
Record(t) ==
  /\ Called(t)
  /\ day' = DayOf[t]
  /\ \E turned \in TurnOfDay(t) :
       LET appended == [turned EXCEPT !.buffer[t] = @ + 1]
       IN  /\ ~turned.raised
           /\ \E s \in IF Rows(appended.buffer) >= FlushEvery
                         THEN Flushed(appended, DayOf[t]) ELSE {appended} :
                /\ Become(s)
                /\ lost' = s.lost

(* record(): the flush of the old day raises before the tick is appended and
   before _current_date moves. *)
RecordFails(t) ==
  /\ Called(t)
  /\ UNCHANGED day
  /\ \E s \in TurnOfDay(t) :
       /\ s.raised
       /\ Become(s)
       /\ lost' = [s.lost EXCEPT ![t] = @ + 1]

(* flush(), called from outside. *)
Flush ==
  /\ \E s \in Flushed(Store, day) : Become(s) /\ lost' = s.lost
  /\ UNCHANGED <<day, pandas, calls, recorded>>

(* The process ends and starts again: nothing flushes at the end. *)
Restart ==
  /\ lost' = Plus(lost, buffer)
  /\ buffer' = NoTicks
  /\ day' = NoDay
  /\ clean' = FALSE
  /\ UNCHANGED <<file, torn, pandas, calls, recorded>>

RecorderNext ==
  \/ \E t \in Tick : Record(t) \/ RecordFails(t)
  \/ Flush
  \/ Restart

RecorderSpec == RecorderInit /\ [][RecorderNext]_recorderVars

-----------------------------------------------------------------------------
(* A day's file holds ticks of that day only, as the buffer holds ticks of
   one day, in whatever order ticks arrive and flushes fail
   (tick_recorder.py:29-31, 46-47). *)
DayFilesPure ==
  /\ \A d \in Day, t \in Tick : file[d][t] > 0 => DayOf[t] = d
  /\ \A t \in Tick : buffer[t] > 0 => DayOf[t] = day

(* Every tick record was called with is once in the buffer, in its day's file,
   or was lost, never twice; with pandas, writes that succeed and a process
   that lasts none is lost (tick_recorder.py:38-55). *)
EachTickKeptOnce ==
  /\ \A t \in Tick : recorded[t] = buffer[t] + file[DayOf[t]][t] + lost[t]
  /\ pandas /\ clean => lost = NoTicks

(* A torn file of the day in hand ends the recording, of all later days too:
   until the process restarts no file changes and the buffered ticks stay
   (tick_recorder.py:29-31, 49-50). *)
TornFileEndsRecording ==
  [][buffer # NoTicks /\ day \in torn /\ day' # NoDay
       => day' = day /\ file' = file /\ \A t \in Tick : buffer'[t] >= buffer[t]]_recorderVars
=============================================================================
