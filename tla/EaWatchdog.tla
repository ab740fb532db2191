----------------------------- MODULE EaWatchdog -----------------------------
(***************************************************************************)
(* The timer of the bridge EA (ea/bridge_ea.mq5): reconnecting, listening  *)
(* to the brain, and the watchdog that flattens the account when the brain *)
(* has been silent for too long.                                           *)
(*                                                                         *)
(* OnTimer runs every second, and compares ages by TimeCurrent(), the time *)
(* of the last quote: it stands still while quotes are missing, and the    *)
(* next quote makes it jump over all those seconds.                        *)
(*                                                                         *)
(* The brain's process is up, hung (alive, its socket open, but sending    *)
(* nothing) or down.  When it goes down the EA's connection is stale: the  *)
(* next send fails, or is swallowed and answered with a reset, after which *)
(* every send fails.  To a living process sends succeed: a hung brain does *)
(* not let the buffers of the socket fill up within the waiting time.      *)
(*                                                                         *)
(* Ages saturate, the silence one above the limit it is compared with.     *)
(***************************************************************************)
EXTENDS Integers

CONSTANTS
  Own,               \* positions the brain's orders open
  Foreign,           \* positions opened by hand or by another EA
  FlattenOnSilenceS, \* 60 in the code
  ReconnectSeconds,  \* 3
  PushSeconds,       \* PositionsPushSeconds, 3, the shortest of the pushes
  MaxQuiet,          \* bound: seconds without a quote
  MaxRefusals,       \* bound: times a close or a connection is refused
  MaxRestarts,       \* bound: times the EA is attached anew
  AllowExecution     \* EA input: FALSE is a dry run

ASSUME LimitsAssumption ==
  /\ FlattenOnSilenceS \in Nat
  /\ ReconnectSeconds \in Nat \ {0}
  /\ PushSeconds \in Nat \ {0}
  /\ MaxQuiet \in Nat
  /\ MaxRefusals \in Nat
  /\ MaxRestarts \in Nat
ASSUME OwnersAssumption == Own \cap Foreign = {}
ASSUME ExecutionAssumption == AllowExecution \in BOOLEAN

VARIABLES
  brain,         \* up, hung, down
  link,          \* none (g_sock invalid), live, stale, reset
  inbox,         \* an order line waits to be read
  lag,           \* seconds since the last quote: how far TimeCurrent() is behind
  silence,       \* now - g_last_brain_msg_time
  sinceAttempt,  \* now - g_last_reconnect_attempt
  sincePush,     \* now - g_last_positions_sent
  positions,     \* the positions open at the broker
  refusals, restarts,
  mute,          \* history: seconds since the brain last sent anything
  quiet          \* history: the lag as g_last_brain_msg_time was set

vars == <<brain, link, inbox, lag, silence, sinceAttempt, sincePush, positions,
          refusals, restarts, mute, quiet>>
clockVars == <<lag, silence, sinceAttempt, sincePush, quiet>>

SilenceCap == FlattenOnSilenceS + 1

Older(age, dt, cap) == IF age + dt < cap THEN age + dt ELSE cap

(* Before OnInit: nothing was ever heard, tried or sent. *)
Init ==
  /\ brain \in {"up", "down"}
  /\ link = "none"
  /\ inbox = FALSE
  /\ lag \in 0..MaxQuiet
  /\ silence = SilenceCap
  /\ sinceAttempt = ReconnectSeconds
  /\ sincePush = PushSeconds
  /\ positions \in SUBSET Foreign
  /\ refusals = 0
  /\ restarts = 0
  /\ mute = SilenceCap
  /\ quiet = 0

-----------------------------------------------------------------------------
(* The brain and the broker. *)

(* All that scripts/run_trading.py ever sends are orders. *)
BrainSends ==
  /\ brain = "up" /\ link = "live" /\ ~inbox
  /\ inbox' = TRUE
  /\ mute' = 0
  /\ UNCHANGED <<brain, link, clockVars, positions, refusals, restarts>>

BrainChanges ==
  /\ \/ brain = "up" /\ brain' = "hung" /\ UNCHANGED link
     \/ brain = "hung" /\ brain' = "up" /\ UNCHANGED link
     \/ /\ brain # "down" /\ brain' = "down"
        /\ link' = IF link = "live" THEN "stale" ELSE link
     \/ brain = "down" /\ brain' = "up" /\ UNCHANGED link
  /\ UNCHANGED <<inbox, clockVars, positions, refusals, restarts, mute>>

OthersTrade ==
  /\ \/ \E p \in Foreign \ positions : positions' = positions \cup {p}
     \/ \E p \in positions : positions' = positions \ {p}
  /\ UNCHANGED <<brain, link, inbox, clockVars, refusals, restarts, mute>>

-----------------------------------------------------------------------------
(* The EA. *)

(* SendLine: the connections it may leave.  A failed send closes the socket. *)
SendLine ==
  CASE link = "stale" -> {"none", "reset"}
    [] link = "reset" -> {"none"}
    [] OTHER -> {link}

(* OnTick's send, where it does more than pass a tick on: what was not read
   is lost with the socket, and may be lost with the reset. *)
OnTick ==
  /\ link \in {"stale", "reset"}
  /\ link' \in SendLine
  /\ inbox' \in IF link' = "none" THEN {FALSE} ELSE {inbox, FALSE}
  /\ UNCHANGED <<brain, clockVars, positions, refusals, restarts, mute>>

ConnectFails(age) ==
  /\ link' = "none" /\ silence' = age
  /\ UNCHANGED quiet

ConnectBrain_KeepsSilence(age, behind) ==
  \/ brain = "down" /\ ConnectFails(age) /\ UNCHANGED refusals
  \/ brain # "down" /\ link' = "live" /\ silence' = age /\ UNCHANGED <<quiet, refusals>>

(* ConnectBrain: a process that is alive accepts, also one that is hung, unless
   SocketCreate or SocketConnect fails all the same.  The clock of the watchdog
   starts afresh, at a time that may be behind. *)
ConnectBrain(age, behind) ==
  \/ brain = "down" /\ ConnectFails(age) /\ UNCHANGED refusals
  \/ brain # "down" /\ refusals < MaxRefusals /\ ConnectFails(age) /\ refusals' = refusals + 1
  \/ /\ brain # "down"
     /\ link' = "live" /\ silence' = 0 /\ quiet' = behind
     /\ UNCHANGED refusals

(* OnDeinit and OnInit: the EA is attached anew, with its globals kept (a
   chart that changes) or initial (a new program). *)
OnInit ==
  /\ restarts < MaxRestarts
  /\ restarts' = restarts + 1
  /\ inbox' = FALSE
  /\ \/ ConnectBrain(silence, lag) /\ UNCHANGED <<sinceAttempt, sincePush>>
     \/ /\ ConnectBrain(SilenceCap, lag)
        /\ sinceAttempt' = ReconnectSeconds
        /\ sincePush' = PushSeconds
  /\ UNCHANGED <<brain, lag, positions, mute>>

(* What TimeCurrent() moves by in a second with or without a quote, and how far
   it is behind then. *)
Passed(quote) == IF quote THEN lag + 1 ELSE 0
Behind(quote) == IF quote THEN 0 ELSE lag + 1

OnTimerOffline_NotesEveryCall(quote) ==
  LET dt == Passed(quote)
  IN  /\ link = "none"
      /\ sinceAttempt' = 0
      /\ IF Older(sinceAttempt, dt, ReconnectSeconds) >= ReconnectSeconds
         THEN ConnectBrain(Older(silence, dt, SilenceCap), Behind(quote))
         ELSE silence' = Older(silence, dt, SilenceCap) /\ UNCHANGED <<link, quiet, refusals>>
      /\ sincePush' = Older(sincePush, dt, PushSeconds)
      /\ UNCHANGED <<inbox, positions>>

(* OnTimer without a connection: try again or wait, and return. *)
OnTimerOffline(quote) ==
  LET dt == Passed(quote)
  IN  /\ link = "none"
      /\ IF Older(sinceAttempt, dt, ReconnectSeconds) >= ReconnectSeconds
         THEN ConnectBrain(Older(silence, dt, SilenceCap), Behind(quote)) /\ sinceAttempt' = 0
         ELSE /\ silence' = Older(silence, dt, SilenceCap)
              /\ sinceAttempt' = Older(sinceAttempt, dt, ReconnectSeconds)
              /\ UNCHANGED <<link, quiet, refusals>>
      /\ sincePush' = Older(sincePush, dt, PushSeconds)
      /\ UNCHANGED <<inbox, positions>>

HeardAge_NeverReset(quote) == Older(silence, Passed(quote), SilenceCap)

HeardAge_OpenIsAlive(quote) ==
  IF inbox \/ link = "live" THEN 0 ELSE Older(silence, Passed(quote), SilenceCap)

(* DrainSocket notes the time of every line it reads, by the last quote. *)
HeardAge(quote) == IF inbox THEN 0 ELSE Older(silence, Passed(quote), SilenceCap)

(* DrainSocket: an order may open a position, unless this is a dry run. *)
Drained ==
  IF inbox /\ AllowExecution
  THEN {positions} \cup {positions \cup {p} : p \in Own}
  ELSE {positions}

(* FlattenAll walks over every position of the account; the broker may refuse
   some. *)
FlattenAll(held) ==
  \/ positions' = {} /\ UNCHANGED refusals
  \/ /\ refusals < MaxRefusals
     /\ \E kept \in SUBSET held : kept # {} /\ positions' = kept
     /\ refusals' = refusals + 1

SilentTooLong(quote) == HeardAge(quote) > FlattenOnSilenceS

(* OnTimer with a connection: read and reply, push, watchdog.  A send that
   fails closes the socket, and the watchdog still runs in this call. *)
OnTimerOnline(quote) ==
  LET dt == Passed(quote)
      due == Older(sincePush, dt, PushSeconds) >= PushSeconds
  IN
  /\ link # "none"
  /\ inbox' = FALSE
  /\ silence' = HeardAge(quote)
  /\ quiet' = IF inbox THEN Behind(quote) ELSE quiet
  /\ \E held \in Drained :
       IF SilentTooLong(quote)
       THEN FlattenAll(held)
       ELSE positions' = held /\ UNCHANGED refusals
  /\ sincePush' = IF due THEN 0 ELSE Older(sincePush, dt, PushSeconds)
  /\ IF due \/ inbox THEN link' \in SendLine ELSE UNCHANGED link
  /\ sinceAttempt' = Older(sinceAttempt, dt, ReconnectSeconds)

(* A second with a quote or, while the bound allows it, without. *)
OnTimer(quote) ==
  /\ quote \/ lag < MaxQuiet
  /\ lag' = Behind(quote)
  /\ OnTimerOffline(quote) \/ OnTimerOnline(quote)
  /\ mute' = Older(mute, 1, SilenceCap)
  /\ UNCHANGED <<brain, restarts>>

Next ==
  \/ BrainSends \/ BrainChanges \/ OthersTrade
  \/ OnTick \/ OnInit
  \/ \E quote \in BOOLEAN : OnTimer(quote)

Spec == Init /\ [][Next]_vars

(* The terminal calls OnTimer every second, and quotes keep coming. *)
FairSpec == Spec /\ WF_vars(OnTimer(TRUE))

-----------------------------------------------------------------------------
(* Every variable has its type, and nothing waits in a socket that is closed. *)
TypeOK ==
  /\ brain \in {"up", "hung", "down"}
  /\ link \in {"none", "live", "stale", "reset"}
  /\ inbox \in BOOLEAN
  /\ link = "none" => ~inbox
  /\ lag \in 0..MaxQuiet
  /\ silence \in 0..SilenceCap
  /\ sinceAttempt \in 0..ReconnectSeconds
  /\ sincePush \in 0..PushSeconds
  /\ positions \subseteq Own \cup Foreign
  /\ refusals \in 0..MaxRefusals
  /\ restarts \in 0..MaxRestarts
  /\ mute \in 0..SilenceCap
  /\ quiet \in 0..MaxQuiet

(* What the EA takes for silence is the brain's real silence, lengthened by no
   more than the quotes had been missing when the EA last noted the time, across
   gaps in the quotes, lost connections and restarts of either side, until a
   reset may have cost it a line (bridge_ea.mq5:77 and 125). *)
SilenceIsHonest ==
  /\ link = "live" => brain # "down"
  /\ link \in {"live", "stale"} /\ ~inbox => silence <= mute + quiet

(* The account is not flattened while the brain talks and quotes come: unless
   a reset swallowed a line, the brain's silence and the gap in the quotes that
   its last line fell into together exceed FlattenOnSilenceS when FlattenAll
   runs (bridge_ea.mq5:77, 125, 324). *)
FlattenOnlyAfterSilence ==
  [][\A quote \in BOOLEAN :
       link \in {"live", "stale"} /\ OnTimer(quote) /\ SilentTooLong(quote)
         => mute' + quiet > FlattenOnSilenceS]_vars

(* A brain that stays alive is found again, also when the EA still holds the
   connection to its predecessor. *)
Reconnects == <>[](brain # "down") => <>[](link = "live")

(* A brain that hangs for good leaves none of the positions it opened: the
   connection stays, or is made again, and the watchdog closes them. *)
HungBrainFlattened == <>[](brain = "hung") => <>[](positions \cap Own = {})

-----------------------------------------------------------------------------
(* What the configuration and the documents say and the runs refute. *)

(* config.yaml:13: everything is closed once the brain is silent, also when
   its process is gone for good. *)
DeadBrainFlattened == <>[](brain = "down") => <>[](positions \cap Own = {})
=============================================================================
