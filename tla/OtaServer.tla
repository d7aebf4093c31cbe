----------------------------- MODULE OtaServer -----------------------------
(***************************************************************************)
(* The firmware-update listener (OtaServer) inside the loop that drives    *)
(* it: POST /api/v2/system/update, the ArmUpdate command, tickNetwork's    *)
(* call of OtaServer::tick and the copies it keeps of the lock and of the  *)
(* denied count, the Wi-Fi link that gates the call, and loss of power.    *)
(* The peer is the environment: at each tick it may be gone, have sent     *)
(* part of a line, a malformed line or a well-formed answer.               *)
(***************************************************************************)
EXTENDS Integers

CONSTANTS
  WindowMs,      \* kWindowMs (60000)
  HandshakeMs,   \* kHandshakeMs (500)
  MaxDenied,     \* kMaxDenied (3)
  ClockRange,    \* millis() is uint32_t: 2^32
  CountRange,    \* denied_count_ is uint32_t: 2^32
  TickSteps,     \* how long one pass of the loop may take
  MaxOutage,     \* the longest time OtaServer::tick is not called
  MaxUploads,    \* how many uploads may fail between two boots
  TimeCap        \* ages are counted up to here

ASSUME LimitAssumption ==
  /\ {WindowMs, HandshakeMs, MaxDenied, ClockRange, CountRange} \subseteq Nat \ {0}
  /\ TickSteps \subseteq Nat \ {0}
  /\ MaxOutage \in Nat /\ MaxUploads \in Nat /\ TimeCap \in Nat
\* The signed comparison of the window and the age of a connection are only
\* meaningful while tick is called at least once in half the clock's range.
ASSUME OutageAssumption ==
  /\ 2 * (WindowMs + MaxOutage) < ClockRange /\ HandshakeMs + MaxOutage < ClockRange
  /\ TimeCap > WindowMs + MaxOutage /\ TimeCap > HandshakeMs + MaxOutage

VARIABLES
  pc,                        \* the next function of the loop
  now_ms,                    \* the loop's millis()
  window_until_ms, listening, pending, pending_since_ms, fail_streak, denied_count,
  ota_pass_set,              \* settings_->ota_pass is not empty
  arm_queued,                \* an ArmUpdate command waits in the queue
  dev,                       \* DeviceState: wifi_enabled, wifi_ready, ota_locked, ota_denied_count
  eeprom_denied,             \* the OtaDeniedRecord
  armed_age, pending_age,    \* history: real time since the last arm and the last accept
  untended,                  \* history: real time since OtaServer::tick last ran
  guesses, uploads,          \* history: since boot, the wrong answers and the right
                             \* answers whose upload failed
  ended                      \* history: how the last connection ended

server == <<window_until_ms, listening, pending, pending_since_ms, fail_streak, denied_count>>
history == <<armed_age, pending_age, untended, guesses, uploads, ended>>
vars == <<pc, now_ms, server, ota_pass_set, arm_queued, dev, eeprom_denied, history>>

Locked == fail_streak >= MaxDenied

\* LaterUnwrapped is a mutant: a clock that does not wrap.
LaterUnwrapped(t, d) == t + d
Later(t, d) == (t + d) % ClockRange
Elapsed(t, from) == (t - from) % ClockRange
\* ReachedUnsigned is a mutant: the two times are compared as they are.
ReachedUnsigned(t, mark) == t >= mark
Reached(t, mark) == 2 * Elapsed(t, mark) < ClockRange
Aged(age, d) == IF age + d > TimeCap THEN TimeCap ELSE age + d

BootDevice == [wifi_enabled |-> TRUE, wifi_ready |-> FALSE,
               ota_locked |-> FALSE, ota_denied_count |-> 0]

Init ==
  /\ pc = "drain"
  /\ now_ms = 0
  /\ window_until_ms = 0 /\ pending_since_ms = 0
  /\ listening = FALSE /\ pending = FALSE
  /\ fail_streak = 0 /\ denied_count = 0
  /\ ota_pass_set \in BOOLEAN
  /\ arm_queued = FALSE
  /\ dev = BootDevice
  /\ eeprom_denied = 0
  /\ armed_age = TimeCap /\ pending_age = TimeCap /\ untended = 0
  /\ guesses = 0 /\ uploads = 0 /\ ended = "none"

-----------------------------------------------------------------------------
(* The loop around the listener.                                           *)

Go(next) == pc' = next

\* Mutant: the lock is not asked.
ArmUnlocked(t) ==
  /\ window_until_ms' = Later(t, WindowMs)
  /\ listening' = TRUE /\ armed_age' = 0

\* OtaServer::arm.
Arm(t) ==
  IF Locked THEN UNCHANGED <<window_until_ms, listening, armed_age>>
  ELSE /\ window_until_ms' = Later(t, WindowMs)
       /\ listening' \in {TRUE, listening}   \* server_.begin() may fail
       /\ armed_age' = IF listening' THEN 0 ELSE TimeCap

\* The drain of the command queue.  The code arms at millis(), read again in this
\* drain; the time that passes within one pass of the loop is left out.
ProcessCommands ==
  /\ pc = "drain"
  /\ Go("web")
  /\ arm_queued' = FALSE
  /\ IF arm_queued THEN Arm(now_ms) ELSE UNCHANGED <<window_until_ms, listening, armed_age>>
  /\ UNCHANGED <<now_ms, pending, pending_since_ms, fail_streak, denied_count, ota_pass_set,
                 dev, eeprom_denied, pending_age, untended, guesses, uploads, ended>>

\* A hold of the AirQ key, drained from the queue as well.  Switching off
\* leaves the listener as it is.
ToggleWifi ==
  /\ pc = "drain"
  /\ dev' = [dev EXCEPT !.wifi_enabled = ~@, !.wifi_ready = @ /\ ~dev.wifi_enabled]
  /\ UNCHANGED <<pc, now_ms, server, ota_pass_set, arm_queued, eeprom_denied, history>>

\* POST /api/v2/system/update: 409 without a secret, 423 when locked, else 200.
\* The queue was drained in this tick, so the command always fits.
\* (ReplyUnlocked is a mutant: the lock is not looked at.)
ReplyUnlocked == IF ~ota_pass_set THEN "409" ELSE "200"
Reply == IF ~ota_pass_set THEN "409" ELSE IF dev.ota_locked THEN "423" ELSE "200"
HandleApiSystemUpdate == arm_queued' = (Reply = "200")

TickWeb ==
  /\ pc = "web"
  /\ Go(IF dev.wifi_enabled /\ dev.wifi_ready THEN "ota"
        ELSE IF dev.wifi_enabled THEN "save" ELSE "wifi")
  /\ \/ UNCHANGED arm_queued
     \/ dev.wifi_enabled /\ HandleApiSystemUpdate
  /\ UNCHANGED <<now_ms, server, ota_pass_set, dev, eeprom_denied, history>>

\* Mutant: the count is copied and not stored.
SaveOtaDeniedInRam ==
  /\ pc = "save"
  /\ Go("wifi")
  /\ dev' = [dev EXCEPT !.ota_denied_count = denied_count, !.ota_locked = Locked]
  /\ ended' = "none"
  /\ UNCHANGED <<now_ms, server, ota_pass_set, arm_queued, eeprom_denied, armed_age,
                 pending_age, untended, guesses, uploads>>

\* tickNetwork copies the count and the lock, and saves the count when it moved.
SaveOtaDenied ==
  /\ pc = "save"
  /\ Go("wifi")
  /\ dev' = [dev EXCEPT !.ota_denied_count = denied_count, !.ota_locked = Locked]
  /\ eeprom_denied' = IF dev.ota_denied_count # denied_count THEN denied_count ELSE eeprom_denied
  /\ ended' = "none"
  /\ UNCHANGED <<now_ms, server, ota_pass_set, arm_queued, armed_age, pending_age, untended,
                 guesses, uploads>>

\* WifiManager::tick reads the link, time passes, and the next tick begins.
TickWifi ==
  /\ pc = "wifi"
  /\ Go("drain")
  /\ \E ready \in IF dev.wifi_enabled THEN BOOLEAN ELSE {FALSE}, dt \in TickSteps :
       /\ untended + dt <= MaxOutage
       /\ dev' = [dev EXCEPT !.wifi_ready = ready]
       /\ now_ms' = Later(now_ms, dt)
       /\ armed_age' = Aged(armed_age, dt)
       /\ pending_age' = Aged(pending_age, dt)
       /\ untended' = IF listening THEN untended + dt ELSE 0
  /\ UNCHANGED <<server, ota_pass_set, arm_queued, eeprom_denied, guesses, uploads, ended>>

-----------------------------------------------------------------------------
(* OtaServer::tick.                                                        *)

\* dropPending and close; the listener goes too when it is closed.
Drop(how) ==
  /\ pending' = FALSE
  /\ ended' = how
  /\ pending_age' = TimeCap
  /\ UNCHANGED pending_since_ms

Stop == listening' = FALSE /\ armed_age' = TimeCap
KeepListening == UNCHANGED <<listening, armed_age>>
SameCounts == UNCHANGED <<fail_streak, denied_count, guesses, uploads>>

WindowOver == Reached(now_ms, window_until_ms)

CloseWindow == WindowOver /\ Drop("window") /\ Stop /\ SameCounts

\* Mutant: a new connection inherits the time of the one before.
AcceptClientStale ==
  /\ ~WindowOver
  /\ pending' \in BOOLEAN /\ ended' = "gone"
  /\ pending_age' = (IF pending' THEN 0 ELSE TimeCap)
  /\ UNCHANGED pending_since_ms
  /\ KeepListening /\ SameCounts

\* The pending client is gone (or there was none): take the next, if any, and
\* challenge it.
AcceptClient ==
  /\ ~WindowOver
  /\ \/ Drop("gone")
     \/ /\ pending' = TRUE /\ ended' = "gone"
        /\ pending_since_ms' = now_ms /\ pending_age' = 0
  /\ KeepListening /\ SameCounts

Answered == ~WindowOver /\ pending

\* Mutant: part of a line starts the time again.
AnswerIncompleteExtends ==
  /\ Answered
  /\ pending_since_ms' = now_ms
  /\ UNCHANGED <<pending, pending_age, ended>>
  /\ KeepListening /\ SameCounts

\* Nothing or part of a line has arrived.
AnswerIncomplete ==
  /\ Answered
  /\ IF Elapsed(now_ms, pending_since_ms) >= HandshakeMs
       THEN Drop("timeout")
       ELSE UNCHANGED <<pending, pending_since_ms, pending_age, ended>>
  /\ KeepListening /\ SameCounts

AnswerMalformed == Answered /\ Drop("junk") /\ KeepListening /\ SameCounts

AnswerWrong ==
  /\ Answered
  /\ denied_count' = (denied_count + 1) % CountRange
  /\ fail_streak' = fail_streak + 1
  /\ guesses' = guesses + 1 /\ UNCHANGED uploads
  /\ Drop("denied")
  /\ IF fail_streak' >= MaxDenied THEN Stop ELSE KeepListening

\* judge says Right only when a secret is set.  An upload that succeeds ends in
\* a reset (Restart below); one that fails returns and closes the listener, and the
\* streak of wrong answers has been reset all the same.
AnswerRight ==
  /\ Answered
  /\ ota_pass_set
  /\ uploads < MaxUploads
  /\ fail_streak' = 0 /\ uploads' = uploads + 1
  /\ Drop("ok") /\ Stop
  /\ UNCHANGED <<denied_count, guesses>>

TickOta ==
  /\ pc = "ota"
  /\ Go("save")
  /\ untended' = 0
  /\ \/ /\ ~listening
        /\ UNCHANGED <<pending, pending_since_ms, pending_age, ended>>
        /\ KeepListening /\ SameCounts
     \/ /\ listening
        /\ \/ CloseWindow \/ AcceptClient
           \/ AnswerIncomplete \/ AnswerMalformed \/ AnswerWrong \/ AnswerRight
  /\ UNCHANGED <<now_ms, window_until_ms, ota_pass_set, arm_queued, dev, eeprom_denied>>

-----------------------------------------------------------------------------
(* Loss of power, a reset by command and a successful update: boot loads    *)
(* the denied count from EEPROM; the lock does not survive.                 *)

\* loadOtaDenied.
LoadedDenied == eeprom_denied

Restart ==
  /\ pc' = "drain"
  /\ window_until_ms' = 0 /\ pending_since_ms' = 0
  /\ listening' = FALSE /\ pending' = FALSE
  /\ fail_streak' = 0 /\ denied_count' = LoadedDenied
  /\ arm_queued' = FALSE
  /\ dev' = BootDevice
  /\ now_ms' = 0
  /\ armed_age' = TimeCap /\ pending_age' = TimeCap /\ untended' = 0
  /\ guesses' = 0 /\ uploads' = 0 /\ ended' = "none"
  /\ UNCHANGED <<ota_pass_set, eeprom_denied>>

Next ==
  \/ ProcessCommands \/ ToggleWifi \/ TickWeb \/ TickOta \/ SaveOtaDenied \/ TickWifi
  \/ Restart

Spec == Init /\ [][Next]_vars

-----------------------------------------------------------------------------
(* Properties.                                                             *)

Times == 0 .. ClockRange - 1
Counts == 0 .. CountRange - 1

\* The lock counter never passes its limit and every time is a millis() value.
TypeOK ==
  /\ pc \in {"drain", "web", "ota", "save", "wifi"}
  /\ now_ms \in Times /\ window_until_ms \in Times /\ pending_since_ms \in Times
  /\ listening \in BOOLEAN /\ pending \in BOOLEAN /\ ota_pass_set \in BOOLEAN
  /\ arm_queued \in BOOLEAN
  /\ fail_streak \in 0 .. MaxDenied
  /\ denied_count \in Counts /\ eeprom_denied \in Counts
  /\ dev \in [wifi_enabled : BOOLEAN, wifi_ready : BOOLEAN, ota_locked : BOOLEAN,
              ota_denied_count : Counts]
  /\ armed_age \in 0 .. TimeCap /\ pending_age \in 0 .. TimeCap /\ untended \in 0 .. MaxOutage
  /\ guesses \in Nat /\ uploads \in 0 .. MaxUploads
  /\ ended \in {"none", "window", "gone", "timeout", "junk", "denied", "ok"}

\* docs/interfaces.md:53: three wrong answers close the listener until reboot,
\* whatever windows are armed in between.  The code counts them in a row: each right
\* answer whose upload fails, which only the owner of the secret can give, allows
\* MaxDenied - 1 more before the lock.  No other wrong answer is judged between two
\* boots, and a locked unit does not listen.
ThreeGuesses ==
  /\ guesses <= MaxDenied + uploads * (MaxDenied - 1)
  /\ Locked => ~listening

\* docs/interfaces.md:53: TCP 3232 is open for 60 s after the last request that
\* was carried out.  After each pass of OtaServer::tick the listener is closed if
\* the window is over in real time, through link losses and clock wraps.
WindowCloses == pc = "save" /\ untended = 0 /\ listening => armed_age < WindowMs

\* docs/interfaces.md:53: a connection that stays silent for 500 ms is dropped: it
\* never holds the only slot beyond the pass of the loop that finds it that old.
SilentIsDropped == pc = "save" /\ untended = 0 /\ pending => pending_age < HandshakeMs

\* The converse: nobody is dropped as silent before the 500 ms are over, however
\* long the previous connection lasted.
FullHandshake == [][pc = "ota" /\ ended' = "timeout" => pending_age >= HandshakeMs]_vars

\* docs/interfaces.md:53: once locked, a POST is answered 423 and arms nothing, although
\* the web server sees a copy of the lock that tickNetwork refreshes.
LockIsReported == [][Locked /\ arm_queued' => arm_queued]_vars

\* docs/interfaces.md:53: the count of wrong answers is persisted.  The EEPROM has
\* the count whenever the loop is not between the answer and the save.
DeniedDurable == pc # "save" => eeprom_denied = denied_count
=============================================================================
