------------------------------ MODULE MqttLink ------------------------------
(***************************************************************************)
(* The session with the broker: MqttClient::tick up to the point where it  *)
(* publishes (PublishQueue has the rest).  Failed attempts back off, the   *)
(* fourth in a row suspends the client, and every mark is a uint32_t       *)
(* compared with a wrapping millis().  The Wi-Fi link, the broker and the  *)
(* session are the environment; while the link is down or Wi-Fi is off the *)
(* marks are kept and nothing looks at them.                               *)
(***************************************************************************)
EXTENDS Integers, FiniteSetsExt

CONSTANTS
  ReconnectBaseMs,   \* kReconnectBaseIntervalMs (3000)
  MaxShift,          \* kReconnectBackoffMaxShift (5)
  SuspendAfter,      \* kSuspendAfterFailStreak (4)
  SuspendMs,         \* kSuspendDurationMs (300000)
  ClockRange,        \* millis() is uint32_t: 2^32
  TickSteps,         \* how long one pass of the loop may take
  MaxOutage,         \* the longest time the link is down
  AgeCap             \* real times are counted up to here

\* The interval before the next attempt, after n failures.
RetryMs(n) == ReconnectBaseMs * 2 ^ n

MaxStep == Max(TickSteps)
MaxRetryMs == RetryMs(SuspendAfter - 1)

\* The backoff doubles up to the suspension and stays below it.
LinkInputsOK ==
  /\ {ReconnectBaseMs, SuspendAfter, SuspendMs, ClockRange} \subseteq Nat \ {0}
  /\ MaxShift \in Nat /\ SuspendAfter <= MaxShift + 1 /\ MaxOutage \in Nat
  /\ TickSteps \subseteq Nat \ {0} /\ \E m \in TickSteps : \A dt \in TickSteps : m >= dt
  /\ \A n \in 0 .. SuspendAfter - 1 : RetryMs(n) \in 1 .. MaxRetryMs
  /\ MaxRetryMs \in 1 .. SuspendMs
  /\ AgeCap \in Nat /\ AgeCap > SuspendMs + MaxOutage + MaxStep
  /\ 2 * SuspendMs < ClockRange

\* The mark of a suspension that is over is looked at until the suspension after it or a
\* success, and every attempt in between may wait for an outage to end: all of
\* them take less than half the clock's range.
OutagesOK == 2 * (SuspendAfter * (MaxRetryMs + MaxOutage + MaxStep)) < ClockRange

VARIABLES
  now_ms,                      \* the loop's millis()
  wifi_ready,                  \* DeviceState::wifi_ready
  session,                     \* client_->isConnected()
  mqtt_connected,              \* DeviceState::mqtt_connected
  last_reconnect_attempt_ms, connect_fail_streak, suspended_until_ms,
  did,                         \* history: what the last pass did
  since_attempt, gap,          \* history: real time since the last attempt, and between
                               \* the last two
  row,                         \* history: failures since a success or a suspension
  waiting,                     \* history: real time the client could have tried and did not
  outage                       \* history: real time the link has been down

marks == <<last_reconnect_attempt_ms, connect_fail_streak, suspended_until_ms>>
vars == <<now_ms, wifi_ready, session, mqtt_connected, marks,
          did, since_attempt, gap, row, waiting, outage>>

\* LaterUnwrapped is a mutant: a clock that does not wrap.
LaterUnwrapped(t, d) == t + d
Later(t, d) == (t + d) % ClockRange
Elapsed(t, from) == (t - from) % ClockRange
\* BeforeUnsigned is a mutant: the two times are compared as they are.
BeforeUnsigned(t, mark) == t < mark
Before(t, mark) == 2 * Elapsed(t, mark) >= ClockRange
Aged(age, d) == IF age + d > AgeCap THEN AgeCap ELSE age + d

\* configure() clears the marks once, at boot.
Init ==
  /\ now_ms = 0
  /\ wifi_ready = FALSE /\ session = FALSE /\ mqtt_connected = FALSE
  /\ last_reconnect_attempt_ms = 0 /\ connect_fail_streak = 0 /\ suspended_until_ms = 0
  /\ did = "nothing"
  /\ since_attempt = 0 /\ gap = 0 /\ row = 0 /\ waiting = 0 /\ outage = 0

\* Between two passes the link and the session may change; a session is only
\* lost here, and no outage lasts longer than MaxOutage.
LinkChanges ==
  /\ wifi_ready' \in BOOLEAN
  /\ session' \in {FALSE, session}
  /\ <<wifi_ready', session'>> # <<wifi_ready, session>>
  /\ did' = "nothing"
  /\ UNCHANGED <<now_ms, mqtt_connected, marks, since_attempt, gap, row, waiting, outage>>

-----------------------------------------------------------------------------
(* MqttClient::tick, by the branch it takes.                               *)

PassStarts(dt) ==
  /\ now_ms' = Later(now_ms, dt)
  /\ UNCHANGED wifi_ready

NotTrying(dt) ==
  /\ since_attempt' = Aged(since_attempt, dt)
  /\ UNCHANGED <<session, gap>>

TickNoWifi(dt) ==
  /\ PassStarts(dt) /\ NotTrying(dt)
  /\ ~wifi_ready
  /\ outage + dt <= MaxOutage /\ outage' = outage + dt
  /\ mqtt_connected' = FALSE
  /\ did' = "no_wifi" /\ waiting' = 0
  /\ UNCHANGED <<marks, row>>

TickConnected(dt) ==
  /\ PassStarts(dt) /\ NotTrying(dt)
  /\ wifi_ready /\ session
  /\ mqtt_connected' = TRUE
  /\ connect_fail_streak' = 0 /\ suspended_until_ms' = 0
  /\ did' = "connected" /\ row' = 0 /\ waiting' = 0 /\ outage' = 0
  /\ UNCHANGED last_reconnect_attempt_ms

Suspended(t) == suspended_until_ms # 0 /\ Before(t, suspended_until_ms)

\* Mutant: no backoff.
RetryAtBase == ReconnectBaseMs

\* The backoff stops doubling at MaxShift; the suspension comes earlier.
RetryIntervalMs ==
  RetryMs(IF connect_fail_streak > MaxShift THEN MaxShift ELSE connect_fail_streak)

MayAttempt(t) ==
  ~Suspended(t) /\ Elapsed(t, last_reconnect_attempt_ms) >= RetryIntervalMs

TickWaits(dt) ==
  /\ PassStarts(dt) /\ NotTrying(dt)
  /\ wifi_ready /\ ~session
  /\ ~MayAttempt(now_ms')
  /\ mqtt_connected' = FALSE
  /\ did' = "waits" /\ waiting' = Aged(waiting, dt) /\ outage' = 0
  /\ UNCHANGED <<marks, row>>

AttemptSucceeds ==
  /\ session' = TRUE
  /\ connect_fail_streak' = 0 /\ suspended_until_ms' = 0
  /\ row' = 0

AttemptFails(t) ==
  /\ session' = FALSE
  /\ row' = (row % SuspendAfter) + 1
  /\ IF connect_fail_streak + 1 >= SuspendAfter
       THEN connect_fail_streak' = 0 /\ suspended_until_ms' = Later(t, SuspendMs)
       ELSE connect_fail_streak' = connect_fail_streak + 1 /\ UNCHANGED suspended_until_ms

\* mqtt_connected follows in the next pass.
TickConnect(dt) ==
  /\ PassStarts(dt)
  /\ wifi_ready /\ ~session
  /\ MayAttempt(now_ms')
  /\ last_reconnect_attempt_ms' = now_ms'
  /\ AttemptSucceeds \/ AttemptFails(now_ms')
  /\ mqtt_connected' = FALSE
  /\ did' = "attempt" /\ gap' = Aged(since_attempt, dt) /\ since_attempt' = 0
  /\ waiting' = 0 /\ outage' = 0

Tick ==
  \E dt \in TickSteps :
    TickNoWifi(dt) \/ TickConnected(dt) \/ TickWaits(dt) \/ TickConnect(dt)

Next == Tick \/ LinkChanges

Spec == Init /\ [][Next]_vars

-----------------------------------------------------------------------------
(* Properties.                                                             *)

Times == 0 .. ClockRange - 1

\* Every mark is a millis() value, and the streak stays below the suspension.
TypeOK ==
  /\ {now_ms, last_reconnect_attempt_ms, suspended_until_ms} \subseteq Times
  /\ wifi_ready \in BOOLEAN /\ session \in BOOLEAN /\ mqtt_connected \in BOOLEAN
  /\ connect_fail_streak \in 0 .. SuspendAfter - 1
  /\ did \in {"nothing", "no_wifi", "connected", "waits", "attempt"}
  /\ {since_attempt, gap, waiting} \subseteq 0 .. AgeCap
  /\ row \in 0 .. SuspendAfter /\ outage \in 0 .. MaxOutage

\* CHANGELOG.md:158, "exponential backoff and temporary suspend after repeated
\* failures": in real time, through link losses and clock wraps, an attempt after n
\* failures comes no sooner than base * 2^n, and after the fourth not before the
\* suspension is over.  A suspension that would end exactly when millis() is 0 is
\* lost, because 0 also means "none".
BackoffIsServed ==
  [][did' = "attempt" =>
       IF row = SuspendAfter THEN suspended_until_ms = 0 \/ gap' >= SuspendMs
       ELSE gap' >= RetryMs(row)]_vars

\* "temporary" (CHANGELOG.md:158): with the link up, the client is never kept from
\* its next attempt for longer than one suspension.
SuspensionEnds == waiting <= SuspendMs + MaxStep
=============================================================================
