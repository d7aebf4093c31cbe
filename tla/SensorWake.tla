----------------------------- MODULE SensorWake -----------------------------
(***************************************************************************)
(* The watchdog of SensorDriver::tick: after WatchdogMs without a byte it  *)
(* sends three wake commands, one per tick and WakeStepGapMs apart, and    *)
(* then waits for bytes again.  Each mark is a uint32_t; the watchdog's    *)
(* difference wraps with millis(), the comparison with next_wake_ms_ does  *)
(* not.  The sensor is the environment: it talks or is silent.             *)
(***************************************************************************)
EXTENDS Integers, FiniteSetsExt

CONSTANTS
  WatchdogMs,      \* kSensorWatchdogMs (10000)
  WakeStepGapMs,   \* kWakeStepGapMs (60)
  TickSteps,       \* how long one pass of the loop may take
  ClockRange,      \* millis() is uint32_t: 2^32
  Wrap             \* TRUE: keep ticking when millis() wraps

WakeTimesOK ==
  /\ {WatchdogMs, WakeStepGapMs} \subseteq Nat \ {0} /\ Wrap \in BOOLEAN
  /\ TickSteps \subseteq Nat \ {0} /\ \E m \in TickSteps : \A dt \in TickSteps : m >= dt
  /\ ClockRange \in Nat /\ ClockRange > WatchdogMs + 3 * WakeStepGapMs + 4 * Max(TickSteps)

VARIABLES
  now_ms, last_rx_ms, wake_step, next_wake_ms,
  command,         \* what the last tick sent: 1 CMD_HPMA_START, 2 CMD_PMS_WAKE,
                   \* 3 CMD_PMS_ACTIVE, 0 nothing
  quiet            \* history: real time since the last byte or third command

vars == <<now_ms, last_rx_ms, wake_step, next_wake_ms, command, quiet>>

\* Mutant: a clock that does not wrap.
LaterUnwrapped(t, d) == t + d
Later(t, d) == (t + d) % ClockRange
Elapsed(t, from) == (t - from) % ClockRange

MaxStep == Max(TickSteps)
\* The silence within which all three commands go out: each step of the sequence
\* may come one tick late.
AnsweredBy == WatchdogMs + 2 * WakeStepGapMs + 4 * MaxStep
Cap == AnsweredBy + 1
Aged(age, dt) == IF age + dt > Cap THEN Cap ELSE age + dt

\* init() marks the time it runs at, shortly after the power came.
Init ==
  /\ now_ms = 0 /\ last_rx_ms = 0
  /\ wake_step = 0 /\ next_wake_ms = 0
  /\ command = 0 /\ quiet = 0

\* Mutant: bytes that arrive during the sequence start the silence again, and
\* the watchdog the sequence.
SilentWithoutStep(t, rx) == Elapsed(t, rx) > WatchdogMs
Silent(t, rx) == Elapsed(t, rx) > WatchdogMs /\ wake_step = 0

Due(t, mark) == t >= mark

\* The next tick, dt later, with or without bytes to read.
TickAfter(dt, talks) ==
  LET t == Later(now_ms, dt)
      rx == IF talks THEN t ELSE last_rx_ms
      step == IF Silent(t, rx) THEN 1 ELSE wake_step
      mark == IF Silent(t, rx) THEN t ELSE next_wake_ms
      sends == step # 0 /\ Due(t, mark)
      ends == sends /\ step = 3
  IN  /\ now_ms' = t
      /\ command' = IF sends THEN step ELSE 0
      /\ wake_step' = IF ends THEN 0 ELSE IF sends THEN step + 1 ELSE step
      /\ next_wake_ms' = IF sends THEN Later(t, WakeStepGapMs) ELSE mark
      /\ last_rx_ms' = IF ends THEN t ELSE rx
      /\ quiet' = IF talks \/ ends THEN 0 ELSE Aged(quiet, dt)

Tick ==
  \E dt \in TickSteps :
    /\ Wrap \/ now_ms + dt + WakeStepGapMs < ClockRange
    /\ \E talks \in BOOLEAN : TickAfter(dt, talks)

Next == Tick

Spec == Init /\ [][Next]_vars

-----------------------------------------------------------------------------
(* Properties.                                                             *)

\* Every mark is a value of millis().
TypeOK ==
  /\ {now_ms, last_rx_ms, next_wake_ms} \subseteq 0 .. ClockRange - 1
  /\ wake_step \in 0 .. 3 /\ command \in 0 .. 3
  /\ quiet \in 0 .. Cap

\* "If no data for 10 seconds (watchdog), sends 3 wake command groups in
\* sequence" (docs/hardware-components-and-interfaces.md:86): no silence lasts
\* longer than it takes to notice it and to send all three.
SilenceIsAnswered == quiet <= AnsweredBy
=============================================================================
