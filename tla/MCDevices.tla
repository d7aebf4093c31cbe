------------------------------ MODULE MCDevices ------------------------------
(* What the loop drives: the panel, the keys, the dust sensor and its         *)
(* watchdog, the key lights and the broker's session.  A behaviour is of one *)
(* of them; the others stay as they began.  The keys are clean contacts that *)
(* nobody holds while the unit starts, and the clocks of the keys and of the *)
(* watchdog stop before they wrap.                                           *)
EXTENDS DisplayCache

CONSTANTS
  \* ButtonDriver
  Entries, DebounceMs, MiddleLongMs, PowerLongMs, RepeatDelayMs, RepeatMs, KeySteps, MinGap, KeyClock,
  \* DustSensor
  Payloads, Aliases, Endings, FrameSize, Window,
  \* SensorWake
  WatchdogMs, WakeStepGapMs, WakeSteps, WakeClock,
  \* KeyLights
  Patterns, Levels, Blinks, FrameSlots, MaxLate, LightClock,
  \* MqttLink
  ReconnectBaseMs, MaxShift, SuspendAfter, SuspendMs, LinkSteps, LinkClock, MaxOutage, AgeCap

VARIABLES
  device,                                              \* the instance at work
  now_ms, entries, event, finger, since, held, given,
  sent, intact, clean, parser, got, raw, unsampled, average, heard,
  wake_ms, last_rx_ms, wake_step, next_wake_ms, command, quiet,
  light_ms, asked, pattern_, brightness_, blink_ms_, phase_, last_written_, setter, tick, recent, torn,
  link_ms, wifi_ready, session, mqtt_connected, last_reconnect_attempt_ms, connect_fail_streak,
  suspended_until_ms, did, since_attempt, gap, row, waiting, outage

keyVars == <<now_ms, entries, event, finger, since, held, given>>
dustVars == <<sent, intact, clean, parser, got, raw, unsampled, average, heard>>
wakeVars == <<wake_ms, last_rx_ms, wake_step, next_wake_ms, command, quiet>>
lightVars == <<light_ms, asked, pattern_, brightness_, blink_ms_, phase_, last_written_, setter,
               tick, recent, torn>>
linkVars == <<link_ms, wifi_ready, session, mqtt_connected, last_reconnect_attempt_ms,
              connect_fail_streak, suspended_until_ms, did, since_attempt, gap, row, waiting, outage>>
allVars == <<device, vars, keyVars, dustVars, wakeVars, lightVars, linkVars>>

B == INSTANCE ButtonDriver WITH
       TickSteps <- KeySteps, ClockRange <- KeyClock, Bounce <- 0, HeldAtBoot <- {}, Wrap <- FALSE

D == INSTANCE DustSensor

W == INSTANCE SensorWake WITH
       TickSteps <- WakeSteps, ClockRange <- WakeClock, Wrap <- FALSE, now_ms <- wake_ms

K == INSTANCE KeyLights WITH Slots <- FrameSlots, ClockRange <- LightClock, ms <- light_ms

L == INSTANCE MqttLink WITH
       TickSteps <- LinkSteps, ClockRange <- LinkClock, now_ms <- link_ms

ASSUME DevicesInputsOK ==
  B!ButtonInputsOK /\ B!PressesOK /\ D!SensorInputsOK /\ W!WakeTimesOK /\ K!KeyLightInputsOK
  /\ L!LinkInputsOK /\ L!OutagesOK

\* The devices not at work have one initial state.
MCInit ==
  /\ device \in {"panel", "keys", "dust", "wake", "lights", "link"}
  /\ Init /\ B!Init /\ D!Init /\ W!Init /\ K!Init /\ L!Init
  /\ device # "dust" => sent = [v |-> CHOOSE v \in Payloads : TRUE, pos |-> 0]
  /\ device # "panel" => ~setup_mode

Panel == device = "panel" /\ Next
         /\ UNCHANGED <<device, keyVars, dustVars, wakeVars, lightVars, linkVars>>
Buttons == device = "keys" /\ B!Next
           /\ UNCHANGED <<device, vars, dustVars, wakeVars, lightVars, linkVars>>
Dust == device = "dust" /\ D!Next
        /\ UNCHANGED <<device, vars, keyVars, wakeVars, lightVars, linkVars>>
Wake == device = "wake" /\ W!Next
        /\ UNCHANGED <<device, vars, keyVars, dustVars, lightVars, linkVars>>
Lights == device = "lights" /\ K!Next
          /\ UNCHANGED <<device, vars, keyVars, dustVars, wakeVars, linkVars>>
Session == device = "link" /\ L!Next
           /\ UNCHANGED <<device, vars, keyVars, dustVars, wakeVars, lightVars>>

MCNext == Panel \/ Buttons \/ Dust \/ Wake \/ Lights \/ Session

MCSpec == MCInit /\ [][MCNext]_allVars

-----------------------------------------------------------------------------
(* The properties of the devices.                                            *)

\* Every state of every device is of its type.
TypesOK == TypeOK /\ B!TypeOK /\ D!TypeOK /\ W!TypeOK /\ K!TypeOK /\ L!TypeOK
\* ButtonDriver: holds, taps and repeats are what the manual says.
LongPressIsHeld == B!LongPressIsHeld
OneMeaningPerPress == B!OneMeaningPerPress
RepeatIsPaced == B!RepeatIsPaced
HoldIsAnswered == B!HoldIsAnswered
\* DustSensor: damage to the stream costs at most one good frame, the running sum of the
\* average never drifts, and the average is within the readings kept, which the sensor sent.
Resync == D!Resync
AverageOfKept == D!AverageOfKept
\* SensorWake: every silence is answered.
SilenceIsAnswered == W!SilenceIsAnswered
\* KeyLights: a steady frame has the level that was set.
DutyIsLevel == K!DutyIsLevel
\* MqttLink: the backoff is served in real time, and a suspension ends.
BackoffIsServed == L!BackoffIsServed
SuspensionEnds == L!SuspensionEnds
=============================================================================
