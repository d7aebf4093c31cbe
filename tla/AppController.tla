--------------------------- MODULE AppController ---------------------------
(***************************************************************************)
(* The application loop (AppController::tick) and the command plane: the   *)
(* command queue, CommandRouter, the outputs and the two dirty flags.      *)
(* One action is one function the loop calls, pc says which is next; in    *)
(* setup mode the SoftAP HTTP handler enqueues from its own thread between *)
(* any two of them.  Timers (report, filter, publish interval, display     *)
(* reinit, IP overlay) may be due or not at each tick, because what is     *)
(* checked here holds for every timing; PublishQueue has the real times.   *)
(***************************************************************************)
EXTENDS Integers, Sequences

CONSTANTS
  QueueSize,          \* kCommandQueueSize (16)
  CounterRange,       \* the drop counters are uint32_t: 2^32
  Uint16Range,        \* ring_blink_ms is uint16_t: 2^16
  MaxBlinkMs,         \* the longest blink period parseCommand accepts (10000)
  MaxFilterDays,      \* the longest filter life parseCommand accepts (3650)
  MinutesPerDay,      \* 1440
  FilterTickMinutes,  \* kFilterTickMinutes (10)
  CellRange,          \* an EEPROM cell is a byte: 2^8
  ButtonCommands,     \* what ButtonDriver::poll can hand over
  MqttCommands,       \* what MqttClient::parseCommand can produce
  ControlPosts,       \* the command batches of POST /api/v2/control
  SystemPosts,        \* the commands of POST /api/v2/system/...
  SsidPosts,          \* whether POST /api/v2/settings may leave an SSID stored or not
  MqttBurst,          \* messages one client_->loop() call may deliver
  PmReadings,         \* values the moving average may report
  WifiReadings,       \* values WiFi.ready() may return
  ListenReadings      \* values WiFi.listening() may return in station mode

Sources == {"Button", "Mqtt", "Web"}

CommandTypes ==
  {"SetFanPercent", "AdjustFanPercent", "SetLights", "SetScreenLight",
   "ToggleLights", "SetRing", "SetRingBrightness", "SetRingBlink",
   "SetStatusLed", "SetFilterDays", "TogglePower", "ToggleWifi",
   "ResetWifiSettings", "Reboot", "EnterDfu", "ArmUpdate"}

Command == [type : CommandTypes, value : Int, source : Sources]

\* The ranges parseCommand and the HTTP handlers accept before they enqueue.
AcceptedValue(cmd) ==
  CASE cmd.type = "SetFanPercent" -> cmd.value \in 0 .. 100
    [] cmd.type = "SetRing" -> cmd.value \in 0 .. 255
    [] cmd.type = "SetRingBrightness" -> cmd.value \in 0 .. 100
    [] cmd.type = "SetRingBlink" -> cmd.value \in 0 .. MaxBlinkMs
    [] cmd.type = "SetFilterDays" -> cmd.value \in 0 .. MaxFilterDays
    [] cmd.type \in {"SetLights", "SetScreenLight", "SetStatusLed"} -> cmd.value \in {0, 1}
    [] OTHER -> TRUE

Accepted(cmd, source) == cmd \in Command /\ cmd.source = source /\ AcceptedValue(cmd)

ASSUME QueueAssumption == QueueSize \in Nat /\ QueueSize >= 4
ASSUME NumberAssumption ==
  /\ CounterRange \in Nat /\ Uint16Range \in Nat \ {0}
  /\ CounterRange > 3   \* more than the longest batch, so that a refused one shows
  /\ CellRange \in Nat \ {0, 1}
  /\ MaxBlinkMs \in Nat /\ MaxFilterDays \in Nat
  /\ MinutesPerDay \in Nat /\ FilterTickMinutes \in Nat /\ MqttBurst \in Nat
  /\ PmReadings \subseteq Nat /\ 0 \in PmReadings
  /\ SsidPosts \subseteq BOOLEAN /\ WifiReadings \subseteq BOOLEAN /\ ListenReadings \subseteq BOOLEAN
ASSUME CommandAssumption ==
  /\ \A cmd \in ButtonCommands : Accepted(cmd, "Button")
  /\ \A cmd \in MqttCommands : Accepted(cmd, "Mqtt")
  /\ \A cmd \in SystemPosts : Accepted(cmd, "Web")
  /\ \A batch \in ControlPosts :
       /\ batch \in Seq(Command) /\ Len(batch) \in 1 .. 3
       /\ \A i \in DOMAIN batch : Accepted(batch[i], "Web")

VARIABLES
  pc,                       \* the next function of the tick, or reset / dfu
  dev,                      \* state_, the DeviceState
  queue,                    \* the command queue, oldest first (RingQueue has the slots)
  drops,                    \* command_drop_*_count
  burst,                    \* messages delivered by this client_->loop()
  setup_mode,               \* setup_mode_
  web_started,              \* web_.begin() was called
  display_reinit_pending,   \* display_reinit_pending_
  ip_timer,                 \* wifi_ip_visible_until_ms_ > 0
  applied,                  \* last_applied_* and force_apply_lights_
  hw,                       \* what the drivers were told: PWM, backlight, LEDs
  panel,                    \* the screen on the TFT, and whether its fields are current
  broker_behind,            \* a published field changed since the last burst
  eeprom,                   \* the filter record and whether an SSID is stored
  lastFan, screenWish,      \* history: the last non-zero fan speed, and {v} while
                            \* SetScreenLight v is this tick's last word on the light
  filterBefore              \* history: the filter record as the save under way found
                            \* it; the record itself when none is

loopVars == <<setup_mode, web_started, display_reinit_pending, ip_timer>>
outVars == <<applied, hw, panel>>
history == <<lastFan, screenWish, filterBefore>>
vars == <<pc, dev, queue, drops, burst, loopVars, outVars, broker_behind, eeprom, history>>

Capacity == QueueSize - 1

\* The queue as its callers may rely on it; RingQueue!ImplementsFifo is the
\* link to the slots and indices.
Q == INSTANCE BoundedFifo WITH items <- queue, Item <- Command, Batches <- ControlPosts

-----------------------------------------------------------------------------
(* CommandRouter::apply, as functions of the device state.                 *)

\* Mutant: no upper limit.
ClampLowOnly(v) == IF v < 0 THEN 0 ELSE v

ClampPercent(v) == IF v < 0 THEN 0 ELSE IF v > 100 THEN 100 ELSE v

\* Mutants: one of the two flags is forgotten.
TouchedPublishOnly(s) == [s EXCEPT !.dirty_publish = TRUE]
TouchedDisplayOnly(s) == [s EXCEPT !.dirty_display = TRUE]

Touched(s) == [s EXCEPT !.dirty_display = TRUE, !.dirty_publish = TRUE]

SetFanPercent(s, fan) ==
  [s EXCEPT !.fan_percent = fan,
            !.saved_fan_percent = IF fan > 0 THEN fan ELSE @,
            !.lights_on = fan > 0]

\* Mutant: an adjustment is not remembered.
AdjustUnsaved(s, delta) ==
  LET fan == ClampPercent(s.fan_percent + delta)
  IN  [s EXCEPT !.fan_percent = fan, !.lights_on = fan > 0 /\ @]

\* The first step up from a standing fan lands on 5 whatever the step is, and
\* is the only adjustment that turns the lights on.
AdjustFanPercent(s, delta) ==
  LET waking == s.fan_percent = 0 /\ delta > 0
      fan == ClampPercent(IF waking THEN 5 ELSE s.fan_percent + delta)
  IN  [s EXCEPT !.fan_percent = fan,
                !.saved_fan_percent = IF fan > 0 THEN fan ELSE @,
                !.lights_on = fan > 0 /\ (waking \/ @)]

TogglePower(s) ==
  LET restored == IF s.saved_fan_percent < 10 THEN 10 ELSE s.saved_fan_percent
  IN  IF s.fan_percent > 0
        THEN [s EXCEPT !.saved_fan_percent = s.fan_percent, !.fan_percent = 0, !.lights_on = FALSE]
        ELSE [s EXCEPT !.saved_fan_percent = restored, !.fan_percent = restored, !.lights_on = TRUE]

RoutedTypes == {"SetFanPercent", "AdjustFanPercent", "SetLights", "ToggleLights", "TogglePower"}

RouterApply(cmd, s) ==
  Touched(CASE cmd.type = "SetFanPercent" -> SetFanPercent(s, ClampPercent(cmd.value))
            [] cmd.type = "AdjustFanPercent" -> AdjustFanPercent(s, cmd.value)
            [] cmd.type = "SetLights" -> [s EXCEPT !.lights_on = cmd.value # 0]
            [] cmd.type = "ToggleLights" -> [s EXCEPT !.lights_on = ~@]
            [] cmd.type = "TogglePower" -> TogglePower(s))

\* The settings AppController::applyCommand changes itself; all are published.
DirectTypes == {"SetRing", "SetRingBrightness", "SetRingBlink", "SetStatusLed"}

DirectApply(cmd, s) ==
  CASE cmd.type = "SetRing" ->
         [s EXCEPT !.ring_pattern = cmd.value % 256, !.dirty_publish = TRUE]
    [] cmd.type = "SetRingBrightness" ->
         [s EXCEPT !.ring_brightness = (cmd.value * 4 + 50) \div 100, !.dirty_publish = TRUE]
    [] cmd.type = "SetRingBlink" ->
         [s EXCEPT !.ring_blink_ms = cmd.value % Uint16Range, !.dirty_publish = TRUE]
    [] cmd.type = "SetStatusLed" ->
         [s EXCEPT !.status_led_on = cmd.value # 0, !.dirty_publish = TRUE]

-----------------------------------------------------------------------------
(* The filter record in EEPROM: the magic and the countdown, cell by cell.  *)
(* The first cell stands for the four of the magic: any value but           *)
(* FilterMagic reads as no record.                                          *)

FilterCells == 1 .. 5
FilterRecords == [FilterCells -> Nat]
FilterMagic == 0

\* An erased EEPROM reads as 0xFF everywhere.
ErasedRecord == [c \in FilterCells |-> CellRange - 1]

\* The bytes of the record that saveFilterState puts, the lowest first.
FilterRecord(minutes) ==
  LET upper == minutes \div CellRange
      top == upper \div CellRange
  IN  <<FilterMagic, minutes % CellRange, upper % CellRange, top % CellRange, top \div CellRange>>

\* loadFilterState.
LoadedFilter(rec) ==
  IF rec[1] = FilterMagic
    THEN rec[2] + CellRange * (rec[3] + CellRange * (rec[4] + CellRange * rec[5]))
    ELSE 0

\* EEPROM.put, called by saveFilterState, is under way.  The phases say who called it.
SavingFrom == [drain |-> "drain_save", drain_button |-> "drain_button_save",
               filter |-> "filter_save"]
SavingFilter == pc \in {"drain_save", "drain_button_save", "filter_save"}
AfterSave == [drain_save |-> "drain", drain_button_save |-> "drain_button",
              filter_save |-> "publish"]

-----------------------------------------------------------------------------
(* What leaves the controller: the publish burst and the rendered screen.  *)

PublishedFields == {"fan_percent", "lights_on", "ring_pattern", "ring_brightness",
                    "ring_blink_ms", "status_led_on", "pm_smooth", "filter_minutes"}
DrawnFields == {"fan_percent", "pm_smooth", "wifi_enabled", "wifi_ready"}

StateBurst(s) == [f \in PublishedFields |-> s[f]]
DrawnState(s) == [f \in DrawnFields |-> s[f]]

\* applyOutputs draws the setup screen or the main screen; the main screen is
\* left alone while the lights are off.
Rendered(s, setup, listening, before) ==
  IF setup \/ (s.wifi_enabled /\ listening) THEN [before EXCEPT !.screen = "setup"]
  ELSE IF s.lights_on THEN [screen |-> "main", current |-> TRUE]
  ELSE before

KeyRegisters(s) == <<s.ring_pattern, s.ring_brightness, s.ring_blink_ms>>

-----------------------------------------------------------------------------
(* The command queue and its three producers.                              *)

Go(next) == pc' = next

RecordDrops(source, n) ==
  drops' = [drops EXCEPT ![source] = (@ + n) % CounterRange]

EnqueueCommand(cmd) ==
  \/ Q!Put(<<cmd>>) /\ UNCHANGED drops
  \/ Len(queue) = Capacity /\ RecordDrops(cmd.source, 1) /\ UNCHANGED queue

\* All or nothing; every command of a refused batch is counted.
EnqueueCommands(cmds) ==
  \/ Q!Put(cmds) /\ UNCHANGED drops
  \/ /\ Len(cmds) > Capacity - Len(queue)
     /\ RecordDrops(cmds[1].source, Len(cmds))
     /\ UNCHANGED queue

\* dev becomes s: what the broker was told and what the panel shows may now be
\* out of date.
SetDevice(s) ==
  /\ dev' = s
  /\ broker_behind' = (broker_behind \/ StateBurst(s) # StateBurst(dev))
  /\ panel' = [panel EXCEPT !.current = @ /\ DrawnState(s) = DrawnState(dev)]

-----------------------------------------------------------------------------
(* AppController::applyCommand, for the command just popped.               *)

ApplySetting(cmd) ==
  /\ cmd.type \in DirectTypes
  /\ SetDevice(DirectApply(cmd, dev))
  /\ UNCHANGED <<eeprom, applied, hw, history>>

\* saveFilterState is called: the cells follow one at a time (WriteFilterCell).
SaveFilterState == Go(SavingFrom[pc]) /\ filterBefore' = eeprom.filter

\* The countdown is set, then saved; dirty_publish follows the save.
ApplyFilterDays(cmd) ==
  /\ cmd.type = "SetFilterDays"
  /\ SetDevice([dev EXCEPT !.filter_minutes = cmd.value * MinutesPerDay])
  /\ SaveFilterState
  /\ UNCHANGED <<eeprom, applied, hw, lastFan, screenWish>>

\* Arming changes OtaServer only.
ApplyArmUpdate(cmd) ==
  /\ cmd.type = "ArmUpdate"
  /\ UNCHANGED <<dev, broker_behind, outVars, eeprom, history>>

\* Mutant: the backlight is driven and state_ not told.
ApplyScreenLightUnrecorded(cmd) ==
  /\ cmd.type = "SetScreenLight"
  /\ hw' = [hw EXCEPT !.backlight = cmd.value # 0]
  /\ screenWish' = {cmd.value # 0}
  /\ UNCHANGED <<dev, broker_behind, panel, applied, eeprom, lastFan, filterBefore>>

ApplyScreenLight(cmd) ==
  /\ cmd.type = "SetScreenLight"
  /\ hw' = [hw EXCEPT !.backlight = cmd.value # 0]
  /\ SetDevice([dev EXCEPT !.screen_light_on = cmd.value # 0])
  /\ screenWish' = {cmd.value # 0}
  /\ UNCHANGED <<applied, eeprom, lastFan, filterBefore>>

\* Switching off drops the link at once and shows the overlay; switching on
\* leaves wifi_ready to the next WifiManager tick, and web_.begin() is called
\* in station mode only.
ApplyToggleWifi(cmd) ==
  /\ cmd.type = "ToggleWifi"
  /\ SetDevice([Touched(dev) EXCEPT !.wifi_enabled = ~@,
                                    !.wifi_ready = @ /\ ~dev.wifi_enabled])
  /\ ip_timer' = (ip_timer \/ dev.wifi_enabled)
  /\ web_started' = (web_started \/ (~dev.wifi_enabled /\ ~setup_mode))
  /\ UNCHANGED <<applied, hw, eeprom, history>>

ApplyRouted(cmd) ==
  /\ cmd.type \in RoutedTypes
  /\ SetDevice(RouterApply(cmd, dev))
  /\ applied' = [applied EXCEPT !.force = @ \/ cmd.type = "SetLights"]
  /\ lastFan' = IF dev'.fan_percent > 0 THEN dev'.fan_percent ELSE lastFan
  /\ screenWish' = IF cmd.type = "SetLights" \/ dev'.lights_on # dev.lights_on
                     THEN {} ELSE screenWish
  /\ UNCHANGED <<hw, eeprom, filterBefore>>

\* The commands after which the loop goes on.
ApplyCommand(cmd) ==
  \/ /\ \/ ApplySetting(cmd)
        \/ ApplyArmUpdate(cmd)
        \/ ApplyScreenLight(cmd)
        \/ ApplyRouted(cmd)
     /\ UNCHANGED <<pc, web_started, ip_timer>>
  \/ ApplyFilterDays(cmd) /\ UNCHANGED <<web_started, ip_timer>>
  \/ ApplyToggleWifi(cmd) /\ UNCHANGED pc

-----------------------------------------------------------------------------
(* Boot: initDeviceState, loadFilterState and init().                      *)

BootDevice(minutes) ==
  [fan_percent |-> 25, saved_fan_percent |-> 25,
   lights_on |-> TRUE, screen_light_on |-> TRUE,
   ring_pattern |-> 0, ring_brightness |-> 4, ring_blink_ms |-> 0,
   status_led_on |-> FALSE, filter_minutes |-> minutes, pm_smooth |-> 0,
   wifi_enabled |-> TRUE, wifi_ready |-> FALSE,
   dirty_display |-> TRUE, dirty_publish |-> TRUE]

UnappliedOutputs == [fan |-> -1, lights |-> FALSE, led |-> FALSE, force |-> FALSE]
DriversAtBoot == [duty |-> 0, backlight |-> TRUE, keys |-> <<0, 4, 0>>, led |-> FALSE]
PanelAtBoot(setup) == [screen |-> IF setup THEN "setup" ELSE "blank", current |-> FALSE]

\* The drivers are only told what changed; a SetLights command forces the
\* backlight even when lights_on kept its value.
OutputsApplied(s, setup, listening, done, drivers, before) ==
  LET relight == done.force \/ s.lights_on # done.lights
      lit == [s EXCEPT !.screen_light_on = IF relight THEN s.lights_on ELSE @]
  IN  [dev |-> [lit EXCEPT !.dirty_display = FALSE],
       applied |-> [fan |-> s.fan_percent, lights |-> s.lights_on, force |-> FALSE,
                    led |-> IF setup THEN done.led ELSE s.status_led_on],
       hw |-> [duty |-> IF s.fan_percent # done.fan THEN s.fan_percent ELSE drivers.duty,
               backlight |-> IF relight THEN s.lights_on ELSE drivers.backlight,
               keys |-> KeyRegisters(s),
               led |-> IF ~setup /\ s.status_led_on # done.led
                         THEN s.status_led_on ELSE drivers.led],
       panel |-> IF s.dirty_display THEN Rendered(lit, setup, listening, before) ELSE before]

\* init(): setup mode exactly when no SSID is stored; applyOutputs runs once.
InitOutputs(stored, listening) ==
  OutputsApplied(BootDevice(LoadedFilter(stored.filter)), ~stored.ssid_set, listening,
                 UnappliedOutputs, DriversAtBoot, PanelAtBoot(~stored.ssid_set))

\* A reset: everything but the EEPROM starts afresh.
Restart(stored) ==
  /\ \E listening \in ListenReadings :
       LET after == InitOutputs(stored, listening)
       IN  /\ dev' = after.dev
           /\ applied' = after.applied
           /\ hw' = after.hw
           /\ panel' = after.panel
  /\ eeprom' = stored
  /\ Go("serial")
  /\ queue' = <<>>
  /\ drops' = [s \in Sources |-> 0]
  /\ burst' = 0
  /\ setup_mode' = ~stored.ssid_set
  /\ web_started' = stored.ssid_set
  /\ display_reinit_pending' = TRUE
  /\ ip_timer' = FALSE
  /\ broker_behind' = TRUE
  /\ lastFan' = 25
  /\ screenWish' = {}
  /\ filterBefore' = stored.filter

\* The commands that end the run: the SSID is cleared in EEPROM before the
\* reset, Reboot resets, EnterDfu leaves the application.
EndingCommand(cmd) ==
  \/ cmd.type = "ResetWifiSettings" /\ Restart([eeprom EXCEPT !.ssid_set = FALSE])
  \/ cmd.type = "Reboot" /\ Restart(eeprom)
  \/ /\ cmd.type = "EnterDfu"
     /\ Go("dfu")
     /\ Q!Get
     /\ UNCHANGED <<dev, drops, burst, loopVars, outVars, broker_behind, eeprom, history>>

-----------------------------------------------------------------------------
(* The tick, one action per function it calls.                             *)

\* In setup mode a complete PROV line that passes every check stores the
\* settings and resets; anything else only answers on the port.
TickSerialProvision ==
  /\ pc = "serial"
  /\ \/ /\ Go("display")
        /\ UNCHANGED <<dev, queue, drops, burst, loopVars, outVars, broker_behind, eeprom, history>>
     \/ setup_mode /\ Restart([eeprom EXCEPT !.ssid_set = TRUE])

\* The panel is initialised a second time 2.5 s after boot, which blanks it.
TickDisplay ==
  /\ pc = "display"
  /\ Go("drain")
  /\ screenWish' = {}
  /\ \/ UNCHANGED <<dev, display_reinit_pending, panel>>
     \/ /\ display_reinit_pending
        /\ display_reinit_pending' = FALSE
        /\ panel' = [screen |-> IF ~dev.lights_on THEN "blank"
                               ELSE IF setup_mode THEN "setup" ELSE "connecting",
                     current |-> FALSE]
        /\ dev' = [dev EXCEPT !.dirty_display = TRUE]
  /\ UNCHANGED <<queue, drops, burst, setup_mode, web_started, ip_timer, applied, hw,
                 broker_behind, eeprom, lastFan, filterBefore>>

\* processCommands: pop and apply until the queue is empty.
ProcessCommand ==
  /\ pc \in {"drain", "drain_button"}
  /\ queue # <<>>
  /\ \/ EndingCommand(Head(queue))
     \/ /\ Q!Get
        /\ ApplyCommand(Head(queue))
        /\ UNCHANGED <<drops, burst, setup_mode, display_reinit_pending>>

\* Mutant: the drain stops with commands left.
ProcessCommandsEarly ==
  /\ pc \in {"drain", "drain_button"}
  /\ Go(IF pc = "drain" THEN "poll" ELSE "web")
  /\ UNCHANGED <<dev, queue, drops, burst, loopVars, outVars, broker_behind, eeprom, history>>

ProcessCommandsDone ==
  /\ pc \in {"drain", "drain_button"}
  /\ queue = <<>>
  /\ Go(IF pc = "drain" THEN "poll" ELSE "web")
  /\ UNCHANGED <<dev, queue, drops, burst, loopVars, outVars, broker_behind, eeprom, history>>

\* A button command is applied in the same tick when it could be enqueued.
PollButtons ==
  /\ pc = "poll"
  /\ \/ Go("web") /\ UNCHANGED <<queue, drops>>
     \/ \E cmd \in ButtonCommands :
          EnqueueCommand(cmd) /\ Go(IF Len(queue) = Capacity THEN "web" ELSE "drain_button")
  /\ UNCHANGED <<dev, burst, loopVars, outVars, broker_behind, eeprom, history>>

\* The web API, one request: what a malformed or a reading request answers changes
\* nothing here, and the handlers turn the rest into commands or stored settings.
HandleApiControlPost == \E cmds \in ControlPosts : EnqueueCommands(cmds) /\ UNCHANGED eeprom

HandleApiSystemPost == \E cmd \in SystemPosts : EnqueueCommand(cmd) /\ UNCHANGED eeprom

HandleApiSettingsPost ==
  \E stored \in SsidPosts :
    eeprom' = [eeprom EXCEPT !.ssid_set = stored] /\ UNCHANGED <<queue, drops>>

HandleClient ==
  \/ UNCHANGED <<queue, drops, eeprom>>
  \/ HandleApiControlPost \/ HandleApiSystemPost \/ HandleApiSettingsPost

\* web_.tick() serves at most one request.  In setup mode the server starts
\* with the first tick that finds the station link up.
TickWeb ==
  /\ pc = "web"
  /\ Go("wifi")
  /\ web_started' = (web_started \/ (setup_mode /\ dev.wifi_enabled /\ dev.wifi_ready))
  /\ IF dev.wifi_enabled /\ web_started' THEN HandleClient
                                        ELSE UNCHANGED <<queue, drops, eeprom>>
  /\ UNCHANGED <<dev, burst, setup_mode, display_reinit_pending, ip_timer, outVars,
                 broker_behind, history>>

\* The link state, the IP overlay and the dirty flags they set; the MQTT client's
\* tick, which the code puts between them, changes none of it.  A link edge starts
\* the overlay's timer, which may be over at once when millis() wraps.
TickWifi ==
  /\ pc = "wifi"
  /\ Go("mqtt")
  /\ burst' = 0
  /\ \E ready \in IF dev.wifi_enabled THEN WifiReadings ELSE {FALSE},
        shown \in BOOLEAN :
       LET edge == ready # dev.wifi_ready
           changed == edge \/ shown # ip_timer
       IN  /\ shown => edge \/ ip_timer
           /\ ip_timer' = shown
           /\ SetDevice([dev EXCEPT !.wifi_ready = ready,
                                    !.dirty_display = @ \/ changed,
                                    !.dirty_publish = @ \/ changed])
  /\ UNCHANGED <<queue, drops, setup_mode, web_started, display_reinit_pending, applied, hw,
                 eeprom, history>>

\* client_->loop() runs onMessage for what the broker delivered.
TickMqtt ==
  /\ pc = "mqtt"
  /\ \/ Go("report") /\ UNCHANGED <<queue, drops, burst>>
     \/ /\ ~setup_mode /\ dev.wifi_enabled /\ dev.wifi_ready
        /\ burst < MqttBurst
        /\ burst' = burst + 1
        /\ \E cmd \in MqttCommands : EnqueueCommand(cmd)
        /\ UNCHANGED pc
  /\ UNCHANGED <<dev, loopVars, outVars, broker_behind, eeprom, history>>

TickReport ==
  /\ pc = "report"
  /\ Go("filter")
  /\ \/ UNCHANGED <<dev, broker_behind, panel>>
     \/ \E pm \in PmReadings : SetDevice([Touched(dev) EXCEPT !.pm_smooth = pm])
  /\ UNCHANGED <<queue, drops, burst, loopVars, applied, hw, eeprom, history>>

\* Mutant: saveFilterState is not called.
TickFilterUnsaved ==
  /\ pc = "filter"
  /\ Go("publish")
  /\ \/ UNCHANGED <<dev, broker_behind, panel>>
     \/ /\ dev.filter_minutes # 0
        /\ SetDevice([dev EXCEPT !.dirty_publish = TRUE,
                                 !.filter_minutes = IF @ > FilterTickMinutes
                                                      THEN @ - FilterTickMinutes ELSE 0])
  /\ UNCHANGED <<queue, drops, burst, loopVars, applied, hw, eeprom, history>>

\* The countdown is lowered, then saved; dirty_publish follows the save.
TickFilter ==
  /\ pc = "filter"
  /\ \/ Go("publish") /\ UNCHANGED <<dev, broker_behind, panel, filterBefore>>
     \/ /\ dev.filter_minutes # 0
        /\ SetDevice([dev EXCEPT !.filter_minutes = IF @ > FilterTickMinutes
                                                      THEN @ - FilterTickMinutes ELSE 0])
        /\ SaveFilterState
  /\ UNCHANGED <<queue, drops, burst, loopVars, applied, hw, eeprom, lastFan, screenWish>>

\* EEPROM.put writes a cell that differs.  Device OS says nothing of the order.
WriteFilterCell ==
  /\ SavingFilter
  /\ \E c \in FilterCells :
       LET new == FilterRecord(dev.filter_minutes)[c]
       IN  eeprom.filter[c] # new /\ eeprom' = [eeprom EXCEPT !.filter[c] = new]
  /\ UNCHANGED <<pc, dev, queue, drops, burst, loopVars, outVars, broker_behind, history>>

\* EEPROM.put returns, and what called saveFilterState goes on.
FilterSaved ==
  /\ SavingFilter
  /\ eeprom.filter = FilterRecord(dev.filter_minutes)
  /\ Go(AfterSave[pc])
  /\ dev' = [dev EXCEPT !.dirty_publish = TRUE]
  /\ filterBefore' = eeprom.filter
  /\ UNCHANGED <<queue, drops, burst, loopVars, outVars, broker_behind, eeprom, lastFan,
                 screenWish>>

\* At most one burst per kStatePublishMinIntervalMs: a dirty state may wait.
QueueStatePublish ==
  /\ pc = "publish"
  /\ Go("outputs")
  /\ \/ UNCHANGED <<dev, broker_behind>>
     \/ /\ dev.dirty_publish
        /\ broker_behind' = FALSE
        /\ dev' = [dev EXCEPT !.dirty_publish = FALSE]
  /\ UNCHANGED <<queue, drops, burst, loopVars, outVars, eeprom, history>>

ApplyOutputs ==
  /\ pc = "outputs"
  /\ Go("serial")
  /\ \E listening \in ListenReadings :
       LET after == OutputsApplied(dev, setup_mode, listening, applied, hw, panel)
       IN  /\ dev' = after.dev
           /\ applied' = after.applied
           /\ hw' = after.hw
           /\ panel' = after.panel
  /\ UNCHANGED <<queue, drops, burst, loopVars, broker_behind, eeprom, history>>

-----------------------------------------------------------------------------
(* Loss of power, and the thread of the SoftAP HTTP server.                *)

Init ==
  /\ eeprom \in [filter : {ErasedRecord}, ssid_set : BOOLEAN]
  /\ \E listening \in ListenReadings :
       LET after == InitOutputs(eeprom, listening)
       IN  /\ dev = after.dev
           /\ applied = after.applied
           /\ hw = after.hw
           /\ panel = after.panel
  /\ pc = "serial"
  /\ Q!Init
  /\ drops = [s \in Sources |-> 0]
  /\ burst = 0
  /\ setup_mode = ~eeprom.ssid_set
  /\ web_started = eeprom.ssid_set
  /\ display_reinit_pending = TRUE
  /\ ip_timer = FALSE
  /\ broker_behind = TRUE
  /\ lastFan = 25
  /\ screenWish = {}
  /\ filterBefore = eeprom.filter

\* Power can go at any point; a unit in DFU mode waits for it (or for the host).
PowerLoss == Restart(eeprom)

\* The SoftAP is up in setup mode, and when Device OS enters listening mode by
\* itself (its SETUP button).
SoftApUp == setup_mode \/ TRUE \in ListenReadings

\* GET /save on the SoftAP page: store the SSID, then ask the loop to reboot.
\* Here the whole handler is one step; SoftApQueue takes it apart.
SoftApSave ==
  /\ SoftApUp /\ pc # "dfu"
  /\ eeprom' = [eeprom EXCEPT !.ssid_set = TRUE]
  /\ EnqueueCommand([type |-> "Reboot", value |-> 0, source |-> "Web"])
  /\ UNCHANGED <<pc, dev, burst, loopVars, outVars, broker_behind, history>>

Tick ==
  \/ TickSerialProvision
  \/ TickDisplay
  \/ ProcessCommand
  \/ ProcessCommandsDone
  \/ PollButtons
  \/ TickWeb
  \/ TickWifi
  \/ TickMqtt
  \/ TickReport
  \/ TickFilter \/ WriteFilterCell \/ FilterSaved
  \/ QueueStatePublish
  \/ ApplyOutputs

Next == Tick \/ PowerLoss \/ SoftApSave

Spec == Init /\ [][Next]_vars

\* SYSTEM_THREAD(ENABLED): the application thread always runs its loop again,
\* whatever the system thread does.
FairSpec == Spec /\ WF_vars(Tick)

-----------------------------------------------------------------------------
(* Properties.                                                             *)

Phases == {"serial", "display", "drain", "poll", "drain_button", "web", "wifi", "mqtt",
           "report", "filter", "publish", "outputs", "dfu",
           "drain_save", "drain_button_save", "filter_save"}

\* The fields of DeviceState, with the ranges the rest of the firmware counts on:
\* a ring level the PWM tables have, percentages that are percentages, and a
\* remembered fan speed that is never zero.
DeviceFields ==
  {"fan_percent", "saved_fan_percent", "lights_on", "screen_light_on", "ring_pattern",
   "ring_brightness", "ring_blink_ms", "status_led_on", "filter_minutes", "pm_smooth",
   "wifi_enabled", "wifi_ready", "dirty_display", "dirty_publish"}

IsDevice(s) ==
  /\ DOMAIN s = DeviceFields
  /\ s.fan_percent \in 0 .. 100 /\ s.saved_fan_percent \in 1 .. 100
  /\ s.lights_on \in BOOLEAN /\ s.screen_light_on \in BOOLEAN
  /\ s.ring_pattern \in 0 .. 255 /\ s.ring_brightness \in 0 .. 4
  /\ s.ring_blink_ms \in 0 .. Uint16Range - 1
  /\ s.status_led_on \in BOOLEAN
  /\ s.filter_minutes \in Nat /\ s.pm_smooth \in PmReadings
  /\ s.wifi_enabled \in BOOLEAN /\ s.wifi_ready \in BOOLEAN
  /\ s.dirty_display \in BOOLEAN /\ s.dirty_publish \in BOOLEAN

AcceptedCommand == {cmd \in Command : AcceptedValue(cmd)}

\* Types of the controller's state.  The queue only ever holds commands whose
\* value was accepted, which is what keeps the device state in its ranges.
TypeOK ==
  /\ pc \in Phases
  /\ IsDevice(dev)
  /\ queue \in Seq(AcceptedCommand) /\ Len(queue) <= Capacity
  /\ drops \in [Sources -> 0 .. CounterRange - 1]
  /\ burst \in 0 .. MqttBurst
  /\ setup_mode \in BOOLEAN /\ web_started \in BOOLEAN
  /\ display_reinit_pending \in BOOLEAN /\ ip_timer \in BOOLEAN
  /\ eeprom \in [filter : FilterRecords, ssid_set : BOOLEAN]
  /\ lastFan \in 1 .. 100 /\ filterBefore \in FilterRecords

\* saved_fan_percent is the last speed the fan really ran at, through every mix
\* of set, step and power commands, so power-on can never restore a stale or a
\* zero speed, and a running fan is always running at the remembered speed.
FanMemory ==
  /\ dev.saved_fan_percent = lastFan
  /\ dev.fan_percent \in {0, lastFan}

\* Between two ticks the hardware does what the device state says: fan PWM,
\* backlight, key lights and, outside setup mode, the status LED.  Several
\* caches (last_applied_*, force_apply_lights_) stand between the two.
OutputsFollow ==
  pc = "serial" =>
    /\ hw.duty = dev.fan_percent
    /\ hw.backlight = dev.screen_light_on
    /\ hw.keys = KeyRegisters(dev)
    /\ ~setup_mode => hw.led = dev.status_led_on

\* No published field has changed since the last burst handed to the MQTT client
\* without dirty_publish being set, or about to be set by the function whose filter
\* save is under way: no command, timer or link change leaves the broker behind for
\* good.
StaleMeansDirty == broker_behind => dev.dirty_publish \/ SavingFilter

\* While the lights are on, a main screen that is out of date, or a panel the
\* second initialisation left blank or connecting, always has dirty_display
\* set, so the next applyOutputs repairs it.
PanelMeansDirty ==
  dev.lights_on /\ ~setup_mode /\ ~dev.dirty_display =>
    /\ panel.screen \in {"main", "setup"}
    /\ panel.screen = "main" => panel.current

\* Whenever no save is under way, a reset comes back with the countdown the loop is
\* working with.  A reset in mid-save comes back with the countdown as it was before
\* the change or after it, never with a third one, as long as the save has one cell
\* to write (nearly every tick); a save of several cells that is cut short may leave
\* any mixture of the two.
OneCellToWrite ==
  \A c, d \in FilterCells :
    /\ filterBefore[c] # FilterRecord(dev.filter_minutes)[c]
    /\ filterBefore[d] # FilterRecord(dev.filter_minutes)[d]
    => c = d

FilterDurable ==
  LET afterReset == LoadedFilter(eeprom.filter)
  IN  /\ ~SavingFilter => afterReset = dev.filter_minutes
      /\ SavingFilter /\ OneCellToWrite
           => afterReset \in {LoadedFilter(filterBefore), dev.filter_minutes}

\* Without the SoftAP no button press and no web request is ever dropped, however
\* much the broker sends: both are enqueued after a drain and before the broker's
\* burst, so the "command_queue_full" answer of the web API cannot occur.
RequestsNeverDropped == ~SoftApUp => drops["Button"] = 0 /\ drops["Web"] = 0

\* The countdown the loop works with never grows, unless a SetFilterDays command is
\* applied or a reset finds a save that was cut short.
FilterOnlyCountsDown ==
  [][dev'.filter_minutes > dev.filter_minutes
       => \/ SavingFilter
          \/ /\ pc \in {"drain", "drain_button"} /\ queue # <<>>
             /\ Head(queue).type = "SetFilterDays"]_vars

\* A request to reboot that was enqueued, from the SoftAP page or the web API, is
\* carried out: the loop drains its queue and every drain reaches the request.
RebootRequested == \E i \in DOMAIN queue : queue[i].type = "Reboot"
RebootsHappen == RebootRequested ~> (~RebootRequested \/ pc = "dfu")

\* doc: "Dedicated screen backlight control (screen_light) over API/MQTT"
\* (CHANGELOG.md:95), "cmd/screen_light payload 0|1 (A1 TFT backlight)"
\* (docs/interfaces.md:9): when SetScreenLight is the last command of a tick that
\* bears on the backlight, the tick ends with the backlight it asked for.
ScreenLightObeyed == pc = "serial" => \A asked \in screenWish : hw.backlight = asked

\* doc: "Power toggle behavior that restores last non-zero fan speed when turned
\* back on" (CHANGELOG.md:93).
PowerRestoresLastSpeed ==
  [][(/\ pc \in {"drain", "drain_button"} /\ pc' = pc /\ queue # <<>>
      /\ Head(queue).type = "TogglePower"
      /\ dev.fan_percent = 0 /\ dev'.fan_percent > 0)
      => (dev'.fan_percent = lastFan)]_vars
=============================================================================
