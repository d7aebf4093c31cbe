# TLA+ models of the AERIS air purifier firmware

Models of the firmware in `src/` of this repository (paths below are relative to the
firmware's `src/` directory, as in `app/app_controller.cpp`), checked with TLC and, where
marked, proved with TLAPS. Every definition is translated from the C++ (for the web page, from
the script in `net/web_ui_html.cpp`); the table `map` of `PROJECT.json` names the lines it
stands for.

## 1. The system

One microcontroller, three threads that matter. The application thread runs
`AppController::init` once and `AppController::tick` for ever (`app/main.cpp`). Device OS's
system thread serves the SoftAP setup page and calls into `WebConfigServer` from there
(`SYSTEM_THREAD(ENABLED)`). A 1 ms software timer drives the key-light PWM. The web page runs in
a browser and reaches the unit over HTTP.

| Component | State | Operations | Talks to |
|---|---|---|---|
| `AppController` | command ring, dirty flags, `last_applied_*`, timers, `setup_mode_` | `init`, `tick` and what it calls, `enqueueCommand(s)`, `applyCommand`, `applyOutputs` | everything, by calls |
| `CommandRouter`, `DeviceState` | the device state | `apply` | called by `applyCommand` |
| `ButtonDriver` | per key: idle, last level, three times, fired | `init`, `poll` | commands to the ring |
| `WebConfigServer` | settings (shared), sinks | API handlers on the loop, `handleSoftApRequest` on the system thread | commands to the ring, settings store |
| the web page | slider, debounce timer, `isFanDragging`, `stateCache` | pointer, input and click handlers, `loadState`, `sendControl` | the API |
| `OtaServer` | window, client, streak, count | `arm`, `tick` | armed by a command, copied by `tickNetwork` |
| `MqttClient` | publish ring, backoff, suspension | `tick`, `enqueueStatePublish`, `onMessage` | broker, commands to the ring |
| `WifiManager` | last connect time, mode | `tick`, `begin*Mode` | Device OS |
| `SettingsStore`, filter and denied records | EEPROM | `loadOrInitialize`, `save`, `get`/`put` | read at boot; written by loop and system thread |
| `DisplayDriver` | render cache, backlight | `render*`, `setLights`, `setScreenLight`, `reinitialize` | called by the controller |
| `KeyLightDriver` | pattern, level, blink, PWM phase | setters on the loop, `tick` on the timer thread | - |
| `SensorDriver`, `MovingAverage` | frame, wake sequence, ring of readings | `tick`, `parseByte`, `add`, `average` | read by `tickSensor`, `tickReport` |

What is hard here, and what correctness means for each part:

- **Command plane.** Commands of four sources go through one ring and change one state,
  whose effects reach hardware, panel, broker and EEPROM through caches and flags. Correct:
  the hardware follows the state, nothing changed stays unpublished or undrawn, the fan
  memory is the speed the fan ran at, requests are not lost, and a reset comes back with the filter countdown in use or,
  from the middle of its save, with the one before the change.
- **Two threads on the ring.** No lock. Correct: nothing lost, nothing applied twice.
- **Buttons.** Debounce, repeat and long press from one sample per pass, on a wrapping
  clock. Correct: a command means the gesture the manual gives it.
- **Update listener.** Correct: three wrong answers in a row lock it until the next boot, an open window of 60 s, a silent client
  dropped at 500 ms and not before, the stored count of wrong answers behind only in the pass that judged one.
- **Broker.** Correct: backoff and suspension are served and end; bursts fit the
  queue; after any outage the broker's copy becomes the settled state.
- **Settings.** Two threads change and save one record, a save is many EEPROM writes, and the power
  may go between any two. Correct: boot takes one whole record, between handlers EEPROM
  holds what is in use, and the update secret is the last one set over USB.
- **Panel.** Parts are redrawn only when their value differs from a remembered one. Correct: what the driver
  believes is on the panel is there, and a lit panel shows the state.
- **Dust sensor.** A byte stream without acknowledgement. Correct: damage costs one good frame, silence is
  answered, the average is of readings the sensor sent.
- **Key lights.** Setters and timer share members without a lock. Correct: the duty is the level asked for, and no
  division by a period that has just become 0.
- **Web page.** Requests overtake each other and are lost. Correct: left alone, the page ends
  with the unit's state.

## 2. Modules

| Module | Models | Checked in run | Proved in |
|---|---|---|---|
| `BoundedFifo` | what a ring promises one thread | (abstract) | |
| `CommandQueue` | what the command queue promises the loop and the setup page together | (abstract) | |
| `RingQueue` | the slots and indices of both rings | `queues` | `MCQueues_proofs` |
| `AppController` | the loop, router, outputs, flags, EEPROM, resets | `controller_*`, `screen_light`, `power_on` | `AppController_proofs` |
| `SoftApQueue` | the command ring, one memory access per step, two threads | `queues`, `softap_race` | `MCQueues_proofs` |
| `SettingsStore` | the record, validation, upgrade, EEPROM cell by cell, two threads | `settings` | `SettingsStore_proofs` |
| `DisplayCache` | the render cache, the pixels, the controller steps that render | `devices` | `MCDevices_proofs` |
| `ButtonDriver` | `poll` for four keys, fingers, bounce | `devices`, `button_bounce` | `ButtonDriver_proofs`, `MCDevices_proofs` |
| `DustSensor` | frame parser over a damaged stream, sampling, moving average | `devices`, `phantom_sample` | `DustSensor_proofs`, `MCDevices_proofs` |
| `SensorWake` | watchdog and wake sequence | `devices`, `wake_wrap` | `MCDevices_proofs` |
| `KeyLights` | setters against the timer's PWM tick | `devices` | `MCDevices_proofs` |
| `OtaServer` | the listener inside the loop that arms, ticks and copies it | `ota` | `OtaServer_proofs` |
| `PublishQueue` | bursts, publish queue, paced drain | `queues` | `MCQueues_proofs` |
| `MqttLink` | backoff and suspension | `devices` | `MqttLink_proofs`, `MCDevices_proofs` |
| `WebUi` | the page's control script against the unit | `queues` | `MCQueues_proofs` (its types) |
| `MC*` | instances for TLC | | |

How they compose. `RingQueue` implements `BoundedFifo` (`ImplementsFifo`, refinement mapping
`items <- Contents`). `AppController` uses the bounded FIFO itself (`Q == INSTANCE BoundedFifo`), so
its queue is a sequence and the link to the indices is that refinement. `SoftApQueue` takes the same ring apart into
single memory accesses of two threads. As long as no button is touched while /save is handled it implements `CommandQueue`
(`ImplementsAtomicQueue`): the same bounded FIFO, each request one step. The step is the one that publishes the new tail, moves
the head, or finds the ring full. That ties the two threads to the queue `AppController` assumes; with a button touched, run
`softap_race` shows where it ends.
`OtaServer`, `PublishQueue` and `MqttLink` each take the part of the loop that concerns them
with real clock arithmetic, which `AppController` leaves out: there, a timer may be due
at any tick, so what it shows holds for any timing.
`PublishQueue` goes on where `AppController!StaleMeansDirty` ends: there a change is marked dirty until a burst takes it, here
what a burst took is under way until the broker has it (`StaleIsUnderWay`).
`DisplayCache` takes from the loop the four places that render or forget (`tickDisplay`, `applyOutputs`,
`setLights`, `reinitialize`) and opens up what `AppController` calls `panel.current`: `AppController`
treats a render as drawing the state, and `DisplayCache` shows that the cached render does.
`SettingsStore` opens up what `AppController` calls a stored SSID, and `WebUi` the
control requests it takes as given.

Correspondence in `AppController`: `pc` names the function the tick calls next; `dev` is
`DeviceState` without the counters nothing reads back (`command_drop_*` is `drops`); `applied` is
`last_applied_*` and `force_apply_lights_`; `hw` and `panel` are what the drivers were told;
`eeprom` is the filter record, cell by cell, and whether an SSID is stored; `pm25_smooth` and `pm10_smooth`
are one field. A reset is `Restart`, which is `init` from what EEPROM
holds, and it can come from a command, from provisioning or from a loss of power between any
two functions of the tick and between any two cells of a filter save. That save is three kinds of step: the change of the
countdown in RAM and the call of `saveFilterState` (`ApplyFilterDays`, `TickFilter`), the cells that differ, in any order
(`WriteFilterCell`, as in `SettingsStore`), and the return, after which `dirty_publish` is set (`FilterSaved`); `pc` says who
called. The four bytes of the magic are one cell, for only its being right or wrong is read. `broker_behind`,
`panel.current`, `lastFan`, `screenWish` and `filterBefore` are history variables: no guard reads them.

Correspondence in the other modules:

- `SettingsStore`: `ram` is `settings_`, the one record both threads use; `eeprom` maps each field, and the header
  with its checksum, to what the cells hold. `Save` is `sanitize` and the start of `EEPROM.put`, and `WriteCell`
  one cell of it, in any order (Device OS promises none). `HandleSoftApSave` and `HandleSoftApSavePass` are the two
  copies of GET /save. CRC-32 is taken to be free of collisions: a record's checksum is the record.
  `loadable`, `secrets` and `overlap` are history.
- `DisplayCache`: `cache` is the driver's `last_*` members, `screen` the pixels, as the last fill and the parts on
  it. Every render function is an operator from old cache and screen to new ones. `Changed` actions are the
  routed commands, reports and link changes of one tick, in any number and order.
- `DustSensor`: `parser` is `frame_index_`, `in_frame_`, `header_prev_` and which frames the buffer agrees with; a
  byte is known by the frame it belongs to and its place in it. Payloads that spell the header, frames that end
  in its first byte, noise, lost bytes and a start in mid-frame are all there.
- `SensorWake`, `MqttLink`, `ButtonDriver`, `OtaServer`: marks are values of `millis()` and each comparison is the code's,
  unsigned difference, signed difference or plain. `quiet`, `since_attempt`, `held` and their like measure
  real time and are what the properties speak of.
- `KeyLights`: one shared access per step on either thread; `recent` is the history of the last slots.
- `WebUi`: `request[r]` is what is under way on a connection of the browser, `unit` the state after the pending
  commands. A timer or an interval may fire at any time.

Modelled by their outcome only: a PROV line is stored or refused, a HTTP request becomes
its commands, its settings fields or nothing, an answer to the
update challenge is right, wrong, malformed or incomplete.

`Mutant` comments mark operators that no specification uses: plausible bugs in the operator that
follows. `PROJECT.json` pairs each property with the mutant that breaks it.

## 3. Runs

TLC takes seconds to a few minutes per run. Two of the instances share a run each: `MCQueues` and `MCDevices` put several
small, independent modules side by side, and a variable chosen at the start (`part`, `device`) says which one a
behaviour is of. Their parameters are constants, with values in `Queues.cfg` and `Devices.cfg`; the theorems are about the
same specifications with any values. The others keep their first state, so the runs explore the sum of the state spaces and never their product,
and every property is that of its own module (`A!NoReplay` and so on). Nothing is lost by it: these modules
share no state.

Passing runs:

- `queues` (parts ring, softap, publish, page):
  - *ring*: five slots, two items, batches of 1 to 3. Five slots bring every position of
    the tail together with every fill level, which is all the indices can depend on.
  - *softap*: the real ring of 16 at every index, both threads, no buttons while /save is handled: each request is one step
    of `CommandQueue`, and the promised reboot comes. `NoReplay` (no command is applied twice) and `RebootIsQueued` (the promised
    reboot is waiting: the safety half of `SaveReboots`) follow and have theorems instead of a place in the run.
  - *publish*: three usable slots, which one state burst of two topics and one health burst of one fill, in the
    proportion of 10 + 9 to 23. Passes of 1 or 2, in each of which one message leaves; a state burst every 6 at most, a report
    every 3, a health burst every 6, which is as fast as `PaceOK` allows; the passes make bursts meet in every phase; sessions that break. `drained` and `told` are history: the
    session has emptied the queue, and a state burst has gone in since.
  - *page*: two speeds and two connections, so that an answer can overtake a request; requests and answers are
    lost; keys change the unit.
- `devices` (panel, keys, dust, wake, lights, link):
  - *panel*: speeds 0, 5 and 100 (no tentacle but a symbol, one tentacle, all of them), two readings, the setup name before and after
    setup mode has begun, the second initialisation at any pass.
  - *keys*: up and power, clean contacts, scaled times (debounce 1, repeat after 3 and every
    2, hold 5), a pass per time unit. Exact contacts make every time exact; a clock of 17
    covers a hold and the presses around it, and the behaviour stops at its end (`CHECK_DEADLOCK FALSE`).
  - *dust*: frames of six bytes, one kind with the header in its payload, the other ending in the header's first byte; a
    window of three, which fills and wraps: the sum is that of the readings kept and the average within them (`AverageOfKept`). Six bytes
    leave room for the header, an alias of it and an end.
  - *wake*: a watchdog of 6, gaps of 3, passes of 1 or 2, up to the wrap of the clock.
  - *lights*: two levels that do not divide the frame, blink on and off, a timer up to one late.
  - *link*: base 1, suspension 6 after three failures (backoff 1, 2, 4), passes of 1 or 2, a clock of
    50 that wraps, outages up to 2.
- `controller_outputs`: three usable slots, steps of 95 to reach both ends of the fan range, a
  POST that sets lights and backlight, one setting per output, a Wi-Fi reset. Two PM values, so
  that a report changes a published and drawn field.
- `controller_requests`: what resets, drops, persists or is deferred: Wi-Fi switching,
  reboot, DFU, arming, filter days, a POST of three commands, two broker messages per loop
  against three slots, and a link that comes and goes. The drop counters wrap at 4, so that the three commands of a refused
  POST show. An EEPROM cell has two values and a day one minute: the countdown runs through 7, 4, 1 and 0, whose records differ in several
  cells or in one, starting from an erased EEPROM.
- `ota`: window 3, handshake 2, passes of 1 or 2, a lock after three wrong answers in a row, one upload per boot that may fail after a
  right answer (`MaxUploads`), a clock of 15 that wraps while windows are open, outages up to 4. `OutageAssumption` states the limit.
- `settings`: two safe ids and two unsafe ones (one empty), one own topic root and two unsafe ones, four forms that
  each set other fields (one with a number out of range, one with a bad id, one with an empty root), two /save
  queries, PROV lines with and without a secret, and
  a unit that starts with a current record, one of schema 4 or an erased EEPROM. Every cell
  of every save can be the last before the power goes, in any order, with the other thread saving too.

Runs that show a disagreement between code and documents:

- `screen_light`: SetScreenLight 0 with SetLights 1 in one request or tick ends with the screen lit
  (`applyOutputs` applies lights last).
- `power_on`: a fan stepped to 5 % comes back at 10 %.
- `softap_race`: a button press during GET /save overwrites the reboot request; the page says the
  unit reboots, and it does not.
- `button_bounce`: a contact that bounces just after the release of a tap leaves the long-press
  timer set; a touch eight seconds later wipes the Wi-Fi settings at once.
- `phantom_sample`: the first pass after boot averages a reading of 0 that no sensor sent, so the
  reported value is below every reading until ten frames have come.
- `wake_wrap`: a wake sequence under way when `millis()` wraps stops for 49 days, and the watchdog with it.

Fairness, and why the code justifies it. Device OS runs `loop()` for ever, so every progress property assumes weak
fairness of the loop: `FairSpec` of `AppController` (`RebootsHappen`), and `Pace` in `MCQueues`, which is one pass of the
loop in *softap* and *publish* and the page's two-second interval in *page*. `SaveReboots` also assumes that the
SoftAP thread, once it has a request, is scheduled (`Answers`). `UiConverges` assumes what a browser and a
lossy network justify: an answer or a failure is handled at some time (`Answers`), and of
the requests that are again and again under way not all are lost (`Served`, `Rendered`: strong fairness).
As a behaviour of `MCQueues` is of one part, the conjunction asks of each part what its own specification asks.
`BrokerCatchesUp` has the session that stays as its hypothesis, not as an assumption. Nothing is assumed of users, broker
or link anywhere.

Limits that have no run of their own, each behind a constant of its module:

- `HeldAtBoot` and `Wrap` of `ButtonDriver`: with a key held at power-up, or across the wrap of `millis()`, `LongPressIsHeld` fails.
- Outages above half the clock range (`OutagesOK`): `MqttLink!SuspensionEnds` fails (a stale suspension is in the future
  again, after 25 days without Wi-Fi). `BackoffIsServed` holds for every outage.
- Long passes (`PaceOK` of `PublishQueue`): a message leaves at the first pass that comes 25 ms or more after the last
  message, so with passes of up to n ms it takes at most 24 + n ms. With the unit's 10 and 9 topics per 400 ms and 30 s
  that keeps up with the bursts when no pass takes longer than 15 ms. Beyond that auto-repeat can fill the queue faster
  than it drains and `BurstIsAbsorbed` is not promised.
- Slow polling (`PressesOK` of `ButtonDriver`): a poll returns at the first key that has a command, so a key may wait for as
  many polls as there are keys. A round of them must be shorter than the repeat interval of 150 ms (passes of up to
  37 ms with four keys), and a finger must rest for the debouncing and a round. `HoldIsAnswered` allows two
  rounds beyond hold and debouncing.
- Long link losses while the update window is open (`OutageAssumption` of `OtaServer`): window, or handshake time, and
  outage together stay within what the clock's comparison can tell.
- `Cancels` of `WebUi`: a touch that ends in `touchcancel` leaves `isFanDragging` set and the slider
  follows the unit no longer until it is touched again.

Not stated as properties although they may surprise: docs/interfaces.md:53 answers 423 "after three well-formed wrong
answers", but a right answer whose upload fails starts the row afresh (`ota_server.cpp:95-99`), so two wrong answers, one such
upload and two wrong ones again leave the listener open; only the owner of the secret can do that, and `ThreeGuesses` counts it in
(`uploads`). The filter record has no checksum: CHANGELOG.md:11-12 says a restart forfeits at most ten minutes of filter life, which holds
for a save of one byte, but where a tick carries into the next byte of the countdown (about once in 26) a save cut short can leave a mixture of the
two, hours or days away from either. `FilterDurable` makes the case explicit (`OneCellToWrite`); whether it occurs depends on the order and the
atomicity of `EEPROM.put`, which is Device OS's.
SetFilterDays in mid-save may likewise come back as the old number, the new one or a mixture. Further: SetScreenLight lights the panel over the picture of the time
the lights went off, because rendering returns early while they are off; a ResetWifi applied between the two
copies of GET /save stores the new password without an SSID, and the next boot goes to
setup mode again; README.md:184 of the repository calls the short press of AirQ a toggle of the key lights, and
the code toggles `lights_on`, which is panel and key lights.

## 4. Proofs

All for every value of the constants that satisfies the assumptions of the module, by an inductive
invariant: `Init => IInv`, `IInv /\ [Next]_vars => IInv'`, and `IInv` implies the property.

- **`AppController_proofs`** (any queue of at least four slots, any command sets within the accepted ranges, any readings):
  `TypeOK`, `FanMemory`, `FilterDurable`, `StaleMeansDirty`, `FilterOnlyCountsDown` and
  `RequestsNeverDropped`. `IInv` is the conjunction of the first four, with `FilterKept` in the place of `FilterDurable`: while a save is under
  way every cell of the record is the old one or the new one (`CellsOldOrNew`), and outside one the record reads as the countdown in RAM, because
  what `saveFilterState` writes is read back as what it was given (`RecordRoundTrip`). `FilterDurable` follows, since two records that differ in one
  cell have no mixture (`NoMixture`). The conjuncts need each other:
  `saved_fan_percent` is in `1 .. 100` only because it equals the last non-zero speed, and the
  state stays in its ranges only because every queued command was accepted, which is part
  of `TypeOK`. Each kind of step has a lemma (`...Inv`), `StepInv` puts them together and `Invariance` states the result.
  `RequestsNeverDropped` needs one fact more: the queue is empty between the
  drain and the MQTT tick as long as no SoftAP is up (`QueueEmptyAtPoll`).
  `OutputsFollow` and `PanelMeansDirty` come on top of it. `OutputsFollow` speaks of the end of a tick
  only; what holds at every step is `DriversInv`: fan and LED drivers are what `last_applied_*` says and the backlight
  is what the state says, even when `SetScreenLight` has just gone past the cache.
- **`OtaServer_proofs`**: all seven properties of the run, for every window, limit and
  clock. Its `IInv` adds to `TypeOK` that the wrong answers counted equal the streak and that a
  full streak means a closed listener (`Lock`), and that the copies in
  `DeviceState` are current outside the pass that changes them (`Copies`), which is why a
  POST never reads a stale lock. `WindowCloses`, `SilentIsDropped` and `FullHandshake` speak of real time, the code of marks on a clock that wraps:
  `TInv` says that what the clock shows since a mark is the real time since it was set as long as the listener is
  ticked often enough, which `OutageAssumption` grants.
- **`MCQueues_proofs`**, the parts of the run `queues`, put together by `StepOfOne` (a step is one of one part):
  - *ring*: it implements `BoundedFifo` for every size and set of batches (`RingIsFifo`). `Wrapped` removes the
    modulo, `ContentsValue` describes the queue slot by slot, and `AppendRefines` and its
    counterpart for `Pop` map each step; the invariant is the ranges of the indices.
  - *softap*: `NoReplay` for every ring size. While no button is touched only one thread writes at a time
    (`OneWriter`); from reading the tail to publishing it, that thread's slot is the free one at the tail (`Claims`); so the
    slots in use hold exactly the commands owed, kind by kind (`Waiting`, counted with `Cardinality`), and the one popped is among them.
    On the same invariant `ThreadsAreAtomic` proves the refinement of `CommandQueue` for every ring size and position: `ApContents`
    describes the sequence slot by slot without the modulo, `ApKeeps`, `ApPuts` and `ApGets` say which steps leave it alone, append to it or take
    from it, and each step of a thread is one of them. `PromiseIsKept` (three slots or more) adds that a ring about to be
    offered the reboot holds one press at most (`Room`), so it is not refused, and stays queued until it is the head (`Promised`).
  - *publish*: `BurstIsAbsorbed`. In units of a millisecond over `StateGapMs * HealthMs`, each message in the queue costs `MessageMs`
    and each kind of burst owes the time of its messages in the share of its interval that is still to come (`Owed`). Time takes from the queue at
    least what it takes from the shares (`SharesPass`, from `PaceOK`), so once it is drained the backlog never exceeds what is owed,
    but for the message in progress (`Credit`). When a burst is due its share is used up, and what is left of the
    other's leaves room for it (`HealthRoom`, `StateRoom`). `ChangesUnderWay` rests on that: a burst that enters whole says the field on every topic
    (`BurstSaysField`), a delivery makes the oldest word the broker's only where none is queued behind it (`DeliveryKeepsWords`), and
    every other step adds nothing but the field or marks dirty what it changes (`WordsKept`). It is the safety half of `BrokerCatchesUp`.
  - *page*: what a request or an answer carries is a speed of the unit (`PageInv`).
- **`ButtonDriver_proofs`** (`PressesKeepTheirMeaning`, cited for `LongPressIsHeld`, `OneMeaningPerPress`, `RepeatIsPaced` and `HoldIsAnswered` in
  `MCDevices_proofs`), for every set of keys, hold, repeat and pass length within `PressesOK`, clean contacts and a clock that has
  not wrapped. The invariant relates each key's three marks to the real time of its finger (`Press`, `Given`, `Pace`). The difficulty
  is the poll that ends with another key's command before this key's turn comes. A key that has just given a command
  gives no other within a round of polls (`Blocked`), so each poll that misses key i blocks one more of the keys before it, and the time
  since key i should have been read is at most that many passes (`Kept`).
- **`MqttLink_proofs`** (cited the same way): `BackoffServed` for every base, suspension, clock and outage: until the clock has turned
  once what it shows is the real time since the last attempt (`Age`), and a streak is the row of failures (`Rows`), which the mark of a suspension follows (`Mark`).
  `SuspensionIsOver` needs outages bounded by `OutagesOK`, for the mark of a suspension that is over is
  still compared until the next success or suspension (`Stale`, `Waits`). That the backoff grows with the streak, 2^n being
  recursive, is stated of the constants in `LinkInputsOK` and evaluated by TLC.
- **`MCDevices_proofs`**, the devices of the run `devices`:
  - *panel*: `CacheIsTruthful` and `ScreenIsCurrent`. Truthfulness alone is inductive once typed;
    `ScreenIsCurrent` needs besides that a clean display is current at every step (`CleanIsCurrent`).
  - *wake*: `SilenceIsAnswered` for all times and pass lengths while `millis()` does not wrap. The invariant bounds
    the silence by the mark of the next wake step (`Paced`).
  - *lights*: `DutyIsLevel` for every frame, pattern, level and blink. Of two slots between which nothing changed the second is the next phase of
    the same frame (`RecentIsLevel`), a tick that a setter cuts through is marked as torn and starts no steady frame (`TickIsLevel`); the lit slots of a
    frame are then in bijection with the phases below the level.
  - *keys*, *dust*, *link*: from the modules above and below.
- **`SettingsStore_proofs`**: `TypeOK`, `RamIsStored`, `SecretFollowsProv` and `BootIsWhole`. The core is `EepromOK` and `PutsOK`:
  the header in EEPROM vouches only for a record of `loadable`, because its checksum is
  the record it was made for, and while one thread is saving alone each cell it has written is that of its image (when
  both are, boot may fall back to the defaults, which are then in `loadable`). `ModesOK` says which handlers
  can be under way together: the SoftAP page is served only while the web API and the PROV line are not.
- **`DustSensor_proofs`**: `Resync` for every frame size from five and every set of readings, and the types, for which the length of the
  average counts up to the window and stays there. `InStep` says where the parser is in
  a frame that follows a good one; `NoNewFalseFrame` that a frame without the header in its payload can only leave a
  parser in step or one whose false frame began before it.
  `AverageOfKept` (theorem `AverageKept` in `MCDevices_proofs`) is about a sum, hence an induction over data, which the
  library's induction theorems do not give here. It is made by hand: the partial sums of the fold are shown to exist as a function (`Sums`),
  and what holds of the empty set and is passed on by one element holds of every finite set, as the least size of a counterexample
  has none below it. From this come what a changed slot does to a sum (`SumsExcept`), that sums are monotonic
  (`SumsMonotonic`) and the sum of a constant (`SumsConstant`). The invariant is then that the running sum is `Total` of the ring, with
  empty slots 0 (`SumOK`); were every reading kept above the average, or every one below it, the sum would be another.

Only model-checked: liveness (`RebootsHappen`, `SaveReboots`, `BrokerCatchesUp`, `UiConverges`), which needs fairness and
ENABLED. Every other property of the passing runs is stated by a theorem; of `SaveReboots` and `BrokerCatchesUp` the safety
halves are proved (`PromiseIsKept`, `ChangesUnderWay`). What the
violation runs show is refuted and has no proof; of two of them, `wake_wrap` and `button_bounce`, the property is proved where
the clock does not wrap and the contacts are clean. `FilterOnlyCountsDown`, `NoReplay` and `RebootIsQueued` are proved
and in no run: each states little beyond what `FilterDurable`, `ImplementsAtomicQueue` and `SaveReboots` check there.

## 5. Not modelled

- Fonts, colours and positions; the bitmap data of `gauge_logo.h`; PWM counts of the fan.
- The text of HTTP requests, JSON answers, PROV lines, MQTT topics and payloads: a message is known by its outcome.
- SHA-256, CRC-32 and YMODEM: an answer is right or wrong, a checksum is the record, a transfer is Device OS's.
- The page's settings form (posting it after a failed fetch sends empty fields), theme and markup.
- The five-second reconnect timer of `WifiManager`, which only repeats `WiFi.connect`, and the ten-minute filter timer
  as a clock: in `AppController` it may be due at any tick. The parse-error counter of the sensor.
- Host tools, the flasher and the build, which do not run on the unit.

## 6. What is left

1. `BackoffIsServed`, `LongPressIsHeld` and the rest of the timing properties are proved of the modules each; what the loop as a whole
   promises with them (a press is applied within one pass, a publish within one session) is not stated yet.
2. The settings form against `SettingsStore`: what a partial or stale form does to the stored record.
3. The filter timer and `WifiManager` with the clock.
4. PROV line assembly from the serial buffer (overlong and cut lines), against the field checks.
