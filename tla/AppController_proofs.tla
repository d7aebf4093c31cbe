----------------------- MODULE AppController_proofs -----------------------
(***************************************************************************)
(* Proofs about AppController for every queue size, command set, burst and *)
(* reading.  First what the pure functions of the model do to a            *)
(* well-typed device state, then one lemma per action, then the theorems.  *)
(***************************************************************************)
EXTENDS AppController, TLAPS

-----------------------------------------------------------------------------
(* CommandRouter and the settings of applyCommand.                         *)

LEMMA ClampBounds ==
  ASSUME NEW v \in Int
  PROVE  ClampPercent(v) \in 0 .. 100
BY DEF ClampPercent

LEMMA BootType ==
  ASSUME NEW m \in Nat
  PROVE  IsDevice(BootDevice(m))
BY NumberAssumption DEF BootDevice, IsDevice, DeviceFields

LEMMA RouterType ==
  ASSUME NEW s, IsDevice(s), NEW cmd \in AcceptedCommand, cmd.type \in RoutedTypes
  PROVE  IsDevice(RouterApply(cmd, s))
<1>0. cmd.value \in Int
  BY DEF AcceptedCommand, Command
<1>1. CASE cmd.type = "SetFanPercent"
  <2>1. ClampPercent(cmd.value) \in 0 .. 100
    BY <1>0, ClampBounds
  <2>2. RouterApply(cmd, s) = Touched(SetFanPercent(s, ClampPercent(cmd.value)))
    BY <1>1 DEF RouterApply
  <2> QED
    BY <2>1, <2>2 DEF Touched, SetFanPercent, IsDevice, DeviceFields
<1>2. CASE cmd.type = "AdjustFanPercent"
  <2>1. RouterApply(cmd, s) = Touched(AdjustFanPercent(s, cmd.value))
    BY <1>2 DEF RouterApply
  <2> DEFINE waking == s.fan_percent = 0 /\ cmd.value > 0
             fan == ClampPercent(IF waking THEN 5 ELSE s.fan_percent + cmd.value)
  <2>2. fan \in 0 .. 100
    BY <1>0, ClampBounds DEF IsDevice
  <2> HIDE DEF fan
  <2>3. AdjustFanPercent(s, cmd.value) =
          [s EXCEPT !.fan_percent = fan,
                    !.saved_fan_percent = IF fan > 0 THEN fan ELSE @,
                    !.lights_on = fan > 0 /\ (waking \/ @)]
    BY DEF AdjustFanPercent, fan
  <2> QED
    BY <2>1, <2>2, <2>3 DEF Touched, IsDevice, DeviceFields
<1>3. CASE cmd.type = "SetLights"
  <2> DEFINE on == cmd.value # 0
  <2>1. RouterApply(cmd, s) = Touched([s EXCEPT !.lights_on = on])
    BY <1>3 DEF RouterApply
  <2>2. on \in BOOLEAN
    OBVIOUS
  <2> HIDE DEF on
  <2> QED
    BY <2>1, <2>2 DEF Touched, IsDevice, DeviceFields
<1>4. CASE cmd.type = "ToggleLights"
  <2> DEFINE on == ~s.lights_on
  <2>1. RouterApply(cmd, s) = Touched([s EXCEPT !.lights_on = on])
    BY <1>4 DEF RouterApply
  <2>2. on \in BOOLEAN
    BY DEF IsDevice
  <2> HIDE DEF on
  <2> QED
    BY <2>1, <2>2 DEF Touched, IsDevice, DeviceFields
<1>5. CASE cmd.type = "TogglePower"
  <2>1. RouterApply(cmd, s) = Touched(TogglePower(s))
    BY <1>5 DEF RouterApply
  <2>2. CASE s.fan_percent > 0
    BY <2>1, <2>2 DEF Touched, TogglePower, IsDevice, DeviceFields
  <2>3. CASE ~(s.fan_percent > 0)
    <3> DEFINE restored == IF s.saved_fan_percent < 10 THEN 10 ELSE s.saved_fan_percent
    <3>1. restored \in 1 .. 100
      BY DEF IsDevice
    <3>2. TogglePower(s) = [s EXCEPT !.saved_fan_percent = restored, !.fan_percent = restored,
                                     !.lights_on = TRUE]
      BY <2>3 DEF TogglePower
    <3> HIDE DEF restored
    <3> QED
      BY <2>1, <3>1, <3>2 DEF Touched, IsDevice, DeviceFields
  <2> QED
    BY <2>2, <2>3
<1> QED
  BY <1>1, <1>2, <1>3, <1>4, <1>5 DEF RoutedTypes

\* A routed command keeps the filter countdown, sets dirty_publish, and leaves
\* the remembered speed equal to the speed whenever the fan turns.
LEMMA RouterEffect ==
  ASSUME NEW s, IsDevice(s), NEW cmd \in AcceptedCommand, cmd.type \in RoutedTypes,
         s.fan_percent \in {0, s.saved_fan_percent}
  PROVE  LET t == RouterApply(cmd, s)
         IN  /\ t.filter_minutes = s.filter_minutes
             /\ t.dirty_publish = TRUE
             /\ t.saved_fan_percent =
                  IF t.fan_percent > 0 THEN t.fan_percent ELSE s.saved_fan_percent
<1>0. cmd.value \in Int
  BY DEF AcceptedCommand, Command
<1>1. CASE cmd.type = "SetFanPercent"
  <2>1. ClampPercent(cmd.value) \in 0 .. 100
    BY <1>0, ClampBounds
  <2>2. RouterApply(cmd, s) = Touched(SetFanPercent(s, ClampPercent(cmd.value)))
    BY <1>1 DEF RouterApply
  <2> QED
    BY <2>1, <2>2 DEF Touched, SetFanPercent, IsDevice, DeviceFields
<1>2. CASE cmd.type = "AdjustFanPercent"
  <2>1. RouterApply(cmd, s) = Touched(AdjustFanPercent(s, cmd.value))
    BY <1>2 DEF RouterApply
  <2> QED
    BY <2>1 DEF Touched, AdjustFanPercent, IsDevice, DeviceFields
<1>3. CASE cmd.type = "SetLights"
  BY <1>0, <1>3 DEF RouterApply, Touched, IsDevice, DeviceFields
<1>4. CASE cmd.type = "ToggleLights"
  BY <1>4 DEF RouterApply, Touched, IsDevice, DeviceFields
<1>5. CASE cmd.type = "TogglePower"
  BY <1>5 DEF RouterApply, Touched, TogglePower, IsDevice, DeviceFields
<1> QED
  BY <1>1, <1>2, <1>3, <1>4, <1>5 DEF RoutedTypes

LEMMA DirectType ==
  ASSUME NEW s, IsDevice(s), NEW cmd \in AcceptedCommand, cmd.type \in DirectTypes
  PROVE  /\ IsDevice(DirectApply(cmd, s))
         /\ DirectApply(cmd, s).fan_percent = s.fan_percent
         /\ DirectApply(cmd, s).saved_fan_percent = s.saved_fan_percent
         /\ DirectApply(cmd, s).dirty_publish = TRUE
         /\ DirectApply(cmd, s).filter_minutes = s.filter_minutes
<1>0. cmd.value \in Int /\ AcceptedValue(cmd)
  BY DEF AcceptedCommand, Command
<1>1. CASE cmd.type = "SetRing"
  <2> DEFINE pattern == cmd.value % 256
  <2>1. DirectApply(cmd, s) = [s EXCEPT !.ring_pattern = pattern, !.dirty_publish = TRUE]
    BY <1>1 DEF DirectApply
  <2>2. pattern \in 0 .. 255
    BY <1>0
  <2> HIDE DEF pattern
  <2> QED
    BY <2>1, <2>2 DEF IsDevice, DeviceFields
<1>2. CASE cmd.type = "SetRingBrightness"
  <2> DEFINE level == (cmd.value * 4 + 50) \div 100
  <2>1. DirectApply(cmd, s) = [s EXCEPT !.ring_brightness = level, !.dirty_publish = TRUE]
    BY <1>2 DEF DirectApply
  <2>2. cmd.value \in 0 .. 100
    BY <1>0, <1>2 DEF AcceptedValue
  <2>3. level \in 0 .. 4
    BY <2>2
  <2> HIDE DEF level
  <2> QED
    BY <2>1, <2>3 DEF IsDevice, DeviceFields
<1>3. CASE cmd.type = "SetRingBlink"
  <2> DEFINE period == cmd.value % Uint16Range
  <2>1. DirectApply(cmd, s) = [s EXCEPT !.ring_blink_ms = period, !.dirty_publish = TRUE]
    BY <1>3 DEF DirectApply
  <2>2. period \in 0 .. Uint16Range - 1
    BY <1>0, NumberAssumption
  <2> HIDE DEF period
  <2> QED
    BY <2>1, <2>2 DEF IsDevice, DeviceFields
<1>4. CASE cmd.type = "SetStatusLed"
  <2> DEFINE on == cmd.value # 0
  <2>1. DirectApply(cmd, s) = [s EXCEPT !.status_led_on = on, !.dirty_publish = TRUE]
    BY <1>4 DEF DirectApply
  <2>2. on \in BOOLEAN
    OBVIOUS
  <2> HIDE DEF on
  <2> QED
    BY <2>1, <2>2 DEF IsDevice, DeviceFields
<1> QED
  BY <1>1, <1>2, <1>3, <1>4 DEF DirectTypes

\* applyOutputs changes two fields of the device state.
LEMMA OutputsType ==
  ASSUME NEW s, IsDevice(s), NEW setup \in BOOLEAN, NEW listening,
         NEW done, NEW drivers, NEW before
  PROVE  LET t == OutputsApplied(s, setup, listening, done, drivers, before).dev
         IN  /\ IsDevice(t)
             /\ \A f \in DeviceFields \ {"screen_light_on", "dirty_display"} : t[f] = s[f]
<1> DEFINE relight == done.force \/ s.lights_on # done.lights
           on == IF relight THEN s.lights_on ELSE s.screen_light_on
<1>1. OutputsApplied(s, setup, listening, done, drivers, before).dev =
        [[s EXCEPT !.screen_light_on = on] EXCEPT !.dirty_display = FALSE]
  BY DEF OutputsApplied
<1>2. on \in BOOLEAN
  BY DEF IsDevice
<1> DEFINE t == OutputsApplied(s, setup, listening, done, drivers, before).dev
<1> HIDE DEF on, t
<1>3. IsDevice(t)
  BY <1>1, <1>2 DEF t, IsDevice, DeviceFields
<1>4. DOMAIN s = DeviceFields
  BY DEF IsDevice
<1>5. ASSUME NEW f \in DeviceFields \ {"screen_light_on", "dirty_display"}
      PROVE  t[f] = s[f]
  BY <1>1, <1>4 DEF t
<1> QED
  BY <1>3, <1>5 DEF t

-----------------------------------------------------------------------------
(* The filter record.                                                      *)

LEMMA Recompose ==
  ASSUME NEW m \in Nat
  PROVE  /\ m \div CellRange \in Nat /\ m % CellRange \in Nat
         /\ (m % CellRange) + CellRange * (m \div CellRange) = m
<1>1. CellRange \in Nat /\ CellRange > 0
  BY NumberAssumption
<1> QED
  BY <1>1, Z3

\* The record that saveFilterState puts is read back as the countdown it was given.
LEMMA RecordRoundTrip ==
  ASSUME NEW m \in Nat
  PROVE  FilterRecord(m) \in FilterRecords /\ LoadedFilter(FilterRecord(m)) = m
<1> DEFINE upper == m \div CellRange
           top == upper \div CellRange
           b1 == m % CellRange
           b2 == upper % CellRange
           b3 == top % CellRange
           b4 == top \div CellRange
<1>1. upper \in Nat /\ b1 \in Nat /\ b1 + CellRange * upper = m
  BY Recompose
<1>2. top \in Nat /\ b2 \in Nat /\ b2 + CellRange * top = upper
  BY <1>1, Recompose
<1>3. b4 \in Nat /\ b3 \in Nat /\ b3 + CellRange * b4 = top
  BY <1>2, Recompose
<1>4. FilterRecord(m) = <<FilterMagic, b1, b2, b3, b4>>
  BY DEF FilterRecord
<1> HIDE DEF upper, top, b1, b2, b3, b4
<1>5. FilterRecord(m) \in FilterRecords
  BY <1>1, <1>2, <1>3, <1>4 DEF FilterRecords, FilterCells, FilterMagic
<1>6. LoadedFilter(FilterRecord(m)) = b1 + CellRange * (b2 + CellRange * (b3 + CellRange * b4))
  BY <1>4 DEF LoadedFilter
<1> QED
  BY <1>1, <1>2, <1>3, <1>5, <1>6

\* Whatever the record holds, a countdown comes out.
LEMMA LoadedType ==
  ASSUME NEW rec \in FilterRecords
  PROVE  LoadedFilter(rec) \in Nat
<1>1. rec[2] \in Nat /\ rec[3] \in Nat /\ rec[4] \in Nat /\ rec[5] \in Nat
  BY DEF FilterRecords, FilterCells
<1>2. \A x, y \in Nat : x + CellRange * y \in Nat
  BY NumberAssumption
<1>3. rec[4] + CellRange * rec[5] \in Nat
  BY <1>1, <1>2
<1>4. rec[3] + CellRange * (rec[4] + CellRange * rec[5]) \in Nat
  BY <1>1, <1>2, <1>3
<1>5. rec[2] + CellRange * (rec[3] + CellRange * (rec[4] + CellRange * rec[5])) \in Nat
  BY <1>1, <1>2, <1>4
<1> QED
  BY <1>5 DEF LoadedFilter

-----------------------------------------------------------------------------
(* The queue.                                                              *)

LEMMA ProducersAccepted ==
  /\ ButtonCommands \subseteq AcceptedCommand
  /\ MqttCommands \subseteq AcceptedCommand
  /\ SystemPosts \subseteq AcceptedCommand
  /\ \A batch \in ControlPosts : batch \in Seq(AcceptedCommand) /\ Len(batch) \in 1 .. 3
<1>1. ButtonCommands \subseteq AcceptedCommand
  BY CommandAssumption DEF Accepted, AcceptedCommand
<1>2. MqttCommands \subseteq AcceptedCommand
  BY CommandAssumption DEF Accepted, AcceptedCommand
<1>3. SystemPosts \subseteq AcceptedCommand
  BY CommandAssumption DEF Accepted, AcceptedCommand
<1>4. ASSUME NEW batch \in ControlPosts
      PROVE  batch \in Seq(AcceptedCommand) /\ Len(batch) \in 1 .. 3
  <2>1. batch \in Seq(Command) /\ Len(batch) \in 1 .. 3
    BY CommandAssumption
  <2>2. \A i \in 1 .. Len(batch) : batch[i] \in AcceptedCommand
    BY <2>1, CommandAssumption DEF Accepted, AcceptedCommand
  <2> QED
    BY <2>1, <2>2
<1> QED
  BY <1>1, <1>2, <1>3, <1>4

QueueTypeOK ==
  /\ queue \in Seq(AcceptedCommand) /\ Len(queue) <= Capacity
  /\ drops \in [Sources -> 0 .. CounterRange - 1]

LEMMA RecordDropsType ==
  ASSUME drops \in [Sources -> 0 .. CounterRange - 1], NEW source, NEW n \in Nat,
         RecordDrops(source, n)
  PROVE  drops' \in [Sources -> 0 .. CounterRange - 1]
<1>1. \A d \in 0 .. CounterRange - 1 : (d + n) % CounterRange \in 0 .. CounterRange - 1
  BY NumberAssumption
<1> QED
  BY <1>1 DEF RecordDrops

LEMMA EnqueueType ==
  ASSUME QueueTypeOK, NEW cmd \in AcceptedCommand, EnqueueCommand(cmd)
  PROVE  QueueTypeOK'
<1>1. CASE Q!Put(<<cmd>>) /\ UNCHANGED drops
  <2>1. Len(<<cmd>>) = 1 /\ <<cmd>> \in Seq(AcceptedCommand)
    OBVIOUS
  <2> QED
    BY <1>1, <2>1, QueueAssumption DEF Q!Put, QueueTypeOK, Capacity
<1>2. CASE RecordDrops(cmd.source, 1) /\ UNCHANGED queue
  BY <1>2, RecordDropsType DEF QueueTypeOK
<1> QED
  BY <1>1, <1>2 DEF EnqueueCommand

LEMMA EnqueueBatchType ==
  ASSUME QueueTypeOK, NEW cmds \in ControlPosts, EnqueueCommands(cmds)
  PROVE  QueueTypeOK'
<1>1. cmds \in Seq(AcceptedCommand) /\ Len(cmds) \in Nat
  BY ProducersAccepted
<1>2. CASE Q!Put(cmds) /\ UNCHANGED drops
  BY <1>1, <1>2, QueueAssumption DEF Q!Put, QueueTypeOK, Capacity
<1>3. CASE RecordDrops(cmds[1].source, Len(cmds)) /\ UNCHANGED queue
  BY <1>1, <1>3, RecordDropsType DEF QueueTypeOK
<1> QED
  BY <1>2, <1>3 DEF EnqueueCommands

LEMMA GetType ==
  ASSUME QueueTypeOK, queue # <<>>
  PROVE  /\ Head(queue) \in AcceptedCommand
         /\ Q!Get /\ UNCHANGED drops => QueueTypeOK'
<1>1. queue \in Seq(AcceptedCommand) /\ Len(queue) \in Nat /\ Len(queue) # 0
  BY DEF QueueTypeOK
<1>2. Head(queue) \in AcceptedCommand
  BY <1>1
<1>3. Tail(queue) \in Seq(AcceptedCommand) /\ Len(Tail(queue)) = Len(queue) - 1
  BY <1>1
<1>4. Capacity \in Int
  BY QueueAssumption DEF Capacity
<1>5. ASSUME Q!Get, UNCHANGED drops
      PROVE  QueueTypeOK'
  BY <1>1, <1>3, <1>4, <1>5 DEF Q!Get, QueueTypeOK
<1> QED
  BY <1>2, <1>5

-----------------------------------------------------------------------------
(* The inductive invariant.  FanMemory and StaleMeansDirty need the types of *)
(* the fields they compare; FilterDurable needs to know that while a save is *)
(* under way every cell is the old one or the new one.                     *)

CellsOldOrNew ==
  \A c \in FilterCells :
    eeprom.filter[c] \in {filterBefore[c], FilterRecord(dev.filter_minutes)[c]}

FilterKept ==
  /\ ~SavingFilter => LoadedFilter(eeprom.filter) = dev.filter_minutes
  /\ SavingFilter => CellsOldOrNew

IInv == TypeOK /\ FanMemory /\ FilterKept /\ StaleMeansDirty

\* The part of IInv that speaks of the device state, the EEPROM and the broker.
DeviceInv == IsDevice(dev) /\ FanMemory /\ FilterKept /\ StaleMeansDirty

\* The part that only the loop's own variables matter for.
LoopTypeOK ==
  /\ pc \in Phases
  /\ burst \in 0 .. MqttBurst
  /\ setup_mode \in BOOLEAN /\ web_started \in BOOLEAN
  /\ display_reinit_pending \in BOOLEAN /\ ip_timer \in BOOLEAN
  /\ eeprom \in [filter : FilterRecords, ssid_set : BOOLEAN]
  /\ lastFan \in 1 .. 100 /\ filterBefore \in FilterRecords

LEMMA IInvParts == IInv <=> DeviceInv /\ QueueTypeOK /\ LoopTypeOK
BY DEF IInv, DeviceInv, QueueTypeOK, LoopTypeOK, TypeOK

\* A new device state that keeps the two fan fields, the countdown and (unless
\* it raises dirty_publish) every published field keeps the invariant.
SameFanAndFilter(s, t) ==
  /\ t.fan_percent = s.fan_percent
  /\ t.saved_fan_percent = s.saved_fan_percent
  /\ t.filter_minutes = s.filter_minutes

LEMMA StaleKept ==
  ASSUME NEW s, SetDevice(s), StaleMeansDirty, ~SavingFilter,
         \/ s.dirty_publish = TRUE
         \/ /\ s.dirty_publish = dev.dirty_publish
            /\ \A f \in PublishedFields : s[f] = dev[f]
  PROVE  StaleMeansDirty'
<1>1. CASE s.dirty_publish = TRUE
  BY <1>1 DEF SetDevice, StaleMeansDirty
<1>2. CASE s.dirty_publish = dev.dirty_publish /\ \A f \in PublishedFields : s[f] = dev[f]
  <2>1. StateBurst(s) = StateBurst(dev)
    BY <1>2 DEF StateBurst
  <2> QED
    BY <1>2, <2>1 DEF SetDevice, StaleMeansDirty
<1> QED
  BY <1>1, <1>2

\* init() and every reset establish the invariant.
LEMMA InitOutputsInv ==
  ASSUME NEW stored \in [filter : FilterRecords, ssid_set : BOOLEAN], NEW listening
  PROVE  LET t == InitOutputs(stored, listening).dev
         IN  /\ IsDevice(t)
             /\ t.fan_percent = 25 /\ t.saved_fan_percent = 25
             /\ t.filter_minutes = LoadedFilter(stored.filter)
             /\ t.dirty_publish = TRUE
<1> DEFINE s == BootDevice(LoadedFilter(stored.filter))
           t == InitOutputs(stored, listening).dev
           setup == ~stored.ssid_set
<1>1. IsDevice(s)
  BY BootType, LoadedType
<1>2. t = OutputsApplied(s, setup, listening, UnappliedOutputs, DriversAtBoot,
                         PanelAtBoot(setup)).dev
  BY DEF InitOutputs
<1>3. setup \in BOOLEAN
  OBVIOUS
<1> HIDE DEF s, t, setup
<1>4. IsDevice(t) /\ \A f \in DeviceFields \ {"screen_light_on", "dirty_display"} : t[f] = s[f]
  BY <1>1, <1>2, <1>3, OutputsType
<1>5. s.fan_percent = 25 /\ s.saved_fan_percent = 25 /\ s.filter_minutes = LoadedFilter(stored.filter)
      /\ s.dirty_publish = TRUE
  BY DEF s, BootDevice
<1>6. {"fan_percent", "saved_fan_percent", "filter_minutes", "dirty_publish"}
        \subseteq DeviceFields \ {"screen_light_on", "dirty_display"}
  BY DEF DeviceFields
<1> QED
  BY <1>4, <1>5, <1>6 DEF t

LEMMA RestartInv ==
  ASSUME NEW stored \in [filter : FilterRecords, ssid_set : BOOLEAN], Restart(stored)
  PROVE  IInv'
<1>1. PICK listening \in ListenReadings : dev' = InitOutputs(stored, listening).dev
  BY DEF Restart
<1>2. DeviceInv'
  BY <1>1, InitOutputsInv
  DEF Restart, DeviceInv, FanMemory, FilterKept, StaleMeansDirty, SavingFilter, Go
<1>3. QueueTypeOK'
  <2>1. <<>> \in Seq(AcceptedCommand) /\ Len(<<>>) = 0
    OBVIOUS
  <2> QED
    BY <2>1, QueueAssumption, NumberAssumption DEF Restart, QueueTypeOK, Capacity
<1>4. LoopTypeOK'
  <2>1. stored.ssid_set \in BOOLEAN /\ (~stored.ssid_set) \in BOOLEAN
    OBVIOUS
  <2>2. setup_mode' \in BOOLEAN /\ web_started' \in BOOLEAN
    BY <2>1, Zenon DEF Restart
  <2>3. 0 \in 0 .. MqttBurst /\ 25 \in 1 .. 100
    BY NumberAssumption
  <2> QED
    BY <2>2, <2>3 DEF Restart, LoopTypeOK, Phases, Go
<1> QED
  BY <1>2, <1>3, <1>4, IInvParts DEF IInv, DeviceInv, QueueTypeOK, LoopTypeOK, TypeOK

LEMMA ErasedType == ErasedRecord \in FilterRecords
BY NumberAssumption DEF ErasedRecord, FilterRecords

LEMMA InitInv == Init => IInv
<1> SUFFICES ASSUME Init PROVE IInv
  OBVIOUS
<1>1. PICK listening \in ListenReadings : dev = InitOutputs(eeprom, listening).dev
  BY DEF Init
<1>2. eeprom \in [filter : FilterRecords, ssid_set : BOOLEAN] /\ filterBefore \in FilterRecords
  BY ErasedType DEF Init
<1>3. DeviceInv
  BY <1>1, <1>2, InitOutputsInv DEF Init, DeviceInv, FanMemory, FilterKept, StaleMeansDirty, SavingFilter
<1>4. QueueTypeOK
  <2>1. <<>> \in Seq(AcceptedCommand) /\ Len(<<>>) = 0
    OBVIOUS
  <2> QED
    BY <2>1, QueueAssumption, NumberAssumption DEF Init, Q!Init, QueueTypeOK, Capacity
<1>5. LoopTypeOK
  <2>1. eeprom.ssid_set \in BOOLEAN /\ (~eeprom.ssid_set) \in BOOLEAN
    BY <1>2
  <2>2. setup_mode \in BOOLEAN /\ web_started \in BOOLEAN
    BY <2>1, Zenon DEF Init
  <2>3. 0 \in 0 .. MqttBurst /\ 25 \in 1 .. 100
    BY NumberAssumption
  <2> QED
    BY <1>2, <2>2, <2>3 DEF Init, LoopTypeOK, Phases
<1> QED
  BY <1>3, <1>4, <1>5, IInvParts

-----------------------------------------------------------------------------
(* One lemma per action: it keeps IInv.                                    *)

\* What a step may do to the device state by itself.
LEMMA DeviceKept ==
  ASSUME IInv, NEW s, IsDevice(s), SetDevice(s), SameFanAndFilter(dev, s),
         \/ s.dirty_publish = TRUE
         \/ /\ s.dirty_publish = dev.dirty_publish
            /\ \A f \in PublishedFields : s[f] = dev[f],
         lastFan' = lastFan, eeprom'.filter = eeprom.filter, ~SavingFilter, ~SavingFilter'
  PROVE  DeviceInv'
<1>1. StaleMeansDirty'
  BY StaleKept DEF IInv
<1>2. dev' = s
  BY DEF SetDevice
<1>3. FanMemory' /\ FilterKept'
  BY <1>2 DEF IInv, FanMemory, FilterKept, SameFanAndFilter
<1> QED
  BY <1>1, <1>2, <1>3 DEF DeviceInv

\* A step that leaves the device state and the filter record alone, outside a save
\* or during one.
LEMMA DeviceUntouched ==
  ASSUME IInv, dev' = dev, broker_behind' = broker_behind, eeprom'.filter = eeprom.filter,
         lastFan' = lastFan,
         \/ pc' = pc /\ filterBefore' = filterBefore
         \/ ~SavingFilter /\ ~SavingFilter'
  PROVE  DeviceInv'
<1>1. IsDevice(dev') /\ FanMemory'
  BY DEF IInv, TypeOK, FanMemory
<1>2. SavingFilter' <=> SavingFilter
  BY DEF SavingFilter
<1>3. StaleMeansDirty'
  BY <1>2 DEF IInv, StaleMeansDirty
<1>4. SavingFilter => filterBefore' = filterBefore
  OBVIOUS
<1>5. FilterKept'
  BY <1>2, <1>4 DEF IInv, FilterKept, CellsOldOrNew
<1> QED
  BY <1>1, <1>3, <1>5 DEF DeviceInv

\* Most of the tick runs with no save under way.
LEMMA OutsideSave ==
  ASSUME \/ TickDisplay \/ ProcessCommandsDone \/ PollButtons \/ TickWeb \/ TickWifi
         \/ TickMqtt \/ TickReport \/ QueueStatePublish \/ ApplyOutputs
  PROVE  ~SavingFilter /\ ~SavingFilter'
<1>1. CASE TickDisplay \/ ProcessCommandsDone \/ PollButtons
  BY <1>1 DEF TickDisplay, ProcessCommandsDone, PollButtons, Go, SavingFilter
<1>2. CASE TickWeb \/ TickWifi \/ TickMqtt
  BY <1>2 DEF TickWeb, TickWifi, TickMqtt, Go, SavingFilter
<1>3. CASE TickReport \/ QueueStatePublish \/ ApplyOutputs
  BY <1>3 DEF TickReport, QueueStatePublish, ApplyOutputs, Go, SavingFilter
<1> QED
  BY <1>1, <1>2, <1>3

LEMMA SerialInv ==
  ASSUME IInv, TickSerialProvision
  PROVE  IInv'
<1>1. CASE /\ Go("display")
           /\ UNCHANGED <<dev, queue, drops, burst, loopVars, outVars, broker_behind, eeprom,
                          history>>
  <2>1. DeviceInv'
    <3>1. ~SavingFilter /\ ~SavingFilter'
      BY <1>1 DEF TickSerialProvision, Go, SavingFilter
    <3> QED
      BY <1>1, <3>1, DeviceUntouched DEF history
  <2>2. QueueTypeOK' /\ LoopTypeOK'
    BY <1>1 DEF IInv, TypeOK, QueueTypeOK, LoopTypeOK, Go, Phases, loopVars, history
  <2> QED
    BY <2>1, <2>2 DEF IInv, TypeOK, DeviceInv, QueueTypeOK, LoopTypeOK
<1>2. CASE setup_mode /\ Restart([eeprom EXCEPT !.ssid_set = TRUE])
  <2>1. [eeprom EXCEPT !.ssid_set = TRUE] \in [filter : FilterRecords, ssid_set : BOOLEAN]
    BY DEF IInv, TypeOK
  <2> QED
    BY <1>2, <2>1, RestartInv
<1> QED
  BY <1>1, <1>2 DEF TickSerialProvision

LEMMA DisplayInv ==
  ASSUME IInv, TickDisplay
  PROVE  IInv'
<1>1. IsDevice(dev)
  BY DEF IInv, TypeOK
<1>2. IsDevice(dev') /\ SameFanAndFilter(dev, dev') /\ dev'.dirty_publish = dev.dirty_publish
  <2>1. CASE dev' = dev
    BY <1>1, <2>1 DEF SameFanAndFilter
  <2>2. CASE dev' = [dev EXCEPT !.dirty_display = TRUE]
    BY <1>1, <2>2 DEF IsDevice, DeviceFields, SameFanAndFilter
  <2> QED
    BY <2>1, <2>2 DEF TickDisplay
<1>3. DeviceInv'
  <2>1. ~SavingFilter /\ ~SavingFilter'
    BY OutsideSave
  <2>2. UNCHANGED <<broker_behind, eeprom, lastFan>>
    BY DEF TickDisplay
  <2> QED
    BY <1>2, <2>1, <2>2
    DEF IInv, DeviceInv, FanMemory, FilterKept, StaleMeansDirty, SameFanAndFilter
<1>4. QueueTypeOK' /\ LoopTypeOK'
  BY DEF IInv, TypeOK, QueueTypeOK, LoopTypeOK, Go, Phases, TickDisplay
<1> QED
  BY <1>3, <1>4 DEF IInv, TypeOK, DeviceInv, QueueTypeOK, LoopTypeOK

\* saveFilterState is called: nothing is written yet, and what was stored is what the
\* loop worked with until now.
LEMMA SaveBegins ==
  ASSUME IInv, pc \in {"drain", "drain_button", "filter"}, NEW minutes \in Nat,
         SetDevice([dev EXCEPT !.filter_minutes = minutes]), SaveFilterState,
         UNCHANGED <<eeprom, lastFan>>
  PROVE  DeviceInv' /\ pc' \in Phases /\ filterBefore' \in FilterRecords /\ SavingFilter'
<1>1. pc' \in {"drain_save", "drain_button_save", "filter_save"} /\ filterBefore' = eeprom.filter
  BY DEF SaveFilterState, Go, SavingFrom
<1>2. SavingFilter' /\ pc' \in Phases
  BY <1>1 DEF SavingFilter, Phases
<1>3. IsDevice(dev) /\ eeprom.filter \in FilterRecords
  BY DEF IInv, TypeOK
<1>4. dev' = [dev EXCEPT !.filter_minutes = minutes]
  BY DEF SetDevice
<1>5. /\ IsDevice(dev') /\ dev'.fan_percent = dev.fan_percent
      /\ dev'.saved_fan_percent = dev.saved_fan_percent
  BY <1>3, <1>4 DEF IsDevice, DeviceFields
<1>6. FanMemory' /\ StaleMeansDirty'
  BY <1>2, <1>5 DEF IInv, FanMemory, StaleMeansDirty
<1>7. FilterKept'
  BY <1>1, <1>2 DEF FilterKept, CellsOldOrNew
<1> QED
  BY <1>1, <1>2, <1>3, <1>5, <1>6, <1>7 DEF DeviceInv

LEMMA ProcessCommandInv ==
  ASSUME IInv, ProcessCommand
  PROVE  IInv'
<1> DEFINE cmd == Head(queue)
<1>0. ~SavingFilter /\ pc \in {"drain", "drain_button"}
  BY DEF ProcessCommand, SavingFilter
<1>1. cmd \in AcceptedCommand /\ (Q!Get /\ UNCHANGED drops => QueueTypeOK')
  BY GetType DEF IInv, TypeOK, QueueTypeOK, ProcessCommand
<1>2. IsDevice(dev) /\ dev.fan_percent \in {0, dev.saved_fan_percent}
  BY DEF IInv, TypeOK, FanMemory
<1> HIDE DEF cmd
<1>3. CASE EndingCommand(cmd)
  <2>1. CASE Restart([eeprom EXCEPT !.ssid_set = FALSE])
    <3>1. [eeprom EXCEPT !.ssid_set = FALSE] \in [filter : FilterRecords, ssid_set : BOOLEAN]
      BY DEF IInv, TypeOK
    <3> QED
      BY <2>1, <3>1, RestartInv
  <2>2. CASE Restart(eeprom)
    BY <2>2, RestartInv DEF IInv, TypeOK
  <2>3. CASE /\ Go("dfu") /\ Q!Get
             /\ UNCHANGED <<dev, drops, burst, loopVars, outVars, broker_behind, eeprom,
                            history>>
    <3>1. DeviceInv'
      <4>1. ~SavingFilter'
        BY <2>3 DEF Go, SavingFilter
      <4> QED
        BY <1>0, <2>3, <4>1, DeviceUntouched DEF history
    <3>2. QueueTypeOK'
      BY <1>1, <2>3
    <3>3. LoopTypeOK'
      BY <2>3 DEF IInv, TypeOK, LoopTypeOK, Go, Phases, loopVars, history
    <3> QED
      BY <3>1, <3>2, <3>3 DEF IInv, TypeOK, DeviceInv, QueueTypeOK, LoopTypeOK
  <2> QED
    BY <1>3, <2>1, <2>2, <2>3 DEF EndingCommand
<1>4. CASE /\ Q!Get
           /\ ApplyCommand(cmd)
           /\ UNCHANGED <<drops, burst, setup_mode, display_reinit_pending>>
  <2>1. QueueTypeOK'
    BY <1>1, <1>4
  <2>10. pc' = pc => ~SavingFilter'
    BY <1>0 DEF SavingFilter
  <2>2. CASE ApplySetting(cmd) /\ UNCHANGED <<pc, web_started, ip_timer>>
    <3> DEFINE s == DirectApply(cmd, dev)
    <3>1. /\ IsDevice(s) /\ s.dirty_publish = TRUE
          /\ s.fan_percent = dev.fan_percent /\ s.saved_fan_percent = dev.saved_fan_percent
          /\ s.filter_minutes = dev.filter_minutes
      BY <1>1, <1>2, <2>2, DirectType DEF ApplySetting
    <3>2. SetDevice(s) /\ dev' = s
      BY <2>2 DEF ApplySetting, SetDevice
    <3> HIDE DEF s
    <3>3. StaleMeansDirty'
      BY <1>0, <3>1, <3>2, StaleKept DEF IInv
    <3>4. FanMemory'
      BY <2>2, <3>1, <3>2 DEF IInv, FanMemory, ApplySetting, history
    <3>5. FilterKept'
      BY <1>0, <2>2, <2>10, <3>1, <3>2 DEF IInv, FilterKept, ApplySetting
    <3>6. LoopTypeOK'
      BY <1>4, <2>2 DEF IInv, TypeOK, LoopTypeOK, ApplySetting, history
    <3> QED
      BY <2>1, <3>1, <3>2, <3>3, <3>4, <3>5, <3>6
      DEF IInv, TypeOK, QueueTypeOK, LoopTypeOK
  <2>3. CASE ApplyArmUpdate(cmd) /\ UNCHANGED <<pc, web_started, ip_timer>>
    <3>1. DeviceInv'
      BY <1>0, <2>3, <2>10, DeviceUntouched DEF history, ApplyArmUpdate
    <3>2. LoopTypeOK'
      BY <1>4, <2>3 DEF IInv, TypeOK, LoopTypeOK, history, ApplyArmUpdate
    <3> QED
      BY <2>1, <3>1, <3>2 DEF IInv, TypeOK, DeviceInv, QueueTypeOK, LoopTypeOK
  <2>4. CASE ApplyScreenLight(cmd) /\ UNCHANGED <<pc, web_started, ip_timer>>
    <3> DEFINE on == cmd.value # 0
               s == [dev EXCEPT !.screen_light_on = on]
    <3>1. on \in BOOLEAN
      OBVIOUS
    <3>2. SetDevice(s)
      BY <2>4 DEF ApplyScreenLight
    <3> HIDE DEF on
    <3>3. IsDevice(s) /\ SameFanAndFilter(dev, s) /\ s.dirty_publish = dev.dirty_publish
      BY <1>2, <3>1 DEF IsDevice, DeviceFields, SameFanAndFilter
    <3>4. \A f \in PublishedFields : s[f] = dev[f]
      BY <1>2 DEF IsDevice, DeviceFields, PublishedFields
    <3> HIDE DEF s
    <3>5. DeviceInv'
      BY <1>0, <2>4, <2>10, <3>2, <3>3, <3>4, DeviceKept DEF ApplyScreenLight
    <3>6. LoopTypeOK'
      BY <1>4, <2>4 DEF IInv, TypeOK, LoopTypeOK, ApplyScreenLight
    <3> QED
      BY <2>1, <3>5, <3>6 DEF IInv, TypeOK, DeviceInv, QueueTypeOK, LoopTypeOK
  <2>5. CASE ApplyRouted(cmd) /\ UNCHANGED <<pc, web_started, ip_timer>>
    <3> DEFINE s == RouterApply(cmd, dev)
    <3>1. IsDevice(s)
      BY <1>1, <1>2, <2>5, RouterType DEF ApplyRouted
    <3>2. /\ s.filter_minutes = dev.filter_minutes
          /\ s.dirty_publish = TRUE
          /\ s.saved_fan_percent = IF s.fan_percent > 0 THEN s.fan_percent
                                                         ELSE dev.saved_fan_percent
      BY <1>1, <1>2, <2>5, RouterEffect DEF ApplyRouted
    <3>3. SetDevice(s) /\ dev' = s
      BY <2>5 DEF ApplyRouted, SetDevice
    <3> HIDE DEF s
    <3>4. StaleMeansDirty'
      BY <1>0, <3>2, <3>3, StaleKept DEF IInv
    <3>5. FanMemory' /\ lastFan' \in 1 .. 100
      <4>1. s.fan_percent \in 0 .. 100 /\ lastFan \in 1 .. 100
            /\ dev.saved_fan_percent = lastFan
        BY <3>1 DEF IInv, TypeOK, FanMemory, IsDevice
      <4>2. lastFan' = IF s.fan_percent > 0 THEN s.fan_percent ELSE lastFan
        BY <2>5, <3>3 DEF ApplyRouted
      <4> QED
        BY <3>2, <3>3, <4>1, <4>2 DEF FanMemory
    <3>6. FilterKept'
      BY <1>0, <2>5, <2>10, <3>2, <3>3 DEF IInv, FilterKept, ApplyRouted
    <3>7. LoopTypeOK'
      BY <1>4, <2>5, <3>5 DEF IInv, TypeOK, LoopTypeOK, ApplyRouted
    <3> QED
      BY <2>1, <3>1, <3>3, <3>4, <3>5, <3>6, <3>7 DEF IInv, TypeOK, QueueTypeOK, LoopTypeOK
  <2>6. CASE ApplyToggleWifi(cmd) /\ UNCHANGED pc
    <3> DEFINE enabled == ~dev.wifi_enabled
               ready == dev.wifi_ready /\ ~dev.wifi_enabled
               s == [Touched(dev) EXCEPT !.wifi_enabled = enabled, !.wifi_ready = ready]
    <3>1. enabled \in BOOLEAN /\ ready \in BOOLEAN
      BY <1>2 DEF IsDevice
    <3>2. SetDevice(s)
      <4>1. Touched(dev).wifi_enabled = dev.wifi_enabled /\ Touched(dev).wifi_ready = dev.wifi_ready
        BY <1>2 DEF Touched, IsDevice, DeviceFields
      <4> QED
        BY <2>6, <4>1 DEF ApplyToggleWifi
    <3>3. ip_timer' \in BOOLEAN /\ web_started' \in BOOLEAN
      BY <2>6, Zenon DEF ApplyToggleWifi, IInv, TypeOK
    <3> HIDE DEF enabled, ready
    <3>4. IsDevice(s) /\ SameFanAndFilter(dev, s) /\ s.dirty_publish = TRUE
      BY <1>2, <3>1 DEF Touched, IsDevice, DeviceFields, SameFanAndFilter
    <3> HIDE DEF s
    <3>5. DeviceInv'
      BY <1>0, <2>6, <2>10, <3>2, <3>4, DeviceKept DEF ApplyToggleWifi, history
    <3>6. LoopTypeOK'
      BY <1>4, <2>6, <3>3 DEF IInv, TypeOK, LoopTypeOK, ApplyToggleWifi, history
    <3> QED
      BY <2>1, <3>5, <3>6 DEF IInv, TypeOK, DeviceInv, QueueTypeOK, LoopTypeOK
  <2>7. CASE ApplyFilterDays(cmd) /\ UNCHANGED <<web_started, ip_timer>>
    <3> DEFINE minutes == cmd.value * MinutesPerDay
    <3>1. minutes \in Nat
      BY <1>1, <2>7, NumberAssumption
      DEF ApplyFilterDays, AcceptedCommand, Command, AcceptedValue
    <3> HIDE DEF minutes
    <3>2. SetDevice([dev EXCEPT !.filter_minutes = minutes]) /\ SaveFilterState
          /\ UNCHANGED <<eeprom, lastFan>>
      BY <2>7 DEF ApplyFilterDays, minutes
    <3>3. DeviceInv' /\ pc' \in Phases /\ filterBefore' \in FilterRecords
      BY <1>0, <3>1, <3>2, SaveBegins
    <3>4. LoopTypeOK'
      BY <1>4, <2>7, <3>2, <3>3 DEF IInv, TypeOK, LoopTypeOK
    <3> QED
      BY <2>1, <3>3, <3>4 DEF IInv, TypeOK, DeviceInv, QueueTypeOK, LoopTypeOK
  <2> QED
    BY <1>4, <2>2, <2>3, <2>4, <2>5, <2>6, <2>7 DEF ApplyCommand
<1> QED
  BY <1>3, <1>4 DEF ProcessCommand, cmd

\* Steps of the loop that leave the device state, the EEPROM and the queue alone.
LEMMA DoneInv ==
  ASSUME IInv, ProcessCommandsDone
  PROVE  IInv'
<1>1. DeviceInv'
  BY DeviceUntouched, OutsideSave DEF history, ProcessCommandsDone
<1>2. QueueTypeOK' /\ LoopTypeOK'
  BY DEF IInv, TypeOK, QueueTypeOK, LoopTypeOK, Go, Phases, loopVars, history,
         ProcessCommandsDone
<1> QED
  BY <1>1, <1>2 DEF IInv, TypeOK, DeviceInv, QueueTypeOK, LoopTypeOK

LEMMA PollInv ==
  ASSUME IInv, PollButtons
  PROVE  IInv'
<1>1. DeviceInv'
  BY DeviceUntouched, OutsideSave DEF history, PollButtons
<1>2. QueueTypeOK
  BY DEF IInv, TypeOK, QueueTypeOK
<1>3. QueueTypeOK'
  <2>1. CASE UNCHANGED <<queue, drops>>
    BY <1>2, <2>1 DEF QueueTypeOK
  <2>2. ASSUME NEW cmd \in ButtonCommands, EnqueueCommand(cmd)
        PROVE  QueueTypeOK'
    BY <1>2, <2>2, EnqueueType, ProducersAccepted
  <2> QED
    BY <2>1, <2>2 DEF PollButtons
<1>4. LoopTypeOK'
  BY DEF IInv, TypeOK, LoopTypeOK, Go, Phases, loopVars, history, PollButtons
<1> QED
  BY <1>1, <1>3, <1>4 DEF IInv, TypeOK, DeviceInv, QueueTypeOK, LoopTypeOK

LEMMA WebInv ==
  ASSUME IInv, TickWeb
  PROVE  IInv'
<1>1. eeprom' \in [filter : FilterRecords, ssid_set : BOOLEAN] /\ eeprom'.filter = eeprom.filter
  <2>1. eeprom \in [filter : FilterRecords, ssid_set : BOOLEAN]
    BY DEF IInv, TypeOK
  <2>2. ASSUME NEW stored \in SsidPosts, eeprom' = [eeprom EXCEPT !.ssid_set = stored]
        PROVE  eeprom' \in [filter : FilterRecords, ssid_set : BOOLEAN] /\ eeprom'.filter = eeprom.filter
    <3>1. stored \in BOOLEAN
      BY NumberAssumption
    <3> QED
      BY <2>1, <2>2, <3>1
  <2> QED
    BY <2>1, <2>2 DEF TickWeb, HandleClient, HandleApiControlPost,
           HandleApiSystemPost, HandleApiSettingsPost
<1>2. DeviceInv'
  BY <1>1, DeviceUntouched, OutsideSave DEF history, TickWeb
<1>3. QueueTypeOK
  BY DEF IInv, TypeOK, QueueTypeOK
<1>4. QueueTypeOK'
  <2>1. CASE UNCHANGED <<queue, drops>>
    BY <1>3, <2>1 DEF QueueTypeOK
  <2>2. ASSUME NEW cmd \in SystemPosts, EnqueueCommand(cmd)
        PROVE  QueueTypeOK'
    BY <1>3, <2>2, EnqueueType, ProducersAccepted
  <2>3. ASSUME NEW cmds \in ControlPosts, EnqueueCommands(cmds)
        PROVE  QueueTypeOK'
    BY <1>3, <2>3, EnqueueBatchType
  <2> QED
    BY <2>1, <2>2, <2>3 DEF TickWeb, HandleClient, HandleApiControlPost,
           HandleApiSystemPost, HandleApiSettingsPost
<1>5. web_started' \in BOOLEAN
  BY Zenon DEF TickWeb, IInv, TypeOK
<1>6. LoopTypeOK'
  BY <1>1, <1>5 DEF IInv, TypeOK, LoopTypeOK, Go, Phases, history, TickWeb
<1> QED
  BY <1>2, <1>4, <1>6 DEF IInv, TypeOK, DeviceInv, QueueTypeOK, LoopTypeOK

LEMMA WifiInv ==
  ASSUME IInv, TickWifi
  PROVE  IInv'
<1>1. IsDevice(dev)
  BY DEF IInv, TypeOK
<1>2. PICK ready \in BOOLEAN, shown \in BOOLEAN :
        LET changed == ready # dev.wifi_ready \/ shown # ip_timer
        IN  /\ ip_timer' = shown
            /\ SetDevice([dev EXCEPT !.wifi_ready = ready,
                                     !.dirty_display = @ \/ changed,
                                     !.dirty_publish = @ \/ changed])
  <2>1. (IF dev.wifi_enabled THEN WifiReadings ELSE {FALSE}) \subseteq BOOLEAN
    BY NumberAssumption
  <2> QED
    BY <2>1 DEF TickWifi
<1> DEFINE changed == ready # dev.wifi_ready \/ shown # ip_timer
           draw == dev.dirty_display \/ changed
           publish == dev.dirty_publish \/ changed
           s == [dev EXCEPT !.wifi_ready = ready, !.dirty_display = draw, !.dirty_publish = publish]
<1>3. SetDevice(s)
  BY <1>2
<1>4. draw \in BOOLEAN /\ publish \in BOOLEAN /\ (publish = TRUE \/ publish = dev.dirty_publish)
  BY <1>1, Zenon DEF IsDevice
<1> HIDE DEF draw, publish
<1>5. IsDevice(s) /\ SameFanAndFilter(dev, s) /\ s.dirty_publish = publish
  BY <1>1, <1>4 DEF IsDevice, DeviceFields, SameFanAndFilter
<1>6. \A f \in PublishedFields : s[f] = dev[f]
  BY <1>1 DEF IsDevice, DeviceFields, PublishedFields
<1> HIDE DEF s
<1>7. DeviceInv'
  BY <1>3, <1>4, <1>5, <1>6, DeviceKept, OutsideSave DEF TickWifi, history
<1>8. LoopTypeOK' /\ QueueTypeOK'
  BY <1>2, NumberAssumption
  DEF IInv, TypeOK, LoopTypeOK, QueueTypeOK, Go, Phases, history, TickWifi
<1> QED
  BY <1>7, <1>8 DEF IInv, TypeOK, DeviceInv, QueueTypeOK, LoopTypeOK

LEMMA MqttInv ==
  ASSUME IInv, TickMqtt
  PROVE  IInv'
<1>1. DeviceInv'
  BY DeviceUntouched, OutsideSave DEF history, TickMqtt
<1>2. QueueTypeOK
  BY DEF IInv, TypeOK, QueueTypeOK
<1>3. QueueTypeOK'
  <2>1. CASE UNCHANGED <<queue, drops>>
    BY <1>2, <2>1 DEF QueueTypeOK
  <2>2. ASSUME NEW cmd \in MqttCommands, EnqueueCommand(cmd)
        PROVE  QueueTypeOK'
    BY <1>2, <2>2, EnqueueType, ProducersAccepted
  <2> QED
    BY <2>1, <2>2 DEF TickMqtt
<1>4. LoopTypeOK'
  BY NumberAssumption DEF IInv, TypeOK, LoopTypeOK, Go, Phases, loopVars, history, TickMqtt
<1> QED
  BY <1>1, <1>3, <1>4 DEF IInv, TypeOK, DeviceInv, QueueTypeOK, LoopTypeOK

LEMMA ReportInv ==
  ASSUME IInv, TickReport
  PROVE  IInv'
<1>1. IsDevice(dev)
  BY DEF IInv, TypeOK
<1>2. ASSUME UNCHANGED <<dev, broker_behind, panel>>
      PROVE  DeviceInv'
  BY <1>2, DeviceUntouched, OutsideSave DEF history, TickReport
<1>3. ASSUME NEW pm \in PmReadings, SetDevice([Touched(dev) EXCEPT !.pm_smooth = pm])
      PROVE  DeviceInv'
  <2> DEFINE s == [Touched(dev) EXCEPT !.pm_smooth = pm]
  <2>1. IsDevice(s) /\ SameFanAndFilter(dev, s) /\ s.dirty_publish = TRUE
    BY <1>1 DEF Touched, IsDevice, DeviceFields, SameFanAndFilter
  <2> QED
    BY <1>3, <2>1, DeviceKept, OutsideSave DEF TickReport, history
<1>4. DeviceInv'
  BY <1>2, <1>3 DEF TickReport
<1>5. LoopTypeOK' /\ QueueTypeOK'
  BY DEF IInv, TypeOK, LoopTypeOK, QueueTypeOK, Go, Phases, loopVars, history, TickReport
<1> QED
  BY <1>4, <1>5 DEF IInv, TypeOK, DeviceInv, QueueTypeOK, LoopTypeOK

LEMMA FilterInv ==
  ASSUME IInv, TickFilter
  PROVE  IInv'
<1>1. IsDevice(dev) /\ dev.filter_minutes \in Nat /\ pc = "filter" /\ ~SavingFilter
  BY DEF IInv, TypeOK, IsDevice, TickFilter, SavingFilter
<1> DEFINE Goal == DeviceInv' /\ pc' \in Phases /\ filterBefore' \in FilterRecords
           minutes == IF dev.filter_minutes > FilterTickMinutes
                        THEN dev.filter_minutes - FilterTickMinutes ELSE 0
<1>2. ASSUME Go("publish"), UNCHANGED <<dev, broker_behind, panel, filterBefore>>
      PROVE  Goal
  <2>1. ~SavingFilter' /\ pc' \in Phases
    BY <1>2 DEF Go, SavingFilter, Phases
  <2>2. UNCHANGED <<eeprom, lastFan>>
    BY DEF TickFilter
  <2>3. filterBefore' \in FilterRecords
    BY <1>2 DEF IInv, TypeOK
  <2> QED
    BY <1>1, <1>2, <2>1, <2>2, <2>3, DeviceUntouched
<1>3. minutes \in Nat
  BY <1>1, NumberAssumption
<1>4. ASSUME SetDevice([dev EXCEPT !.filter_minutes = minutes]), SaveFilterState
      PROVE  Goal
  <2>1. UNCHANGED <<eeprom, lastFan>>
    BY DEF TickFilter
  <2> HIDE DEF minutes
  <2> QED
    BY <1>1, <1>3, <1>4, <2>1, SaveBegins
<1>5. Goal
  BY <1>2, <1>4 DEF TickFilter
<1>6. LoopTypeOK' /\ QueueTypeOK'
  BY <1>5 DEF IInv, TypeOK, LoopTypeOK, QueueTypeOK, loopVars, TickFilter
<1> QED
  BY <1>5, <1>6 DEF IInv, TypeOK, DeviceInv, QueueTypeOK, LoopTypeOK

\* EEPROM.put makes one more cell the new one.
LEMMA WriteCellInv ==
  ASSUME IInv, WriteFilterCell
  PROVE  IInv'
<1> DEFINE new == FilterRecord(dev.filter_minutes)
<1>1. /\ eeprom \in [filter : FilterRecords, ssid_set : BOOLEAN] /\ dev.filter_minutes \in Nat
      /\ SavingFilter /\ CellsOldOrNew
  BY DEF IInv, TypeOK, IsDevice, FilterKept, WriteFilterCell
<1>2. new \in FilterRecords
  BY <1>1, RecordRoundTrip
<1>3. PICK c \in FilterCells : eeprom' = [eeprom EXCEPT !.filter[c] = new[c]]
  BY DEF WriteFilterCell
<1>4. UNCHANGED <<pc, dev, queue, drops, burst, loopVars, broker_behind, history>>
  BY DEF WriteFilterCell
<1> DEFINE cells == [eeprom.filter EXCEPT ![c] = new[c]]
<1>5. eeprom' = [eeprom EXCEPT !.filter = cells]
  BY <1>1, <1>3
<1>6. cells \in FilterRecords /\ \A d \in FilterCells : cells[d] \in {filterBefore[d], new[d]}
  <2>1. eeprom.filter \in [FilterCells -> Nat] /\ new \in [FilterCells -> Nat]
    BY <1>1, <1>2 DEF FilterRecords
  <2> HIDE DEF new
  <2>2. \A d \in FilterCells : eeprom.filter[d] \in {filterBefore[d], new[d]}
    BY <1>1 DEF CellsOldOrNew, new
  <2>3. cells \in FilterRecords
    BY <2>1 DEF FilterRecords
  <2>4. ASSUME NEW d \in FilterCells
        PROVE  cells[d] \in {filterBefore[d], new[d]}
    BY <2>1, <2>2
  <2> QED
    BY <2>3, <2>4
<1> HIDE DEF cells, new
<1>7. eeprom' \in [filter : FilterRecords, ssid_set : BOOLEAN] /\ eeprom'.filter = cells
  BY <1>1, <1>5, <1>6
<1>8. SavingFilter'
  BY <1>1, <1>4 DEF SavingFilter
<1>9. CellsOldOrNew'
  <2>1. new = FilterRecord(dev.filter_minutes)' /\ filterBefore' = filterBefore
    BY <1>4 DEF new, history
  <2> QED
    BY <1>6, <1>7, <2>1 DEF CellsOldOrNew
<1>10. FilterKept'
  BY <1>8, <1>9 DEF FilterKept
<1>11. FanMemory' /\ StaleMeansDirty'
  BY <1>4, <1>8 DEF IInv, FanMemory, StaleMeansDirty, history
<1>12. LoopTypeOK' /\ QueueTypeOK' /\ IsDevice(dev)'
  BY <1>4, <1>7 DEF IInv, TypeOK, LoopTypeOK, QueueTypeOK, loopVars, history
<1> QED
  BY <1>10, <1>11, <1>12 DEF IInv, TypeOK, LoopTypeOK, QueueTypeOK

\* The save ends with the record that is read back as the countdown.
LEMMA SavedInv ==
  ASSUME IInv, FilterSaved
  PROVE  IInv'
<1>1. /\ IsDevice(dev) /\ dev.filter_minutes \in Nat
      /\ eeprom.filter = FilterRecord(dev.filter_minutes) /\ eeprom.filter \in FilterRecords
  BY DEF IInv, TypeOK, IsDevice, FilterSaved
<1>2. /\ IsDevice(dev') /\ dev'.dirty_publish = TRUE
      /\ SameFanAndFilter(dev, dev')
  BY <1>1 DEF FilterSaved, IsDevice, DeviceFields, SameFanAndFilter
<1>3. pc' \in {"drain", "drain_button", "publish"} /\ UNCHANGED <<eeprom, lastFan>>
      /\ filterBefore' = eeprom.filter
  BY DEF FilterSaved, SavingFilter, Go, AfterSave
<1>4. ~SavingFilter' /\ pc' \in Phases
  BY <1>3 DEF SavingFilter, Phases
<1>5. LoadedFilter(eeprom.filter) = dev.filter_minutes
  BY <1>1, RecordRoundTrip
<1>6. FilterKept'
  BY <1>2, <1>3, <1>4, <1>5 DEF FilterKept, SameFanAndFilter
<1>7. FanMemory' /\ StaleMeansDirty'
  BY <1>2, <1>3 DEF IInv, FanMemory, StaleMeansDirty, SameFanAndFilter
<1>8. LoopTypeOK' /\ QueueTypeOK'
  BY <1>1, <1>3, <1>4 DEF IInv, TypeOK, LoopTypeOK, QueueTypeOK, loopVars, FilterSaved
<1> QED
  BY <1>2, <1>6, <1>7, <1>8 DEF IInv, TypeOK, LoopTypeOK, QueueTypeOK

LEMMA PublishInv ==
  ASSUME IInv, QueueStatePublish
  PROVE  IInv'
<1>1. IsDevice(dev)
  BY DEF IInv, TypeOK
<1>2. IsDevice(dev') /\ SameFanAndFilter(dev, dev') /\ StaleMeansDirty'
  <2>1. CASE UNCHANGED <<dev, broker_behind>>
    BY <1>1, <2>1, OutsideSave DEF IInv, StaleMeansDirty, SameFanAndFilter
  <2>2. CASE broker_behind' = FALSE /\ dev' = [dev EXCEPT !.dirty_publish = FALSE]
    BY <1>1, <2>2 DEF StaleMeansDirty, IsDevice, DeviceFields, SameFanAndFilter
  <2> QED
    BY <2>1, <2>2 DEF QueueStatePublish
<1>3. FanMemory' /\ FilterKept'
  BY <1>2, OutsideSave DEF IInv, FanMemory, FilterKept, SameFanAndFilter, QueueStatePublish, history
<1>4. LoopTypeOK' /\ QueueTypeOK'
  BY DEF IInv, TypeOK, LoopTypeOK, QueueTypeOK, Go, Phases, loopVars, history, QueueStatePublish
<1> QED
  BY <1>2, <1>3, <1>4 DEF IInv, TypeOK, QueueTypeOK, LoopTypeOK

LEMMA OutputsInv ==
  ASSUME IInv, ApplyOutputs
  PROVE  IInv'
<1>1. IsDevice(dev) /\ setup_mode \in BOOLEAN
  BY DEF IInv, TypeOK
<1>2. PICK listening \in ListenReadings :
        dev' = OutputsApplied(dev, setup_mode, listening, applied, hw, panel).dev
  BY DEF ApplyOutputs
<1>3. /\ IsDevice(dev')
      /\ \A f \in DeviceFields \ {"screen_light_on", "dirty_display"} : dev'[f] = dev[f]
  BY <1>1, <1>2, OutputsType
<1>4. SameFanAndFilter(dev, dev') /\ dev'.dirty_publish = dev.dirty_publish
  BY <1>3 DEF DeviceFields, SameFanAndFilter
<1>5. FanMemory' /\ FilterKept' /\ StaleMeansDirty'
  BY <1>4, OutsideSave
  DEF IInv, FanMemory, FilterKept, StaleMeansDirty, SameFanAndFilter, ApplyOutputs, history
<1>6. LoopTypeOK' /\ QueueTypeOK'
  BY DEF IInv, TypeOK, LoopTypeOK, QueueTypeOK, Go, Phases, loopVars, history, ApplyOutputs
<1> QED
  BY <1>3, <1>5, <1>6 DEF IInv, TypeOK, QueueTypeOK, LoopTypeOK

LEMMA SoftApInv ==
  ASSUME IInv, SoftApSave
  PROVE  IInv' /\ eeprom'.filter = eeprom.filter
<1>1. /\ eeprom' \in [filter : FilterRecords, ssid_set : BOOLEAN] /\ eeprom'.filter = eeprom.filter
  BY DEF IInv, TypeOK, SoftApSave
<1>2. DeviceInv'
  BY <1>1, DeviceUntouched DEF history, SoftApSave
<1> DEFINE reboot == [type |-> "Reboot", value |-> 0, source |-> "Web"]
<1>3. reboot \in AcceptedCommand
  BY DEF AcceptedCommand, Command, CommandTypes, Sources, AcceptedValue
<1>4. EnqueueCommand(reboot)
  BY DEF SoftApSave
<1> HIDE DEF reboot
<1>5. QueueTypeOK'
  BY <1>3, <1>4, EnqueueType DEF IInv, TypeOK, QueueTypeOK
<1>6. LoopTypeOK'
  BY <1>1 DEF IInv, TypeOK, LoopTypeOK, loopVars, history, SoftApSave
<1> QED
  BY <1>1, <1>2, <1>5, <1>6 DEF IInv, TypeOK, DeviceInv, QueueTypeOK, LoopTypeOK

-----------------------------------------------------------------------------
(* The theorems.                                                           *)

LEMMA StepInv == IInv /\ [Next]_vars => IInv'
<1> SUFFICES ASSUME IInv, [Next]_vars PROVE IInv'
  OBVIOUS
<1>1. CASE Tick
  BY <1>1, SerialInv, DisplayInv, ProcessCommandInv, DoneInv, PollInv, WebInv, WifiInv, MqttInv,
     ReportInv, FilterInv, WriteCellInv, SavedInv, PublishInv, OutputsInv DEF Tick
<1>2. CASE PowerLoss
  BY <1>2, RestartInv DEF PowerLoss, IInv, TypeOK
<1>3. CASE SoftApSave
  BY <1>3, SoftApInv
<1>4. CASE UNCHANGED vars
  <2>1. DeviceInv'
    BY <1>4, DeviceUntouched DEF vars, history
  <2>2. LoopTypeOK' /\ QueueTypeOK'
    BY <1>4 DEF IInv, TypeOK, LoopTypeOK, QueueTypeOK, vars, loopVars, history
  <2> QED
    BY <2>1, <2>2 DEF IInv, TypeOK, DeviceInv, LoopTypeOK, QueueTypeOK
<1> QED
  BY <1>1, <1>2, <1>3, <1>4 DEF Next

LEMMA Invariance == Spec => []IInv
BY InitInv, StepInv, PTL DEF Spec

\* Every field of the device state stays in its range, the queue never holds
\* more than its capacity or an unaccepted value, and no drop counter leaves its
\* width, for every queue size and every set of commands within the ranges that
\* the parsers accept.
THEOREM TypeCorrect == Spec => []TypeOK
BY Invariance, PTL DEF IInv

\* CommandRouter::apply and every other writer of the fan keep the remembered
\* speed equal to the last speed the fan ran at, for every sequence of commands.
THEOREM FanRemembered == Spec => []FanMemory
BY Invariance, PTL DEF IInv

\* Two records that differ in one cell have no mixture.
LEMMA NoMixture ==
  ASSUME NEW old \in FilterRecords, NEW new \in FilterRecords, NEW cells \in FilterRecords,
         \A c \in FilterCells : cells[c] \in {old[c], new[c]},
         \A c, d \in FilterCells : old[c] # new[c] /\ old[d] # new[d] => c = d
  PROVE  cells = old \/ cells = new
<1> USE DEF FilterRecords
<1>1. CASE \E c \in FilterCells : cells[c] # old[c]
  <2>1. PICK c \in FilterCells : cells[c] # old[c]
    BY <1>1
  <2>2. \A d \in FilterCells : cells[d] = new[d]
    BY <2>1
  <2> QED
    BY <2>2
<1>2. CASE \A c \in FilterCells : cells[c] = old[c]
  BY <1>2
<1> QED
  BY <1>1, <1>2

\* Whatever moment the power goes, even between two cells of a save, the controller
\* comes back with the filter countdown it was working with or the one it was just
\* storing, unless a save of several cells is cut short.
THEOREM FilterSurvives == Spec => []FilterDurable
<1>1. IInv => FilterDurable
  <2> SUFFICES ASSUME IInv PROVE FilterDurable
    OBVIOUS
  <2> DEFINE new == FilterRecord(dev.filter_minutes)
  <2>1. dev.filter_minutes \in Nat /\ eeprom.filter \in FilterRecords /\ filterBefore \in FilterRecords
    BY DEF IInv, TypeOK, IsDevice
  <2>2. new \in FilterRecords /\ LoadedFilter(new) = dev.filter_minutes
    BY <2>1, RecordRoundTrip
  <2>3. ASSUME SavingFilter, OneCellToWrite
        PROVE  eeprom.filter = filterBefore \/ eeprom.filter = new
    <3>1. \A c \in FilterCells : eeprom.filter[c] \in {filterBefore[c], new[c]}
      BY <2>3 DEF IInv, FilterKept, CellsOldOrNew
    <3>2. \A c, d \in FilterCells : filterBefore[c] # new[c] /\ filterBefore[d] # new[d] => c = d
      BY <2>3 DEF OneCellToWrite
    <3> HIDE DEF new
    <3> QED
      BY <2>1, <2>2, <3>1, <3>2, NoMixture
  <2> HIDE DEF new
  <2> QED
    BY <2>2, <2>3 DEF IInv, FilterKept, FilterDurable
<1> QED
  BY <1>1, Invariance, PTL

\* A field the broker has not been told about is never left without its dirty
\* flag, so a later publish tick sends it.
THEOREM BrokerIsTold == Spec => []StaleMeansDirty
BY Invariance, PTL DEF IInv

-----------------------------------------------------------------------------
(* Action properties.                                                      *)

LEMMA RestartKeepsFilter ==
  ASSUME IInv, ~SavingFilter, NEW stored \in [filter : FilterRecords, ssid_set : BOOLEAN],
         stored.filter = eeprom.filter, Restart(stored)
  PROVE  dev'.filter_minutes = dev.filter_minutes
<1>1. PICK listening \in ListenReadings : dev' = InitOutputs(stored, listening).dev
  BY DEF Restart
<1>2. dev'.filter_minutes = LoadedFilter(stored.filter)
  BY <1>1, InitOutputsInv
<1> QED
  BY <1>2 DEF IInv, FilterKept

LEMMA ProcessKeepsFilter ==
  ASSUME IInv, ProcessCommand, Head(queue).type # "SetFilterDays"
  PROVE  dev'.filter_minutes = dev.filter_minutes
<1> DEFINE cmd == Head(queue)
<1>1. ~SavingFilter
  BY DEF ProcessCommand, SavingFilter
<1>2. cmd \in AcceptedCommand
  BY GetType DEF IInv, TypeOK, QueueTypeOK, ProcessCommand
<1>3. /\ IsDevice(dev) /\ dev.fan_percent \in {0, dev.saved_fan_percent}
      /\ eeprom \in [filter : FilterRecords, ssid_set : BOOLEAN]
  BY DEF IInv, TypeOK, FanMemory
<1>4. cmd.type # "SetFilterDays"
  OBVIOUS
<1> HIDE DEF cmd
<1>5. CASE EndingCommand(cmd)
  <2>1. CASE Restart([eeprom EXCEPT !.ssid_set = FALSE])
    <3>1. /\ [eeprom EXCEPT !.ssid_set = FALSE] \in [filter : FilterRecords, ssid_set : BOOLEAN]
          /\ [eeprom EXCEPT !.ssid_set = FALSE].filter = eeprom.filter
      BY <1>3
    <3> QED
      BY <1>1, <2>1, <3>1, RestartKeepsFilter
  <2>2. CASE Restart(eeprom)
    BY <1>1, <1>3, <2>2, RestartKeepsFilter
  <2>3. CASE UNCHANGED dev
    BY <2>3
  <2> QED
    BY <1>5, <2>1, <2>2, <2>3 DEF EndingCommand
<1>6. CASE ApplyCommand(cmd)
  <2>1. CASE ApplySetting(cmd)
    BY <1>2, <1>3, <2>1, DirectType DEF ApplySetting, SetDevice
  <2>2. CASE ApplyArmUpdate(cmd)
    BY <2>2 DEF ApplyArmUpdate
  <2>3. CASE ApplyScreenLight(cmd)
    <3> DEFINE on == cmd.value # 0
    <3>1. dev' = [dev EXCEPT !.screen_light_on = on]
      BY <2>3 DEF ApplyScreenLight, SetDevice
    <3> HIDE DEF on
    <3> QED
      BY <1>3, <3>1 DEF IsDevice, DeviceFields
  <2>4. CASE ApplyRouted(cmd)
    BY <1>2, <1>3, <2>4, RouterEffect DEF ApplyRouted, SetDevice
  <2>5. CASE ApplyToggleWifi(cmd)
    <3>1. dev' = [Touched(dev) EXCEPT !.wifi_enabled = ~@,
                                      !.wifi_ready = @ /\ ~dev.wifi_enabled]
      BY <2>5 DEF ApplyToggleWifi, SetDevice
    <3> QED
      BY <1>3, <3>1 DEF Touched, IsDevice, DeviceFields
  <2>6. ~ApplyFilterDays(cmd)
    BY <1>4 DEF ApplyFilterDays
  <2> QED
    BY <1>6, <2>1, <2>2, <2>3, <2>4, <2>5, <2>6 DEF ApplyCommand
<1> QED
  BY <1>5, <1>6 DEF ProcessCommand, cmd

\* Between saves the filter countdown the loop works with only grows when a
\* SetFilterDays command is being applied: no reset, no other command and no filter
\* tick adds to it.
THEOREM FilterNeverGrows == Spec => FilterOnlyCountsDown
<1> DEFINE A == dev'.filter_minutes > dev.filter_minutes
                  => \/ SavingFilter
                     \/ /\ pc \in {"drain", "drain_button"} /\ queue # <<>>
                        /\ Head(queue).type = "SetFilterDays"
<1>1. IInv /\ [Next]_vars => [A]_vars
  <2> SUFFICES ASSUME IInv, Next, ~SavingFilter PROVE A
    OBVIOUS
  <2>1. /\ IsDevice(dev) /\ dev.filter_minutes \in Nat
        /\ eeprom \in [filter : FilterRecords, ssid_set : BOOLEAN]
        /\ [eeprom EXCEPT !.ssid_set = TRUE] \in [filter : FilterRecords, ssid_set : BOOLEAN]
        /\ [eeprom EXCEPT !.ssid_set = TRUE].filter = eeprom.filter
    BY DEF IInv, TypeOK, IsDevice
  <2> DEFINE Kept == dev'.filter_minutes = dev.filter_minutes
  <2>2. CASE ProcessCommand
    <3>1. CASE Head(queue).type = "SetFilterDays"
      BY <2>2, <3>1 DEF ProcessCommand
    <3>2. CASE Head(queue).type # "SetFilterDays"
      BY <2>1, <2>2, <3>2, ProcessKeepsFilter
    <3> QED
      BY <3>1, <3>2
  <2>3. CASE TickFilter
    <3> DEFINE lower == IF dev.filter_minutes > FilterTickMinutes
                          THEN dev.filter_minutes - FilterTickMinutes ELSE 0
    <3>1. lower \in Nat /\ ~(lower > dev.filter_minutes)
      BY <2>1, NumberAssumption
    <3>2. dev' = dev \/ dev' = [dev EXCEPT !.filter_minutes = lower]
      BY <2>3 DEF TickFilter, SetDevice
    <3> HIDE DEF lower
    <3>3. dev'.filter_minutes \in {dev.filter_minutes, lower}
      BY <2>1, <3>2 DEF IsDevice, DeviceFields
    <3> QED
      BY <2>1, <3>1, <3>3
  <2>4. CASE PowerLoss \/ TickSerialProvision
    <3>1. Restart(eeprom) => Kept
      BY <2>1, RestartKeepsFilter
    <3>2. Restart([eeprom EXCEPT !.ssid_set = TRUE]) => Kept
      BY <2>1, RestartKeepsFilter
    <3> QED
      BY <2>1, <2>4, <3>1, <3>2 DEF PowerLoss, TickSerialProvision
  <2>5. CASE TickWifi
    <3>1. PICK ready \in BOOLEAN, display \in BOOLEAN, publish \in BOOLEAN :
            dev' = [dev EXCEPT !.wifi_ready = ready, !.dirty_display = display,
                               !.dirty_publish = publish]
      BY <2>1, <2>5, NumberAssumption DEF TickWifi, SetDevice, IsDevice
    <3> QED
      BY <2>1, <3>1 DEF IsDevice, DeviceFields
  <2>6. CASE TickReport
    <3>1. dev' = dev \/ \E pm \in PmReadings : dev' = [Touched(dev) EXCEPT !.pm_smooth = pm]
      BY <2>6 DEF TickReport, SetDevice
    <3>2. ASSUME NEW pm, dev' = [Touched(dev) EXCEPT !.pm_smooth = pm]
          PROVE  Kept
      BY <2>1, <3>2 DEF Touched, IsDevice, DeviceFields
    <3> QED
      BY <2>1, <3>1, <3>2
  <2>7. CASE ApplyOutputs
    <3>1. PICK listening \in ListenReadings :
            dev' = OutputsApplied(dev, setup_mode, listening, applied, hw, panel).dev
      BY <2>7 DEF ApplyOutputs
    <3>2. setup_mode \in BOOLEAN
      BY DEF IInv, TypeOK
    <3>3. \A f \in DeviceFields \ {"screen_light_on", "dirty_display"} : dev'[f] = dev[f]
      BY <2>1, <3>1, <3>2, OutputsType
    <3> QED
      BY <2>1, <3>3 DEF DeviceFields
  <2>8. CASE TickDisplay \/ QueueStatePublish
    BY <2>1, <2>8 DEF TickDisplay, QueueStatePublish, IsDevice, DeviceFields
  <2>9. CASE ProcessCommandsDone \/ PollButtons \/ TickWeb \/ TickMqtt \/ SoftApSave
    <3>1. ProcessCommandsDone \/ PollButtons => UNCHANGED dev
      BY DEF ProcessCommandsDone, PollButtons
    <3>2. TickWeb \/ TickMqtt \/ SoftApSave => UNCHANGED dev
      BY DEF TickWeb, TickMqtt, SoftApSave
    <3> QED
      BY <2>1, <2>9, <3>1, <3>2
  <2>10. ~WriteFilterCell /\ ~FilterSaved
    BY DEF WriteFilterCell, FilterSaved
  <2> QED
    BY <2>2, <2>3, <2>4, <2>5, <2>6, <2>7, <2>8, <2>9, <2>10 DEF Next, Tick
<1> QED
  BY <1>1, Invariance, PTL DEF Spec, FilterOnlyCountsDown

\* Why no request is lost: when the buttons are polled and when the web server
\* runs, nothing but the SoftAP thread can have put anything into the queue.
QueueEmptyAtPoll == ~SoftApUp /\ pc \in {"poll", "web"} => queue = <<>>

LEMMA QueueEmptyInv == Spec => []QueueEmptyAtPoll
<1>1. Init => QueueEmptyAtPoll
  BY DEF Init, QueueEmptyAtPoll
<1>2. IInv /\ QueueEmptyAtPoll /\ [Next]_vars => QueueEmptyAtPoll'
  <2> SUFFICES ASSUME IInv, QueueEmptyAtPoll, [Next]_vars PROVE QueueEmptyAtPoll'
    OBVIOUS
  <2>1. ASSUME NEW stored, Restart(stored)
        PROVE  QueueEmptyAtPoll'
    BY <2>1 DEF Restart, Go, QueueEmptyAtPoll
  <2>2. CASE PollButtons
    <3>1. QueueAssumption => Capacity \in Nat /\ Capacity >= 3
      BY DEF Capacity, QueueAssumption
    <3>2. CASE Go("web") /\ UNCHANGED <<queue, drops>>
      BY <2>2, <3>2 DEF PollButtons, Go, QueueEmptyAtPoll, SoftApUp, loopVars
    <3>3. CASE Go(IF Len(queue) = Capacity THEN "web" ELSE "drain_button")
      <4>1. ~SoftApUp => Len(queue) # Capacity
        BY <2>2, <3>1, QueueAssumption DEF QueueEmptyAtPoll, PollButtons
      <4> QED
        BY <2>2, <3>3, <4>1 DEF PollButtons, Go, QueueEmptyAtPoll, SoftApUp, loopVars
    <3> QED
      BY <2>2, <3>2, <3>3 DEF PollButtons
  <2>3. CASE ProcessCommand
    <3>1. CASE EndingCommand(Head(queue))
      BY <2>1, <3>1 DEF EndingCommand, Go, QueueEmptyAtPoll
    <3>2. CASE ApplyCommand(Head(queue))
      <4>1. pc' = pc \/ SavingFilter'
        BY <2>3, <3>2 DEF ProcessCommand, ApplyCommand, ApplyFilterDays, SaveFilterState,
                          Go, SavingFrom, SavingFilter
      <4> QED
        BY <2>3, <4>1 DEF ProcessCommand, SavingFilter, QueueEmptyAtPoll
    <3> QED
      BY <2>3, <3>1, <3>2 DEF ProcessCommand
  <2>4. CASE ProcessCommandsDone
    BY <2>4 DEF ProcessCommandsDone, QueueEmptyAtPoll
  <2>5. CASE PowerLoss \/ TickSerialProvision
    BY <2>1, <2>5 DEF PowerLoss, TickSerialProvision, Go, QueueEmptyAtPoll
  <2>6. CASE SoftApSave
    BY <2>6 DEF SoftApSave, loopVars, SoftApUp, QueueEmptyAtPoll
  <2>7. CASE \/ TickDisplay \/ TickWeb \/ TickWifi \/ TickReport \/ TickFilter
             \/ WriteFilterCell \/ FilterSaved \/ QueueStatePublish \/ ApplyOutputs
    <3>1. TickDisplay \/ TickWeb \/ TickWifi \/ TickReport => pc' \notin {"poll", "web"}
      BY DEF TickDisplay, TickWeb, TickWifi, TickReport, Go
    <3>2. TickFilter => pc' \notin {"poll", "web"}
      BY DEF TickFilter, SaveFilterState, SavingFrom, Go
    <3>3. WriteFilterCell \/ FilterSaved => pc' \notin {"poll", "web"}
      BY DEF WriteFilterCell, FilterSaved, SavingFilter, AfterSave, Go
    <3>4. QueueStatePublish \/ ApplyOutputs => pc' \notin {"poll", "web"}
      BY DEF QueueStatePublish, ApplyOutputs, Go
    <3> QED
      BY <2>7, <3>1, <3>2, <3>3, <3>4 DEF QueueEmptyAtPoll
  <2>8. CASE TickMqtt
    BY <2>8 DEF TickMqtt, Go, QueueEmptyAtPoll
  <2>9. CASE UNCHANGED vars
    BY <2>9 DEF vars, loopVars, SoftApUp, QueueEmptyAtPoll
  <2> QED
    BY <2>2, <2>3, <2>4, <2>5, <2>6, <2>7, <2>8, <2>9 DEF Next, Tick
<1> QED
  BY <1>1, <1>2, Invariance, PTL DEF Spec

\* Without the SoftAP no button press and no web request is ever dropped, for
\* every queue of at least four slots and every burst the broker sends.
THEOREM RequestsKept == Spec => []RequestsNeverDropped
<1>1. Init => RequestsNeverDropped
  BY DEF Init, RequestsNeverDropped, Sources
<1>2. IInv /\ QueueEmptyAtPoll /\ RequestsNeverDropped /\ [Next]_vars => RequestsNeverDropped'
  <2> SUFFICES ASSUME IInv, QueueEmptyAtPoll, RequestsNeverDropped, [Next]_vars
               PROVE  RequestsNeverDropped'
    OBVIOUS
  <2>0. {"Button", "Web"} \subseteq Sources /\ Capacity \in Nat /\ Capacity >= 3
        /\ Len(<<>>) = 0
    BY QueueAssumption DEF Sources, Capacity
  <2>1. ASSUME NEW stored, Restart(stored)
        PROVE  RequestsNeverDropped'
    BY <2>0, <2>1 DEF Restart, RequestsNeverDropped
  <2> DEFINE Kept == ~SoftApUp => drops'["Button"] = drops["Button"] /\ drops'["Web"] = drops["Web"]
  <2>2. CASE PollButtons
    <3>1. ~SoftApUp => queue = <<>>
      BY <2>2 DEF PollButtons, QueueEmptyAtPoll
    <3>2. \A cmd : ~SoftApUp /\ EnqueueCommand(cmd) => UNCHANGED drops
      BY <2>0, <3>1 DEF EnqueueCommand
    <3>3. Kept /\ UNCHANGED setup_mode
      BY <2>2, <3>2 DEF PollButtons, loopVars
    <3> QED
      BY <3>3 DEF RequestsNeverDropped, SoftApUp
  <2>3. CASE TickWeb
    <3>1. ~SoftApUp => queue = <<>>
      BY <2>3 DEF TickWeb, QueueEmptyAtPoll
    <3>2. \A cmd : ~SoftApUp /\ EnqueueCommand(cmd) => UNCHANGED drops
      BY <2>0, <3>1 DEF EnqueueCommand
    <3>3. ASSUME NEW cmds \in ControlPosts, EnqueueCommands(cmds), ~SoftApUp
          PROVE  UNCHANGED drops
      <4>1. Len(cmds) \in 1 .. 3
        BY CommandAssumption
      <4>2. Capacity - Len(queue) \in Nat /\ Capacity - Len(queue) >= 3
        BY <2>0, <3>1, <3>3
      <4> DEFINE room == Capacity - Len(queue)
                 wanted == Len(cmds)
      <4>3. ~(wanted > room)
        <5>1. room \in Nat /\ room >= 3 /\ wanted \in 1 .. 3
          BY <4>1, <4>2
        <5> HIDE DEF room, wanted
        <5> QED
          BY <5>1
      <4> QED
        BY <3>3, <4>3 DEF EnqueueCommands
    <3>4. Kept /\ UNCHANGED setup_mode
      BY <2>3, <3>2, <3>3 DEF TickWeb, HandleClient, HandleApiControlPost,
             HandleApiSystemPost, HandleApiSettingsPost
    <3> QED
      BY <3>4 DEF RequestsNeverDropped, SoftApUp
  <2>4. CASE TickMqtt
    <3>1. ASSUME NEW cmd \in MqttCommands, EnqueueCommand(cmd)
          PROVE  drops'["Button"] = drops["Button"] /\ drops'["Web"] = drops["Web"]
      <4>1. cmd.source = "Mqtt"
        BY CommandAssumption DEF Accepted
      <4> QED
        BY <2>0, <3>1, <4>1 DEF EnqueueCommand, RecordDrops, IInv, TypeOK
    <3>2. Kept /\ UNCHANGED setup_mode
      BY <2>4, <3>1 DEF TickMqtt, loopVars
    <3> QED
      BY <3>2 DEF RequestsNeverDropped, SoftApUp
  <2>5. CASE ProcessCommand
    <3>1. CASE UNCHANGED <<drops, setup_mode>>
      BY <3>1 DEF RequestsNeverDropped, SoftApUp
    <3> QED
      BY <2>1, <2>5, <3>1 DEF ProcessCommand, EndingCommand, loopVars
  <2>6. CASE PowerLoss \/ TickSerialProvision
    <3>1. CASE UNCHANGED <<drops, setup_mode>>
      BY <3>1 DEF RequestsNeverDropped, SoftApUp
    <3> QED
      BY <2>1, <2>6, <3>1 DEF PowerLoss, TickSerialProvision, loopVars
  <2>7. CASE SoftApSave
    BY <2>7 DEF SoftApSave, loopVars, SoftApUp, RequestsNeverDropped
  <2>8. CASE \/ TickDisplay \/ ProcessCommandsDone \/ TickWifi \/ TickReport \/ TickFilter
             \/ WriteFilterCell \/ FilterSaved \/ QueueStatePublish \/ ApplyOutputs
             \/ UNCHANGED vars
    <3>1. TickDisplay \/ ProcessCommandsDone \/ TickWifi => UNCHANGED <<drops, setup_mode>>
      BY DEF TickDisplay, ProcessCommandsDone, TickWifi, loopVars
    <3>2. TickReport \/ TickFilter \/ WriteFilterCell => UNCHANGED <<drops, setup_mode>>
      BY DEF TickReport, TickFilter, WriteFilterCell, loopVars
    <3>3. FilterSaved \/ QueueStatePublish \/ ApplyOutputs \/ UNCHANGED vars
            => UNCHANGED <<drops, setup_mode>>
      BY DEF FilterSaved, QueueStatePublish, ApplyOutputs, vars, loopVars
    <3> QED
      BY <2>8, <3>1, <3>2, <3>3 DEF RequestsNeverDropped, SoftApUp
  <2> QED
    BY <2>2, <2>3, <2>4, <2>5, <2>6, <2>7, <2>8 DEF Next, Tick
<1> QED
  BY <1>1, <1>2, Invariance, QueueEmptyInv, PTL DEF Spec

-----------------------------------------------------------------------------
(***************************************************************************)
(* The caches of applyOutputs are never wrong: between two ticks the       *)
(* hardware does what the device state says, and a panel that is out of    *)
(* date always has dirty_display set.  IInv above gives the ranges of the  *)
(* device state.                                                           *)
(***************************************************************************)

(* What the pure functions keep.                                           *)

LEMMA RouterTouches ==
  ASSUME NEW s, IsDevice(s), NEW cmd, cmd.type \in RoutedTypes
  PROVE  /\ RouterApply(cmd, s).dirty_display = TRUE
         /\ RouterApply(cmd, s).screen_light_on = s.screen_light_on
<1>1. CASE cmd.type = "SetFanPercent"
  BY <1>1 DEF RouterApply, Touched, SetFanPercent, IsDevice, DeviceFields
<1>2. CASE cmd.type = "AdjustFanPercent"
  BY <1>2 DEF RouterApply, Touched, AdjustFanPercent, IsDevice, DeviceFields
<1>3. CASE cmd.type = "SetLights"
  BY <1>3 DEF RouterApply, Touched, IsDevice, DeviceFields
<1>4. CASE cmd.type = "ToggleLights"
  BY <1>4 DEF RouterApply, Touched, IsDevice, DeviceFields
<1>5. CASE cmd.type = "TogglePower"
  BY <1>5 DEF RouterApply, Touched, TogglePower, IsDevice, DeviceFields
<1> QED
  BY <1>1, <1>2, <1>3, <1>4, <1>5 DEF RoutedTypes

\* What the panel shows, and what decides whether it has to be drawn again.
PanelFields == DrawnFields \cup {"dirty_display", "lights_on"}

SamePanel(s, t) == \A f \in PanelFields : s[f] = t[f]

LEMMA DirectKeeps ==
  ASSUME NEW s, IsDevice(s), NEW cmd, cmd.type \in DirectTypes
  PROVE  /\ SamePanel(DirectApply(cmd, s), s)
         /\ DirectApply(cmd, s).screen_light_on = s.screen_light_on
<1>1. DOMAIN s = DeviceFields
  BY DEF IsDevice
<1>2. CASE cmd.type = "SetRing"
  BY <1>1, <1>2, ZenonT(60) DEF DirectApply, SamePanel, PanelFields, DrawnFields, DeviceFields
<1>3. CASE cmd.type = "SetRingBrightness"
  BY <1>1, <1>3 DEF DirectApply, SamePanel, PanelFields, DrawnFields, DeviceFields
<1>4. CASE cmd.type = "SetRingBlink"
  BY <1>1, <1>4 DEF DirectApply, SamePanel, PanelFields, DrawnFields, DeviceFields
<1>5. CASE cmd.type = "SetStatusLed"
  BY <1>1, <1>5 DEF DirectApply, SamePanel, PanelFields, DrawnFields, DeviceFields
<1> QED
  BY <1>2, <1>3, <1>4, <1>5 DEF DirectTypes

-----------------------------------------------------------------------------
(* applyOutputs.                                                           *)

HwFields == {"duty", "backlight", "keys", "led"}
AppliedFields == {"fan", "lights", "led", "force"}

\* What was last applied is what the drivers were told, or differs from what the
\* state asks for.
LEMMA OutputsReachDrivers ==
  ASSUME NEW s, IsDevice(s), NEW setup \in BOOLEAN, NEW listening, NEW done, NEW drivers, NEW before,
         drivers.duty = done.fan \/ s.fan_percent # done.fan,
         drivers.led = done.led, drivers.backlight = s.screen_light_on
  PROVE  LET after == OutputsApplied(s, setup, listening, done, drivers, before) IN
         /\ DOMAIN after.hw = HwFields /\ DOMAIN after.applied = AppliedFields
         /\ after.hw.duty = s.fan_percent /\ after.applied.fan = s.fan_percent
         /\ after.hw.led = after.applied.led
         /\ ~setup => after.hw.led = s.status_led_on
         /\ after.hw.keys = KeyRegisters(s)
         /\ after.hw.backlight = after.dev.screen_light_on
<1> DEFINE after == OutputsApplied(s, setup, listening, done, drivers, before)
           relight == done.force \/ s.lights_on # done.lights
           on == IF relight THEN s.lights_on ELSE s.screen_light_on
           told == IF relight THEN s.lights_on ELSE drivers.backlight
<1>1. /\ after.applied = [fan |-> s.fan_percent, lights |-> s.lights_on, force |-> FALSE,
                          led |-> IF setup THEN done.led ELSE s.status_led_on]
      /\ after.hw = [duty |-> IF s.fan_percent # done.fan THEN s.fan_percent ELSE drivers.duty,
                     backlight |-> told, keys |-> KeyRegisters(s),
                     led |-> IF ~setup /\ s.status_led_on # done.led
                               THEN s.status_led_on ELSE drivers.led]
      /\ after.dev = [[s EXCEPT !.screen_light_on = on] EXCEPT !.dirty_display = FALSE]
  BY DEF OutputsApplied
<1>2. on = told
  OBVIOUS
<1> HIDE DEF after, on, told
<1>3. after.dev.screen_light_on = on
  BY <1>1 DEF IsDevice, DeviceFields
<1>4. after.hw.backlight = told
  BY <1>1
<1>5. DOMAIN after.hw = HwFields /\ DOMAIN after.applied = AppliedFields
  BY <1>1 DEF HwFields, AppliedFields
<1>6. /\ after.hw.duty = IF s.fan_percent # done.fan THEN s.fan_percent ELSE drivers.duty
      /\ after.applied.fan = s.fan_percent /\ after.hw.keys = KeyRegisters(s)
  BY <1>1
<1>7. /\ after.applied.led = IF setup THEN done.led ELSE s.status_led_on
      /\ after.hw.led = IF ~setup /\ s.status_led_on # done.led THEN s.status_led_on ELSE drivers.led
  BY <1>1
<1> QED
  BY <1>2, <1>3, <1>4, <1>5, <1>6, <1>7 DEF after

Screens == {"main", "setup", "blank", "connecting"}
PanelType == [screen : Screens, current : BOOLEAN]
Repaired(p) == p.screen \in {"main", "setup"} /\ (p.screen = "main" => p.current)

LEMMA OutputsReachPanel ==
  ASSUME NEW s, IsDevice(s), NEW setup \in BOOLEAN, NEW listening \in BOOLEAN, NEW done, NEW drivers,
         NEW before \in PanelType,
         s.lights_on /\ ~setup /\ ~s.dirty_display => Repaired(before)
  PROVE  LET shown == OutputsApplied(s, setup, listening, done, drivers, before).panel IN
         shown \in PanelType /\ (s.lights_on /\ ~setup => Repaired(shown))
<1> DEFINE relight == done.force \/ s.lights_on # done.lights
           on == IF relight THEN s.lights_on ELSE s.screen_light_on
           lit == [s EXCEPT !.screen_light_on = on]
           shown == OutputsApplied(s, setup, listening, done, drivers, before).panel
<1>1. shown = IF s.dirty_display THEN Rendered(lit, setup, listening, before) ELSE before
  BY DEF OutputsApplied
<1> HIDE DEF shown, on
<1>2. lit.lights_on = s.lights_on /\ lit.wifi_enabled = s.wifi_enabled
  BY DEF IsDevice, DeviceFields
<1> HIDE DEF lit
<1>3. Rendered(lit, setup, listening, before) =
        IF setup \/ (s.wifi_enabled /\ listening) THEN [before EXCEPT !.screen = "setup"]
        ELSE IF s.lights_on THEN [screen |-> "main", current |-> TRUE] ELSE before
  BY <1>2, Zenon DEF Rendered
<1> DEFINE drawn == Rendered(lit, setup, listening, before)
<1>4. drawn \in PanelType /\ (s.lights_on /\ ~setup => Repaired(drawn))
  <2> HIDE DEF drawn
  <2>1. CASE setup \/ (s.wifi_enabled /\ listening)
    BY <1>3, <2>1 DEF drawn, PanelType, Screens, Repaired
  <2>2. CASE ~(setup \/ (s.wifi_enabled /\ listening)) /\ s.lights_on
    BY <1>3, <2>2 DEF drawn, PanelType, Screens, Repaired
  <2>3. CASE ~(setup \/ (s.wifi_enabled /\ listening)) /\ ~s.lights_on
    BY <1>3, <2>3 DEF drawn
  <2> QED
    BY <2>1, <2>2, <2>3
<1> HIDE DEF drawn
<1>5. shown = IF s.dirty_display THEN drawn ELSE before
  BY <1>1 DEF drawn
<1> QED
  BY <1>4, <1>5 DEF shown

-----------------------------------------------------------------------------
(* The inductive invariants.                                               *)

\* Fan and status LED are what applied says; the backlight is what dev says.
DriversInv ==
  /\ HwFields \subseteq DOMAIN hw /\ AppliedFields \subseteq DOMAIN applied
  /\ hw.duty = applied.fan /\ hw.led = applied.led /\ hw.backlight = dev.screen_light_on
  /\ OutputsFollow

PanelInv == panel \in PanelType /\ PanelMeansDirty

CacheInv == DriversInv /\ PanelInv

LEMMA BootOutputs ==
  ASSUME NEW stored \in [filter : FilterRecords, ssid_set : BOOLEAN], NEW listening \in BOOLEAN
  PROVE  LET after == InitOutputs(stored, listening) IN
         /\ DOMAIN after.hw = HwFields /\ DOMAIN after.applied = AppliedFields
         /\ after.hw.duty = after.applied.fan /\ after.hw.led = after.applied.led
         /\ after.hw.duty = after.dev.fan_percent
         /\ after.hw.backlight = after.dev.screen_light_on
         /\ after.hw.keys = KeyRegisters(after.dev)
         /\ stored.ssid_set => after.hw.led = after.dev.status_led_on
         /\ after.panel \in PanelType
         /\ stored.ssid_set => Repaired(after.panel)
<1> DEFINE s == BootDevice(LoadedFilter(stored.filter))
           setup == ~stored.ssid_set
           done == UnappliedOutputs
           drivers == DriversAtBoot
           before == PanelAtBoot(setup)
           after == OutputsApplied(s, setup, listening, done, drivers, before)
<1>1. IsDevice(s) /\ setup \in BOOLEAN
  BY BootType, LoadedType
<1>2. /\ s.fan_percent # done.fan /\ drivers.led = done.led
      /\ drivers.backlight = s.screen_light_on /\ s.lights_on /\ s.dirty_display
      /\ before \in PanelType
  BY DEF BootDevice, UnappliedOutputs, DriversAtBoot, PanelAtBoot, PanelType, Screens
<1>3. after = InitOutputs(stored, listening)
  BY DEF InitOutputs
<1> HIDE DEF s, done, drivers, before, setup
<1>4. \A f \in DeviceFields \ {"screen_light_on", "dirty_display"} : after.dev[f] = s[f]
  BY <1>1, OutputsType
<1>5. /\ DOMAIN after.hw = HwFields /\ DOMAIN after.applied = AppliedFields
      /\ after.hw.duty = s.fan_percent /\ after.applied.fan = s.fan_percent
      /\ after.hw.led = after.applied.led
      /\ ~setup => after.hw.led = s.status_led_on
      /\ after.hw.keys = KeyRegisters(s)
      /\ after.hw.backlight = after.dev.screen_light_on
  BY <1>1, <1>2, OutputsReachDrivers
<1>6. after.panel \in PanelType /\ (s.lights_on /\ ~setup => Repaired(after.panel))
  BY <1>1, <1>2, OutputsReachPanel
<1> HIDE DEF after
<1>7. KeyRegisters(after.dev) = KeyRegisters(s) /\ after.dev.fan_percent = s.fan_percent
      /\ after.dev.status_led_on = s.status_led_on
  BY <1>4 DEF KeyRegisters, DeviceFields
<1>8. stored.ssid_set => ~setup
  BY DEF setup
<1> QED
  BY <1>2, <1>3, <1>5, <1>6, <1>7, <1>8

LEMMA ListeningIsBoolean == ListenReadings \subseteq BOOLEAN
BY NumberAssumption

LEMMA InitCache == Init => CacheInv
<1> SUFFICES ASSUME Init PROVE CacheInv
  OBVIOUS
<1>1. eeprom \in [filter : FilterRecords, ssid_set : BOOLEAN]
  BY ErasedType DEF Init
<1>2. PICK listening \in ListenReadings :
        /\ dev = InitOutputs(eeprom, listening).dev /\ applied = InitOutputs(eeprom, listening).applied
        /\ hw = InitOutputs(eeprom, listening).hw /\ panel = InitOutputs(eeprom, listening).panel
  BY DEF Init
<1>3. setup_mode <=> ~eeprom.ssid_set
  BY DEF Init
<1> QED
  BY <1>1, <1>2, <1>3, BootOutputs, ListeningIsBoolean
     DEF CacheInv, DriversInv, OutputsFollow, PanelInv, PanelMeansDirty, Repaired

LEMMA RestartCache ==
  ASSUME NEW stored \in [filter : FilterRecords, ssid_set : BOOLEAN], Restart(stored)
  PROVE  CacheInv'
<1>1. PICK listening \in ListenReadings :
        /\ dev' = InitOutputs(stored, listening).dev /\ applied' = InitOutputs(stored, listening).applied
        /\ hw' = InitOutputs(stored, listening).hw /\ panel' = InitOutputs(stored, listening).panel
  BY DEF Restart
<1>2. setup_mode' <=> ~stored.ssid_set
  BY DEF Restart
<1> QED
  BY <1>1, <1>2, BootOutputs, ListeningIsBoolean
     DEF CacheInv, DriversInv, OutputsFollow, PanelInv, PanelMeansDirty, Repaired

\* A step that leaves the drivers and the panel alone.
LEMMA QuietCache ==
  ASSUME CacheInv, UNCHANGED <<hw, applied, panel, setup_mode>>,
         dev'.screen_light_on = dev.screen_light_on,
         SamePanel(dev', dev),
         pc' # "serial" \/ (pc = "serial" /\ dev' = dev)
  PROVE  CacheInv'
<1>1. DriversInv'
  BY DEF CacheInv, DriversInv, OutputsFollow, KeyRegisters
<1>2. dev'.lights_on = dev.lights_on /\ dev'.dirty_display = dev.dirty_display
  BY DEF SamePanel, PanelFields
<1>3. PanelInv'
  BY <1>2 DEF CacheInv, PanelInv, PanelMeansDirty
<1> QED
  BY <1>1, <1>3 DEF CacheInv

\* A step that sets the device state: it raises dirty_display or changes nothing
\* that is drawn.
LEMMA PanelAfterSet ==
  ASSUME PanelInv, NEW s, SetDevice(s), UNCHANGED setup_mode,
         s.dirty_display = TRUE \/ SamePanel(s, dev)
  PROVE  PanelInv'
<1>1. /\ dev' = s
      /\ panel' = [panel EXCEPT !.current = @ /\ DrawnState(s) = DrawnState(dev)]
  BY DEF SetDevice
<1> DEFINE same == DrawnState(s) = DrawnState(dev)
<1>2. panel \in PanelType
  BY DEF PanelInv
<1>3. panel' = [panel EXCEPT !.current = panel.current /\ same]
  BY <1>1
<1>4. same \in BOOLEAN
  OBVIOUS
<1> HIDE DEF same
<1>5. panel' \in PanelType /\ panel'.screen = panel.screen /\ (panel'.current <=> panel.current /\ same)
  BY <1>2, <1>3, <1>4 DEF PanelType
<1>6. CASE s.dirty_display = TRUE
  BY <1>1, <1>5, <1>6 DEF PanelInv, PanelMeansDirty
<1>7. CASE SamePanel(s, dev)
  <2>1. same
    BY <1>7 DEF same, DrawnState, SamePanel, PanelFields
  <2>2. s.dirty_display = dev.dirty_display /\ s.lights_on = dev.lights_on
    BY <1>7 DEF SamePanel, PanelFields
  <2> QED
    BY <1>1, <1>5, <2>1, <2>2 DEF PanelInv, PanelMeansDirty
<1> QED
  BY <1>6, <1>7

\* Away from the start of the tick only the caches themselves matter.
LEMMA OutputsAfterSet ==
  ASSUME DriversInv, UNCHANGED hw, pc' # "serial", dev'.screen_light_on = dev.screen_light_on,
         DOMAIN applied' = DOMAIN applied, applied'.fan = applied.fan, applied'.led = applied.led
  PROVE  DriversInv'
BY DEF DriversInv, OutputsFollow

-----------------------------------------------------------------------------
(* One lemma per action that reaches the caches.                           *)

LEMMA DisplayCacheInv ==
  ASSUME IInv, CacheInv, TickDisplay
  PROVE  CacheInv'
<1>1. UNCHANGED <<hw, applied, setup_mode>> /\ pc' = "drain"
  BY DEF TickDisplay, Go
<1>2. IsDevice(dev)
  BY DEF IInv, TypeOK
<1>3. CASE UNCHANGED <<dev, display_reinit_pending, panel>>
  BY <1>1, <1>3, QuietCache DEF SamePanel
<1>4. CASE /\ panel' = [screen |-> IF ~dev.lights_on THEN "blank"
                               ELSE IF setup_mode THEN "setup" ELSE "connecting",
                     current |-> FALSE]
           /\ dev' = [dev EXCEPT !.dirty_display = TRUE]
  <2>1. dev'.dirty_display = TRUE /\ dev'.screen_light_on = dev.screen_light_on
    BY <1>2, <1>4 DEF IsDevice, DeviceFields
  <2>2. DriversInv'
    BY <1>1, <2>1, OutputsAfterSet DEF CacheInv
  <2>3. panel' \in PanelType
    BY <1>4 DEF PanelType, Screens
  <2> QED
    BY <2>1, <2>2, <2>3 DEF CacheInv, PanelInv, PanelMeansDirty
<1> QED
  BY <1>3, <1>4 DEF TickDisplay

\* The countdown is not drawn.
LEMMA CountdownCache ==
  ASSUME IInv, CacheInv, NEW minutes, SetDevice([dev EXCEPT !.filter_minutes = minutes]),
         UNCHANGED <<applied, hw, setup_mode>>, pc' # "serial"
  PROVE  CacheInv'
<1> DEFINE s == [dev EXCEPT !.filter_minutes = minutes]
<1>1. DOMAIN dev = DeviceFields /\ dev' = s
  BY DEF IInv, TypeOK, IsDevice, SetDevice
<1>2. SamePanel(s, dev) /\ s.screen_light_on = dev.screen_light_on
  BY <1>1 DEF SamePanel, PanelFields, DrawnFields, DeviceFields
<1>3. DriversInv'
  BY <1>1, <1>2, OutputsAfterSet DEF CacheInv
<1>4. PanelInv'
  BY <1>2, PanelAfterSet DEF CacheInv
<1> QED
  BY <1>3, <1>4 DEF CacheInv

LEMMA ApplyCommandCache ==
  ASSUME IInv, CacheInv, NEW cmd \in AcceptedCommand, ApplyCommand(cmd),
         pc' # "serial", UNCHANGED setup_mode
  PROVE  CacheInv'
<1>1. IsDevice(dev) /\ DOMAIN dev = DeviceFields
  BY DEF IInv, TypeOK, IsDevice
<1>2. CASE ApplySetting(cmd)
  <2>1. cmd.type \in DirectTypes /\ SetDevice(DirectApply(cmd, dev)) /\ UNCHANGED <<applied, hw>>
    BY <1>2 DEF ApplySetting
  <2> DEFINE s == DirectApply(cmd, dev)
  <2>2. SamePanel(s, dev) /\ s.screen_light_on = dev.screen_light_on /\ dev' = s
    BY <1>1, <2>1, DirectKeeps DEF SetDevice
  <2> HIDE DEF s
  <2>3. DriversInv'
    BY <2>1, <2>2, OutputsAfterSet DEF CacheInv
  <2>4. PanelInv'
    BY <2>1, <2>2, PanelAfterSet DEF CacheInv, s
  <2> QED
    BY <2>3, <2>4 DEF CacheInv
<1>3. CASE ApplyArmUpdate(cmd)
  BY <1>3, QuietCache DEF ApplyArmUpdate, outVars, SamePanel
<1>4. CASE ApplyScreenLight(cmd)
  <2> DEFINE on == cmd.value # 0
             s == [dev EXCEPT !.screen_light_on = on]
  <2>1. hw' = [hw EXCEPT !.backlight = on] /\ SetDevice(s) /\ applied' = applied /\ dev' = s
    BY <1>4 DEF ApplyScreenLight, SetDevice
  <2> HIDE DEF on
  <2>2. s.screen_light_on = on /\ SamePanel(s, dev)
    BY <1>1 DEF SamePanel, PanelFields, DrawnFields, DeviceFields
  <2> HIDE DEF s
  <2>3. /\ DOMAIN hw' = DOMAIN hw /\ hw'.backlight = on
        /\ hw'.duty = hw.duty /\ hw'.led = hw.led
    BY <2>1 DEF CacheInv, DriversInv, HwFields
  <2>4. DriversInv'
    BY <2>1, <2>2, <2>3 DEF CacheInv, DriversInv, OutputsFollow
  <2>5. PanelInv'
    BY <2>1, <2>2, PanelAfterSet DEF CacheInv
  <2> QED
    BY <2>4, <2>5 DEF CacheInv
<1>5. CASE ApplyRouted(cmd)
  <2> DEFINE s == RouterApply(cmd, dev)
             forced == applied.force \/ cmd.type = "SetLights"
  <2>1. /\ cmd.type \in RoutedTypes /\ SetDevice(s) /\ hw' = hw /\ dev' = s
        /\ applied' = [applied EXCEPT !.force = forced]
    BY <1>5 DEF ApplyRouted, SetDevice
  <2>2. s.dirty_display = TRUE /\ s.screen_light_on = dev.screen_light_on
    BY <1>1, <2>1, RouterTouches
  <2> HIDE DEF s, forced
  <2>3. DOMAIN applied' = DOMAIN applied /\ applied'.fan = applied.fan /\ applied'.led = applied.led
    BY <2>1 DEF CacheInv, DriversInv, AppliedFields
  <2>4. DriversInv'
    BY <2>1, <2>2, <2>3, OutputsAfterSet DEF CacheInv
  <2>5. PanelInv'
    BY <2>1, <2>2, PanelAfterSet DEF CacheInv
  <2> QED
    BY <2>4, <2>5 DEF CacheInv
<1>6. CASE ApplyToggleWifi(cmd)
  <2> DEFINE s == [Touched(dev) EXCEPT !.wifi_enabled = ~@, !.wifi_ready = @ /\ ~dev.wifi_enabled]
  <2>1. SetDevice(s) /\ UNCHANGED <<applied, hw>> /\ dev' = s
    BY <1>6 DEF ApplyToggleWifi, SetDevice
  <2>2. s.dirty_display = TRUE /\ s.screen_light_on = dev.screen_light_on
    BY <1>1 DEF Touched, DeviceFields
  <2> HIDE DEF s
  <2>3. DriversInv'
    BY <2>1, <2>2, OutputsAfterSet DEF CacheInv
  <2>4. PanelInv'
    BY <2>1, <2>2, PanelAfterSet DEF CacheInv
  <2> QED
    BY <2>3, <2>4 DEF CacheInv
<1>7. CASE ApplyFilterDays(cmd)
  BY <1>7, CountdownCache DEF ApplyFilterDays
<1> QED
  BY <1>2, <1>3, <1>4, <1>5, <1>6, <1>7 DEF ApplyCommand

LEMMA ProcessCommandCache ==
  ASSUME IInv, CacheInv, ProcessCommand
  PROVE  CacheInv'
<1>1. Head(queue) \in AcceptedCommand /\ eeprom \in [filter : FilterRecords, ssid_set : BOOLEAN]
      /\ [eeprom EXCEPT !.ssid_set = FALSE] \in [filter : FilterRecords, ssid_set : BOOLEAN]
  BY GetType DEF IInv, TypeOK, QueueTypeOK, ProcessCommand
<1>2. CASE EndingCommand(Head(queue))
  <2>1. CASE Restart(eeprom) \/ Restart([eeprom EXCEPT !.ssid_set = FALSE])
    BY <1>1, <2>1, RestartCache
  <2>2. CASE Go("dfu") /\ UNCHANGED <<dev, loopVars, outVars>>
    <3>1. pc' # "serial"
      BY <2>2 DEF Go
    <3> QED
      BY <2>2, <3>1, QuietCache DEF loopVars, outVars, SamePanel
  <2> QED
    BY <1>2, <2>1, <2>2 DEF EndingCommand
<1>3. CASE ApplyCommand(Head(queue)) /\ UNCHANGED setup_mode
  <2>1. pc' # "serial"
    BY <1>3 DEF ProcessCommand, ApplyCommand, ApplyFilterDays, SaveFilterState, SavingFrom, Go
  <2> QED
    BY <1>1, <1>3, <2>1, ApplyCommandCache
<1> QED
  BY <1>2, <1>3 DEF ProcessCommand

LEMMA WifiCache ==
  ASSUME IInv, CacheInv, TickWifi
  PROVE  CacheInv'
<1>1. IsDevice(dev) /\ DOMAIN dev = DeviceFields
  BY DEF IInv, TypeOK, IsDevice
<1>2. PICK ready \in IF dev.wifi_enabled THEN WifiReadings ELSE {FALSE}, shown \in BOOLEAN :
        LET edge == ready # dev.wifi_ready
            changed == edge \/ shown # ip_timer
        IN  SetDevice([dev EXCEPT !.wifi_ready = ready,
                                  !.dirty_display = @ \/ changed, !.dirty_publish = @ \/ changed])
  BY DEF TickWifi
<1> DEFINE changed == ready # dev.wifi_ready \/ shown # ip_timer
           s == [dev EXCEPT !.wifi_ready = ready,
                            !.dirty_display = dev.dirty_display \/ changed,
                            !.dirty_publish = dev.dirty_publish \/ changed]
<1>3. SetDevice(s) /\ dev' = s
  BY <1>2 DEF SetDevice
<1>4. UNCHANGED <<applied, hw, setup_mode>> /\ pc' # "serial"
  BY DEF TickWifi, Go
<1>5. s.screen_light_on = dev.screen_light_on
  BY <1>1 DEF DeviceFields
<1>6. s.dirty_display = TRUE \/ SamePanel(s, dev)
  <2>1. CASE changed
    BY <1>1, <2>1 DEF DeviceFields
  <2>2. CASE ~changed
    <3>1. ready = dev.wifi_ready /\ (dev.dirty_display \/ changed) = dev.dirty_display
      BY <1>1, <2>2 DEF IsDevice
    <3> QED
      BY <1>1, <3>1 DEF SamePanel, PanelFields, DrawnFields, DeviceFields
  <2> QED
    BY <2>1, <2>2
<1> HIDE DEF s
<1>7. DriversInv'
  BY <1>3, <1>4, <1>5, OutputsAfterSet DEF CacheInv
<1>8. PanelInv'
  BY <1>3, <1>4, <1>6, PanelAfterSet DEF CacheInv
<1> QED
  BY <1>7, <1>8 DEF CacheInv

LEMMA ReportCache ==
  ASSUME IInv, CacheInv, TickReport
  PROVE  CacheInv'
<1>1. IsDevice(dev) /\ UNCHANGED <<applied, hw, setup_mode>> /\ pc' # "serial"
  BY DEF IInv, TypeOK, TickReport, Go, loopVars
<1>2. CASE UNCHANGED <<dev, broker_behind, panel>>
  BY <1>1, <1>2, QuietCache DEF SamePanel
<1>3. ASSUME NEW pm \in PmReadings, SetDevice([Touched(dev) EXCEPT !.pm_smooth = pm])
      PROVE  CacheInv'
  <2> DEFINE s == [Touched(dev) EXCEPT !.pm_smooth = pm]
  <2>1. SetDevice(s) /\ dev' = s
    BY <1>3 DEF SetDevice
  <2>2. s.dirty_display = TRUE /\ s.screen_light_on = dev.screen_light_on
    BY <1>1 DEF Touched, IsDevice, DeviceFields
  <2> HIDE DEF s
  <2> QED
    BY <1>1, <2>1, <2>2, OutputsAfterSet, PanelAfterSet DEF CacheInv
<1> QED
  BY <1>2, <1>3 DEF TickReport

LEMMA FilterCache ==
  ASSUME IInv, CacheInv, TickFilter
  PROVE  CacheInv'
<1>1. UNCHANGED <<applied, hw, setup_mode>> /\ pc' # "serial"
  BY DEF TickFilter, SaveFilterState, SavingFrom, Go, loopVars
<1>2. CASE UNCHANGED <<dev, broker_behind, panel>>
  BY <1>1, <1>2, QuietCache DEF SamePanel
<1>3. CASE \E minutes : SetDevice([dev EXCEPT !.filter_minutes = minutes])
  BY <1>1, <1>3, CountdownCache
<1> QED
  BY <1>2, <1>3 DEF TickFilter

\* The save itself only touches the EEPROM and dirty_publish.
LEMMA SaveCache ==
  ASSUME IInv, CacheInv, WriteFilterCell \/ FilterSaved
  PROVE  CacheInv'
<1>1. CASE WriteFilterCell
  BY <1>1, QuietCache DEF WriteFilterCell, SavingFilter, loopVars, outVars, SamePanel
<1>2. CASE FilterSaved
  <2>1. pc' # "serial" /\ UNCHANGED <<applied, hw, panel, setup_mode>>
    BY <1>2 DEF FilterSaved, SavingFilter, AfterSave, Go, loopVars, outVars
  <2>2. dev' = [dev EXCEPT !.dirty_publish = TRUE] /\ DOMAIN dev = DeviceFields
    BY <1>2 DEF FilterSaved, IInv, TypeOK, IsDevice
  <2>3. dev'.screen_light_on = dev.screen_light_on /\ SamePanel(dev', dev)
    BY <2>2 DEF SamePanel, PanelFields, DrawnFields, DeviceFields
  <2> QED
    BY <2>1, <2>3, QuietCache
<1> QED
  BY <1>1, <1>2

LEMMA PublishCache ==
  ASSUME IInv, CacheInv, QueueStatePublish
  PROVE  CacheInv'
<1>1. IsDevice(dev) /\ UNCHANGED <<applied, hw, panel, setup_mode>> /\ pc' # "serial"
  BY DEF IInv, TypeOK, QueueStatePublish, Go, loopVars, outVars
<1>2. dev'.screen_light_on = dev.screen_light_on /\ SamePanel(dev', dev)
  <2>1. CASE dev' = dev
    BY <2>1 DEF SamePanel
  <2>2. CASE dev' = [dev EXCEPT !.dirty_publish = FALSE]
    BY <1>1, <2>2 DEF SamePanel, PanelFields, DrawnFields, IsDevice, DeviceFields
  <2> QED
    BY <2>1, <2>2 DEF QueueStatePublish
<1> QED
  BY <1>1, <1>2, QuietCache

LEMMA ApplyOutputsCache ==
  ASSUME IInv, CacheInv, ApplyOutputs
  PROVE  CacheInv'
<1>1. PICK listening \in ListenReadings :
        LET after == OutputsApplied(dev, setup_mode, listening, applied, hw, panel) IN
        dev' = after.dev /\ applied' = after.applied /\ hw' = after.hw /\ panel' = after.panel
  BY DEF ApplyOutputs
<1>2. IsDevice(dev) /\ setup_mode \in BOOLEAN /\ setup_mode' = setup_mode /\ listening \in BOOLEAN
  BY ListeningIsBoolean DEF IInv, TypeOK, ApplyOutputs, loopVars
<1>3. \A f \in DeviceFields \ {"screen_light_on", "dirty_display"} : dev'[f] = dev[f]
  BY <1>1, <1>2, OutputsType
<1>4. /\ KeyRegisters(dev') = KeyRegisters(dev) /\ dev'.fan_percent = dev.fan_percent
      /\ dev'.status_led_on = dev.status_led_on /\ dev'.lights_on = dev.lights_on
  BY <1>3 DEF KeyRegisters, DeviceFields
<1>5. hw.duty = applied.fan /\ hw.led = applied.led /\ hw.backlight = dev.screen_light_on
  BY DEF CacheInv, DriversInv
<1>6. /\ DOMAIN hw' = HwFields /\ DOMAIN applied' = AppliedFields
      /\ hw'.duty = dev.fan_percent /\ applied'.fan = dev.fan_percent
      /\ hw'.led = applied'.led
      /\ ~setup_mode => hw'.led = dev.status_led_on
      /\ hw'.keys = KeyRegisters(dev)
      /\ hw'.backlight = dev'.screen_light_on
  BY <1>1, <1>2, <1>5, OutputsReachDrivers
<1>7. panel \in PanelType /\ (dev.lights_on /\ ~setup_mode /\ ~dev.dirty_display => Repaired(panel))
  BY DEF CacheInv, PanelInv, PanelMeansDirty, Repaired
<1>8. panel' \in PanelType /\ (dev.lights_on /\ ~setup_mode => Repaired(panel'))
  BY <1>1, <1>2, <1>7, OutputsReachPanel
<1>9. DriversInv'
  BY <1>2, <1>4, <1>6 DEF DriversInv, OutputsFollow
<1>10. PanelInv'
  BY <1>2, <1>4, <1>8 DEF PanelInv, PanelMeansDirty, Repaired
<1> QED
  BY <1>9, <1>10 DEF CacheInv

LEMMA StepCache == IInv /\ CacheInv /\ [Next]_vars => CacheInv'
<1> SUFFICES ASSUME IInv, CacheInv, [Next]_vars PROVE CacheInv'
  OBVIOUS
<1>1. /\ eeprom \in [filter : FilterRecords, ssid_set : BOOLEAN]
      /\ [eeprom EXCEPT !.ssid_set = TRUE] \in [filter : FilterRecords, ssid_set : BOOLEAN]
  BY DEF IInv, TypeOK
<1>2. CASE TickSerialProvision
  <2>1. CASE Restart([eeprom EXCEPT !.ssid_set = TRUE])
    BY <1>1, <2>1, RestartCache
  <2>2. CASE Go("display") /\ UNCHANGED <<dev, loopVars, outVars>>
    BY <2>2, QuietCache DEF Go, loopVars, outVars, SamePanel
  <2> QED
    BY <1>2, <2>1, <2>2 DEF TickSerialProvision
<1>3. CASE TickDisplay \/ ProcessCommand \/ TickWifi
  BY <1>3, DisplayCacheInv, ProcessCommandCache, WifiCache
<1>4. CASE ProcessCommandsDone \/ PollButtons \/ TickWeb
  <2>1. pc' # "serial" /\ UNCHANGED <<dev, hw, applied, panel, setup_mode>>
    BY <1>4 DEF ProcessCommandsDone, PollButtons, TickWeb, Go, loopVars, outVars
  <2> QED
    BY <2>1, QuietCache DEF SamePanel
<1>5. CASE TickMqtt
  <2>1. pc' # "serial" /\ UNCHANGED <<dev, hw, applied, panel, setup_mode>>
    BY <1>5 DEF TickMqtt, Go, loopVars, outVars
  <2> QED
    BY <2>1, QuietCache DEF SamePanel
<1>6. CASE TickReport \/ TickFilter \/ WriteFilterCell \/ FilterSaved
           \/ QueueStatePublish \/ ApplyOutputs
  BY <1>6, ReportCache, FilterCache, SaveCache, PublishCache, ApplyOutputsCache
<1>7. CASE PowerLoss
  BY <1>1, <1>7, RestartCache DEF PowerLoss
<1>8. CASE SoftApSave \/ UNCHANGED vars
  <2>1. pc' = pc /\ UNCHANGED <<dev, hw, applied, panel, setup_mode>>
    BY <1>8 DEF SoftApSave, vars, loopVars, outVars
  <2> QED
    BY <2>1, QuietCache DEF SamePanel
<1> QED
  BY <1>2, <1>3, <1>4, <1>5, <1>6, <1>7, <1>8 DEF Next, Tick

LEMMA CacheInvariance == Spec => []CacheInv
BY InitCache, StepCache, Invariance, PTL DEF Spec

-----------------------------------------------------------------------------
(* The theorems.                                                           *)

\* Between two ticks fan PWM, backlight, key lights and, outside setup mode, the
\* status LED are what the device state says, whatever commands the tick applied.
THEOREM HardwareFollows == Spec => []OutputsFollow
<1>1. CacheInv => OutputsFollow
  BY DEF CacheInv, DriversInv
<1> QED
  BY <1>1, CacheInvariance, PTL

\* While the lights are on a main screen that is out of date, or a panel that is
\* blank or connecting, always has dirty_display set.
THEOREM PanelIsRepaired == Spec => []PanelMeansDirty
<1>1. CacheInv => PanelMeansDirty
  BY DEF CacheInv, PanelInv
<1> QED
  BY <1>1, CacheInvariance, PTL
=============================================================================
