SPECIFICATION MCSpec
CONSTANTS
  Fans = {0, 5, 100}
  Readings = {0, 7}
  Tentacles = 8
  Placeholder = "Aeris-XXXX"
  OwnSsid = "Aeris-1ab2"
\* One stepping key and the power key, touched independently; with clean contacts every
\* time is exact.
  Entries = {0, 3}
  DebounceMs = 1
  MiddleLongMs = 2
  PowerLongMs = 5
  RepeatDelayMs = 3
  RepeatMs = 2
  KeySteps = {1}
  MinGap = 3
  KeyClock = 17
\* Frames of six bytes, one kind of which spells the header in its payload and the other
\* ends in its first byte; an average of three.
  Payloads = {6, 9}
  Aliases = {9}
  Endings = {6}
  FrameSize = 6
  Window = 3
\* A watchdog of 6 and gaps of 3, up to the wrap of the clock.
  WatchdogMs = 6
  WakeStepGapMs = 3
  WakeSteps = {1, 2}
  WakeClock = 64
\* Two levels that do not divide the frame and a blink of six ticks; the timer may be late.
  Patterns = {0, 255}
  Levels = {1, 3}
  Blinks = {0, 6}
  FrameSlots = 4
  MaxLate = 1
  LightClock = 12
\* Base interval 1 and a suspension of 6 after the third failure, so the backoff runs
\* 1, 2, 4.  The clock is large enough for every mark to be used or replaced before half
\* its range has gone by, with outages of up to 2.
  ReconnectBaseMs = 1
  MaxShift = 5
  SuspendAfter = 3
  SuspendMs = 6
  LinkSteps = {1, 2}
  LinkClock = 50
  MaxOutage = 2
  AgeCap = 11
\* The clocks of the keys and of the watchdog stop before they wrap.
CHECK_DEADLOCK FALSE
INVARIANTS TypesOK CacheIsTruthful ScreenIsCurrent LongPressIsHeld OneMeaningPerPress
INVARIANTS RepeatIsPaced HoldIsAnswered Resync AverageOfKept SilenceIsAnswered DutyIsLevel SuspensionEnds
PROPERTIES BackoffIsServed
