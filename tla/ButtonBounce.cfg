SPECIFICATION Spec
CONSTANTS
  Entries = {3}
  HeldAtBoot = {}
  DebounceMs = 3
  MiddleLongMs = 6
  PowerLongMs = 8
  RepeatDelayMs = 5
  RepeatMs = 3
  TickSteps = {1, 2}
  Bounce = 3
  MinGap = 4
  ClockRange = 40
  Wrap = FALSE
CHECK_DEADLOCK FALSE
INVARIANTS LongPressIsHeld
