\* A clock that wraps while the watchdog works.
SPECIFICATION Spec
CONSTANTS
  WatchdogMs = 6
  WakeStepGapMs = 3
  TickSteps = {1, 2}
  ClockRange = 30
  Wrap = TRUE
INVARIANTS SilenceIsAnswered
