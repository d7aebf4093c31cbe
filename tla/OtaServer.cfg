\* Times are scaled: a window of 3, a handshake of 2, passes of 1 or 2; one upload may
\* fail between two boots.
SPECIFICATION Spec
CONSTANTS
  WindowMs = 3
  HandshakeMs = 2
  MaxDenied = 3
  ClockRange = 15
  CountRange = 5
  TickSteps = {1, 2}
  MaxOutage = 4
  MaxUploads = 1
  TimeCap = 8
INVARIANTS TypeOK ThreeGuesses WindowCloses SilentIsDropped DeniedDurable
PROPERTIES FullHandshake LockIsReported
