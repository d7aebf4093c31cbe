\* The sensor's frames alone; the first sample is the one of interest.
SPECIFICATION Spec
CONSTANTS
  Payloads = {6, 9}
  Aliases = {9}
  Endings = {6}
  FrameSize = 6
  Window = 3
INVARIANTS AverageOfReadings
