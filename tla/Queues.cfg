SPECIFICATION MCSpec
CONSTANTS
\* Five slots, so four usable: the indices wrap, and every batch meets every fill level
\* and every tail.
  Item = {"a", "b"}
  QueueSize = 5
  Blank = "a"
  Batches <- MCBatches
\* The real size.
  ApQueueSize = 16
\* Three usable slots, which a state burst of two topics and a health burst of one fill.
\* A pass takes 1 or 2 and lets one message out (PaceOK holds with equality), so that health
\* bursts drift through every point between two state bursts.  The drop counter, which only
\* the health burst reads, is cut to a constant.
  StateTopics <- MCStateTopics
  HealthTopics <- MCHealthTopics
  Values = {0, 1}
  MqQueueSize = 4
  CountRange = 1
  PublishGapMs = 1
  StateGapMs = 6
  ReportMs = 3
  HealthMs = 6
  TickSteps = {1, 2}
\* Two connections, so that requests overtake each other.
  Fans = {0, 50}
  Requests = {1, 2}
INVARIANTS TypesOK StaleIsUnderWay
PROPERTIES ImplementsFifo ImplementsAtomicQueue SaveReboots BurstIsAbsorbed BrokerCatchesUp UiConverges
