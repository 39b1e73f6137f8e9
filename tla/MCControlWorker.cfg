SPECIFICATION FairSpec
CONSTANTS
  Synthetic = synthetic
  Item = item
  Routines = {synthetic, item}
  Handler <- MCHandler
  Concurrency <- MCConcurrency
  CatchUp <- MCCatchUp
  CatchUpCap <- MCCatchUpCap
  Schedule <- MCSchedule
  Gated = {item}
  MaxDue = 2
  Window = 2
  MaxTime = 3
  MaxRevision = 2
  Workers = {w1}
  Requests = {q1}
  NoClaim = none
  MaxAttempts = 2
  MaxRefusals = 1
  MaxTogether = 1
INVARIANTS TypeOK OneAtATime
PROPERTIES FiresRecorded JobsSettle
