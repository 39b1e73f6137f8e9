SPECIFICATION SystemFairSpec
CONSTANTS
  Commands = {c1}
  NoCommand = none
  Reconcilers = {api, worker}
  Finalizer = worker
  MaxOutages = 1
  Promotable = FALSE
  EventCount <- MCPairs
  Creates <- MCCreates
  CardOf <- MCCardOf
  NoEvent = noEvent
  TerminalAttempts = 2
  MaxFailures = 0
  MaxInvalid = 0
  MaxDispositions = 1
  MaxRebuilds = 1
INVARIANT BoardShowsOnlyDurable
PROPERTIES EventuallyConfirmed RecordedReachesBoard
CHECK_DEADLOCK FALSE
