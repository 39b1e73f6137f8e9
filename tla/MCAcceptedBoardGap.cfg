SPECIFICATION SystemSpec
CONSTANTS
  Commands = {c1, c2}
  NoCommand = none
  Reconcilers = {worker}
  Finalizer = worker
  MaxOutages = 0
  Promotable = FALSE
  EventCount <- MCSingles
  Creates = {}
  CardOf <- MCCardOf
  NoEvent = noEvent
  TerminalAttempts = 3
  MaxFailures = 0
  MaxInvalid = 0
  MaxDispositions = 0
  MaxRebuilds = 0
INVARIANT CurrentHasNoGap
CHECK_DEADLOCK FALSE
