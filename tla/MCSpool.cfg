SPECIFICATION FairSpec
CONSTANTS
  Commands = {c1, c2}
  NoCommand = none
  MaxLive = 2
  ScanLimit = 7
  MaxEnqueues = 2
  MaxDispositions = 2
  MaxFaults = 2
INVARIANTS ExecutedInOrder OpensUnlessKnown
PROPERTIES ImplementsQueue PendingSettles
CHECK_DEADLOCK FALSE
