SPECIFICATION FairSpec
CONSTANTS
  Workers = {w1, w2}
  NoWorker = none
  Issues = {i1, i2}
  FirstLabels = {i1}
  PageSize = 1
  MaxEdits = 2
  MaxHuman = 1
  MaxFaults = 1
  MaxOverlaps = 1
  MaxTogether = 2
INVARIANTS NoDuplicateUpdates OneMarkPerOwner
PROPERTIES PagesAreFinished ProgressIsKept IssuesSettle ClosesSettle
CHECK_DEADLOCK FALSE
