SPECIFICATION Spec
CONSTANTS
  Pair = pair
  Single = single
  Commands = {pair, single}
  EventCount <- MCEventCount
  Creates <- MCCreates
  CardOf <- MCCardOf
  NoEvent = none
  TerminalAttempts = 2
  MaxFailures = 1
  MaxInvalid = 1
  MaxDispositions = 2
  MaxRebuilds = 1
INVARIANTS FoldedOnce PoisonHoldsStream OnlyLateIsPassedOver CurrentShowsEveryCard
CHECK_DEADLOCK FALSE
