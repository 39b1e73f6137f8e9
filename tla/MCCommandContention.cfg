SPECIFICATION FairSpec
CONSTANTS
  Change = change
  Retry = retry
  Edit = edit
  Follow = follow
  Relation = relation
  Other = other
  k1 = k1
  k2 = k2
  k3 = k3
  k4 = k4
  Requests = {change, follow, relation, other}
  Keys = {k1, k2, k3, k4}
  NoKey = none
  Tickets <- MCTickets
  KeyOf <- MCKeyOf
  DigestOf <- MCDigestOf
  TicketsOf <- MCTicketsOf
  SourceOf <- MCSourceOf
  ExpectedOf <- MCExpectedOf
  MaxAttempts = 1
  MaxFailures = 1
  Revocable = FALSE
INVARIANTS VersionCountsEvents NoWaitCycle PositionsGapless
PROPERTY HeadMovesWhenAcked EveryRequestAnswered
CHECK_DEADLOCK FALSE
