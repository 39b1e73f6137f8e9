SPECIFICATION Spec
CONSTANTS
  Change = change
  Retry = retry
  Edit = edit
  Follow = follow
  Relation = relation
  Other = other
  k1 = k1
  k2 = k2
  k3 = k3
  k4 = k4
  Requests = {change, retry, edit}
  Keys = {k1}
  NoKey = none
  Tickets <- MCTickets
  KeyOf <- MCKeyOf
  DigestOf <- MCDigestOf
  TicketsOf <- MCTicketsOf
  SourceOf <- MCSourceOf
  ExpectedOf <- MCExpectedOf
  MaxAttempts = 2
  MaxFailures = 6
  Revocable = TRUE
INVARIANT RepliesAgree
CHECK_DEADLOCK FALSE
