SPECIFICATION Spec
CONSTANTS
  Requests = {r1, r2, r3}
  NoRequest = none
  Tickets = {t1}
  BlockerKeys = {decision}
  Decision = decision
  Starts = {"ACCEPTED", "REJECTED"}
  MaxVersions = 12
  Lagging = {t1, "triage"}
  MaxPending = 1
  MaxProof = 1
SYMMETRY RequestSymmetry
INVARIANTS DuplicatesStayFlat OneRequestPerTicket DoneIsJustified ClashesArePending
CHECK_DEADLOCK FALSE
