SPECIFICATION RelationSpec
CONSTANTS
  Writers = {w1, w2}
  NoWriter = none
  Tickets <- MCTickets
  Relations <- MCRelations
INVARIANT NoShortCycle
