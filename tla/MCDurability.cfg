SPECIFICATION Spec
CONSTANTS
  Commands = {c1, c2}
  NoCommand = none
  Reconcilers = {api, worker}
  Finalizer = worker
  MaxOutages = 1
  Promotable = TRUE
SYMMETRY CommandSymmetry
INVARIANTS AcceptedSurvivesPrimaryLoss AcceptedIsStable EvidenceInOrder
PROPERTY ImplementsAuthority
CHECK_DEADLOCK FALSE
