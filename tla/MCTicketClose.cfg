SPECIFICATION Spec
CONSTANTS
    cmd = cmd
    rev = rev
    op = op
    c1 = c1
    c2 = c2
    art = art
    doc = doc
    Principals <- MCPrincipals
    Kind <- MCKind
    Family <- MCFamily
    Seated = {cmd, rev}
    Operators = {op}
    Authors = {cmd}
    Candidates = {c1, c2}
    Criteria = {art, doc}
    Dependent = {art}
    Reviewed = {art}
    Policies = {{art, doc}}
    NoBundle = NoBundle
    MaxEvidence = 2
    MaxVerdicts = 2
    AssignmentKinds = {"stage_owner"}
    NoScope = NoScope
    Blockers = {b1}
    MaxEpisodes = 2
    Stages <- MCStages
    Initial = "capture"
    Edges <- MCEdges
    ReviewStages = {"verify"}
    NoRun = NoRun
    NoEffect = NoEffect
    NotEmitted = NotEmitted
    Unconsumed = Unconsumed
INVARIANT TypeOK
INVARIANT ReviewsAreLinked
INVARIANT CustodyFollowsEpisode
PROPERTY ImplementsProvenTicket
SYMMETRY CandidateSymmetry
