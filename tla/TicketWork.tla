---- MODULE TicketWork ----
(***************************************************************************)
(* What Work and Record keep about one ticket besides its relations: the   *)
(* lifecycle episode, the latest admission of that episode, the blockers,  *)
(* the custodian, and the assignment intervals nobody has released yet.    *)
(* Each command locks the ticket row before it reads, so it is one step.   *)
(***************************************************************************)
EXTENDS Naturals, FiniteSets

CONSTANTS
    Principals,
    Kind,             \* the kind of each principal
    Seated,           \* the principals with a seat in the ticket's project
    AssignmentKinds,  \* the kinds ChangeAssignment is used with
    NoScope,          \* an interval without scope_ref
    Blockers,
    MaxEpisodes       \* bound: episodes of the ticket

VARIABLES
    episode, lifecycle,
    admitted,         \* the latest admission fact of the episode says admitted
    blockers,         \* the blockers that are open
    custodian,
    assigned          \* the unreleased assignment intervals

workVars == <<episode, lifecycle, admitted, blockers, custodian, assigned>>

\* Which kinds of principal each kind of assignment may go to.
Allowed ==
    [current_assignee    |-> {"agent", "commander", "operator"},
     stage_owner         |-> {"agent", "commander"},
     reviewer_assignment |-> {"reviewer", "operator"}]

\* Mutant: the seat alone is enough.
EligibleBySeat ==
    {p \in Principals : Kind[p] = "operator" \/ p \in Seated}

\* Who may take custody over: an operator, or a commander seated in the project.
EligibleTargets ==
    {p \in Principals : Kind[p] = "operator" \/ (Kind[p] = "commander" /\ p \in Seated)}

\* Who may keep it when the ticket is reopened: the seat is not asked for.
EligibleCustodians == {p \in Principals : Kind[p] \in {"commander", "operator"}}

Interval(kind, scope, p, e) ==
    [kind |-> kind, scope |-> scope, principal |-> p, episode |-> e]
CurrentOf(kind, scope) == {i \in assigned : i.kind = kind /\ i.scope = scope}
CustodyOf(e) == {i \in assigned : i.kind = "ticket_custodian" /\ i.episode = e}

WorkInit ==
    /\ episode = 1
    /\ lifecycle = "open"
    /\ admitted = FALSE
    /\ blockers = {}
    /\ custodian \in EligibleTargets
    /\ assigned = {Interval("ticket_custodian", NoScope, custodian, 1)}

\* The gate the workflow asks before it leaves the entry stage.
Ready == admitted /\ blockers = {}

-----------------------------------------------------------------------------

Admit ==
    /\ lifecycle \in {"open", "waiting"}
    /\ lifecycle' = "active"
    /\ admitted' = TRUE
    /\ UNCHANGED <<episode, blockers, custodian, assigned>>

Defer ==
    /\ lifecycle \in {"open", "active", "waiting"}
    /\ lifecycle' = "waiting"
    /\ admitted' = FALSE
    /\ UNCHANGED <<episode, blockers, custodian, assigned>>

\* A blocker may be opened in any episode state, and outlives the episode.  Its
\* identifier is fresh each time: a resolved one is never opened again.
Block(b) ==
    /\ b \notin blockers
    /\ blockers' = blockers \cup {b}
    /\ UNCHANGED <<episode, lifecycle, admitted, custodian, assigned>>

Unblock(b) ==
    /\ b \in blockers
    /\ blockers' = blockers \ {b}
    /\ UNCHANGED <<episode, lifecycle, admitted, custodian, assigned>>

\* Replace whoever holds this kind and scope; the holder cannot be named again.
Reassign(kind, scope, p) ==
    /\ Kind[p] \in Allowed[kind]
    /\ \A i \in CurrentOf(kind, scope) : i.principal # p
    /\ assigned' = (assigned \ CurrentOf(kind, scope))
                      \cup {Interval(kind, scope, p, episode)}

ChangeAssignment(kind, scope, p) ==
    /\ lifecycle # "closed"
    /\ kind = "current_assignee" => scope = NoScope
    /\ Reassign(kind, scope, p)
    /\ UNCHANGED <<episode, lifecycle, admitted, blockers, custodian>>

\* Mutant: the transfer names the new custodian but keeps the old interval.
TransferCustodyKeepsInterval(p) ==
    /\ lifecycle # "closed"
    /\ p \in EligibleTargets \ {custodian}
    /\ custodian' = p
    /\ assigned' = assigned \cup {Interval("ticket_custodian", NoScope, p, episode)}
    /\ UNCHANGED <<episode, lifecycle, admitted, blockers>>

TransferCustody(p) ==
    /\ lifecycle # "closed"
    /\ p \in EligibleTargets \ {custodian}
    /\ LET held == {i \in CustodyOf(episode) : i.principal = custodian}
       IN  /\ Cardinality(held) = 1
           /\ assigned' = (assigned \ held)
                 \cup {Interval("ticket_custodian", NoScope, p, episode)}
    /\ custodian' = p
    /\ UNCHANGED <<episode, lifecycle, admitted, blockers>>

\* The close ends the custody of the episode and every other interval of it.
CloseEpisode ==
    /\ Cardinality(CustodyOf(episode)) = 1
    /\ lifecycle' = "closed"
    /\ assigned' = {i \in assigned : i.episode # episode}
    /\ UNCHANGED <<episode, admitted, blockers, custodian>>

Reopen ==
    /\ episode < MaxEpisodes
    /\ lifecycle = "closed"
    /\ custodian \in EligibleCustodians
    /\ episode' = episode + 1
    /\ lifecycle' = "open"
    /\ admitted' = FALSE
    /\ assigned' = assigned \cup
          {Interval("ticket_custodian", NoScope, custodian, episode + 1)}
    /\ UNCHANGED <<blockers, custodian>>

-----------------------------------------------------------------------------

(***************************************************************************)
(* INV-09: an episode that is not closed has exactly one current custody   *)
(* interval, the one of the recorded custodian; a closed episode has none. *)
(* No interval outlives its episode, and no kind and scope of assignment   *)
(* is held by two intervals at once.                                       *)
(***************************************************************************)
CustodyFollowsEpisode ==
    /\ {i \in assigned : i.kind = "ticket_custodian"} =
          IF lifecycle = "closed" THEN {}
          ELSE {Interval("ticket_custodian", NoScope, custodian, episode)}
    /\ \A i \in assigned : lifecycle # "closed" /\ i.episode = episode
    /\ \A i, j \in assigned : i.kind = j.kind /\ i.scope = j.scope => i = j
=============================================================================
