---------------------------- MODULE RequestFacts ----------------------------
(***************************************************************************)
(* Requests of the Work component (work/_request_change_sql.py,            *)
(* _request_facts_sql.py, _request_state_sql.py): every change appends one *)
(* fact and raises the version; the operator state is never stored but     *)
(* derived from the latest facts of each kind, from the fulfillment        *)
(* Tickets and, for a duplicate, from its canonical Request.  A closure    *)
(* evaluation counts as long as the digest of what it rested on is the     *)
(* same.  The commands read every fact; the Request list reads only the    *)
(* facts whose command is confirmed, and confirmations come in any order.  *)
(*                                                                         *)
(* The commands run under REPEATABLE READ and each commit updates the row  *)
(* of the record position ledger, so of two that overlap one fails and is  *)
(* retried: a committed change is one step on the current state.           *)
(***************************************************************************)
EXTENDS Naturals, FiniteSets, Functions

CONSTANTS
  Requests, NoRequest,
  Tickets,     \* the fulfillment Tickets of the project
  BlockerKeys, \* blockers of a Request
  Decision,    \* operator-decision-required, the one a ruling answers
  Starts,      \* bound: the triage that the Requests may start from
  MaxVersions, \* bound: the versions of all Requests together
  Lagging,     \* bound: facts whose confirmation may come after later commands
  MaxPending,  \* bound: facts and rulings waiting for a confirmation at once
  MaxProof     \* bound: changes of a Ticket's proof

ASSUME RequestAssumption ==
  /\ NoRequest \notin Requests
  /\ Tickets \cap BlockerKeys = {}
  /\ {"priority", "owner", "triage", "closure"} \cap (Tickets \cup BlockerKeys) = {}

Slots        == {"priority", "owner", "triage", "closure"} \cup Tickets \cup BlockerKeys
Dispositions == {"UNTRIAGED", "ACCEPTED", "DUPLICATE", "REJECTED"}
ASSUME StartAssumption == Starts \subseteq Dispositions \ {"DUPLICATE"}
States       == {"NEW", "TRIAGED", "WIP", "BLOCKED", "DONE"}
\* A read that follows canonical Requests for ever ends in a RecursionError.
Raises == "raises"

\* No evaluation yet, which says as much as an open one.
NoClosure ==
  [outcome |-> "open", at |-> 0,
   digest |-> [triage |-> "UNTRIAGED", canonical |-> <<NoRequest, "none">>,
               blockers |-> {}, relations |-> {}]]

VARIABLES
  version,         \* [request -> its version]
  latest,          \* [request -> [slot -> value of its latest fact]]
  acceptedVersion, \* [request -> version of its latest confirmed event]
  accepted,        \* [request -> [slot -> value of its latest confirmed fact]]
  pending,         \* facts not confirmed yet that would change what is accepted
  rulings,         \* rulings on decision blockers
  holder,          \* [ticket -> request_ticket_holders]
  ticket           \* [ticket -> what the requests read of it]

acceptedVars == <<acceptedVersion, accepted>>
vars == <<version, latest, acceptedVersion, accepted, pending, rulings, holder, ticket>>

-----------------------------------------------------------------------------
(* What is derived from the facts, as the commands and as the list see it.  *)
(* A view has the latest facts, the versions and the answered decisions.    *)

Current  == [facts |-> latest, version |-> version,
             answered |-> {[request |-> x.request, at |-> x.at] : x \in rulings}]
Accepted == [facts |-> accepted, version |-> acceptedVersion,
             answered |-> {[request |-> x.request, at |-> x.at] :
                             x \in {y \in rulings : y.confirmed}}]

Disposition(v, r) == v.facts[r]["triage"].disposition
Canonical(v, r)   == v.facts[r]["triage"].canonical

\* A ruling answers one occurrence of the decision blocker.
Answered(v, r) == [request |-> r, at |-> v.facts[r][Decision]] \in v.answered

ActiveBlockers(v, r) ==
  {k \in BlockerKeys : v.facts[r][k] # 0 /\ (k = Decision => ~Answered(v, r))}

Related(v, r, purpose) == {t \in Tickets : v.facts[r][t] = purpose}

Fulfilled(t) == ticket[t].state = "closed" /\ ~ticket[t].blocked /\ ~ticket[t].lateInvalidation

\* `canon` is the derived state of the canonical Request.
ClosureDone(v, r, canon) ==
  \/ Disposition(v, r) = "REJECTED"
  \/ Disposition(v, r) = "DUPLICATE" /\ canon = "DONE"
  \/ /\ Disposition(v, r) = "ACCEPTED"
     /\ ActiveBlockers(v, r) = {}
     /\ Related(v, r, "required") # {}
     /\ \A t \in Related(v, r, "required") : Fulfilled(t)

\* Mutant: the digest leaves out how the proof stands.
RelationStateOnly(t, purpose) ==
  [ticket |-> t, purpose |-> purpose, state |-> ticket[t].state,
   blocked |-> ticket[t].blocked, proof |-> 0, invalidations |-> 0]

RelationDependency(t, purpose) ==
  [ticket |-> t, purpose |-> purpose, state |-> ticket[t].state,
   blocked |-> ticket[t].blocked, proof |-> ticket[t].proof,
   invalidations |-> ticket[t].invalidations]

Digest(v, r, canon) ==
  [triage    |-> Disposition(v, r),
   canonical |-> IF Canonical(v, r) = NoRequest THEN <<NoRequest, "none">>
                 ELSE <<Canonical(v, r), canon>>,
   blockers  |-> ActiveBlockers(v, r),
   relations |-> {RelationDependency(t, v.facts[r][t]) :
                    t \in {u \in Tickets : v.facts[r][u] # "none"}}]

\* The latest evaluation says done and the Request has not changed since.
SaysDone(v, r) ==
  LET c == v.facts[r]["closure"] IN c.outcome = "done" /\ c.at = v.version[r]

\* Only an evaluation that says done makes the read follow the canonical Request.
DerivedFrom(v, r, canon) ==
  IF SaysDone(v, r) /\ Canonical(v, r) # NoRequest /\ canon = Raises THEN Raises
  ELSE IF SaysDone(v, r) /\ v.facts[r]["closure"].digest = Digest(v, r, canon) THEN "DONE"
  ELSE IF \/ ActiveBlockers(v, r) # {}
          \/ \E t \in Related(v, r, "required") : ticket[t].blocked THEN "BLOCKED"
  ELSE IF /\ Disposition(v, r) = "ACCEPTED"
          /\ \E t \in Related(v, r, "required") : ticket[t].state = "active" THEN "WIP"
  ELSE IF Disposition(v, r) # "UNTRIAGED" THEN "TRIAGED" ELSE "NEW"

\* A walk over more Requests than there are goes in a circle.
Derived(v) ==
  LET after[n \in 0..(Cardinality(Requests) + 1)] ==
        [r \in Requests |->
           IF n = 0 THEN Raises
           ELSE DerivedFrom(v, r, IF Canonical(v, r) = NoRequest THEN "none"
                                  ELSE after[n - 1][Canonical(v, r)])]
  IN after[Cardinality(Requests) + 1]

-----------------------------------------------------------------------------
(* The Requests are captured; confirmed commands changed the owner of each,  *)
(* gave it a priority, accepted or rejected it, two for every Request.       *)

CaptureFacts ==
  [s \in Slots |->
     CASE s = "priority" -> "default"
       [] s = "owner" -> "commander"
       [] s = "triage" -> [disposition |-> "UNTRIAGED", canonical |-> NoRequest]
       [] s = "closure" -> NoClosure
       [] s \in Tickets -> "none"
       [] s \in BlockerKeys -> 0]

Init ==
  /\ version = [r \in Requests |-> 3]
  /\ \E start \in [Requests -> Starts], prioritised \in SUBSET Requests :
       /\ {r \in Requests : start[r] = "ACCEPTED"} \subseteq prioritised
       /\ {r \in Requests : start[r] = "REJECTED"} \cap prioritised = {}
       /\ latest = [r \in Requests |->
            [CaptureFacts EXCEPT
               !["priority"] = IF r \in prioritised THEN "explicit" ELSE "default",
               !["triage"].disposition = start[r]]]
  /\ acceptedVersion = version /\ accepted = latest
  /\ pending = {} /\ rulings = {}
  /\ holder = [t \in Tickets |-> NoRequest]
  /\ ticket = [t \in Tickets |-> [state |-> "active", blocked |-> FALSE, proof |-> 0,
                                  invalidations |-> 0, lateInvalidation |-> FALSE]]

Bounded     == FoldFunction(+, 0, version) < MaxVersions
Unconfirmed == Cardinality(pending) + Cardinality({x \in rulings : ~x.confirmed})

\* Mutant: the newest confirmation counts, not the newest confirmed fact.
NeverSuperseded(r, slot, n) == {}

\* Confirming these after version n of their slot changes nothing: the list takes
\* the latest confirmed fact and the highest confirmed version.
Superseded(r, slot, n) == {f \in pending : f.request = r /\ f.slot = slot /\ f.version <= n}

\* One command of change_request: the fact, the next version and the event.  Its
\* confirmation follows in its own request, or is left to the finalizer.
Append(r, slot, value) ==
  /\ Bounded
  /\ version' = [version EXCEPT ![r] = @ + 1]
  /\ latest' = [latest EXCEPT ![r] = [@ EXCEPT ![slot] = value]]
  /\ \/ /\ slot \in Lagging /\ Unconfirmed < MaxPending
        /\ pending' = pending \cup {[request |-> r, slot |-> slot, value |-> value,
                                     version |-> version[r] + 1]}
        /\ UNCHANGED acceptedVars
     \/ /\ accepted' = [accepted EXCEPT ![r] = [@ EXCEPT ![slot] = value]]
        /\ acceptedVersion' = [acceptedVersion EXCEPT ![r] = version[r] + 1]
        /\ pending' = pending \ Superseded(r, slot, version[r])
  /\ UNCHANGED <<rulings, ticket>>

-----------------------------------------------------------------------------
(* The commands on a Request                                               *)

Prioritise(r)  == Append(r, "priority", "explicit") /\ UNCHANGED holder
AssignOwner(r) == Append(r, "owner", "commander") /\ UNCHANGED holder

IsCanonicalTarget(r) ==
  \E q \in Requests : Disposition(Current, q) = "DUPLICATE" /\ Canonical(Current, q) = r

Decide(r, disposition, canonical) ==
  Append(r, "triage", [disposition |-> disposition, canonical |-> canonical])

\* Mutant: the check for a canonical target is made for no duplicate.
DuplicateAnyway(r, c) ==
  /\ c # r /\ Disposition(Current, c) # "DUPLICATE"
  /\ Decide(r, "DUPLICATE", c) /\ UNCHANGED holder

Duplicate(r, c) ==
  /\ ~IsCanonicalTarget(r)
  /\ c # r /\ Disposition(Current, c) # "DUPLICATE"
  /\ Decide(r, "DUPLICATE", c) /\ UNCHANGED holder

Accept(r) ==
  /\ latest[r]["priority"] = "explicit" /\ ~IsCanonicalTarget(r)
  /\ Decide(r, "ACCEPTED", NoRequest) /\ UNCHANGED holder

Reject(r) ==
  /\ ~IsCanonicalTarget(r)
  /\ Decide(r, "REJECTED", NoRequest) /\ UNCHANGED holder

\* Mutant: the relation does not ask who holds the Ticket.
RelateUnheld(r, t, purpose) ==
  /\ Disposition(Current, r) = "ACCEPTED"
  /\ holder' = [holder EXCEPT ![t] = r]
  /\ Append(r, t, purpose)

RelateTicket(r, t, purpose) ==
  /\ Disposition(Current, r) = "ACCEPTED"
  /\ holder[t] \in {NoRequest, r}
  /\ holder' = [holder EXCEPT ![t] = r]
  /\ Append(r, t, purpose)

\* A Request that is no longer accepted cannot let its Tickets go.
ReleaseTicket(r, t) ==
  /\ Disposition(Current, r) = "ACCEPTED"
  /\ holder[t] = r
  /\ holder' = [holder EXCEPT ![t] = NoRequest]
  /\ Append(r, t, "none")

\* Setting an active blocker again is a new occurrence of it.
SetBlocker(r, k) == Append(r, k, version[r] + 1) /\ UNCHANGED holder

ClearBlocker(r, k) ==
  /\ latest[r][k] # 0
  /\ Append(r, k, 0) /\ UNCHANGED holder

\* The canonical Request's state as the digest and the outcome read it.
CanonicalState(r) ==
  IF Canonical(Current, r) = NoRequest THEN "none" ELSE Derived(Current)[Canonical(Current, r)]

EvaluateClosure(r) ==
  LET canon == CanonicalState(r) IN
  /\ canon # Raises
  /\ Append(r, "closure",
            [outcome |-> IF ClosureDone(Current, r, canon) THEN "done" ELSE "open",
             at |-> version[r] + 1, digest |-> Digest(Current, r, canon)])
  /\ UNCHANGED holder

\* A ruling answers the decision the accepted facts show, once.
RecordRuling(r) ==
  LET at == accepted[r][Decision] IN
  /\ Decision \in BlockerKeys /\ at # 0
  /\ \A x \in rulings : ~(x.request = r /\ x.at = at)
  /\ Unconfirmed < MaxPending
  /\ rulings' = rulings \cup {[request |-> r, at |-> at, confirmed |-> FALSE]}
  /\ UNCHANGED <<version, latest, acceptedVars, pending, holder, ticket>>

-----------------------------------------------------------------------------
(* Confirmations, written by whichever reconciler comes first (module        *)
(* Durability), in any order.                                                *)

ConfirmFact(f) ==
  /\ pending' = pending \ ({f} \cup Superseded(f.request, f.slot, f.version))
  /\ accepted' = [accepted EXCEPT ![f.request] = [@ EXCEPT ![f.slot] = f.value]]
  /\ acceptedVersion' = [acceptedVersion EXCEPT
                           ![f.request] = IF @ > f.version THEN @ ELSE f.version]
  /\ UNCHANGED <<version, latest, rulings, holder, ticket>>

ConfirmRuling(x) ==
  /\ ~x.confirmed
  /\ rulings' = (rulings \ {x}) \cup {[x EXCEPT !.confirmed = TRUE]}
  /\ UNCHANGED <<version, latest, acceptedVars, pending, holder, ticket>>

-----------------------------------------------------------------------------
(* The Tickets: what modules TicketWork, ProofBundle and TicketClose let     *)
(* happen to the columns a Request reads.                                    *)

ChangeTicket(t, changed) ==
  /\ ticket' = [ticket EXCEPT ![t] = changed]
  /\ UNCHANGED <<version, latest, acceptedVars, pending, rulings, holder>>

\* An invalidation is late until a close has a later clock.  One that was committed first
\* may stay late: its command may have read its clock after that of the close.
CloseTicket(t) ==
  /\ ticket[t].state # "closed"
  /\ \E late \in {FALSE, ticket[t].lateInvalidation} :
       ChangeTicket(t, [ticket[t] EXCEPT !.state = "closed", !.lateInvalidation = late])

ReopenTicket(t) ==
  /\ ticket[t].state = "closed"
  /\ ChangeTicket(t, [ticket[t] EXCEPT !.state = "open"])

AdmitTicket(t) ==
  /\ ticket[t].state = "open"
  /\ ChangeTicket(t, [ticket[t] EXCEPT !.state = "active"])

BlockTicket(t)   == ChangeTicket(t, [ticket[t] EXCEPT !.blocked = TRUE])
UnblockTicket(t) == ChangeTicket(t, [ticket[t] EXCEPT !.blocked = FALSE])

RecordProof(t) ==
  /\ ticket[t].proof < MaxProof
  /\ ChangeTicket(t, [ticket[t] EXCEPT !.proof = @ + 1])

\* A new candidate.  The clock of its command may have been read before that of
\* the close it follows: then the invalidation does not count as a later one.
InvalidateProof(t) ==
  /\ ticket[t].proof < MaxProof
  /\ \E late \in {TRUE, ticket[t].lateInvalidation} :
       ChangeTicket(t, [ticket[t] EXCEPT !.proof = @ + 1, !.invalidations = @ + 1,
                                         !.lateInvalidation = late])

-----------------------------------------------------------------------------
RequestStep(r) ==
  \/ Prioritise(r) \/ AssignOwner(r) \/ Accept(r) \/ Reject(r) \/ EvaluateClosure(r)
  \/ \E c \in Requests : Duplicate(r, c)
  \/ \E t \in Tickets : \/ ReleaseTicket(r, t)
                       \/ \E p \in {"required", "optional"} : RelateTicket(r, t, p)
  \/ \E k \in BlockerKeys : SetBlocker(r, k) \/ ClearBlocker(r, k)
  \/ RecordRuling(r)

TicketStep(t) ==
  \/ CloseTicket(t) \/ ReopenTicket(t) \/ AdmitTicket(t) \/ BlockTicket(t)
  \/ UnblockTicket(t) \/ RecordProof(t) \/ InvalidateProof(t)

Next ==
  \/ \E r \in Requests : RequestStep(r)
  \/ \E f \in pending : ConfirmFact(f)
  \/ \E x \in rulings : ConfirmRuling(x)
  \/ \E t \in Tickets : TicketStep(t)

Spec == Init /\ [][Next]_vars

-----------------------------------------------------------------------------
(* Properties                                                              *)

TriageFacts == [disposition : Dispositions, canonical : Requests \cup {NoRequest}]

\* Facts of both views are functions of the slots; what a Ticket shows.
TypeOK ==
  /\ version \in [Requests -> Nat] /\ acceptedVersion \in [Requests -> Nat]
  /\ DOMAIN latest = Requests /\ DOMAIN accepted = Requests
  /\ \A r \in Requests : /\ DOMAIN latest[r] = Slots /\ DOMAIN accepted[r] = Slots
                         /\ latest[r]["triage"] \in TriageFacts
  /\ \A f \in pending : /\ f.request \in Requests /\ f.slot \in Slots
                        /\ f.version \in 1..version[f.request]
  /\ holder \in [Tickets -> Requests \cup {NoRequest}]
  /\ ticket \in [Tickets -> [state : {"open", "active", "closed"}, blocked : BOOLEAN, proof : Nat,
                            invalidations : Nat, lateInvalidation : BOOLEAN]]

\* The derivation ends: no canonical Request is a duplicate itself, through any
\* sequence of triage and re-triage (_triage_refusal, _duplicate_target).
DuplicatesStayFlat ==
  \A r \in Requests : Disposition(Current, r) = "DUPLICATE" =>
    /\ Canonical(Current, r) \in Requests \ {r}
    /\ Disposition(Current, Canonical(Current, r)) # "DUPLICATE"

\* A fulfillment Ticket belongs to one Request: the holder table, which every
\* command asks, and the facts, which every read takes, say the same.
OneRequestPerTicket ==
  \A r \in Requests, t \in Tickets : latest[r][t] # "none" <=> holder[t] = r

\* DONE is never stale.  Whenever a command or the list shows a Request as DONE,
\* an evaluation made now would say done, although the evaluation was stored
\* earlier and only its version and digest are compared: the digest covers all
\* that the outcome depends on.
DoneIsJustified ==
  \A v \in {Current, Accepted}, r \in Requests, canon \in States \cup {"none"} :
    DerivedFrom(v, r, canon) = "DONE" => ClosureDone(v, r, canon)

\* The list may break the two rules above, but only while the fact that keeps
\* them waits for its confirmation: the release of a Ticket that is shown under
\* two Requests, the new triage of a canonical Request shown as a duplicate.
ClashesArePending ==
  \A r, q \in Requests :
    LET waits(slots) == \E f \in pending : f.request \in {r, q} /\ f.slot \in slots IN
    r # q =>
      /\ \A t \in Tickets : accepted[r][t] # "none" /\ accepted[q][t] # "none" => waits({t})
      /\ (/\ Disposition(Accepted, r) = "DUPLICATE" /\ Canonical(Accepted, r) = q
          /\ Disposition(Accepted, q) = "DUPLICATE") => waits({"triage"})
=============================================================================
