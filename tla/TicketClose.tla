---- MODULE TicketClose ----
(***************************************************************************)
(* The proof-gated life of one ticket: Workflow moves the run of an        *)
(* episode along its pinned graph, Proof collects evidence and verdicts,   *)
(* Work consumes the reviews that entering a stage asks for, and the close *)
(* rechecks all three in one transaction.  Verdicts and consumptions meet  *)
(* in the link table from both sides: a verdict is linked when it is       *)
(* recorded if its effect is already consumed, otherwise when it is        *)
(* consumed.  All handlers hold the ticket's locks until they commit.      *)
(***************************************************************************)
EXTENDS ProofBundle, TicketWork

CONSTANTS
    Stages, Initial,
    Edges,          \* [from, to, needs]: the transitions of the pinned graph
    ReviewStages,   \* the stages whose entry effect is review_crew_dispatch
    Policies,       \* the sets of criteria a run can be pinned to
    Family,         \* the model family bound to each principal
    NoRun, NoEffect, NotEmitted, Unconsumed

Effects == [episode : 1..MaxEpisodes, stage : ReviewStages, candidate : Candidates]

ASSUME GraphIsDeclared ==
    /\ Initial \in Stages
    /\ ReviewStages \subseteq Stages
    /\ \A edge \in Edges : edge.from \in Stages /\ edge.to \in Stages
    /\ Policies \subseteq SUBSET Criteria

\* A proof is written by operators and commanders; a custodian is no assignment
\* that ChangeAssignment could be given.
ASSUME RolesAreDeclared ==
    /\ Operators = {p \in Principals : Kind[p] = "operator"}
    /\ Authors \subseteq {p \in Principals : Kind[p] \in {"operator", "commander"}}
    /\ AssignmentKinds \subseteq DOMAIN Allowed

ASSUME NullsAreDistinct ==
    /\ NotEmitted # Unconsumed
    /\ NotEmitted \notin Principals /\ Unconsumed \notin Principals
    /\ NoEffect \notin Effects
    /\ NoBundle \notin Bundles \cup Candidates

ASSUME BoundsAreNaturals ==
    /\ MaxEpisodes \in Nat \ {0}
    /\ MaxEvidence \in Nat /\ MaxVerdicts \in Nat

VARIABLES
    run,        \* the run of the current episode: its stage and pinned criteria
    effects,    \* the review effects: not emitted, unconsumed, or who consumed them
    links       \* the effect each verdict is linked to, in the order of verdicts

runVars == <<run, effects, links>>
vars == <<proofVars, workVars, runVars>>

Init ==
    /\ ProofInit
    /\ WorkInit
    /\ run = NoRun
    /\ effects = [e \in Effects |-> NotEmitted]
    /\ links = <<>>

Lenses == bundle.criteria \cap Reviewed

\* The effect asks for a verdict like this one: same candidate, one of its lenses.
AsksFor(e, verdict) == e.candidate = verdict.candidate /\ verdict.criterion \in Lenses

\* And it was consumed by the principal who gave it.
Fits(verdict, e) == effects[e] = verdict.reviewer /\ AsksFor(e, verdict)

\* Every lens of a consumed effect has a linked verdict, whatever it decided.
Answered(e) ==
    /\ effects[e] \in Principals
    /\ \A k \in Lenses :
          \E i \in DOMAIN verdicts : links[i] = e /\ verdicts[i].criterion = k

Emitted == {e \in Effects : effects[e] # NotEmitted}
AwaitedReviews == {e \in Emitted : e.episode = episode /\ ~Answered(e)}

Terminal(stage) == \A edge \in Edges : edge.from # stage

Holds(predicate) ==
    CASE predicate = "entry.ready"     -> Ready
      [] predicate = "criteria.frozen" -> bundle # NoBundle
      [] predicate = "proof.current"   -> IsSatisfied(run.policy)

-----------------------------------------------------------------------------

\* The start asks for no open episode, only for an episode without a run.
StartWorkflow(policy) ==
    /\ run = NoRun
    /\ run' = [stage |-> Initial, policy |-> policy]
    /\ UNCHANGED <<proofVars, workVars, effects, links>>

\* One effect per run, stage and candidate: entering again adds nothing.
EmitReviewDispatch(stage) ==
    LET e == [episode |-> episode, stage |-> stage, candidate |-> bundle.candidate]
    IN  /\ bundle # NoBundle
        /\ Lenses # {}
        /\ effects' = [effects EXCEPT ![e] = IF @ = NotEmitted THEN Unconsumed ELSE @]

Transition(edge) ==
    /\ lifecycle # "closed"
    /\ run # NoRun
    /\ run.stage = edge.from
    /\ Holds(edge.needs)
    /\ IF edge.to \in ReviewStages THEN EmitReviewDispatch(edge.to)
       ELSE UNCHANGED effects
    /\ run' = [run EXCEPT !.stage = edge.to]
    /\ UNCHANGED <<proofVars, workVars, links>>

\* Mutant: only verdicts recorded after the consumption are linked.
LinkNoEarlierVerdicts(p, e) == p \in Principals /\ e \in Effects /\ UNCHANGED links

(***************************************************************************)
(* Work: the authenticated reviewer takes an effect up, is assigned to it, *)
(* and gets linked what they already decided about its candidate.          *)
(***************************************************************************)
LinkEarlierVerdicts(p, e) ==
    LET wanted(i) == /\ links[i] = NoEffect
                     /\ verdicts[i].reviewer = p
                     /\ AsksFor(e, verdicts[i])
    IN  links' = [i \in DOMAIN links |-> IF wanted(i) THEN e ELSE links[i]]

ConsumeReviewDispatch(p, e) ==
    /\ lifecycle # "closed"
    /\ effects[e] = Unconsumed
    /\ p # bundle.author
    /\ Family[p] # Family[bundle.author]
    /\ Reassign("reviewer_assignment", e, p)
    /\ effects' = [effects EXCEPT ![e] = p]
    /\ LinkEarlierVerdicts(p, e)
    /\ UNCHANGED <<proofVars, episode, lifecycle, admitted, blockers, custodian, run>>

(***************************************************************************)
(* Proof: each mutation resolves the policy pin of the current run.        *)
(***************************************************************************)
Freeze(p, c) ==
    /\ run # NoRun
    /\ FreezeCriteria(p, run.policy, c)
    /\ UNCHANGED <<workVars, runVars>>

Evidence(k) ==
    /\ run # NoRun
    /\ RecordEvidence(run.policy, k)
    /\ UNCHANGED <<workVars, runVars>>

\* The insert trigger links the verdict to a fitting effect: one row only, in no order.
Verdict(p, k, passing) ==
    /\ run # NoRun
    /\ RecordVerdict(p, run.policy, k, passing)
    /\ LET fitting == {e \in Effects : Fits(verdicts'[Len(verdicts')], e)}
       IN  \E link \in IF fitting = {} THEN {NoEffect} ELSE fitting :
              links' = Append(links, link)
    /\ UNCHANGED <<workVars, run, effects>>

NewCandidate(p, c) ==
    /\ run # NoRun
    /\ ChangeCandidate(p, run.policy, c)
    /\ UNCHANGED <<workVars, runVars>>

\* Mutant: an effect nobody has consumed does not hold the close.
ConsumedDispatchesComplete == \A e \in AwaitedReviews : effects[e] = Unconsumed

(***************************************************************************)
(* The close: the run stands at a stage without outgoing edge, the reviews *)
(* of this run are answered, and the proof is current.  Blockers are not   *)
(* asked for.                                                              *)
(***************************************************************************)
ReviewDispatchesComplete == AwaitedReviews = {}

ResolveClose ==
    /\ lifecycle # "closed"
    /\ run # NoRun
    /\ Terminal(run.stage)
    /\ ReviewDispatchesComplete
    /\ IsSatisfied(run.policy)
    /\ CloseEpisode
    /\ UNCHANGED <<proofVars, runVars>>

\* A new episode has no run yet; the effects and links of the old one stay.
ReopenTicket ==
    /\ Reopen
    /\ run' = NoRun
    /\ UNCHANGED <<proofVars, effects, links>>

WorkStep ==
    /\ \/ Admit \/ Defer
       \/ \E b \in Blockers : Block(b) \/ Unblock(b)
       \/ \E p \in Principals :
             \/ TransferCustody(p)
             \/ \E kind \in AssignmentKinds, scope \in {NoScope} \cup Emitted :
                   ChangeAssignment(kind, scope, p)
    /\ UNCHANGED <<proofVars, runVars>>

Next ==
    \/ WorkStep
    \/ \E policy \in Policies : StartWorkflow(policy)
    \/ \E edge \in Edges : Transition(edge)
    \/ \E p \in Principals, e \in Effects : ConsumeReviewDispatch(p, e)
    \/ \E p \in Authors, c \in Candidates : Freeze(p, c) \/ NewCandidate(p, c)
    \/ \E k \in Criteria : Evidence(k)
    \/ \E p \in Operators, k \in Criteria, passing \in BOOLEAN : Verdict(p, k, passing)
    \/ ResolveClose
    \/ ReopenTicket

Spec == Init /\ [][Next]_vars

-----------------------------------------------------------------------------

\* Every field of the ticket, its proof, its run and its reviews has its type.
TypeOK ==
    /\ ProofTypeOK
    /\ episode \in 1..MaxEpisodes
    /\ lifecycle \in {"open", "active", "waiting", "closed"}
    /\ admitted \in BOOLEAN
    /\ blockers \subseteq Blockers
    /\ custodian \in EligibleCustodians
    /\ run \in [stage : Stages, policy : Policies] \cup {NoRun}
    /\ effects \in [Effects -> Principals \cup {NotEmitted, Unconsumed}]
    /\ links \in Seq(Effects \cup {NoEffect})
    /\ Len(links) = Len(verdicts)

(***************************************************************************)
(* Whichever comes first, the consumption or the verdict, they find each   *)
(* other: a verdict is linked exactly when a consumed effect asks for it.  *)
(* And whoever consumed one is of another model family than the author.    *)
(***************************************************************************)
ReviewsAreLinked ==
    /\ \A i \in DOMAIN verdicts :
          IF links[i] = NoEffect THEN \A e \in Effects : ~Fits(verdicts[i], e)
          ELSE Fits(verdicts[i], links[i])
    /\ \A e \in Effects : effects[e] \in Principals =>
          Family[effects[e]] # Family[bundle.author]

(***************************************************************************)
(* The detailed ticket implements the proven one: what is proven is what   *)
(* the bundle satisfies of its frozen criteria, and what is awaited are    *)
(* the reviews the current run asked for and has not got answered.         *)
(***************************************************************************)
Frozen == IF bundle = NoBundle THEN {} ELSE bundle.criteria
ReviewsLeft == IF bundle = NoBundle THEN {} ELSE AwaitedReviews

Proven == INSTANCE ProvenTicket WITH
    Reviews     <- Effects,
    NoCandidate <- NoBundle,
    criteria    <- Frozen,
    candidate   <- IF bundle = NoBundle THEN NoBundle ELSE bundle.candidate,
    proven      <- {k \in Frozen : CriterionSatisfied(k)},
    awaited     <- ReviewsLeft,
    closed      <- lifecycle = "closed"

\* The ticket keeps the promises of ProvenTicket at every step.
ImplementsProvenTicket == Proven!Spec
=============================================================================
