---- MODULE ProofBundle ----
(***************************************************************************)
(* The proof of one ticket: the criteria frozen from the pinned policy,    *)
(* the candidate under proof, the evidence and the verdicts recorded, and  *)
(* which of them a change of candidate has invalidated.  Every mutation is *)
(* decided and stored under the lock of the ticket row, so each is one     *)
(* step; a refusal stores nothing here.                                    *)
(***************************************************************************)
EXTENDS Naturals, Sequences, FiniteSets

CONSTANTS
    Operators,      \* the principals whose kind is "operator"
    Authors,        \* the principals who may offer a candidate
    Candidates,
    Criteria,
    Dependent,      \* the criteria that are candidate_dependent
    Reviewed,       \* the criteria that require a verdict
    NoBundle,
    MaxEvidence,    \* bound: evidence rows of a behaviour
    MaxVerdicts     \* bound: verdict rows of a behaviour

VARIABLES
    bundle,         \* the frozen criteria, the author, the current candidate
    evidence,       \* a set of evidence rows
    verdicts        \* the verdict rows in proof_sequence order

proofVars == <<bundle, evidence, verdicts>>

Bundles == [criteria : SUBSET Criteria, author : Authors, candidate : Candidates]
EvidenceRows == [criterion : Criteria, candidate : Candidates, standing : BOOLEAN]
VerdictRows == [criterion : Criteria, candidate : Candidates, reviewer : Operators,
                passing : BOOLEAN, standing : BOOLEAN]

ProofInit ==
    /\ bundle = NoBundle
    /\ evidence = {}
    /\ verdicts = <<>>

(***************************************************************************)
(* A row counts for a criterion while it stands and, when the criterion    *)
(* depends on the candidate, while it is about the current one.            *)
(***************************************************************************)
Applies(row, k) ==
    /\ row.criterion = k
    /\ row.standing
    /\ k \in Dependent => row.candidate = bundle.candidate

\* The last verdict that applies to a criterion decides it.
LastVerdictPasses(k) ==
    \E i \in DOMAIN verdicts :
        /\ Applies(verdicts[i], k)
        /\ verdicts[i].passing
        /\ \A j \in DOMAIN verdicts : Applies(verdicts[j], k) => j <= i

CriterionSatisfied(k) ==
    /\ \E row \in evidence : Applies(row, k)
    /\ k \in Reviewed => LastVerdictPasses(k)

IsSatisfied(policy) ==
    /\ bundle # NoBundle
    /\ bundle.criteria = policy
    /\ \A k \in policy : CriterionSatisfied(k)

-----------------------------------------------------------------------------

\* The criteria frozen are those of the policy the run has pinned, never the caller's.
FreezeCriteria(p, policy, c) ==
    /\ bundle = NoBundle
    /\ policy # {}
    /\ p \in Authors
    /\ bundle' = [criteria |-> policy, author |-> p, candidate |-> c]
    /\ UNCHANGED <<evidence, verdicts>>

\* Every later mutation needs the frozen criteria to be those of the current pin.
UnderPolicy(policy) == bundle # NoBundle /\ bundle.criteria = policy

RecordEvidence(policy, k) ==
    /\ Cardinality(evidence) < MaxEvidence
    /\ UnderPolicy(policy)
    /\ k \in bundle.criteria
    /\ evidence' = evidence \cup
          {[criterion |-> k, candidate |-> bundle.candidate, standing |-> TRUE]}
    /\ UNCHANGED <<bundle, verdicts>>

(***************************************************************************)
(* Only an operator who is not the author decides, and only where evidence *)
(* about the current candidate has been recorded.  The evidence need not   *)
(* stand any more: the handler asks for a row, not for a valid one.        *)
(***************************************************************************)
RecordVerdict(p, policy, k, passing) ==
    /\ Len(verdicts) < MaxVerdicts
    /\ UnderPolicy(policy)
    /\ p # bundle.author
    /\ p \in Operators
    /\ \E row \in evidence : row.criterion = k /\ row.candidate = bundle.candidate
    /\ verdicts' = Append(verdicts,
          [criterion |-> k, candidate |-> bundle.candidate, reviewer |-> p,
           passing |-> passing, standing |-> TRUE])
    /\ UNCHANGED <<bundle, evidence>>

\* What a change of candidate does to a row recorded before it.
Invalidate(row) == [row EXCEPT !.standing = @ /\ row.criterion \notin Dependent]

ChangeCandidate(p, policy, c) ==
    /\ UnderPolicy(policy)
    /\ p = bundle.author
    /\ c # bundle.candidate
    /\ bundle' = [bundle EXCEPT !.candidate = c]
    /\ evidence' = {Invalidate(row) : row \in evidence}
    /\ verdicts' = [i \in DOMAIN verdicts |-> Invalidate(verdicts[i])]

ProofTypeOK ==
    /\ bundle \in Bundles \cup {NoBundle}
    /\ evidence \subseteq EvidenceRows
    /\ verdicts \in Seq(VerdictRows)
    /\ Len(verdicts) <= MaxVerdicts
=============================================================================
