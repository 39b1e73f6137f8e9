----------------------------- MODULE Work_proofs -----------------------------
(***************************************************************************)
(* Proofs about the Work component.  What the relations between tickets    *)
(* keep for any writers, tickets and relations; what the proof-gated life  *)
(* of a ticket keeps for any principals, graph, policies and candidates,   *)
(* and that it implements ProvenTicket.                                    *)
(***************************************************************************)
EXTENDS TicketClose, WorkRelations, FiniteSetTheorems, TLAPS

-----------------------------------------------------------------------------
(* The relations between tickets.                                          *)

\* The types hold in every reachable state.
THEOREM RelationTypes == RelationSpec => []RelationTypeOK
<1>1. RelationInit => RelationTypeOK
  BY TicketAssumption DEF RelationInit, RelationTypeOK
<1>2. RelationTypeOK /\ [RelationNext]_relationVars => RelationTypeOK'
  <2> SUFFICES ASSUME RelationTypeOK, [RelationNext]_relationVars PROVE RelationTypeOK'
    OBVIOUS
  <2>1. ASSUME NEW w \in Writers, NEW e \in Relations, Ask(w, e) PROVE RelationTypeOK'
    BY <2>1, TicketAssumption DEF RelationTypeOK, Ask, Goto
  <2>2. ASSUME NEW w \in Writers, NEW t \in Tickets, LockTicket(w, t) PROVE RelationTypeOK'
    BY <2>2 DEF RelationTypeOK, LockTicket
  <2>3. ASSUME NEW w \in Writers, CheckRelation(w) PROVE RelationTypeOK'
    BY <2>3 DEF RelationTypeOK, CheckRelation, Goto
  <2>4. ASSUME NEW w \in Writers, RefuseRelation(w) PROVE RelationTypeOK'
    BY <2>4 DEF RelationTypeOK, RefuseRelation, Goto, Unlock
  <2>5. ASSUME NEW w \in Writers, CommitRelation(w) PROVE RelationTypeOK'
    <3>1. Source(w) \in Tickets
      BY TicketAssumption DEF RelationTypeOK, Source
    <3> QED BY <2>5, <3>1 DEF RelationTypeOK, CommitRelation, Goto, Unlock
  <2>6. ASSUME NEW w \in Writers, RollBack(w) PROVE RelationTypeOK'
    BY <2>6 DEF RelationTypeOK, RollBack, Goto, Unlock
  <2>7. CASE UNCHANGED relationVars
    BY <2>7 DEF RelationTypeOK, relationVars
  <2> QED BY <2>1, <2>2, <2>3, <2>4, <2>5, <2>6, <2>7 DEF RelationNext, WriterStep
<1> QED BY <1>1, <1>2, PTL DEF RelationSpec

\* What passes the cycle check closes no cycle through one, two or three tickets.
LEMMA CheckedIsLegal ==
  ASSUME RelationTypeOK, NEW w \in Writers, ~Reaches(Target(w), Source(w))
  PROVE  /\ Source(w) # Target(w)
         /\ <<Target(w), Source(w)>> \notin edges
         /\ \A e, f \in edges : ~(e[1] = Target(w) /\ e[2] = f[1] /\ f[2] = Source(w))
<1>1. PICK S \in SUBSET Tickets :
         /\ Target(w) \in S /\ Source(w) \notin S
         /\ \A e \in edges : e[1] \in S => e[2] \in S
  BY DEF Reaches
<1>2. Source(w) # Target(w)
  BY <1>1
<1>3. <<Target(w), Source(w)>> \notin edges
  BY <1>1
<1>4. \A e, f \in edges : ~(e[1] = Target(w) /\ e[2] = f[1] /\ f[2] = Source(w))
  BY <1>1
<1> QED BY <1>2, <1>3, <1>4

\* Two writers that hold their tickets have no ticket in common.
LEMMA HoldersAreApart ==
  ASSUME NEW v \in Writers, NEW w \in Writers, v # w,
         \A t \in Ends(v) : holder[t] = v, \A t \in Ends(w) : holder[t] = w
  PROVE  Ends(v) \cap Ends(w) = {}
OBVIOUS

\* Ending another writer's transaction leaves what waits for its commit alone.
LEMMA UnlockKeepsOthers ==
  ASSUME RelationTypeOK, PendingStaysLegal, NEW w \in Writers, Unlock(w),
         pc' = [pc EXCEPT ![w] = "idle"] \/ pc' = [pc EXCEPT ![w] = "lock"],
         UNCHANGED <<edges, version, asked, expected>>
  PROVE  PendingStaysLegal'
<1>1. \A v \in Writers : pc'[v] = "insert" => v # w /\ pc[v] = "insert"
  BY DEF RelationTypeOK
<1>2. \A v \in Writers : Ends(v) \subseteq Tickets
  BY TicketAssumption DEF RelationTypeOK, Ends, Source, Target
<1>3. \A v \in Writers : v # w => \A t \in Tickets : holder[t] = v => holder'[t] = v
  BY DEF Unlock
<1>4. \A v \in Writers : /\ Ends(v)' = Ends(v) /\ Source(v)' = Source(v)
                          /\ Target(v)' = Target(v)
  BY DEF Ends, Source, Target
<1> QED BY <1>1, <1>2, <1>3, <1>4 DEF PendingStaysLegal

\* Concurrent writers never close a cycle of up to three tickets, and what they
\* are about to commit stays as legal as it was when they checked it.
THEOREM RelationsStayLegal == RelationSpec => [](NoShortCycle /\ PendingStaysLegal)
<1>1. RelationInit => NoShortCycle /\ PendingStaysLegal
  BY DEF RelationInit, NoShortCycle, PendingStaysLegal
<1>2. RelationTypeOK /\ RelationTypeOK' /\ NoShortCycle /\ PendingStaysLegal /\ [RelationNext]_relationVars
        => (NoShortCycle /\ PendingStaysLegal)'
  <2> SUFFICES ASSUME RelationTypeOK, RelationTypeOK', NoShortCycle, PendingStaysLegal, [RelationNext]_relationVars
               PROVE  NoShortCycle' /\ PendingStaysLegal'
    OBVIOUS
  <2>1. ASSUME NEW w \in Writers, NEW e \in Relations, Ask(w, e)
        PROVE NoShortCycle' /\ PendingStaysLegal'
    <3>1. NoShortCycle'
      BY <2>1 DEF Ask, NoShortCycle
    <3>2. PendingStaysLegal'
      BY <2>1 DEF Ask, Goto, RelationTypeOK, PendingStaysLegal, Ends, Source, Target
    <3> QED BY <3>1, <3>2
  <2>2. ASSUME NEW w \in Writers, NEW t \in Tickets, LockTicket(w, t)
        PROVE NoShortCycle' /\ PendingStaysLegal'
    <3>1. NoShortCycle'
      BY <2>2 DEF LockTicket, NoShortCycle
    <3>2. ASSUME NEW v \in Writers, pc[v] = "insert", NEW u \in Ends(v) PROVE u # t
      <4>1. holder[u] = v
        BY <3>2 DEF PendingStaysLegal
      <4>2. holder[t] # v
        BY <2>2, <3>2, TicketAssumption DEF LockTicket
      <4> QED BY <4>1, <4>2
    <3>3. PendingStaysLegal'
      BY <2>2, <3>2, TicketAssumption
         DEF LockTicket, RelationTypeOK, PendingStaysLegal, Ends, Source, Target
    <3> QED BY <3>1, <3>3
  <2>3. ASSUME NEW w \in Writers, CheckRelation(w)
        PROVE NoShortCycle' /\ PendingStaysLegal'
    <3>1. NoShortCycle'
      BY <2>3 DEF CheckRelation, NoShortCycle
    <3>2. /\ Source(w) # Target(w) /\ <<Target(w), Source(w)>> \notin edges
          /\ \A e, f \in edges : ~(e[1] = Target(w) /\ e[2] = f[1] /\ f[2] = Source(w))
      BY <2>3, CheckedIsLegal DEF CheckRelation, Refusable
    <3>3. expected[w] = version[Source(w)] /\ asked[w] \notin edges
      BY <2>3 DEF CheckRelation, Refusable
    <3>4. PendingStaysLegal'
      BY <2>3, <3>2, <3>3
         DEF CheckRelation, Goto, RelationTypeOK, PendingStaysLegal, Ends, Source, Target
    <3> QED BY <3>1, <3>4
  <2>4. ASSUME NEW w \in Writers, RefuseRelation(w)
        PROVE NoShortCycle' /\ PendingStaysLegal'
    <3>1. NoShortCycle'
      BY <2>4 DEF RefuseRelation, NoShortCycle
    <3>2. PendingStaysLegal'
      BY <2>4, UnlockKeepsOthers DEF RefuseRelation, Goto
    <3> QED BY <3>1, <3>2
  <2>5. ASSUME NEW w \in Writers, CommitRelation(w)
        PROVE NoShortCycle' /\ PendingStaysLegal'
    <3> DEFINE new == asked[w]
    <3>1. new = <<Source(w), Target(w)>> /\ edges' = edges \cup {new}
      BY <2>5, TicketAssumption DEF CommitRelation, RelationTypeOK, Source, Target
    <3>2. /\ Source(w) # Target(w) /\ <<Target(w), Source(w)>> \notin edges
          /\ \A e, f \in edges : ~(e[1] = Target(w) /\ e[2] = f[1] /\ f[2] = Source(w))
      BY <2>5 DEF CommitRelation, PendingStaysLegal
    <3>3. NoShortCycle'
      <4>1. \A e \in edges' : e[1] # e[2]
        BY <3>1, <3>2 DEF NoShortCycle
      <4>2. \A e, f \in edges' : e[2] = f[1] => f[2] # e[1]
        <5> SUFFICES ASSUME NEW e \in edges', NEW f \in edges', e[2] = f[1], f[2] = e[1]
                     PROVE FALSE
          OBVIOUS
        <5>1. \A x \in edges : x = <<x[1], x[2]>>
          BY TicketAssumption DEF RelationTypeOK
        <5> QED BY <3>1, <3>2, <5>1 DEF NoShortCycle
      <4>3. \A e, f, g \in edges' : e[2] = f[1] /\ f[2] = g[1] => g[2] # e[1]
        <5> SUFFICES ASSUME NEW e \in edges', NEW f \in edges', NEW g \in edges',
                            e[2] = f[1], f[2] = g[1], g[2] = e[1]
                     PROVE FALSE
          OBVIOUS
        <5>1. CASE e \in edges /\ f \in edges /\ g \in edges
          BY <5>1 DEF NoShortCycle
        <5>2. CASE e = new /\ f \in edges /\ g \in edges
          BY <5>2, <3>1, <3>2
        <5>3. CASE e \in edges /\ f = new /\ g \in edges
          BY <5>3, <3>1, <3>2
        <5>4. CASE e \in edges /\ f \in edges /\ g = new
          BY <5>4, <3>1, <3>2
        <5>5. CASE (e = new /\ f = new) \/ (f = new /\ g = new) \/ (g = new /\ e = new)
          BY <5>5, <3>1, <3>2
        <5> QED BY <3>1, <5>1, <5>2, <5>3, <5>4, <5>5
      <4> QED BY <4>1, <4>2, <4>3 DEF NoShortCycle
    <3>4. PendingStaysLegal'
      <4> SUFFICES ASSUME NEW v \in Writers, pc'[v] = "insert"
                   PROVE /\ \A t \in Ends(v)' : holder'[t] = v
                         /\ expected'[v] = version'[Source(v)']
                         /\ asked'[v] \notin edges' /\ Source(v)' # Target(v)'
                         /\ <<Target(v)', Source(v)'>> \notin edges'
                         /\ \A e, f \in edges' :
                              ~(e[1] = Target(v)' /\ e[2] = f[1] /\ f[2] = Source(v)')
        BY DEF PendingStaysLegal
      <4>1. v # w /\ pc[v] = "insert"
        BY <2>5 DEF CommitRelation, Goto, RelationTypeOK
      <4>2. Ends(v)' = Ends(v) /\ Source(v)' = Source(v) /\ Target(v)' = Target(v)
            /\ asked'[v] = asked[v] /\ expected'[v] = expected[v]
        BY <2>5 DEF CommitRelation, Ends, Source, Target
      <4>3. Ends(v) \cap Ends(w) = {}
        BY <2>5, <4>1, HoldersAreApart DEF CommitRelation, PendingStaysLegal
      <4>4. Source(v) # Source(w) /\ Source(v) # Target(w)
            /\ Target(v) # Source(w) /\ Target(v) # Target(w)
        BY <4>3 DEF Ends
      <4>5. Source(v) \in Tickets /\ Target(v) \in Tickets /\ Source(w) \in Tickets
            /\ asked[v] = <<Source(v), Target(v)>>
        BY TicketAssumption DEF RelationTypeOK, Source, Target
      <4>6. /\ \A t \in Ends(v) : holder[t] = v
            /\ expected[v] = version[Source(v)]
            /\ asked[v] \notin edges /\ Source(v) # Target(v)
            /\ <<Target(v), Source(v)>> \notin edges
            /\ \A e, f \in edges : ~(e[1] = Target(v) /\ e[2] = f[1] /\ f[2] = Source(v))
        BY <4>1 DEF PendingStaysLegal
      <4>7. \A t \in Ends(v)' : holder'[t] = v
        BY <2>5, <4>1, <4>2, <4>5, <4>6 DEF CommitRelation, Unlock, Ends
      <4>8. expected'[v] = version'[Source(v)']
        BY <2>5, <4>2, <4>4, <4>5, <4>6 DEF CommitRelation, RelationTypeOK
      <4>9. asked'[v] \notin edges' /\ Source(v)' # Target(v)'
            /\ <<Target(v)', Source(v)'>> \notin edges'
        BY <3>1, <4>2, <4>4, <4>5, <4>6
      <4>10. \A e, f \in edges' :
               ~(e[1] = Target(v)' /\ e[2] = f[1] /\ f[2] = Source(v)')
        BY <3>1, <4>2, <4>4, <4>6
      <4> QED BY <4>7, <4>8, <4>9, <4>10
    <3> QED BY <3>3, <3>4
  <2>6. ASSUME NEW w \in Writers, RollBack(w)
        PROVE NoShortCycle' /\ PendingStaysLegal'
    <3>1. NoShortCycle'
      BY <2>6 DEF RollBack, NoShortCycle
    <3>2. PendingStaysLegal'
      BY <2>6, UnlockKeepsOthers DEF RollBack, Goto
    <3> QED BY <3>1, <3>2
  <2>7. CASE UNCHANGED relationVars
    BY <2>7 DEF relationVars, NoShortCycle, PendingStaysLegal, Ends, Source, Target
  <2> QED BY <2>1, <2>2, <2>3, <2>4, <2>5, <2>6, <2>7 DEF RelationNext, WriterStep
<1> QED BY <1>1, <1>2, RelationTypes, PTL DEF RelationSpec

-----------------------------------------------------------------------------
(* The life of a ticket.                                                   *)

USE GraphIsDeclared, RolesAreDeclared, NullsAreDistinct, BoundsAreNaturals
USE DEF proofVars, workVars, runVars

\* What a step that leaves proof, run and reviews alone may do to the rest.
LEMMA WorkKeepsCustody ==
  ASSUME CustodyFollowsEpisode, WorkStep
  PROVE  CustodyFollowsEpisode'
<1>1. CASE Admit \/ Defer \/ \E b \in Blockers : Block(b) \/ Unblock(b)
  BY <1>1 DEF Admit, Defer, Block, Unblock, CustodyFollowsEpisode, Interval
<1>2. ASSUME NEW p \in Principals, TransferCustody(p)
      PROVE  CustodyFollowsEpisode'
  BY <1>2 DEF TransferCustody, CustodyFollowsEpisode, CustodyOf, Interval
<1>3. ASSUME NEW p \in Principals, NEW kind \in AssignmentKinds,
             NEW scope \in {NoScope} \cup Emitted, ChangeAssignment(kind, scope, p)
      PROVE  CustodyFollowsEpisode'
  BY <1>3 DEF ChangeAssignment, Reassign, CurrentOf, CustodyFollowsEpisode, Interval, Allowed
<1> QED BY <1>1, <1>2, <1>3 DEF WorkStep

\* INV-09 for every ticket: exactly one custody interval while the episode is open,
\* none once it is closed, and no assignment outlives its episode.
THEOREM CustodyStays == Spec => []CustodyFollowsEpisode
<1>1. Init => CustodyFollowsEpisode
  BY DEF Init, WorkInit, CustodyFollowsEpisode, Interval
<1>2. CustodyFollowsEpisode /\ [Next]_vars => CustodyFollowsEpisode'
  <2> SUFFICES ASSUME CustodyFollowsEpisode, [Next]_vars PROVE CustodyFollowsEpisode'
    OBVIOUS
  <2>1. CASE WorkStep
    BY <2>1, WorkKeepsCustody
  <2>2. ASSUME NEW p \in Principals, NEW e \in Effects, ConsumeReviewDispatch(p, e)
        PROVE  CustodyFollowsEpisode'
    BY <2>2 DEF ConsumeReviewDispatch, Reassign, CurrentOf, CustodyFollowsEpisode, Interval
  <2>3. CASE ResolveClose
    BY <2>3 DEF ResolveClose, CloseEpisode, CustodyFollowsEpisode
  <2>4. CASE ReopenTicket
    BY <2>4 DEF ReopenTicket, Reopen, CustodyFollowsEpisode, Interval
  <2>5. CASE UNCHANGED workVars
    BY <2>5 DEF CustodyFollowsEpisode, Interval
  <2> QED
    BY <2>1, <2>2, <2>3, <2>4, <2>5
    DEF Next, vars, StartWorkflow, Transition, Freeze, NewCandidate, Evidence, Verdict
<1> QED BY <1>1, <1>2, PTL DEF Spec

-----------------------------------------------------------------------------

\* A change of candidate rewrites the standing of the rows and nothing else.
LEMMA InvalidateKeepsType ==
  ASSUME TypeOK, bundle \in Bundles
  PROVE  /\ \A row \in EvidenceRows : Invalidate(row) \in EvidenceRows
         /\ [i \in DOMAIN verdicts |-> Invalidate(verdicts[i])] \in Seq(VerdictRows)
         /\ Len([i \in DOMAIN verdicts |-> Invalidate(verdicts[i])]) = Len(verdicts)
<1>1. \A row \in EvidenceRows : Invalidate(row) \in EvidenceRows
  BY DEF Invalidate, EvidenceRows
<1>2. \A row \in VerdictRows : Invalidate(row) \in VerdictRows
  BY DEF Invalidate, VerdictRows
<1>3. verdicts \in Seq(VerdictRows)
  BY DEF TypeOK, ProofTypeOK
<1> QED BY <1>1, <1>2, <1>3

\* The proof actions keep the types of bundle, evidence, verdicts and links.
LEMMA ProofKeepsType ==
  ASSUME TypeOK, [Next]_vars, UNCHANGED workVars, UNCHANGED <<run, effects>>,
         \/ \E p \in Authors, c \in Candidates : Freeze(p, c) \/ NewCandidate(p, c)
         \/ \E k \in Criteria : Evidence(k)
         \/ \E p \in Operators, k \in Criteria, passing \in BOOLEAN : Verdict(p, k, passing)
  PROVE  TypeOK'
<1>1. ASSUME NEW p \in Authors, NEW c \in Candidates, Freeze(p, c)
      PROVE  TypeOK'
  BY <1>1 DEF Freeze, FreezeCriteria, TypeOK, ProofTypeOK, Bundles
<1>2. ASSUME NEW p \in Authors, NEW c \in Candidates, NewCandidate(p, c)
      PROVE  TypeOK'
  <2>1. bundle \in Bundles /\ bundle' \in Bundles
    BY <1>2 DEF NewCandidate, ChangeCandidate, UnderPolicy, TypeOK, ProofTypeOK, Bundles
  <2>2. evidence' \subseteq EvidenceRows /\ verdicts' \in Seq(VerdictRows)
        /\ Len(verdicts') = Len(verdicts) /\ links' = links
    BY <1>2, <2>1, InvalidateKeepsType DEF NewCandidate, ChangeCandidate, TypeOK, ProofTypeOK
  <2> QED BY <2>1, <2>2 DEF TypeOK, ProofTypeOK
<1>3. ASSUME NEW k \in Criteria, Evidence(k)
      PROVE  TypeOK'
  <2>1. bundle \in Bundles
    BY <1>3 DEF Evidence, RecordEvidence, UnderPolicy, TypeOK, ProofTypeOK
  <2>2. evidence' \subseteq EvidenceRows
    <3>1. bundle.candidate \in Candidates
      BY <2>1 DEF Bundles
    <3>2. [criterion |-> k, candidate |-> bundle.candidate, standing |-> TRUE] \in EvidenceRows
      BY <3>1 DEF EvidenceRows
    <3> QED BY <1>3, <3>2 DEF Evidence, RecordEvidence, TypeOK, ProofTypeOK
  <2> QED BY <1>3, <2>2 DEF Evidence, RecordEvidence, TypeOK, ProofTypeOK
<1>4. ASSUME NEW p \in Operators, NEW k \in Criteria, NEW passing \in BOOLEAN,
             Verdict(p, k, passing)
      PROVE  TypeOK'
  <2>1. bundle \in Bundles
    BY <1>4 DEF Verdict, RecordVerdict, UnderPolicy, TypeOK, ProofTypeOK
  <2>2. PICK link \in Effects \cup {NoEffect} : links' = Append(links, link)
    BY <1>4 DEF Verdict
  <2>3. verdicts' \in Seq(VerdictRows) /\ Len(verdicts') = Len(verdicts) + 1
        /\ Len(verdicts) < MaxVerdicts
    BY <1>4, <2>1 DEF Verdict, RecordVerdict, TypeOK, ProofTypeOK, Bundles, VerdictRows
  <2>4. links' \in Seq(Effects \cup {NoEffect}) /\ Len(links') = Len(links) + 1
    BY <2>2 DEF TypeOK
  <2> QED BY <1>4, <2>3, <2>4 DEF Verdict, RecordVerdict, TypeOK, ProofTypeOK
<1> QED BY <1>1, <1>2, <1>3, <1>4

\* A ticket starts with every field of its type.
LEMMA InitTyped == Init => TypeOK
<1> SUFFICES ASSUME Init PROVE TypeOK
  OBVIOUS
<1>1. ProofTypeOK /\ links \in Seq(Effects \cup {NoEffect}) /\ Len(links) = Len(verdicts)
  BY DEF Init, ProofInit, ProofTypeOK
<1>2. custodian \in EligibleCustodians
  BY DEF Init, WorkInit, EligibleTargets, EligibleCustodians
<1>3. effects \in [Effects -> Principals \cup {NotEmitted, Unconsumed}]
  BY DEF Init
<1>4. episode \in 1..MaxEpisodes
  BY DEF Init, WorkInit
<1>5. admitted \in BOOLEAN /\ blockers \subseteq Blockers
  BY DEF Init, WorkInit
<1> QED BY <1>1, <1>2, <1>3, <1>4, <1>5 DEF Init, WorkInit, TypeOK

\* Every field of the ticket keeps its type, whatever the principals and the graph.
THEOREM TypeCorrect == Spec => []TypeOK
<1>1. Init => TypeOK
  BY InitTyped
<1>2. TypeOK /\ [Next]_vars => TypeOK'
  <2> SUFFICES ASSUME TypeOK, [Next]_vars PROVE TypeOK'
    OBVIOUS
  <2>1. CASE WorkStep
    <3>1. CASE Admit \/ Defer
      BY <2>1, <3>1 DEF WorkStep, Admit, Defer, TypeOK, ProofTypeOK
    <3>2. ASSUME NEW b \in Blockers, Block(b) \/ Unblock(b)
          PROVE  TypeOK'
      BY <2>1, <3>2 DEF WorkStep, Block, Unblock, TypeOK, ProofTypeOK
    <3>3. ASSUME NEW p \in Principals, TransferCustody(p)
          PROVE  TypeOK'
      <4>1. p \in EligibleCustodians
        BY <3>3 DEF TransferCustody, EligibleTargets, EligibleCustodians
      <4> QED BY <2>1, <3>3, <4>1 DEF WorkStep, TransferCustody, TypeOK, ProofTypeOK
    <3>4. ASSUME NEW p \in Principals, NEW kind \in AssignmentKinds,
                 NEW scope \in {NoScope} \cup Emitted, ChangeAssignment(kind, scope, p)
          PROVE  TypeOK'
      BY <2>1, <3>4 DEF WorkStep, ChangeAssignment, TypeOK, ProofTypeOK
    <3> QED BY <2>1, <3>1, <3>2, <3>3, <3>4 DEF WorkStep
  <2>2. ASSUME NEW policy \in Policies, StartWorkflow(policy)
        PROVE  TypeOK'
    BY <2>2 DEF StartWorkflow, TypeOK, ProofTypeOK
  <2>3. ASSUME NEW edge \in Edges, Transition(edge)
        PROVE  TypeOK'
    <3>1. run' \in [stage : Stages, policy : Policies]
      BY <2>3 DEF Transition, TypeOK
    <3>2. effects' \in [Effects -> Principals \cup {NotEmitted, Unconsumed}]
      BY <2>3 DEF Transition, EmitReviewDispatch, TypeOK
    <3> QED BY <2>3, <3>1, <3>2 DEF Transition, TypeOK, ProofTypeOK
  <2>4. ASSUME NEW p \in Principals, NEW e \in Effects, ConsumeReviewDispatch(p, e)
        PROVE  TypeOK'
    <3>1. effects' \in [Effects -> Principals \cup {NotEmitted, Unconsumed}]
      BY <2>4 DEF ConsumeReviewDispatch, TypeOK
    <3>2. links' \in Seq(Effects \cup {NoEffect}) /\ Len(links') = Len(links)
      BY <2>4 DEF ConsumeReviewDispatch, LinkEarlierVerdicts, TypeOK
    <3> QED BY <2>4, <3>1, <3>2 DEF ConsumeReviewDispatch, Reassign, TypeOK, ProofTypeOK
  <2>5. CASE \/ \E p \in Authors, c \in Candidates : Freeze(p, c) \/ NewCandidate(p, c)
             \/ \E k \in Criteria : Evidence(k)
             \/ \E p \in Operators, k \in Criteria, passing \in BOOLEAN :
                   Verdict(p, k, passing)
    <3>1. UNCHANGED workVars /\ UNCHANGED <<run, effects>>
      BY <2>5 DEF Freeze, NewCandidate, Evidence, Verdict
    <3> QED BY <2>5, <3>1, ProofKeepsType
  <2>6. CASE ResolveClose
    BY <2>6 DEF ResolveClose, CloseEpisode, TypeOK, ProofTypeOK
  <2>7. CASE ReopenTicket
    <3>1. episode' \in 1..MaxEpisodes
      BY <2>7 DEF ReopenTicket, Reopen, TypeOK
    <3>2. admitted' \in BOOLEAN /\ custodian' \in EligibleCustodians
      BY <2>7 DEF ReopenTicket, Reopen, TypeOK
    <3>3. ProofTypeOK'
      BY <2>7 DEF ReopenTicket, TypeOK, ProofTypeOK
    <3> QED BY <2>7, <3>1, <3>2, <3>3 DEF ReopenTicket, Reopen, TypeOK
  <2>8. CASE UNCHANGED vars
    BY <2>8 DEF vars, TypeOK, ProofTypeOK
  <2> QED BY <2>1, <2>2, <2>3, <2>4, <2>5, <2>6, <2>7, <2>8 DEF Next
<1> QED BY <1>1, <1>2, PTL DEF Spec

-----------------------------------------------------------------------------

(***************************************************************************)
(* What links rest on: nothing is recorded and no review is asked for      *)
(* before the criteria are frozen, and an effect that was consumed stays   *)
(* with its reviewer.                                                      *)
(***************************************************************************)
BeforeFreeze ==
  bundle = NoBundle =>
    evidence = {} /\ verdicts = <<>> /\ \A e \in Effects : effects[e] = NotEmitted

LinkInv == TypeOK /\ BeforeFreeze /\ ReviewsAreLinked

\* Who gave a verdict is a principal, and its link is an effect or none.
LEMMA VerdictsTyped ==
  ASSUME TypeOK, NEW i \in DOMAIN verdicts
  PROVE  /\ verdicts[i].reviewer \in Principals
         /\ i \in DOMAIN links /\ links[i] \in Effects \cup {NoEffect}
<1>1. verdicts[i] \in VerdictRows
  BY DEF TypeOK, ProofTypeOK
<1>2. i \in DOMAIN links
  BY DEF TypeOK, ProofTypeOK
<1>3. links[i] \in Effects \cup {NoEffect}
  BY <1>2 DEF TypeOK
<1> QED BY <1>1, <1>2, <1>3 DEF VerdictRows

\* Steps that leave bundle, verdicts and links alone and consume nothing.
LEMMA SameLinks ==
  ASSUME LinkInv, UNCHANGED <<bundle, verdicts, links>>,
         \A e \in Effects : effects'[e] # effects[e] =>
            effects[e] = NotEmitted /\ effects'[e] = Unconsumed
  PROVE  ReviewsAreLinked'
<1>1. \A i \in DOMAIN verdicts : verdicts[i].reviewer \in Principals
  BY VerdictsTyped DEF LinkInv
<1>2. \A i \in DOMAIN verdicts, e \in Effects : Fits(verdicts[i], e)' <=> Fits(verdicts[i], e)
  BY <1>1 DEF Fits, AsksFor, Lenses
<1>3. \A i \in DOMAIN verdicts : links[i] \in Effects \cup {NoEffect}
  BY VerdictsTyped DEF LinkInv
<1> QED BY <1>2, <1>3 DEF LinkInv, ReviewsAreLinked

\* The consumption finds every earlier verdict that answers it.
LEMMA ConsumptionLinks ==
  ASSUME LinkInv, NEW p \in Principals, NEW e \in Effects, ConsumeReviewDispatch(p, e)
  PROVE  ReviewsAreLinked'
<1>1. \A i \in DOMAIN verdicts : verdicts[i].reviewer \in Principals
  BY VerdictsTyped DEF LinkInv
<1>2. /\ effects \in [Effects -> Principals \cup {NotEmitted, Unconsumed}]
      /\ DOMAIN links = DOMAIN verdicts
      /\ \A i \in DOMAIN verdicts : links[i] \in Effects \cup {NoEffect}
  BY VerdictsTyped DEF LinkInv, TypeOK, ProofTypeOK
<1>3. /\ effects[e] = Unconsumed
      /\ effects' = [effects EXCEPT ![e] = p]
      /\ UNCHANGED <<bundle, verdicts>>
      /\ Family[p] # Family[bundle.author]
  BY DEF ConsumeReviewDispatch
<1>4. \A i \in DOMAIN verdicts, x \in Effects \ {e} :
         Fits(verdicts[i], x)' <=> Fits(verdicts[i], x)
  BY <1>2, <1>3 DEF Fits, AsksFor, Lenses
<1>5. \A i \in DOMAIN verdicts :
         /\ Fits(verdicts[i], e)' <=> verdicts[i].reviewer = p /\ AsksFor(e, verdicts[i])
         /\ ~Fits(verdicts[i], e)
  BY <1>1, <1>2, <1>3 DEF Fits, AsksFor, Lenses
<1>6. links' = [i \in DOMAIN verdicts |->
         IF links[i] = NoEffect /\ Fits(verdicts[i], e)' THEN e ELSE links[i]]
  BY <1>2, <1>5 DEF ConsumeReviewDispatch, LinkEarlierVerdicts
<1>7. ASSUME NEW i \in DOMAIN verdicts
      PROVE  IF links'[i] = NoEffect THEN \A x \in Effects : ~Fits(verdicts[i], x)'
             ELSE \E x \in Effects : links'[i] = x /\ Fits(verdicts[i], x)'
  <2>1. CASE links[i] = NoEffect
    <3>1. \A x \in Effects : ~Fits(verdicts[i], x)
      BY <2>1 DEF LinkInv, ReviewsAreLinked
    <3>2. links'[i] = IF Fits(verdicts[i], e)' THEN e ELSE NoEffect
      BY <1>6, <2>1
    <3> QED BY <1>4, <3>1, <3>2
  <2>2. CASE links[i] # NoEffect
    <3>1. links[i] \in Effects /\ Fits(verdicts[i], links[i])
      BY <1>2, <2>2 DEF LinkInv, ReviewsAreLinked
    <3>2. links[i] # e /\ links'[i] = links[i]
      BY <1>5, <1>6, <2>2, <3>1
    <3> QED BY <1>4, <2>2, <3>1, <3>2
  <2> QED BY <2>1, <2>2
<1>8. \A x \in Effects : effects'[x] \in Principals => Family[effects'[x]] # Family[bundle.author]
  BY <1>2, <1>3 DEF LinkInv, ReviewsAreLinked
<1>9. \A i \in DOMAIN verdicts' :
         IF links'[i] = NoEffect THEN \A x \in Effects : ~Fits(verdicts[i], x)'
         ELSE \E x \in Effects : links'[i] = x /\ Fits(verdicts[i], x)'
  BY <1>3, <1>7
<1> QED BY <1>3, <1>8, <1>9 DEF ReviewsAreLinked, Fits, AsksFor, Lenses

\* The insert of a verdict finds the consumed effects it answers.
LEMMA VerdictLinks ==
  ASSUME LinkInv, NEW p \in Operators, NEW k \in Criteria, NEW passing \in BOOLEAN,
         Verdict(p, k, passing)
  PROVE  ReviewsAreLinked'
<1> DEFINE n == Len(verdicts)
           given == [criterion |-> k, candidate |-> bundle.candidate, reviewer |-> p,
                     passing |-> passing, standing |-> TRUE]
<1>1. /\ n \in Nat /\ DOMAIN verdicts = 1..n /\ DOMAIN links = 1..n
      /\ verdicts' = Append(verdicts, given)
      /\ UNCHANGED <<bundle, effects>>
  BY DEF LinkInv, TypeOK, ProofTypeOK, Verdict, RecordVerdict
<1>2. /\ DOMAIN verdicts' = 1..(n + 1) /\ Len(verdicts') = n + 1
      /\ verdicts'[n + 1] = given
      /\ \A i \in 1..n : verdicts'[i] = verdicts[i]
  BY <1>1 DEF LinkInv, TypeOK, ProofTypeOK
<1>3. PICK link : /\ links' = Append(links, link)
                  /\ link \in IF {e \in Effects : Fits(given, e)} = {} THEN {NoEffect}
                              ELSE {e \in Effects : Fits(given, e)}
  <2>1. verdicts'[Len(verdicts')] = given
    BY <1>2
  <2>2. {e \in Effects : Fits(verdicts'[Len(verdicts')], e)} = {e \in Effects : Fits(given, e)}
    BY <2>1, Zenon
  <2>3. PICK link \in IF {e \in Effects : Fits(verdicts'[Len(verdicts')], e)} = {} THEN {NoEffect}
                      ELSE {e \in Effects : Fits(verdicts'[Len(verdicts')], e)} :
           links' = Append(links, link)
    BY Zenon DEF Verdict
  <2> QED BY <2>2, <2>3, Zenon
<1>4. links'[n + 1] = link /\ \A i \in 1..n : links'[i] = links[i]
  BY <1>1, <1>3 DEF LinkInv, TypeOK
<1>5. \A i \in 1..n :
         IF links'[i] = NoEffect THEN \A e \in Effects : ~Fits(verdicts'[i], e)
         ELSE Fits(verdicts'[i], links'[i])
  BY <1>1, <1>2, <1>4 DEF LinkInv, ReviewsAreLinked
<1>6. IF links'[n + 1] = NoEffect THEN \A e \in Effects : ~Fits(verdicts'[n + 1], e)
      ELSE Fits(verdicts'[n + 1], links'[n + 1])
  BY <1>2, <1>3, <1>4
<1>7. \A i \in DOMAIN verdicts' :
         IF links'[i] = NoEffect THEN \A e \in Effects : ~Fits(verdicts'[i], e)
         ELSE Fits(verdicts'[i], links'[i])
  <2> SUFFICES ASSUME NEW i \in 1..(n + 1)
               PROVE  IF links'[i] = NoEffect THEN \A e \in Effects : ~Fits(verdicts'[i], e)
                      ELSE Fits(verdicts'[i], links'[i])
    BY <1>2, Zenon
  <2>1. i \in 1..n \/ i = n + 1
    BY <1>1
  <2> HIDE DEF n
  <2> QED BY <2>1, <1>5, <1>6, Zenon
<1>8. \A e \in Effects : effects[e] \in Principals => Family[effects[e]] # Family[bundle.author]
  BY DEF LinkInv, ReviewsAreLinked
<1> QED BY <1>1, <1>7, <1>8 DEF ReviewsAreLinked, Fits, AsksFor, Lenses

\* A change of candidate leaves author, criteria and what was decided alone.
LEMMA NewCandidateLinks ==
  ASSUME LinkInv, NEW p \in Authors, NEW c \in Candidates, NewCandidate(p, c)
  PROVE  ReviewsAreLinked'
<1>1. /\ bundle \in Bundles
      /\ bundle'.author = bundle.author /\ bundle'.criteria = bundle.criteria
      /\ UNCHANGED <<effects, links>>
      /\ verdicts' = [i \in DOMAIN verdicts |-> Invalidate(verdicts[i])]
  BY DEF LinkInv, TypeOK, ProofTypeOK, Bundles, NewCandidate, ChangeCandidate, UnderPolicy, runVars
<1>2. \A i \in DOMAIN verdicts : verdicts[i] \in VerdictRows
  BY DEF LinkInv, TypeOK, ProofTypeOK
<1>3. /\ DOMAIN verdicts' = DOMAIN verdicts
      /\ \A i \in DOMAIN verdicts : /\ verdicts'[i].reviewer = verdicts[i].reviewer
                                   /\ verdicts'[i].candidate = verdicts[i].candidate
                                   /\ verdicts'[i].criterion = verdicts[i].criterion
  BY <1>1, <1>2 DEF Invalidate, VerdictRows
<1> QED BY <1>1, <1>3 DEF LinkInv, ReviewsAreLinked, Fits, AsksFor, Lenses

\* A bundle once frozen stays frozen, and what is recorded was recorded after it.
LEMMA NothingBeforeFreeze ==
  ASSUME TypeOK, BeforeFreeze, [Next]_vars
  PROVE  BeforeFreeze'
<1>1. bundle # NoBundle => bundle \in Bundles
  BY DEF TypeOK, ProofTypeOK
<1>2. CASE WorkStep \/ UNCHANGED <<bundle, evidence, verdicts, effects>>
  BY <1>2 DEF WorkStep, BeforeFreeze
<1>3. ASSUME NEW edge \in Edges, Transition(edge)
      PROVE  BeforeFreeze'
  BY <1>3 DEF Transition, EmitReviewDispatch, BeforeFreeze
<1>4. ASSUME NEW p \in Principals, NEW e \in Effects, ConsumeReviewDispatch(p, e)
      PROVE  BeforeFreeze'
  BY <1>4 DEF ConsumeReviewDispatch, BeforeFreeze
<1>5. ASSUME NEW p \in Authors, NEW c \in Candidates, Freeze(p, c) \/ NewCandidate(p, c)
      PROVE  BeforeFreeze'
  <2>1. CASE Freeze(p, c)
    <3>1. run.policy \in SUBSET Criteria
      BY <2>1 DEF Freeze, TypeOK
    <3>2. bundle' \in Bundles
      BY <2>1, <3>1 DEF Freeze, FreezeCriteria, Bundles
    <3> QED BY <3>2 DEF BeforeFreeze
  <2>2. CASE NewCandidate(p, c)
    <3>1. bundle' \in Bundles
      BY <1>1, <2>2 DEF NewCandidate, ChangeCandidate, UnderPolicy, Bundles
    <3> QED BY <3>1 DEF BeforeFreeze
  <2> QED BY <1>5, <2>1, <2>2
<1>6. ASSUME NEW k \in Criteria, Evidence(k)
      PROVE  BeforeFreeze'
  BY <1>6 DEF Evidence, RecordEvidence, UnderPolicy, BeforeFreeze
<1>7. ASSUME NEW p \in Operators, NEW k \in Criteria, NEW passing \in BOOLEAN,
             Verdict(p, k, passing)
      PROVE  BeforeFreeze'
  BY <1>7 DEF Verdict, RecordVerdict, UnderPolicy, BeforeFreeze
<1>8. CASE \/ \E policy \in Policies : StartWorkflow(policy)
           \/ ResolveClose \/ ReopenTicket \/ UNCHANGED vars
  BY <1>8 DEF StartWorkflow, ResolveClose, ReopenTicket, vars, BeforeFreeze
<1> QED BY <1>2, <1>3, <1>4, <1>5, <1>6, <1>7, <1>8 DEF Next

\* Verdicts and consumed reviews find each other whichever comes first, and nobody
\* of the author's model family reviews.
THEOREM LinksStay == Spec => []ReviewsAreLinked
<1>1. Init => BeforeFreeze /\ ReviewsAreLinked
  BY DEF Init, ProofInit, BeforeFreeze, ReviewsAreLinked
<1>2. TypeOK /\ BeforeFreeze /\ ReviewsAreLinked /\ [Next]_vars
        => BeforeFreeze' /\ ReviewsAreLinked'
  <2> SUFFICES ASSUME LinkInv, [Next]_vars PROVE ReviewsAreLinked'
    BY NothingBeforeFreeze DEF LinkInv
  <2>1. CASE \/ WorkStep \/ ResolveClose \/ ReopenTicket \/ UNCHANGED vars
             \/ \E policy \in Policies : StartWorkflow(policy)
             \/ \E k \in Criteria : Evidence(k)
    <3>1. UNCHANGED <<bundle, verdicts, links, effects>>
      BY <2>1 DEF WorkStep, ResolveClose, ReopenTicket, vars, StartWorkflow,
                  Evidence, RecordEvidence
    <3> QED BY <3>1, SameLinks
  <2>2. ASSUME NEW edge \in Edges, Transition(edge)
        PROVE  ReviewsAreLinked'
    <3>1. UNCHANGED <<bundle, verdicts, links>>
      BY <2>2 DEF Transition
    <3>2. \A e \in Effects : effects'[e] # effects[e] =>
             effects[e] = NotEmitted /\ effects'[e] = Unconsumed
      BY <2>2 DEF Transition, EmitReviewDispatch, LinkInv, TypeOK
    <3> QED BY <3>1, <3>2, SameLinks
  <2>3. ASSUME NEW p \in Principals, NEW e \in Effects, ConsumeReviewDispatch(p, e)
        PROVE  ReviewsAreLinked'
    BY <2>3, ConsumptionLinks
  <2>4. ASSUME NEW p \in Authors, NEW c \in Candidates, Freeze(p, c)
        PROVE  ReviewsAreLinked'
    BY <2>4 DEF Freeze, FreezeCriteria, LinkInv, BeforeFreeze, ReviewsAreLinked
  <2>5. ASSUME NEW p \in Authors, NEW c \in Candidates, NewCandidate(p, c)
        PROVE  ReviewsAreLinked'
    BY <2>5, NewCandidateLinks
  <2>6. ASSUME NEW p \in Operators, NEW k \in Criteria, NEW passing \in BOOLEAN,
               Verdict(p, k, passing)
        PROVE  ReviewsAreLinked'
    BY <2>6, VerdictLinks
  <2> QED BY <2>1, <2>2, <2>3, <2>4, <2>5, <2>6 DEF Next
<1> QED BY <1>1, <1>2, TypeCorrect, PTL DEF Spec

-----------------------------------------------------------------------------

(***************************************************************************)
(* What the refinement rests on besides types: frozen criteria are never   *)
(* empty, no review is asked for in an episode that has not begun, and a   *)
(* closed ticket has a proof and owes no review.                           *)
(***************************************************************************)
BundleHasCriteria == bundle # NoBundle => bundle.criteria # {}
NoEffectAhead == \A e \in Effects : effects[e] # NotEmitted => e.episode <= episode
ClosedIsProven == lifecycle = "closed" => bundle # NoBundle /\ ReviewsLeft = {}

ProvenInv ==
  /\ TypeOK
  /\ BeforeFreeze
  /\ BundleHasCriteria
  /\ NoEffectAhead
  /\ ClosedIsProven

\* A step of ProvenTicket, or one it does not see.
ProvenStep == [Proven!Next]_(Proven!vars)

\* The criteria of the bundle that are proven now.
ProvenNow == {k \in Frozen : CriterionSatisfied(k)}

\* Nothing the board shows moves when bundle, rows, links, effects and episode stay.
LEMMA UnseenStep ==
  ASSUME UNCHANGED <<bundle, evidence, verdicts, links, effects, episode>>,
         lifecycle' = "closed" <=> lifecycle = "closed"
  PROVE  ProvenStep /\ ReviewsLeft' = ReviewsLeft
<1>1. ReviewsLeft' = ReviewsLeft
  BY DEF ReviewsLeft, AwaitedReviews, Emitted, Answered, Lenses
<1>2. Frozen' = Frozen /\ ProvenNow' = ProvenNow
  BY DEF Frozen, ProvenNow, CriterionSatisfied, LastVerdictPasses, Applies
<1> QED BY <1>1, <1>2 DEF ProvenStep, ProvenNow, Proven!vars

\* The reviews that are left after a step that moves effects, links or rows: what
\* decides is whether an effect of the current episode is emitted and answered.
LEMMA LeftBySteps ==
  ASSUME bundle # NoBundle, bundle' # NoBundle, episode' = episode,
         NEW x,
         \A e \in Effects \ {x} : effects'[e] = NotEmitted <=> effects[e] = NotEmitted,
         \A e \in Effects \ {x} : Answered(e)' <=> Answered(e)
  PROVE  ReviewsLeft' \ {x} = ReviewsLeft \ {x}
BY DEF ReviewsLeft, AwaitedReviews, Emitted

\* A judgement: at most one review of the old ones leaves, at most one criterion moves.
LEMMA JudgedStep ==
  ASSUME bundle # NoBundle, bundle.criteria # {},
         UNCHANGED <<bundle, lifecycle>>,
         NEW k \in Criteria, ProvenNow' \ {k} = ProvenNow \ {k},
         NEW e, ReviewsLeft' = ReviewsLeft \/ ReviewsLeft' = ReviewsLeft \ {e}
  PROVE  ProvenStep
<1>1. Frozen = bundle.criteria /\ Frozen' = Frozen
  BY DEF Frozen
<1>2. ProvenNow \subseteq Frozen /\ ProvenNow' \subseteq Frozen
  BY <1>1 DEF ProvenNow
<1>3. \E x \in Frozen : ProvenNow' \ {x} = ProvenNow \ {x}
  BY <1>1, <1>2
<1>4. ReviewsLeft' \subseteq ReviewsLeft /\ \A x, y \in ReviewsLeft \ ReviewsLeft' : x = y
  OBVIOUS
<1>5. CASE <<ProvenNow, ReviewsLeft>> = <<ProvenNow', ReviewsLeft'>>
  BY <1>1, <1>5 DEF ProvenStep, Proven!vars, ProvenNow
<1>6. CASE <<ProvenNow, ReviewsLeft>> # <<ProvenNow', ReviewsLeft'>>
  <2>1. Proven!Judge
    BY <1>1, <1>3, <1>4, <1>6 DEF Proven!Judge, ProvenNow
  <2> QED BY <2>1 DEF ProvenStep, Proven!Next
<1> QED BY <1>5, <1>6

\* Entering a review stage asks for one review more, or for none.
LEMMA TransitionStep ==
  ASSUME ProvenInv, NEW edge \in Edges, Transition(edge)
  PROVE  ProvenStep
<1>1. UNCHANGED <<proofVars, workVars, links>> /\ lifecycle # "closed"
  BY DEF Transition
<1>2. CASE UNCHANGED effects
  BY <1>1, <1>2, UnseenStep
<1>3. CASE effects' # effects
  <2>1. PICK e : /\ e = [episode |-> episode, stage |-> edge.to, candidate |-> bundle.candidate]
                 /\ edge.to \in ReviewStages /\ bundle # NoBundle
                 /\ effects' = [effects EXCEPT ![e] = IF @ = NotEmitted THEN Unconsumed ELSE @]
    BY <1>3 DEF Transition, EmitReviewDispatch
  <2>2. e \in Effects
    BY <2>1 DEF Effects, ProvenInv, TypeOK, ProofTypeOK, Bundles
  <2>3. /\ effects[e] = NotEmitted /\ effects'[e] = Unconsumed
        /\ \A x \in Effects \ {e} : effects'[x] = effects[x]
    BY <1>3, <2>1, <2>2 DEF ProvenInv, TypeOK
  <2>4. ReviewsLeft' = ReviewsLeft \cup {e}
    <3>1. \A x \in Effects \ {e} : Answered(x)' <=> Answered(x)
      <4> SUFFICES ASSUME NEW x \in Effects \ {e} PROVE Answered(x)' <=> Answered(x)
        OBVIOUS
      <4>1. effects'[x] = effects[x] /\ UNCHANGED <<verdicts, links, Lenses>>
        BY <1>1, <2>3 DEF Lenses
      <4> QED BY <4>1 DEF Answered
    <3>2. ReviewsLeft' \ {e} = ReviewsLeft \ {e}
      <4>1. \A x \in Effects \ {e} : effects'[x] = NotEmitted <=> effects[x] = NotEmitted
        BY <2>3
      <4>2. bundle' # NoBundle /\ episode' = episode
        BY <1>1, <2>1
      <4> QED BY <2>1, <3>1, <4>1, <4>2, LeftBySteps, Zenon
    <3>3. e.episode = episode
      BY <2>1
    <3>4. ~Answered(e)'
      BY <2>3 DEF Answered
    <3>5. e \in ReviewsLeft'
      BY <1>1, <2>1, <2>2, <2>3, <3>3, <3>4 DEF ReviewsLeft, AwaitedReviews, Emitted
    <3> QED BY <3>2, <3>5
  <2>5. e \notin ReviewsLeft
    BY <2>3 DEF ReviewsLeft, AwaitedReviews, Emitted
  <2>6. Frozen' = Frozen /\ ProvenNow' = ProvenNow
    BY <1>1 DEF Frozen, ProvenNow, CriterionSatisfied, LastVerdictPasses, Applies
  <2>7. Proven!Await
    BY <1>1, <2>2, <2>4, <2>5, <2>6 DEF Proven!Await, ProvenNow
  <2> QED BY <2>7 DEF ProvenStep, Proven!Next
<1> QED BY <1>2, <1>3

\* A consumption that finds all its verdicts answers the review, any other is not seen.
LEMMA ConsumptionStep ==
  ASSUME ProvenInv, NEW p \in Principals, NEW e \in Effects, ConsumeReviewDispatch(p, e)
  PROVE  ProvenStep
<1>1. /\ UNCHANGED <<proofVars, episode, lifecycle>>
      /\ effects[e] = Unconsumed /\ effects' = [effects EXCEPT ![e] = p]
      /\ LinkEarlierVerdicts(p, e)
  BY DEF ConsumeReviewDispatch
<1>2. bundle # NoBundle /\ bundle.criteria # {} /\ bundle.criteria \subseteq Criteria
  BY <1>1 DEF ProvenInv, BeforeFreeze, BundleHasCriteria, TypeOK, ProofTypeOK, Bundles
<1>3. DOMAIN links = DOMAIN verdicts /\ e # NoEffect
  BY DEF ProvenInv, TypeOK, ProofTypeOK
<1>4. \A x \in Effects \ {e} : effects'[x] = effects[x]
  BY <1>1 DEF ProvenInv, TypeOK
<1>5. \A x \in Effects \ {e} : Answered(x)' <=> Answered(x)
  <2> SUFFICES ASSUME NEW x \in Effects \ {e} PROVE Answered(x)' <=> Answered(x)
    OBVIOUS
  <2>1. x # NoEffect
    OBVIOUS
  <2>2. \A i \in DOMAIN verdicts : links'[i] = x <=> links[i] = x
    BY <1>1, <1>3, <2>1 DEF LinkEarlierVerdicts
  <2>3. verdicts' = verdicts /\ Lenses' = Lenses
    BY <1>1 DEF Lenses
  <2> QED BY <1>4, <2>2, <2>3 DEF Answered
<1>6. effects'[e] # NotEmitted /\ effects[e] # NotEmitted
  BY <1>1 DEF ProvenInv, TypeOK
<1>7. ReviewsLeft' \ {e} = ReviewsLeft \ {e}
  <2>1. \A x \in Effects \ {e} : effects'[x] = NotEmitted <=> effects[x] = NotEmitted
    BY <1>4
  <2>2. bundle' # NoBundle /\ episode' = episode
    BY <1>1, <1>2
  <2> QED BY <1>2, <1>5, <2>1, <2>2, LeftBySteps, Zenon
<1>8. e \in ReviewsLeft' => e \in ReviewsLeft
  <2>1. ~Answered(e)
    BY <1>1 DEF Answered
  <2> QED BY <1>1, <1>2, <1>6, <2>1 DEF ReviewsLeft, AwaitedReviews, Emitted
<1>9. ReviewsLeft' = ReviewsLeft \/ ReviewsLeft' = ReviewsLeft \ {e}
  <2>1. CASE e \in ReviewsLeft'
    <3>1. \A x : x \in ReviewsLeft' <=> x \in ReviewsLeft
      BY <1>7, <1>8, <2>1, Zenon
    <3> QED BY <3>1
  <2>2. CASE e \notin ReviewsLeft'
    BY <1>7, <2>2
  <2> QED BY <2>1, <2>2
<1>10. ProvenNow' = ProvenNow
  BY <1>1 DEF Frozen, ProvenNow, CriterionSatisfied, LastVerdictPasses, Applies
<1>11. PICK k \in Criteria : k \in bundle.criteria
  BY <1>2
<1> QED BY <1>1, <1>2, <1>9, <1>10, JudgedStep

\* A verdict adds one row and one link, and changes neither the older ones nor the rest.
LEMMA VerdictRow ==
  ASSUME TypeOK, NEW p \in Operators, NEW k \in Criteria, NEW passing \in BOOLEAN,
         Verdict(p, k, passing)
  PROVE  LET n == Len(verdicts)
         IN  /\ n \in Nat /\ DOMAIN verdicts = 1..n /\ DOMAIN verdicts' = 1..(n + 1)
             /\ \A i \in 1..n : verdicts'[i] = verdicts[i] /\ links'[i] = links[i]
             /\ verdicts'[n + 1].criterion = k
             /\ UNCHANGED <<bundle, evidence, effects, episode, lifecycle>>
<1> DEFINE n == Len(verdicts)
<1>1. /\ n \in Nat /\ DOMAIN verdicts = 1..n /\ Len(links) = n
      /\ links \in Seq(Effects \cup {NoEffect})
      /\ verdicts \in Seq(VerdictRows)
  BY DEF TypeOK, ProofTypeOK
<1>2. PICK row : verdicts' = Append(verdicts, row) /\ row.criterion = k
  BY DEF Verdict, RecordVerdict
<1>3. PICK link : links' = Append(links, link)
  BY DEF Verdict
<1>4. /\ DOMAIN verdicts' = 1..(n + 1) /\ verdicts'[n + 1] = row
      /\ \A i \in 1..n : verdicts'[i] = verdicts[i]
  BY <1>1, <1>2
<1>5. \A i \in 1..n : links'[i] = links[i]
  BY <1>1, <1>3
<1>6. UNCHANGED <<bundle, evidence, effects, episode, lifecycle>>
  BY DEF Verdict, RecordVerdict
<1>7. verdicts'[n + 1].criterion = k
  BY <1>2, <1>4
<1> QED BY <1>1, <1>4, <1>5, <1>6, <1>7

\* A verdict moves the criterion it decides, and answers the review it is linked to.
LEMMA VerdictStep ==
  ASSUME ProvenInv, NEW p \in Operators, NEW k \in Criteria, NEW passing \in BOOLEAN,
         Verdict(p, k, passing)
  PROVE  ProvenStep
<1> DEFINE n == Len(verdicts)
<1>1. /\ n \in Nat /\ DOMAIN verdicts = 1..n /\ DOMAIN verdicts' = 1..(n + 1)
      /\ \A i \in 1..n : verdicts'[i] = verdicts[i] /\ links'[i] = links[i]
      /\ verdicts'[n + 1].criterion = k
      /\ UNCHANGED <<bundle, evidence, effects, episode, lifecycle>>
  BY VerdictRow DEF ProvenInv
<1> HIDE DEF n
<1>2. bundle # NoBundle /\ bundle.criteria # {}
  BY DEF Verdict, RecordVerdict, UnderPolicy, ProvenInv, BundleHasCriteria
<1>3. \A i : i \in 1..(n + 1) <=> i \in 1..n \/ i = n + 1
  BY <1>1
<1>4. PICK link : links'[n + 1] = link
  OBVIOUS
<1>5. \A x \in Effects : Answered(x) => Answered(x)'
  BY <1>1, <1>3 DEF Answered, Lenses
<1>6. \A x \in Effects \ {link} : Answered(x)' => Answered(x)
  BY <1>1, <1>3, <1>4 DEF Answered, Lenses
<1>7. ReviewsLeft' \ {link} = ReviewsLeft \ {link}
  <2>1. \A x \in Effects \ {link} : effects'[x] = NotEmitted <=> effects[x] = NotEmitted
    BY <1>1
  <2>2. \A x \in Effects \ {link} : Answered(x)' <=> Answered(x)
    BY <1>5, <1>6, Zenon
  <2>3. bundle' # NoBundle /\ episode' = episode
    BY <1>1, <1>2
  <2> QED BY <1>2, <2>1, <2>2, <2>3, LeftBySteps, Zenon
<1>8. ReviewsLeft' \subseteq ReviewsLeft
  BY <1>1, <1>2, <1>5, Zenon DEF ReviewsLeft, AwaitedReviews, Emitted
<1>9. ReviewsLeft' = ReviewsLeft \/ ReviewsLeft' = ReviewsLeft \ {link}
  <2>1. CASE link \in ReviewsLeft'
    <3>1. \A x : x \in ReviewsLeft' <=> x \in ReviewsLeft
      BY <1>7, <1>8, <2>1, Zenon
    <3> QED BY <3>1
  <2>2. CASE link \notin ReviewsLeft'
    BY <1>7, <2>2
  <2> QED BY <2>1, <2>2
<1>10. ASSUME NEW c \in Frozen \ {k}
       PROVE  CriterionSatisfied(c)' <=> CriterionSatisfied(c)
  <2>1. \A row : Applies(row, c)' <=> Applies(row, c)
    BY <1>1 DEF Applies
  <2>2. ~Applies(verdicts'[n + 1], c)
    BY <1>1 DEF Applies
  <2>3. LastVerdictPasses(c)' <=> LastVerdictPasses(c)
    <3>1. LastVerdictPasses(c)' <=>
             \E i \in 1..(n + 1) :
                /\ Applies(verdicts'[i], c) /\ verdicts'[i].passing
                /\ \A j \in 1..(n + 1) : Applies(verdicts'[j], c) => j <= i
      BY <1>1 DEF LastVerdictPasses, Applies
    <3>2. LastVerdictPasses(c)' <=>
             \E i \in 1..n :
                /\ Applies(verdicts'[i], c) /\ verdicts'[i].passing
                /\ \A j \in 1..n : Applies(verdicts'[j], c) => j <= i
      BY <1>3, <2>2, <3>1
    <3> QED BY <1>1, <3>2 DEF LastVerdictPasses
  <2>4. (\E row \in evidence : Applies(row, c))' <=> \E row \in evidence : Applies(row, c)
    BY <1>1 DEF Applies
  <2> QED BY <2>3, <2>4 DEF CriterionSatisfied
<1>11. ProvenNow' \ {k} = ProvenNow \ {k}
  <2>1. Frozen' = Frozen
    BY <1>1 DEF Frozen
  <2> QED BY <1>10, <2>1, Zenon DEF ProvenNow
<1> QED BY <1>1, <1>2, <1>9, <1>11, JudgedStep

\* Evidence moves the criterion it is about and nothing else.
LEMMA EvidenceStep ==
  ASSUME ProvenInv, NEW k \in Criteria, Evidence(k)
  PROVE  ProvenStep
<1>1. /\ UNCHANGED <<bundle, verdicts, links, effects, episode, lifecycle>>
      /\ bundle # NoBundle /\ bundle.criteria # {}
      /\ evidence' = evidence \cup
            {[criterion |-> k, candidate |-> bundle.candidate, standing |-> TRUE]}
  BY DEF Evidence, RecordEvidence, UnderPolicy, ProvenInv, BundleHasCriteria
<1>2. ReviewsLeft' = ReviewsLeft
  BY <1>1 DEF ReviewsLeft, AwaitedReviews, Emitted, Answered, Lenses
<1>3. ASSUME NEW c \in Frozen \ {k}
      PROVE  CriterionSatisfied(c)' <=> CriterionSatisfied(c)
  <2>1. LastVerdictPasses(c)' <=> LastVerdictPasses(c)
    BY <1>1 DEF LastVerdictPasses, Applies
  <2>2. (\E row \in evidence : Applies(row, c))' <=> \E row \in evidence : Applies(row, c)
    BY <1>1 DEF Applies
  <2> QED BY <2>1, <2>2 DEF CriterionSatisfied
<1>4. ProvenNow' \ {k} = ProvenNow \ {k}
  <2>1. Frozen' = Frozen
    BY <1>1 DEF Frozen
  <2> QED BY <1>3, <2>1, Zenon DEF ProvenNow
<1> QED BY <1>1, <1>2, <1>4, JudgedStep

\* A new candidate takes away what depended on the old one, and nothing else.
LEMMA ReplaceStep ==
  ASSUME ProvenInv, NEW p \in Authors, NEW c \in Candidates, NewCandidate(p, c)
  PROVE  ProvenStep
<1>1. /\ UNCHANGED <<links, effects, episode, lifecycle>>
      /\ bundle \in Bundles /\ bundle # NoBundle
      /\ bundle'.criteria = bundle.criteria
      /\ bundle'.candidate = c /\ c # bundle.candidate
      /\ bundle' \in Bundles
      /\ evidence' = {Invalidate(row) : row \in evidence}
      /\ verdicts' = [i \in DOMAIN verdicts |-> Invalidate(verdicts[i])]
  BY DEF NewCandidate, ChangeCandidate, UnderPolicy, ProvenInv, TypeOK, ProofTypeOK, Bundles
<1>2. bundle' # NoBundle
  BY <1>1
<1>3. /\ DOMAIN verdicts' = DOMAIN verdicts
      /\ \A i \in DOMAIN verdicts : verdicts[i] \in VerdictRows
      /\ evidence \subseteq EvidenceRows
  BY <1>1 DEF ProvenInv, TypeOK, ProofTypeOK
<1>4. \A i \in DOMAIN verdicts : verdicts'[i].criterion = verdicts[i].criterion
  BY <1>1, <1>3 DEF Invalidate, VerdictRows
<1>5. ReviewsLeft' = ReviewsLeft
  <2>1. Lenses' = Lenses
    BY <1>1 DEF Lenses
  <2>2. \A e \in Effects : Answered(e)' <=> Answered(e)
    BY <1>1, <1>3, <1>4, <2>1 DEF Answered
  <2> QED BY <1>1, <1>2, <2>2 DEF ReviewsLeft, AwaitedReviews, Emitted
<1>6. Frozen' = Frozen
  BY <1>1, <1>2 DEF Frozen
<1>7. ASSUME NEW k \in Frozen \cap Dependent
      PROVE  ~CriterionSatisfied(k)'
  <2>1. \A row \in EvidenceRows : ~Applies(Invalidate(row), k)'
    BY DEF Applies, Invalidate, EvidenceRows
  <2>2. ~(\E row \in evidence : Applies(row, k))'
    BY <1>1, <1>3, <2>1 DEF Applies
  <2> QED BY <2>2 DEF CriterionSatisfied
<1>8. ASSUME NEW k \in Frozen \ Dependent
      PROVE  CriterionSatisfied(k)' <=> CriterionSatisfied(k)
  <2>1. \A row \in EvidenceRows \cup VerdictRows :
           Applies(Invalidate(row), k)' <=> Applies(row, k)
    BY DEF Applies, Invalidate, EvidenceRows, VerdictRows
  <2>2. (\E row \in evidence : Applies(row, k))' <=> \E row \in evidence : Applies(row, k)
    BY <1>1, <1>3, <2>1 DEF Applies
  <2>3. \A i \in DOMAIN verdicts :
           /\ Applies(verdicts[i], k)' <=> Applies(verdicts[i], k)
           /\ verdicts'[i].passing = verdicts[i].passing
    <3> SUFFICES ASSUME NEW i \in DOMAIN verdicts
                 PROVE  /\ Applies(verdicts[i], k)' <=> Applies(verdicts[i], k)
                        /\ verdicts'[i].passing = verdicts[i].passing
      OBVIOUS
    <3>1. verdicts'[i] = Invalidate(verdicts[i]) /\ verdicts[i] \in VerdictRows
      BY <1>1, <1>3
    <3> QED BY <3>1 DEF Applies, Invalidate, VerdictRows
  <2>4. LastVerdictPasses(k)' <=> LastVerdictPasses(k)
    BY <1>3, <2>3 DEF LastVerdictPasses, Applies
  <2> QED BY <2>2, <2>4 DEF CriterionSatisfied
<1>9. ProvenNow' = ProvenNow \ Dependent
  BY <1>6, <1>7, <1>8, Zenon DEF ProvenNow
<1>10. bundle.candidate # NoBundle
  BY <1>1 DEF Bundles
<1>11. Proven!Replace
  BY <1>1, <1>2, <1>5, <1>6, <1>9, <1>10 DEF Proven!Replace, ProvenNow
<1> QED BY <1>11 DEF ProvenStep, Proven!Next

\* What is frozen are the criteria of the policy, and nothing of them is proven yet.
LEMMA FreezeStep ==
  ASSUME ProvenInv, NEW p \in Authors, NEW c \in Candidates, Freeze(p, c)
  PROVE  ProvenStep
<1>1. run.policy \in SUBSET Criteria
  BY DEF Freeze, ProvenInv, TypeOK
<1>2. /\ UNCHANGED <<evidence, verdicts, links, effects, episode, lifecycle>>
      /\ bundle = NoBundle /\ bundle' \in Bundles
      /\ bundle'.criteria \in (SUBSET Criteria) \ {{}} /\ bundle'.candidate = c
  BY <1>1 DEF Freeze, FreezeCriteria, Bundles
<1>3. evidence = {} /\ \A e \in Effects : effects[e] = NotEmitted
  BY <1>2 DEF ProvenInv, BeforeFreeze
<1>4. Frozen = {} /\ Frozen' = bundle'.criteria /\ ReviewsLeft = {} /\ ReviewsLeft' = {}
  BY <1>2, <1>3 DEF Frozen, ReviewsLeft, AwaitedReviews, Emitted
<1>5. ProvenNow = {} /\ ProvenNow' = {}
  BY <1>2, <1>3, <1>4 DEF ProvenNow, CriterionSatisfied
<1>6. Proven!Freeze
  BY <1>2, <1>4, <1>5 DEF Proven!Freeze, ProvenNow
<1> QED BY <1>6 DEF ProvenStep, Proven!Next

\* The close sees every criterion of the frozen proof proven and no review left.
LEMMA CloseStep ==
  ASSUME ProvenInv, ResolveClose
  PROVE  ProvenStep
<1>1. /\ UNCHANGED <<bundle, evidence, verdicts, links, effects, episode>>
      /\ lifecycle # "closed" /\ lifecycle' = "closed"
      /\ bundle # NoBundle /\ AwaitedReviews = {}
      /\ \A k \in bundle.criteria : CriterionSatisfied(k)
  BY DEF ResolveClose, CloseEpisode, ReviewDispatchesComplete, IsSatisfied
<1>2. ReviewsLeft = {} /\ ReviewsLeft' = {}
  <2>1. ReviewsLeft' = ReviewsLeft
    BY <1>1 DEF ReviewsLeft, AwaitedReviews, Emitted, Answered, Lenses
  <2> QED BY <1>1, <2>1 DEF ReviewsLeft
<1>3. Frozen' = Frozen /\ ProvenNow' = ProvenNow
  BY <1>1 DEF Frozen, ProvenNow, CriterionSatisfied, LastVerdictPasses, Applies
<1>4. Frozen # {} /\ ProvenNow = Frozen
  BY <1>1 DEF Frozen, ProvenNow, ProvenInv, BundleHasCriteria
<1>5. Proven!Close
  BY <1>1, <1>2, <1>3, <1>4 DEF Proven!Close, ProvenNow
<1> QED BY <1>5 DEF ProvenStep, Proven!Next

\* The new episode has asked for no review yet and finds the proof as it was.
LEMMA ReopenStep ==
  ASSUME ProvenInv, ReopenTicket
  PROVE  ProvenStep
<1>1. /\ UNCHANGED <<bundle, evidence, verdicts, links, effects>>
      /\ lifecycle = "closed" /\ lifecycle' # "closed"
      /\ episode \in Nat /\ episode' = episode + 1
  BY DEF ReopenTicket, Reopen, ProvenInv, TypeOK
<1>2. ReviewsLeft = {}
  BY <1>1 DEF ProvenInv, ClosedIsProven
<1>3. ReviewsLeft' = {}
  <2>1. \A e \in Effects : e.episode \in Nat
    BY DEF Effects
  <2>2. \A e \in Effects : effects'[e] # NotEmitted => e.episode # episode'
    BY <1>1, <2>1 DEF ProvenInv, NoEffectAhead
  <2> QED BY <2>2 DEF ReviewsLeft, AwaitedReviews, Emitted
<1>4. Frozen' = Frozen /\ ProvenNow' = ProvenNow
  BY <1>1 DEF Frozen, ProvenNow, CriterionSatisfied, LastVerdictPasses, Applies
<1>5. Proven!Reopen
  BY <1>1, <1>2, <1>3, <1>4 DEF Proven!Reopen, ProvenNow
<1> QED BY <1>5 DEF ProvenStep, Proven!Next

\* Every step of the detailed ticket is one of the proven ticket, or not seen by it.
LEMMA StepImplements ==
  ASSUME ProvenInv, [Next]_vars
  PROVE  ProvenStep
<1>1. CASE \/ WorkStep \/ UNCHANGED vars
           \/ \E policy \in Policies : StartWorkflow(policy)
  <2>1. /\ UNCHANGED <<bundle, evidence, verdicts, links, effects, episode>>
        /\ lifecycle' = "closed" <=> lifecycle = "closed"
    BY <1>1 DEF WorkStep, Admit, Defer, Block, Unblock, TransferCustody, ChangeAssignment,
                StartWorkflow, vars
  <2> QED BY <2>1, UnseenStep
<1>2. ASSUME NEW edge \in Edges, Transition(edge)
      PROVE  ProvenStep
  BY <1>2, TransitionStep
<1>3. ASSUME NEW p \in Principals, NEW e \in Effects, ConsumeReviewDispatch(p, e)
      PROVE  ProvenStep
  BY <1>3, ConsumptionStep
<1>4. ASSUME NEW p \in Authors, NEW c \in Candidates, Freeze(p, c) \/ NewCandidate(p, c)
      PROVE  ProvenStep
  BY <1>4, FreezeStep, ReplaceStep
<1>5. ASSUME NEW k \in Criteria, Evidence(k)
      PROVE  ProvenStep
  BY <1>5, EvidenceStep
<1>6. ASSUME NEW p \in Operators, NEW k \in Criteria, NEW passing \in BOOLEAN,
             Verdict(p, k, passing)
      PROVE  ProvenStep
  BY <1>6, VerdictStep
<1>7. CASE ResolveClose \/ ReopenTicket
  BY <1>7, CloseStep, ReopenStep
<1> QED BY <1>1, <1>2, <1>3, <1>4, <1>5, <1>6, <1>7 DEF Next

\* The strengthened invariant is kept; that a closed ticket stays proven is a fact
\* about the steps of ProvenTicket.
LEMMA ProvenInvKept ==
  ASSUME ProvenInv, TypeOK', [Next]_vars
  PROVE  ProvenInv'
<1>1. BeforeFreeze'
  BY NothingBeforeFreeze DEF ProvenInv
<1>2. BundleHasCriteria'
  <2>1. CASE UNCHANGED bundle
    BY <2>1 DEF ProvenInv, BundleHasCriteria
  <2>2. CASE \E p \in Authors, c \in Candidates : Freeze(p, c) \/ NewCandidate(p, c)
    BY <2>2 DEF Freeze, FreezeCriteria, NewCandidate, ChangeCandidate, UnderPolicy,
                ProvenInv, BundleHasCriteria, TypeOK, ProofTypeOK, Bundles
  <2> QED BY <2>1, <2>2
    DEF Next, vars, WorkStep, StartWorkflow, Transition, ConsumeReviewDispatch, Evidence,
        RecordEvidence, Verdict, RecordVerdict, ResolveClose, ReopenTicket
<1>3. NoEffectAhead'
  <2>1. episode \in Nat /\ \A e \in Effects : e.episode \in Nat
    BY DEF ProvenInv, TypeOK, Effects
  <2>2. CASE UNCHANGED <<effects, episode>>
    BY <2>2 DEF ProvenInv, NoEffectAhead
  <2>3. ASSUME NEW edge \in Edges, Transition(edge)
        PROVE  NoEffectAhead'
    BY <2>1, <2>3 DEF Transition, EmitReviewDispatch, ProvenInv, NoEffectAhead, TypeOK
  <2>4. ASSUME NEW p \in Principals, NEW e \in Effects, ConsumeReviewDispatch(p, e)
        PROVE  NoEffectAhead'
    BY <2>4 DEF ConsumeReviewDispatch, ProvenInv, NoEffectAhead, TypeOK
  <2>5. CASE ReopenTicket
    BY <2>1, <2>5 DEF ReopenTicket, Reopen, ProvenInv, NoEffectAhead
  <2> QED BY <2>2, <2>3, <2>4, <2>5
    DEF Next, vars, WorkStep, Admit, Defer, Block, Unblock, TransferCustody,
        ChangeAssignment, StartWorkflow, Freeze, NewCandidate, Evidence, Verdict,
        ResolveClose, CloseEpisode
<1>4. ClosedIsProven'
  <2>1. ProvenStep
    BY StepImplements
  <2>2. SUFFICES ASSUME lifecycle' = "closed"
                 PROVE  bundle' # NoBundle /\ ReviewsLeft' = {}
    BY DEF ClosedIsProven
  <2>3. Frozen # {} /\ ReviewsLeft = {} /\ Frozen' = Frozen /\ ReviewsLeft' \subseteq {}
    <3>1. CASE lifecycle = "closed"
      <4>1. Frozen # {} /\ ReviewsLeft = {}
        BY <3>1 DEF ProvenInv, ClosedIsProven, BundleHasCriteria, Frozen
      <4> QED BY <2>1, <2>2, <3>1, <4>1
        DEF ProvenStep, Proven!Next, Proven!vars, Proven!Close, Proven!Reopen,
            Proven!Freeze, Proven!Replace, Proven!Await, Proven!Judge
    <3>2. CASE lifecycle # "closed"
      BY <2>1, <2>2, <3>2
        DEF ProvenStep, Proven!Next, Proven!vars, Proven!Close, Proven!Reopen,
            Proven!Freeze, Proven!Replace, Proven!Await, Proven!Judge
    <3> QED BY <3>1, <3>2
  <2> QED BY <2>3 DEF Frozen
<1> QED BY <1>1, <1>2, <1>3, <1>4 DEF ProvenInv

\* The detailed ticket implements the proven one: it closes only with every criterion
\* proven for the candidate it has, and with no review of its run unanswered.
THEOREM TicketImplementsProven == Spec => ImplementsProvenTicket
<1>1. Init => ProvenInv
  <2> SUFFICES ASSUME Init PROVE ProvenInv
    OBVIOUS
  <2>1. BeforeFreeze /\ BundleHasCriteria /\ NoEffectAhead /\ ClosedIsProven
    BY DEF Init, ProofInit, WorkInit, BeforeFreeze, BundleHasCriteria, NoEffectAhead,
           ClosedIsProven
  <2> QED BY <2>1, InitTyped DEF ProvenInv
<1>2. Init => Proven!Init
  BY DEF Init, ProofInit, WorkInit, Proven!Init, Frozen, ReviewsLeft
<1>3. ProvenInv /\ TypeOK' /\ [Next]_vars => ProvenInv' /\ [Proven!Next]_(Proven!vars)
  BY ProvenInvKept, StepImplements DEF ProvenStep
<1> QED BY <1>1, <1>2, <1>3, TypeCorrect, PTL DEF Spec, ImplementsProvenTicket, Proven!Spec
=============================================================================
