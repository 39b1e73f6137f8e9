---- MODULE ProvenTicket ----
(***************************************************************************)
(* What a reader of the board may rely on about one ticket, without the    *)
(* bundles, runs and effects that make it true: a ticket is closed only    *)
(* when every criterion of its frozen proof is proven for the candidate it *)
(* has then, and no review its run asked for is unanswered.  A new         *)
(* candidate takes with it all that was proven of the old one, and what is *)
(* proven changes one criterion at a time.                                 *)
(***************************************************************************)
CONSTANTS Criteria, Dependent, Reviews, Candidates, NoCandidate

VARIABLES criteria, candidate, proven, awaited, closed

vars == <<criteria, candidate, proven, awaited, closed>>

Init ==
    /\ criteria = {} /\ proven = {} /\ awaited = {}
    /\ candidate = NoCandidate
    /\ closed = FALSE

Freeze ==
    /\ criteria = {}
    /\ criteria' \in (SUBSET Criteria) \ {{}}
    /\ candidate' \in Candidates
    /\ UNCHANGED <<proven, awaited, closed>>

Replace ==
    /\ candidate # NoCandidate
    /\ candidate' \in Candidates \ {candidate}
    /\ UNCHANGED <<criteria, awaited, closed>>
    /\ proven' = proven \ Dependent

(***************************************************************************)
(* A judgement may settle one criterion and may answer one awaited review; *)
(* a review taken up after its judgement was made is answered alone.       *)
(***************************************************************************)
Judge ==
    /\ <<proven, awaited>> # <<proven', awaited'>>
    /\ UNCHANGED <<criteria, candidate, closed>>
    /\ awaited' \subseteq awaited
    /\ \A r, s \in awaited \ awaited' : r = s
    /\ \E k \in criteria : proven' \ {k} = proven \ {k}

Await ==
    /\ ~closed
    /\ awaited' # awaited
    /\ UNCHANGED <<criteria, candidate, proven, closed>>
    /\ \E r \in Reviews : awaited' = awaited \cup {r}

Close ==
    /\ ~closed /\ closed'
    /\ awaited = {}
    /\ criteria # {}
    /\ proven = criteria
    /\ UNCHANGED <<criteria, candidate, proven, awaited>>

\* The proof belongs to the ticket, not to the episode: reopening keeps it.
Reopen ==
    /\ closed /\ ~closed'
    /\ UNCHANGED <<criteria, candidate, proven, awaited>>

Next == Close \/ Reopen \/ Freeze \/ Replace \/ Await \/ Judge

Spec == Init /\ [][Next]_vars
=============================================================================
