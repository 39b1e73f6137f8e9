--------------------------- MODULE FixedOperations --------------------------
(***************************************************************************)
(* The fixed synthetic operation of the Runtime component: claims and      *)
(* results of its jobs (runtime/_synthetic_sql.py).  An attempt is fenced  *)
(* by its number, which stands for its id and token, and by its expiry,    *)
(* which may come at any time.                                             *)
(***************************************************************************)
EXTENDS Naturals

CONSTANTS
  Jobs,         \* jobs the scheduler or an operator may create
  NoClaim,      \* a worker that has claimed nothing
  MaxAttempts   \* _MAX_ATTEMPTS

VARIABLES
  attempts,     \* [job -> attempts claimed]
  live,         \* unsettled jobs whose latest claim has not expired
  result        \* [job -> attempt that settled it, 0 before]

OperationsInit ==
  /\ attempts = [j \in Jobs |-> 0]
  /\ live = {}
  /\ result = [j \in Jobs |-> 0]

Claims       == Jobs \X (1..MaxAttempts)
Settled(j)   == result[j] # 0
Exhausted(j) == ~Settled(j) /\ attempts[j] = MaxAttempts /\ j \notin live

\* Mutant: the attempts are counted from zero.
ClaimableOnceMore(j) == ~Settled(j) /\ j \notin live /\ attempts[j] <= MaxAttempts

\* Mutant: a job that was claimed once is never claimed again.
ClaimedOnce(j) == ~Settled(j) /\ attempts[j] = 0

\* No result, no running attempt, fewer than eight attempts.
Claimable(j) == ~Settled(j) /\ j \notin live /\ attempts[j] < MaxAttempts

ClaimOf(j) == <<j, attempts[j] + 1>>

\* claim_synthetic inserts the next attempt, which runs out in 30 seconds.
Claim(j) ==
  /\ attempts' = [attempts EXCEPT ![j] = @ + 1]
  /\ live' = live \cup {j}
  /\ UNCHANGED result

\* Only the latest attempt may complete its job, and only before it expires.
HoldsFence(c) == c[2] = attempts[c[1]] /\ c[1] \in live

\* complete_synthetic: an existing result stands; a settled job needs no claim.
Complete(c) ==
  /\ result' = IF Settled(c[1]) THEN result ELSE [result EXCEPT ![c[1]] = c[2]]
  /\ live' = live \ {c[1]}
  /\ UNCHANGED attempts

\* claim_expires_at passes.
Expire(j) ==
  /\ j \in live
  /\ live' = live \ {j}
  /\ UNCHANGED <<attempts, result>>

OperationsTypeOK ==
  /\ attempts \in [Jobs -> 0..MaxAttempts]
  /\ live \subseteq Jobs
  /\ result \in [Jobs -> 0..MaxAttempts]
=============================================================================
