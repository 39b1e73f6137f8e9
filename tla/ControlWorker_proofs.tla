------------------------ MODULE ControlWorker_proofs ------------------------
(***************************************************************************)
(* What the scheduler and the control worker keep for any number of        *)
(* workers, requests and routines, whatever their schedules and policies.  *)
(***************************************************************************)
EXTENDS ControlWorker, FiniteSetTheorems, TLAPS

\* A fire is recorded exactly once because its trigger moves past it and never
\* back.  A trigger of an older revision than the packs' is only replaced by a
\* worker whose clock is not behind the scans made under it, and past its
\* registration every worker finds the triggers of the packs.
Registered == {"scan", "tenant", "plan", "observe", "commit", "claim", "execute"}

TriggersAdvance ==
  /\ \A f \in Fires : outcome[f] # "none" => f[2] < trigger[f[1]].next
  /\ \A r \in Routines : trigger[r].next <= time + 1
  /\ \A w \in Workers : now[w] <= time
  /\ \A w \in Workers, r \in Routines :
       /\ pc[w] \in Registered => trigger[r].revision = pack
       /\ pc[w] = "triggers" /\ trigger[r].revision # pack => trigger[r].next <= now[w] + 1

ClaimsAndItems ==
  /\ \A w \in Workers : pc[w] = "execute" => claim[w] \in Claims
  /\ \A q \in Requests : request[q].item # NoFire => request[q].item \in Items

IInv == TypeOK /\ TriggersAdvance /\ ClaimsAndItems
IInvAlone == IInv /\ OneAtATime

\* What a step other than the commit of a scan may do to what is recorded.
OnlyCloses ==
  /\ outcome' = outcome /\ closed \subseteq closed'
  /\ \A j \in AllJobs : Settled(j) => Settled(j)'

USE SchedulerAssumption, WorkerAssumption
USE DEF schedulerVars, operationVars, requestVars, durableVars, workerVars,
        Goto, Lock, Release, Free, Share, End

\* A process that ends, for whatever reason.
LEMMA StopKeeps ==
  ASSUME IInv, NEW w \in Workers, Stop(w), crashes' \in 0..MaxTogether
  PROVE  IInv'
<1>1. TypeOK'
  BY DEF IInv, TypeOK, SchedulerTypeOK, OperationsTypeOK, Stop, Created, Items, Queued
<1>2. TriggersAdvance'
  BY DEF IInv, TypeOK, SchedulerTypeOK, TriggersAdvance, Registered, Stop
<1>3. ClaimsAndItems'
  BY DEF IInv, TypeOK, ClaimsAndItems, Stop, Items, Queued
<1> QED BY <1>1, <1>2, <1>3 DEF IInv

\* A job is refused or accepted only while it is pending.
LEMMA FinalizeKeeps == ASSUME IInv, NEW w \in Workers, Finalize(w) PROVE IInv'
<1>1. Pending \subseteq Created /\ Created \subseteq AllJobs
  BY DEF Pending, Created, Queued, AllJobs
<1>2. PICK ok \in SUBSET Pending :
        /\ accepted' = accepted \cup ok
        /\ \E refused \in SUBSET (Pending \ ok) : \E old \in SUBSET refused :
             refusals' = [j \in AllJobs |-> IF j \in old THEN MaxRefusals
                                            ELSE IF j \in refused THEN refusals[j] + 1
                                            ELSE refusals[j]]
  BY DEF Finalize
<1>3. PICK refused \in SUBSET (Pending \ ok) : \E old \in SUBSET refused :
        refusals' = [j \in AllJobs |-> IF j \in old THEN MaxRefusals
                                       ELSE IF j \in refused THEN refusals[j] + 1
                                       ELSE refusals[j]]
  BY <1>2
<1>4. accepted' \subseteq Created
  BY <1>1, <1>2 DEF IInv, TypeOK
<1>5. refusals' \in [AllJobs -> 0..MaxRefusals]
  <2>1. refusals \in [AllJobs -> 0..MaxRefusals]
    BY DEF IInv, TypeOK
  <2>2. ASSUME NEW j \in AllJobs, j \in refused PROVE refusals[j] + 1 \in 0..MaxRefusals
    <3>1. refusals[j] # MaxRefusals
      BY <2>2 DEF Pending, Quarantined
    <3> QED BY <2>1, <3>1
  <2> QED BY <1>3, <2>1, <2>2
<1>6. TypeOK'
  BY <1>4, <1>5 DEF IInv, TypeOK, SchedulerTypeOK, OperationsTypeOK, Finalize, Created,
                    Items, Queued
<1>7. TriggersAdvance'
  BY DEF IInv, TypeOK, TriggersAdvance, Registered, Finalize
<1>8. ClaimsAndItems'
  BY DEF IInv, TypeOK, ClaimsAndItems, Finalize, Items, Queued
<1> QED BY <1>6, <1>7, <1>8 DEF IInv

\* The clock a worker reads is the present, so it is not behind any trigger.
LEMMA ReadClockKeeps == ASSUME IInv, NEW w \in Workers, ReadClock(w) PROVE IInv'
<1>1. TypeOK'
  BY DEF IInv, TypeOK, SchedulerTypeOK, OperationsTypeOK, ReadClock, Created, Items,
         Queued
<1>2. TriggersAdvance'
  BY DEF IInv, TypeOK, TriggersAdvance, Registered, ReadClock, SchedulerTypeOK
<1>3. ClaimsAndItems'
  BY DEF IInv, TypeOK, ClaimsAndItems, ReadClock, Items, Queued
<1> QED BY <1>1, <1>2, <1>3 DEF IInv

\* Registering the packs moves no trigger back and leaves every trigger theirs.
LEMMA RegisterPackKeeps == ASSUME IInv, NEW w \in Workers, RegisterPack(w) PROVE IInv'
<1>1. ASSUME NEW r \in Routines
      PROVE  /\ trigger'[r] = IF trigger[r].revision # pack
                                THEN [revision |-> pack, next |-> now[w] + 1] ELSE trigger[r]
             /\ trigger'[r] \in [revision : 1..MaxRevision, next : 1..(MaxTime + 1)]
             /\ trigger[r].next <= trigger'[r].next /\ trigger'[r].next <= time + 1
             /\ trigger'[r].revision = pack
  <2>1. /\ trigger[r] \in [revision : 1..MaxRevision, next : 1..(MaxTime + 1)]
        /\ pack \in 1..MaxRevision /\ now[w] \in 0..MaxTime /\ time \in 0..MaxTime
    BY DEF IInv, TypeOK, SchedulerTypeOK
  <2>2. /\ trigger[r].next <= time + 1 /\ now[w] <= time
        /\ trigger[r].revision # pack => trigger[r].next <= now[w] + 1
    BY DEF IInv, TriggersAdvance, RegisterPack
  <2>3. trigger'[r] = IF trigger[r].revision # pack
                        THEN [revision |-> pack, next |-> now[w] + 1] ELSE trigger[r]
    BY DEF RegisterPack, Register
  <2> QED BY <2>1, <2>2, <2>3
<1>2. TypeOK'
  <2>1. trigger' \in [Routines -> [revision : 1..MaxRevision, next : 1..(MaxTime + 1)]]
    BY <1>1 DEF RegisterPack, Register
  <2>2. dropped' \subseteq Fires
    BY DEF IInv, TypeOK, SchedulerTypeOK, RegisterPack, Register
  <2> QED BY <2>1, <2>2 DEF IInv, TypeOK, SchedulerTypeOK, OperationsTypeOK, RegisterPack,
                            Created, Items, Queued
<1>3. TriggersAdvance'
  <2>1. \A f \in Fires : outcome'[f] # "none" => f[2] < trigger'[f[1]].next
    <3>1. ASSUME NEW f \in Fires, outcome[f] # "none" PROVE f[2] < trigger'[f[1]].next
      <4>1. f[1] \in Routines /\ f[2] \in 1..MaxTime
        BY DEF Fires
      <4>2. f[2] < trigger[f[1]].next
        BY <3>1 DEF IInv, TriggersAdvance
      <4>3. /\ trigger[f[1]].next \in Nat /\ trigger'[f[1]].next \in Nat
            /\ trigger[f[1]].next <= trigger'[f[1]].next
        BY <1>1, <1>2, <4>1 DEF IInv, TypeOK, SchedulerTypeOK
      <4> QED BY <4>1, <4>2, <4>3
    <3> QED BY <3>1 DEF RegisterPack
  <2>2. \A r \in Routines : trigger'[r].next <= time' + 1 /\ trigger'[r].revision = pack'
    BY <1>1 DEF RegisterPack
  <2>3. \A v \in Workers : now'[v] <= time'
    BY DEF IInv, TypeOK, SchedulerTypeOK, TriggersAdvance, RegisterPack
  <2> QED BY <2>1, <2>2, <2>3 DEF TriggersAdvance
<1>4. ClaimsAndItems'
  BY DEF IInv, TypeOK, ClaimsAndItems, RegisterPack, Items, Queued
<1> QED BY <1>2, <1>3, <1>4 DEF IInv

\* Locking the tenant changes no record.
LEMMA BeginScanKeeps == ASSUME IInv, NEW w \in Workers, BeginScan(w) PROVE IInv'
<1>1. TypeOK'
  BY DEF IInv, TypeOK, SchedulerTypeOK, OperationsTypeOK, BeginScan, Created, Items,
         Queued, Actors
<1>2. TriggersAdvance'
  BY DEF IInv, TypeOK, TriggersAdvance, Registered, BeginScan
<1>3. ClaimsAndItems'
  BY DEF IInv, TypeOK, ClaimsAndItems, BeginScan, Items, Queued
<1> QED BY <1>1, <1>2, <1>3 DEF IInv

\* Taking the ledger changes no record.
LEMMA TakeLedgerKeeps == ASSUME IInv, NEW w \in Workers, TakeLedger(w) PROVE IInv'
<1>1. TypeOK'
  BY DEF IInv, TypeOK, SchedulerTypeOK, OperationsTypeOK, TakeLedger, Created,
         Items, Queued, Actors
<1>2. TriggersAdvance'
  BY DEF IInv, TypeOK, TriggersAdvance, Registered, TakeLedger
<1>3. ClaimsAndItems'
  BY DEF IInv, TypeOK, ClaimsAndItems, TakeLedger, Items, Queued
<1> QED BY <1>1, <1>2, <1>3 DEF IInv

\* The open items that are locked are items.
LEMMA ObserveItemsKeeps == ASSUME IInv, NEW w \in Workers, ObserveItems(w) PROVE IInv'
<1>1. TypeOK'
  BY DEF IInv, TypeOK, SchedulerTypeOK, OperationsTypeOK, ObserveItems, Created,
         Items, Queued, Actors, OpenItems
<1>2. TriggersAdvance'
  BY DEF IInv, TypeOK, TriggersAdvance, Registered, ObserveItems
<1>3. ClaimsAndItems'
  BY DEF IInv, TypeOK, ClaimsAndItems, ObserveItems, Items, Queued
<1> QED BY <1>1, <1>2, <1>3 DEF IInv

\* An attempt is numbered within the attempts a job has.
LEMMA ClaimJobKeeps == ASSUME IInv, NEW w \in Workers, ClaimJob(w) PROVE IInv'
<1>1. \/ UNCHANGED <<operationVars, claim>> /\ pc' = [pc EXCEPT ![w] = "finalize"]
      \/ \E j \in AllJobs : /\ attempts[j] < MaxAttempts
                            /\ attempts' = [attempts EXCEPT ![j] = @ + 1]
                            /\ live' = live \cup {j} /\ result' = result
                            /\ claim' = [claim EXCEPT ![w] = <<j, attempts[j] + 1>>]
                            /\ pc' = [pc EXCEPT ![w] = "execute"]
  BY DEF ClaimJob, Claim, ClaimOf, Claimable, Created, Queued, AllJobs
<1>2. /\ OperationsTypeOK'
      /\ claim' \in [Workers -> Claims \cup {NoClaim}]
      /\ \A v \in Workers : pc'[v] = "execute" => claim'[v] \in Claims
  <2>1. CASE UNCHANGED <<operationVars, claim>> /\ pc' = [pc EXCEPT ![w] = "finalize"]
    BY <2>1 DEF IInv, TypeOK, OperationsTypeOK, ClaimsAndItems
  <2>2. ASSUME NEW j \in AllJobs, attempts[j] < MaxAttempts,
               attempts' = [attempts EXCEPT ![j] = @ + 1],
               live' = live \cup {j}, result' = result,
               claim' = [claim EXCEPT ![w] = <<j, attempts[j] + 1>>],
               pc' = [pc EXCEPT ![w] = "execute"]
        PROVE  /\ OperationsTypeOK'
               /\ claim' \in [Workers -> Claims \cup {NoClaim}]
               /\ \A v \in Workers : pc'[v] = "execute" => claim'[v] \in Claims
    <3>1. <<j, attempts[j] + 1>> \in Claims
      BY <2>2 DEF IInv, TypeOK, OperationsTypeOK, Claims
    <3>2. attempts \in [AllJobs -> 0..MaxAttempts] /\ attempts[j] + 1 \in 0..MaxAttempts
      BY <2>2 DEF IInv, TypeOK, OperationsTypeOK
    <3>3. attempts' \in [AllJobs -> 0..MaxAttempts]
      BY <2>2, <3>2
    <3>4. OperationsTypeOK'
      BY <2>2, <3>3 DEF IInv, TypeOK, OperationsTypeOK
    <3>5. claim' \in [Workers -> Claims \cup {NoClaim}]
      BY <2>2, <3>1 DEF IInv, TypeOK
    <3>6. \A v \in Workers : pc'[v] = "execute" => claim'[v] \in Claims
      BY <2>2, <3>1 DEF IInv, TypeOK, ClaimsAndItems
    <3> QED BY <3>4, <3>5, <3>6
  <2> QED BY <1>1, <2>1, <2>2
<1>3. TypeOK'
  <2>1. SchedulerTypeOK'
    BY DEF IInv, TypeOK, SchedulerTypeOK, ClaimJob, Items, Queued
  <2>2. Created' = Created /\ Items' = Items
    BY DEF ClaimJob, Created, Items, Queued
  <2> QED BY <1>2, <2>1, <2>2 DEF IInv, TypeOK, ClaimJob
<1>4. TriggersAdvance'
  BY DEF IInv, TypeOK, TriggersAdvance, Registered, ClaimJob
<1>5. ClaimsAndItems'
  BY <1>2 DEF IInv, ClaimsAndItems, ClaimJob, Items, Queued
<1> QED BY <1>3, <1>4, <1>5 DEF IInv

\* A result is the number of an attempt.
LEMMA CompleteJobKeeps == ASSUME IInv, NEW w \in Workers, CompleteJob(w) PROVE IInv'
<1>1. TypeOK'
  BY DEF IInv, TypeOK, SchedulerTypeOK, OperationsTypeOK, CompleteJob, Complete,
         Created, Items, Queued, ClaimsAndItems, Claims
<1>2. TriggersAdvance'
  BY DEF IInv, TypeOK, TriggersAdvance, Registered, CompleteJob, Complete
<1>3. ClaimsAndItems'
  BY DEF IInv, TypeOK, ClaimsAndItems, CompleteJob, Complete, Items, Queued
<1> QED BY <1>1, <1>2, <1>3 DEF IInv

\* An attempt that is given up stays counted.
LEMMA RetryLaterKeeps == ASSUME IInv, NEW w \in Workers, RetryLater(w) PROVE IInv'
<1>1. TypeOK'
  BY DEF IInv, TypeOK, SchedulerTypeOK, OperationsTypeOK, RetryLater, Created,
         Items, Queued
<1>2. TriggersAdvance'
  BY DEF IInv, TypeOK, TriggersAdvance, Registered, RetryLater
<1>3. ClaimsAndItems'
  BY DEF IInv, TypeOK, ClaimsAndItems, RetryLater, Items, Queued
<1> QED BY <1>1, <1>2, <1>3 DEF IInv

\* A restarted worker has read no clock and claimed nothing.
LEMMA RestartKeeps == ASSUME IInv, NEW w \in Workers, Restart(w) PROVE IInv'
<1>1. TypeOK'
  BY DEF IInv, TypeOK, SchedulerTypeOK, OperationsTypeOK, Restart, Created, Items,
         Queued
<1>2. TriggersAdvance'
  BY DEF IInv, TypeOK, TriggersAdvance, Registered, Restart
<1>3. ClaimsAndItems'
  BY DEF IInv, TypeOK, ClaimsAndItems, Restart, Items, Queued
<1> QED BY <1>1, <1>2, <1>3 DEF IInv

\* The item a request checks is one a scan has queued.
LEMMA CheckItemKeeps == ASSUME IInv, NEW q \in Requests, CheckItem(q) PROVE IInv'
<1>1. TypeOK'
  BY DEF IInv, TypeOK, SchedulerTypeOK, OperationsTypeOK, CheckItem, Created, Items,
         Queued, OpenItems, Actors
<1>2. TriggersAdvance'
  BY DEF IInv, TypeOK, TriggersAdvance, Registered, CheckItem
<1>3. ClaimsAndItems'
  BY DEF IInv, TypeOK, ClaimsAndItems, CheckItem, Items, Queued, OpenItems
<1> QED BY <1>1, <1>2, <1>3 DEF IInv

\* A request keeps the item it has checked.
LEMMA AppendEventKeeps == ASSUME IInv, NEW q \in Requests, AppendEvent(q) PROVE IInv'
<1>1. TypeOK'
  BY DEF IInv, TypeOK, SchedulerTypeOK, OperationsTypeOK, AppendEvent, Created,
         Items, Queued, Actors, Fires
<1>2. TriggersAdvance'
  BY DEF IInv, TypeOK, TriggersAdvance, Registered, AppendEvent
<1>3. ClaimsAndItems'
  BY DEF IInv, TypeOK, ClaimsAndItems, AppendEvent, Items, Queued
<1> QED BY <1>1, <1>2, <1>3 DEF IInv

\* The request closes the item it has checked, or starts its run.
LEMMA CommitRequestKeeps == ASSUME IInv, NEW q \in Requests, CommitRequest(q) PROVE IInv'
<1>1. closed' \subseteq Items
  BY DEF IInv, TypeOK, SchedulerTypeOK, ClaimsAndItems, CommitRequest, CloseItem
<1>2. /\ request' \in [Requests -> [at : {"new", "checked", "appending", "done", "started",
                                          "failed"},
                                    item : Fires \cup {NoFire}]]
      /\ \A p \in Requests : p # q => request'[p] = request[p]
      /\ request'[q].item = NoFire /\ request[q].at = "appending"
  BY DEF IInv, TypeOK, CommitRequest
<1>3. Created \subseteq Created' /\ Items' = Items
  BY <1>2 DEF CommitRequest, Created, Items, Queued
<1>4. TypeOK'
  BY <1>1, <1>2, <1>3 DEF IInv, TypeOK, SchedulerTypeOK, OperationsTypeOK, CommitRequest
<1>5. TriggersAdvance'
  BY DEF IInv, TypeOK, TriggersAdvance, CommitRequest
<1>6. ClaimsAndItems'
  BY <1>2, <1>3 DEF IInv, ClaimsAndItems, CommitRequest
<1> QED BY <1>4, <1>5, <1>6 DEF IInv

\* Fires that come due are not recorded yet.
LEMMA FireDueKeeps == ASSUME IInv, FireDue PROVE IInv'
<1>1. TypeOK'
  BY DEF IInv, TypeOK, SchedulerTypeOK, OperationsTypeOK, FireDue, Created, Items,
         Queued
<1>2. TriggersAdvance'
  BY DEF IInv, TypeOK, TriggersAdvance, Registered, FireDue, SchedulerTypeOK
<1>3. ClaimsAndItems'
  BY DEF IInv, TypeOK, ClaimsAndItems, FireDue, Items, Queued
<1> QED BY <1>1, <1>2, <1>3 DEF IInv

\* An expired claim leaves the attempts counted.
LEMMA ExpireClaimKeeps == ASSUME IInv, NEW j \in AllJobs, ExpireClaim(j) PROVE IInv'
<1>1. TypeOK'
  BY DEF IInv, TypeOK, SchedulerTypeOK, OperationsTypeOK, ExpireClaim, Expire,
         Created, Items, Queued
<1>2. TriggersAdvance'
  BY DEF IInv, TypeOK, TriggersAdvance, Registered, ExpireClaim, Expire
<1>3. ClaimsAndItems'
  BY DEF IInv, TypeOK, ClaimsAndItems, ExpireClaim, Expire, Items, Queued
<1> QED BY <1>1, <1>2, <1>3 DEF IInv

\* New packs come while no worker is past its registration.
LEMMA DeployKeeps == ASSUME IInv, Deploy PROVE IInv'
<1>1. TypeOK'
  BY DEF IInv, TypeOK, SchedulerTypeOK, OperationsTypeOK, Deploy, MayDisturb,
         Created, Items, Queued
<1>2. TriggersAdvance'
  BY DEF IInv, TypeOK, TriggersAdvance, Registered, Deploy, MayDisturb
<1>3. ClaimsAndItems'
  BY DEF IInv, TypeOK, ClaimsAndItems, Deploy, MayDisturb, Items, Queued
<1> QED BY <1>1, <1>2, <1>3 DEF IInv

\* A plan gives every due fire an outcome.
LEMMA PlanOutcomes ==
  ASSUME NEW r \in Routines, NEW n, NEW pending, NEW open, NEW t \in Due(r, n)
  PROVE  /\ DOMAIN Blocked(r, Plan(r, n, pending, open)) = Due(r, n)
         /\ Blocked(r, Plan(r, n, pending, open))[t] \in Outcomes
BY DEF Blocked, Plan, CaughtUp, WhenPending, Outcomes

\* A scan records due fires only, and those have no outcome yet: what is recorded
\* stands.
LEMMA RecordedStands ==
  ASSUME IInv, NEW n, NEW pending, NEW open, RecordPlans(n, pending, open)
  PROVE  \A f \in Fires : outcome[f] # "none" => outcome'[f] = outcome[f]
<1>1. SUFFICES ASSUME NEW f \in Fires, outcome[f] # "none", f[2] \in Due(f[1], n)
               PROVE  FALSE
  BY DEF RecordPlans
<1>2. f[1] \in Routines /\ f[2] \in 1..MaxTime
  BY DEF Fires
<1>3. trigger[f[1]].next \in Nat /\ trigger[f[1]].next <= f[2]
  BY <1>1, <1>2 DEF IInv, TypeOK, SchedulerTypeOK, Due
<1>4. f[2] < trigger[f[1]].next
  BY <1>1 DEF IInv, TriggersAdvance
<1> QED BY <1>2, <1>3, <1>4

\* A scan moves each trigger past the fires it records and never back.
LEMMA CommitScanKeeps == ASSUME IInv, NEW w \in Workers, CommitScan(w) PROVE IInv'
<1>1. PICK pending, gates : RecordPlans(now[w], pending, gates)
  BY DEF CommitScan
<1>2. now[w] \in 0..MaxTime /\ now[w] <= time
  BY DEF CommitScan, IInv, TypeOK, TriggersAdvance
<1>3. outcome' \in [Fires -> Outcomes \cup {"none"}]
  <2>1. ASSUME NEW f \in Fires, f[2] \in Due(f[1], now[w])
        PROVE  Blocked(f[1], Plan(f[1], now[w], f[1] \in pending, f[1] \in gates))[f[2]]
                 \in Outcomes
    BY <2>1, PlanOutcomes DEF Fires
  <2> QED BY <1>1, <2>1 DEF RecordPlans, IInv, TypeOK, SchedulerTypeOK, Fires
<1>4. \A f \in Fires : outcome[f] # "none" => outcome'[f] = outcome[f]
  BY <1>1, RecordedStands
<1>5. Items \subseteq Items' /\ Created \subseteq Created'
  BY <1>4 DEF CommitScan, Items, Created, Queued
<1>6. \A r \in Routines : trigger'[r] = IF Due(r, now[w]) = {} THEN trigger[r]
                                        ELSE [trigger[r] EXCEPT !.next = now[w] + 1]
  BY <1>1 DEF RecordPlans
<1>7. trigger' \in [Routines -> [revision : 1..MaxRevision, next : 1..(MaxTime + 1)]]
  BY <1>1, <1>2 DEF RecordPlans, IInv, TypeOK, SchedulerTypeOK
<1>8. alarms' \subseteq Items' \X Observed
  <2>1. OpenItems' \subseteq Items' /\ closed \subseteq Items'
    BY <1>5 DEF OpenItems, IInv, TypeOK, SchedulerTypeOK
  <2>2. \A seats : Observations(now[w], OpenItems', seats) \subseteq Items' \X Observed
    BY <2>1 DEF Observations, Observed, Terminal
  <2> QED BY <1>5, <2>2 DEF CommitScan, IInv, TypeOK, SchedulerTypeOK
<1>9. SchedulerTypeOK'
  BY <1>3, <1>5, <1>7, <1>8 DEF CommitScan, IInv, TypeOK, SchedulerTypeOK
<1>10. TypeOK'
  BY <1>5, <1>9 DEF CommitScan, IInv, TypeOK, OperationsTypeOK
<1>11. TriggersAdvance'
  <2>1. ASSUME NEW r \in Routines
        PROVE  /\ trigger[r].next \in Nat /\ trigger[r].next <= trigger'[r].next
               /\ trigger'[r].next \in Nat /\ trigger'[r].next <= time + 1
               /\ trigger'[r].revision = trigger[r].revision
               /\ Due(r, now[w]) # {} => trigger'[r].next = now[w] + 1
    <3>1. trigger[r].next \in 1..(MaxTime + 1) /\ trigger[r].next <= time + 1 /\ time \in 0..MaxTime
               /\ MaxTime \in Nat
      BY DEF IInv, TypeOK, SchedulerTypeOK, TriggersAdvance
    <3>2. Due(r, now[w]) # {} => trigger[r].next <= now[w]
      BY <1>2, <3>1 DEF Due
    <3>3. trigger[r] \in [revision : 1..MaxRevision, next : 1..(MaxTime + 1)]
      BY DEF IInv, TypeOK, SchedulerTypeOK
    <3>4. CASE Due(r, now[w]) = {}
      <4>1. trigger'[r] = trigger[r]
        BY <1>6, <3>4
      <4> QED BY <3>1, <3>4, <4>1
    <3>5. CASE Due(r, now[w]) # {}
      <4>1. trigger'[r] = [trigger[r] EXCEPT !.next = now[w] + 1]
        BY <1>6, <3>5
      <4>2. trigger'[r].next = now[w] + 1 /\ trigger'[r].revision = trigger[r].revision
        BY <3>3, <4>1
      <4> QED BY <1>2, <3>1, <3>2, <3>5, <4>2
    <3> QED BY <3>4, <3>5
  <2>2. ASSUME NEW f \in Fires, outcome'[f] # "none" PROVE f[2] < trigger'[f[1]].next
    <3>1. f[1] \in Routines /\ f[2] \in 1..MaxTime
      BY DEF Fires
    <3>2. CASE f[2] \in Due(f[1], now[w])
      BY <1>2, <2>1, <3>1, <3>2 DEF Due
    <3>3. CASE f[2] \notin Due(f[1], now[w])
      <4>1. outcome[f] # "none"
        BY <1>1, <2>2, <3>3 DEF RecordPlans
      <4>2. f[2] < trigger[f[1]].next
        BY <4>1 DEF IInv, TriggersAdvance
      <4> QED BY <2>1, <3>1, <4>2
    <3> QED BY <3>2, <3>3
  <2>3. \A r \in Routines : trigger'[r].revision = pack'
    BY <2>1 DEF CommitScan, IInv, TriggersAdvance, Registered
  <2>4. \A v \in Workers : now'[v] <= time'
    BY DEF IInv, TypeOK, SchedulerTypeOK, TriggersAdvance, CommitScan
  <2> QED BY <2>1, <2>2, <2>3, <2>4 DEF TriggersAdvance, CommitScan
<1>12. ClaimsAndItems'
  BY <1>5 DEF IInv, TypeOK, ClaimsAndItems, CommitScan
<1> QED BY <1>10, <1>11, <1>12 DEF IInv

\* A request that ends without effect had not started a run.
LEMMA FailRequestKeeps ==
  ASSUME IInv, NEW q \in Requests, request[q].at # "started", FailRequest(q)
  PROVE  IInv'
<1>1. /\ request' \in [Requests -> [at : {"new", "checked", "appending", "done", "started",
                                          "failed"},
                                    item : Fires \cup {NoFire}]]
      /\ \A p \in Requests : p # q => request'[p] = request[p]
      /\ request'[q].item = NoFire
  BY DEF IInv, TypeOK, FailRequest
<1>2. Created \subseteq Created' /\ Items' = Items
  BY <1>1 DEF FailRequest, Created, Items, Queued
<1>3. TypeOK'
  BY <1>1, <1>2 DEF IInv, TypeOK, SchedulerTypeOK, OperationsTypeOK, FailRequest
<1>4. TriggersAdvance'
  BY DEF IInv, TypeOK, TriggersAdvance, FailRequest
<1>5. ClaimsAndItems'
  BY <1>1, <1>2 DEF IInv, ClaimsAndItems, FailRequest
<1> QED BY <1>3, <1>4, <1>5 DEF IInv

\* Only an actor that waits can be ended, and no request waits once it has started.
LEMMA EndDeadlockKeeps == ASSUME IInv, NEW a \in Actors, EndDeadlock(a) PROVE IInv'
<1>1. CASE a \in Workers
  BY <1>1, StopKeeps DEF EndDeadlock, IInv, TypeOK
<1>2. CASE a \notin Workers
  <2>1. a \in Requests /\ FailRequest(a)
    BY <1>2 DEF EndDeadlock, Actors
  <2>2. Wanted(a) # {}
    BY DEF EndDeadlock, InCycle, WaitsFor
  <2>3. request[a].at # "started"
    BY <1>2, <2>2 DEF Wanted
  <2> QED BY <2>1, <2>3, FailRequestKeeps
<1> QED BY <1>1, <1>2

\* Initially nothing is recorded and every trigger waits for the first time.
LEMMA InitIInv == Init => IInvAlone
<1> SUFFICES ASSUME Init PROVE IInvAlone
  OBVIOUS
<1>1. /\ Items = {} /\ Queued("synthetic") = {} /\ Created = {}
  BY DEF Init, SchedulerInit, Items, Queued, Created
<1>2. SchedulerTypeOK /\ OperationsTypeOK
  BY <1>1 DEF Init, SchedulerInit, OperationsInit, SchedulerTypeOK, OperationsTypeOK
<1>3. TypeOK
  BY <1>1, <1>2 DEF Init, TypeOK
<1>4. TriggersAdvance
  BY DEF Init, SchedulerInit, TriggersAdvance, Registered
<1>5. ClaimsAndItems
  BY DEF Init, ClaimsAndItems
<1>6. OneAtATime
  BY <1>1 DEF OneAtATime, OpenItem, OpenItems, Unsettled
<1> QED BY <1>3, <1>4, <1>5, <1>6 DEF IInvAlone, IInv

\* Every step keeps the invariant, and every step but the commit of a scan leaves
\* the recorded outcomes, closed items and results as they are or adds to them.
LEMMA StepKeeps ==
  ASSUME IInv, [Next]_vars
  PROVE  IInv' /\ (OnlyCloses \/ \E w \in Workers : CommitScan(w))
<1>1. ASSUME NEW w \in Workers, Finalize(w) PROVE IInv' /\ OnlyCloses
  BY <1>1, FinalizeKeeps DEF Finalize, OnlyCloses, Settled
<1>2. ASSUME NEW w \in Workers, ReadClock(w) PROVE IInv' /\ OnlyCloses
  BY <1>2, ReadClockKeeps DEF ReadClock, OnlyCloses, Settled
<1>3. ASSUME NEW w \in Workers, RegisterPack(w) PROVE IInv' /\ OnlyCloses
  BY <1>3, RegisterPackKeeps DEF RegisterPack, OnlyCloses, Settled
<1>4. ASSUME NEW w \in Workers, BeginScan(w) PROVE IInv' /\ OnlyCloses
  BY <1>4, BeginScanKeeps DEF BeginScan, OnlyCloses, Settled
<1>5. ASSUME NEW w \in Workers, Stop(w), crashes' \in 0..MaxTogether PROVE IInv' /\ OnlyCloses
  BY <1>5, StopKeeps DEF Stop, OnlyCloses, Settled
<1>6. crashes \in 0..MaxTogether /\ crashes + (pack - 1) < MaxTogether
        => crashes + 1 \in 0..MaxTogether
  BY DEF IInv, TypeOK
<1>7. crashes \in 0..MaxTogether
  BY DEF IInv, TypeOK
<1>8. ASSUME NEW w \in Workers, RefuseBacklog(w) \/ LoseFence(w) PROVE IInv' /\ OnlyCloses
  BY <1>5, <1>7, <1>8 DEF RefuseBacklog, LoseFence
<1>9. ASSUME NEW w \in Workers, Crash(w) PROVE IInv' /\ OnlyCloses
  BY <1>5, <1>6, <1>7, <1>9 DEF Crash, MayDisturb
<1>10. ASSUME NEW w \in Workers, TakeLedger(w) PROVE IInv' /\ OnlyCloses
  BY <1>10, TakeLedgerKeeps DEF TakeLedger, OnlyCloses, Settled
<1>11. ASSUME NEW w \in Workers, ObserveItems(w) PROVE IInv' /\ OnlyCloses
  BY <1>11, ObserveItemsKeeps DEF ObserveItems, OnlyCloses, Settled
<1>12. ASSUME NEW w \in Workers, ClaimJob(w) PROVE IInv' /\ OnlyCloses
  BY <1>12, ClaimJobKeeps DEF ClaimJob, Claim, OnlyCloses, Settled
<1>13. ASSUME NEW w \in Workers, CompleteJob(w) PROVE IInv' /\ OnlyCloses
  <2>1. \A j \in AllJobs : Settled(j) => Settled(j)'
    BY <1>13 DEF CompleteJob, Complete, Settled, IInv, TypeOK, OperationsTypeOK, ClaimsAndItems,
                 Claims
  <2> QED BY <1>13, <2>1, CompleteJobKeeps DEF CompleteJob, OnlyCloses
<1>14. ASSUME NEW w \in Workers, RetryLater(w) PROVE IInv' /\ OnlyCloses
  BY <1>14, RetryLaterKeeps DEF RetryLater, OnlyCloses, Settled
<1>15. ASSUME NEW w \in Workers, Restart(w) PROVE IInv' /\ OnlyCloses
  BY <1>15, RestartKeeps DEF Restart, OnlyCloses, Settled
<1>16. ASSUME NEW q \in Requests, CheckItem(q) PROVE IInv' /\ OnlyCloses
  BY <1>16, CheckItemKeeps DEF CheckItem, OnlyCloses, Settled
<1>17. ASSUME NEW q \in Requests, AppendEvent(q) PROVE IInv' /\ OnlyCloses
  BY <1>17, AppendEventKeeps DEF AppendEvent, OnlyCloses, Settled
<1>18. ASSUME NEW q \in Requests, CommitRequest(q) PROVE IInv' /\ OnlyCloses
  BY <1>18, CommitRequestKeeps DEF CommitRequest, CloseItem, OnlyCloses, Settled
<1>19. ASSUME NEW q \in Requests, request[q].at # "started", FailRequest(q)
       PROVE  IInv' /\ OnlyCloses
  BY <1>19, FailRequestKeeps DEF FailRequest, OnlyCloses, Settled
<1>20. ASSUME NEW a \in Actors, EndDeadlock(a) PROVE IInv' /\ OnlyCloses
  <2>1. OnlyCloses
    BY <1>20 DEF EndDeadlock, Stop, FailRequest, OnlyCloses, Settled
  <2> QED BY <1>20, <2>1, EndDeadlockKeeps
<1>21. ASSUME NEW j \in AllJobs, ExpireClaim(j) PROVE IInv' /\ OnlyCloses
  BY <1>21, ExpireClaimKeeps DEF ExpireClaim, Expire, OnlyCloses, Settled
<1>22. ASSUME FireDue PROVE IInv' /\ OnlyCloses
  BY <1>22, FireDueKeeps DEF FireDue, OnlyCloses, Settled
<1>23. ASSUME Deploy PROVE IInv' /\ OnlyCloses
  BY <1>23, DeployKeeps DEF Deploy, OnlyCloses, Settled
<1>24. ASSUME UNCHANGED vars PROVE IInv' /\ OnlyCloses
  <2>1. TypeOK'
    BY <1>24 DEF vars, IInv, TypeOK, SchedulerTypeOK, OperationsTypeOK, Created, Items, Queued
  <2>2. TriggersAdvance' /\ ClaimsAndItems'
    BY <1>24 DEF vars, IInv, TriggersAdvance, ClaimsAndItems, Items, Queued
  <2> QED BY <1>24, <2>1, <2>2 DEF vars, IInv, OnlyCloses, Settled
<1>25. ASSUME NEW w \in Workers, Tick(w) PROVE (IInv' /\ OnlyCloses) \/ (IInv' /\ CommitScan(w))
  BY <1>1, <1>2, <1>3, <1>4, <1>8, <1>10, <1>11, <1>12, <1>13, <1>14, <1>15, <1>25, CommitScanKeeps
     DEF Tick
<1>26. ASSUME NEW q \in Requests, Serve(q) \/ (Running(q) /\ FailRequest(q))
       PROVE  IInv' /\ OnlyCloses
  BY <1>16, <1>17, <1>18, <1>19, <1>26 DEF Serve, Running
<1> QED BY <1>9, <1>20, <1>21, <1>22, <1>23, <1>24, <1>25, <1>26 DEF Next

\* A fire a scan queues is behind no open item and, under a policy that waits,
\* behind no pending job; it is the first item, or with a cap of one the last job,
\* of what the scan queues for its routine.
LEMMA QueuedAlone ==
  ASSUME NEW r \in Routines, NEW n, NEW P, NEW G,
         NEW t \in Due(r, n), Blocked(r, Plan(r, n, r \in P, r \in G))[t] = "queued"
  PROVE  /\ Plan(r, n, r \in P, r \in G)[t] = "queued"
         /\ Handler[r] = "item"
              => /\ OpenItem(r) = {}
                 /\ \A u \in Due(r, n) : Plan(r, n, r \in P, r \in G)[u] = "queued" => ~(u < t)
         /\ Concurrency[r] # "always_enqueue_bounded" => r \notin P
         /\ CatchUpCap[r] = 1 => \A u \in Due(r, n) : ~(u > t)
<1>1. DOMAIN Plan(r, n, r \in P, r \in G) = Due(r, n)
  BY DEF Plan
<1>2. Plan(r, n, r \in P, r \in G)[t] = "queued"
  BY <1>1 DEF Blocked
<1>3. Handler[r] = "item"
        => /\ OpenItem(r) = {}
           /\ \A u \in Due(r, n) : Plan(r, n, r \in P, r \in G)[u] = "queued" => ~(u < t)
  BY <1>1, <1>2 DEF Blocked
<1>4. CaughtUp(r, Due(r, n), t) = "queued" /\ WhenPending(r, r \in P) = "queued"
  BY <1>2 DEF Plan, WhenPending, CaughtUp
<1>5. Concurrency[r] # "always_enqueue_bounded" => r \notin P
  BY <1>4 DEF WhenPending
<1>6. CatchUpCap[r] = 1 => \A u \in Due(r, n) : ~(u > t)
  <2> DEFINE later == {u \in Due(r, n) : u > t}
  <2>1. IsFiniteSet(later)
    <3>1. IsFiniteSet(1..MaxTime) /\ later \subseteq 1..MaxTime
      BY FS_Interval DEF Due
    <3> QED BY <3>1, FS_Subset
  <2>2. ASSUME CatchUpCap[r] = 1 PROVE Cardinality(later) = 0
    <3>1. Cardinality(later) \in Nat
      BY <2>1, FS_CardinalityType
    <3> QED BY <1>4, <2>2, <3>1 DEF CaughtUp
  <2> QED BY <2>1, <2>2, FS_EmptySet
<1> QED BY <1>2, <1>3, <1>5, <1>6

\* Steps that record nothing leave the open items and unsettled jobs alone or
\* take some away.
LEMMA OnlyClosesKeepsAlone == ASSUME IInv, OneAtATime, OnlyCloses PROVE OneAtATime'
<1>1. \A r \in Routines : OpenItem(r)' \subseteq OpenItem(r)
  BY DEF OnlyCloses, OpenItem, OpenItems, Items, Queued
<1>2. Unsettled' \cap Fires \subseteq Unsettled \cap Fires
  <2>1. SUFFICES ASSUME NEW f \in Fires, f \in Unsettled' PROVE f \in Unsettled
    OBVIOUS
  <2>2. f \in Queued("synthetic") /\ f \in AllJobs
    BY <2>1 DEF Unsettled, Created, Queued, OnlyCloses, Fires, AllJobs
  <2> QED BY <2>1, <2>2 DEF OnlyCloses, Unsettled, Created
<1> QED BY <1>1, <1>2 DEF OneAtATime

\* The fires a scan newly queues join no other of their routine.
LEMMA CommitScanKeepsAlone ==
  ASSUME IInv, OneAtATime, NEW w \in Workers, CommitScan(w)
  PROVE  OneAtATime'
<1>1. PICK pending, gates :
        /\ RecordPlans(now[w], pending, gates)
        /\ pending = {r \in Routines : Handler[r] = "synthetic" /\ Unsettled # {}}
  BY DEF CommitScan
<1> DEFINE n == now[w]
           plan(r) == Plan(r, n, r \in pending, r \in gates)
           New(f) == f[2] \in Due(f[1], n) /\ Blocked(f[1], plan(f[1]))[f[2]] = "queued"
<1>2. ASSUME NEW f \in Fires, outcome'[f] = "queued", outcome[f] # "queued" PROVE New(f)
  <2>1. f[1] \in Routines
    BY DEF Fires
  <2> QED BY <1>1, <1>2, <2>1 DEF RecordPlans
<1>3. closed' = closed /\ result' = result
  BY DEF CommitScan
<1>4. ASSUME NEW r \in Routines, NEW f \in OpenItem(r)', NEW g \in OpenItem(r)' PROVE f = g
  <2>1. /\ f \in Fires /\ g \in Fires /\ f[1] = r /\ g[1] = r /\ Handler[r] = "item"
        /\ outcome'[f] = "queued" /\ outcome'[g] = "queued" /\ f \notin closed /\ g \notin closed
    BY <1>3, <1>4 DEF OpenItem, OpenItems, Items, Queued
  <2>2. f = <<r, f[2]>> /\ g = <<r, g[2]>> /\ f[2] \in Nat /\ g[2] \in Nat
    BY <2>1 DEF Fires
  <2>3. \A h \in {f, g} : outcome[h] = "queued" => h \in OpenItem(r)
    BY <2>1 DEF OpenItem, OpenItems, Items, Queued
  <2>4. \A h \in {f, g} : outcome[h] # "queued"
          => /\ OpenItem(r) = {} /\ h[2] \in Due(r, n) /\ plan(r)[h[2]] = "queued"
             /\ \A u \in Due(r, n) : plan(r)[u] = "queued" => ~(u < h[2])
    <3>1. SUFFICES ASSUME NEW h \in {f, g}, outcome[h] # "queued"
                   PROVE  /\ OpenItem(r) = {} /\ h[2] \in Due(r, n) /\ plan(r)[h[2]] = "queued"
                          /\ \A u \in Due(r, n) : plan(r)[u] = "queued" => ~(u < h[2])
      OBVIOUS
    <3>2. h[2] \in Due(r, n) /\ Blocked(r, plan(r))[h[2]] = "queued"
      BY <1>2, <2>1, <3>1
    <3> QED BY <2>1, <3>2, QueuedAlone
  <2>5. CASE outcome[f] = "queued" \/ outcome[g] = "queued"
    BY <2>3, <2>4, <2>5 DEF OneAtATime
  <2>6. CASE outcome[f] # "queued" /\ outcome[g] # "queued"
    BY <2>2, <2>4, <2>6
  <2> QED BY <2>5, <2>6
<1>5. ASSUME NEW r \in Routines, Concurrency[r] # "always_enqueue_bounded", CatchUpCap[r] = 1,
             NEW i \in {j \in Unsettled' \cap Fires : j[1] = r},
             NEW k \in {j \in Unsettled' \cap Fires : j[1] = r}
      PROVE  i = k
  <2>1. /\ i \in Fires /\ k \in Fires /\ i[1] = r /\ k[1] = r /\ Handler[r] = "synthetic"
        /\ outcome'[i] = "queued" /\ outcome'[k] = "queued" /\ ~Settled(i) /\ ~Settled(k)
    BY <1>3, <1>5 DEF Unsettled, Created, Queued, Fires, Settled
  <2>2. i = <<r, i[2]>> /\ k = <<r, k[2]>> /\ i[2] \in Nat /\ k[2] \in Nat
    BY <2>1 DEF Fires
  <2>3. \A h \in {i, k} : outcome[h] = "queued" => h \in Unsettled \cap Fires
    BY <2>1 DEF Unsettled, Created, Queued
  <2>4. \A h \in {i, k} : outcome[h] # "queued"
          => /\ r \notin pending /\ h[2] \in Due(r, n)
             /\ \A u \in Due(r, n) : ~(u > h[2])
    <3>1. SUFFICES ASSUME NEW h \in {i, k}, outcome[h] # "queued"
                   PROVE  /\ r \notin pending /\ h[2] \in Due(r, n)
                          /\ \A u \in Due(r, n) : ~(u > h[2])
      OBVIOUS
    <3>2. h[2] \in Due(r, n) /\ Blocked(r, plan(r))[h[2]] = "queued"
      BY <1>2, <2>1, <3>1
    <3> QED BY <1>5, <3>2, QueuedAlone
  <2>5. CASE outcome[i] = "queued" /\ outcome[k] = "queued"
    BY <1>5, <2>1, <2>3, <2>5 DEF OneAtATime
  <2>6. CASE outcome[i] # "queued" /\ outcome[k] # "queued"
    BY <2>2, <2>4, <2>6
  <2>7. CASE (outcome[i] = "queued" /\ outcome[k] # "queued")
             \/ (outcome[k] = "queued" /\ outcome[i] # "queued")
    BY <1>1, <2>1, <2>3, <2>4, <2>7
  <2> QED BY <2>5, <2>6, <2>7
<1> QED BY <1>4, <1>5 DEF OneAtATime

\* The inductive invariant holds in every reachable state.
THEOREM Invariant == Spec => []IInvAlone
<1>1. IInvAlone /\ [Next]_vars => IInvAlone'
  BY StepKeeps, OnlyClosesKeepsAlone, CommitScanKeepsAlone DEF IInvAlone
<1> QED BY InitIInv, <1>1, PTL DEF Spec

\* Every variable keeps its type; in particular a claim is numbered within the
\* attempts, an acceptance or refusal is of a job that exists, and a closed or
\* alarmed item is one a scan has queued.
THEOREM TypeCorrect == Spec => []TypeOK
<1>1. IInvAlone => TypeOK
  BY DEF IInvAlone, IInv
<1> QED BY Invariant, <1>1, PTL

\* However many workers and requests there are: a routine has at most one open
\* work item, and one that waits for its handler at most one unsettled job.
THEOREM OneItemOneJob == Spec => []OneAtATime
<1>1. IInvAlone => OneAtATime
  BY DEF IInvAlone
<1> QED BY Invariant, <1>1, PTL

\* Once a fire is recorded its outcome stands: no rescan, second worker, crash or
\* new revision of its routine records it again.
THEOREM OutcomesStand ==
  Spec => [][\A f \in Fires : outcome[f] # "none" => outcome'[f] = outcome[f]]_vars
<1>1. IInvAlone /\ [Next]_vars
        => [\A f \in Fires : outcome[f] # "none" => outcome'[f] = outcome[f]]_vars
  <2> SUFFICES ASSUME IInv, [Next]_vars
               PROVE  \A f \in Fires : outcome[f] # "none" => outcome'[f] = outcome[f]
    BY DEF IInvAlone
  <2>1. CASE OnlyCloses
    BY <2>1 DEF OnlyCloses
  <2>2. ASSUME NEW w \in Workers, CommitScan(w)
        PROVE  \A f \in Fires : outcome[f] # "none" => outcome'[f] = outcome[f]
    <3>1. PICK pending, gates : RecordPlans(now[w], pending, gates)
      BY <2>2 DEF CommitScan
    <3> QED BY <3>1, RecordedStands
  <2> QED BY <2>1, <2>2, StepKeeps
<1> QED BY Invariant, <1>1, PTL DEF Spec
=============================================================================
