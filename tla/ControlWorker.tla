---------------------------- MODULE ControlWorker ----------------------------
(***************************************************************************)
(* The control worker: the loops of one tick in their order                *)
(* (ctower_api/control_worker.py), over the scheduler (RoutineScheduler)   *)
(* and the synthetic operation (FixedOperations), beside the API           *)
(* transactions that complete work items and start synthetic runs.         *)
(*                                                                         *)
(* A scan is one transaction that takes the tenant's row for update, the   *)
(* record position ledger for its first event and the rows of the open     *)
(* work items.  An API transaction takes its item's row, the ledger, and,  *)
(* for the foreign keys of what it inserts, the tenant's row shared: the   *)
(* other way round, so the two can wait for each other until PostgreSQL    *)
(* ends one of them.  An exception ends the worker's process; its service  *)
(* restarts it.                                                            *)
(***************************************************************************)
EXTENDS RoutineScheduler

CONSTANTS
  Workers,      \* control workers
  Requests,     \* API requests: to complete a work item or start a synthetic run
  NoClaim,      \* a worker that has claimed no job
  MaxAttempts,  \* _MAX_ATTEMPTS of a job
  MaxRefusals,  \* _MAX_REFUSAL_ATTEMPTS of a command by the finalizer
  MaxTogether   \* bound: crashes out of the blue and deployments together

ASSUME WorkerAssumption ==
  /\ IsFiniteSet(Workers) /\ IsFiniteSet(Requests)
  /\ Requests \cap (Routines \X (1..MaxTime)) = {}
  /\ MaxAttempts \in Nat \ {0} /\ MaxRefusals \in Nat \ {0} /\ MaxTogether \in Nat

VARIABLES
  attempts, live, result,  \* FixedOperations
  pack,      \* revision of the routine packs on disk
  pc,        \* [worker -> where its tick is]
  now,       \* [worker -> database time its transaction has read]
  claim,     \* [worker -> attempt it executes]
  request,   \* [request -> where it is, and the work item it completes]
  locks,     \* row locks held: <<actor, row>>
  accepted,  \* jobs whose occurrence has an acceptance confirmation
  refusals,  \* [job -> times the finalizer was refused its occurrence]
  crashes    \* crashes so far

\* The rows that are locked, beside those of the work items.
Tenant == <<"tenant">>
Ledger == <<"ledger">>

Actors   == Workers \cup Requests
AllJobs  == {f \in Fires : Handler[f[1]] = "synthetic"} \cup Requests

INSTANCE FixedOperations WITH Jobs <- AllJobs

operationVars == <<attempts, live, result>>
workerVars  == <<pc, now, claim>>
requestVars == <<request>>
durableVars == <<accepted, refusals>>
vars == <<schedulerVars, operationVars, workerVars, requestVars, durableVars,
          pack, locks, crashes>>

\* The jobs there are: of queued fires, and of the runs requests have started.
Created       == Queued("synthetic") \cup {q \in Requests : request[q].at = "started"}
Unsettled     == {j \in Created : ~Settled(j)}
Quarantined(j) == refusals[j] = MaxRefusals
Pending       == {j \in Created \ accepted : ~Quarantined(j)}

Init ==
  /\ SchedulerInit /\ OperationsInit
  /\ pack = 1
  /\ pc = [w \in Workers |-> "finalize"]
  /\ now = [w \in Workers |-> 0]
  /\ claim = [w \in Workers |-> NoClaim]
  /\ request = [q \in Requests |-> [at |-> "new", item |-> NoFire]]
  /\ locks = {}
  /\ accepted = {}
  /\ refusals = [j \in AllJobs |-> 0]
  /\ crashes = 0

-----------------------------------------------------------------------------
(* Locks                                                                   *)

Holders(row)   == {a \in Actors : <<a, row>> \in locks}
Free(a, rows)  == \A row \in rows : Holders(row) \subseteq {a}
Lock(a, rows)  == Free(a, rows) /\ locks' = locks \cup ({a} \X rows)
Release(a)     == locks' = {l \in locks : l[1] # a}

\* An insert checks its foreign key on the tenant, which waits while a scan
\* has the tenant's row.
Share(a) == Free(a, {Tenant})

\* New alarms of w's scan, given the items it leaves open.
NewAlarms(w, open, seats) == Observations(now[w], open, seats) \ alarms

\* The rows an actor that may hold others waits for.
Wanted(a) ==
  IF a \in Workers
    THEN CASE pc[a] = "plan" /\ AnyDue(now[a]) -> {Ledger}
           [] pc[a] = "observe" -> OpenItems
           [] pc[a] = "commit" /\ NewAlarms(a, OpenItems, TRUE) # {} -> {Ledger}
           [] OTHER -> {}
    ELSE CASE request[a].at = "checked" -> {Ledger}
           [] request[a].at = "appending" -> {Tenant}
           [] OTHER -> {}
WaitsFor(a) == UNION {Holders(row) : row \in Wanted(a)} \ {a}

\* The actors of a wait cycle.
InCycle(a) ==
  \E S \in SUBSET Actors :
    /\ a \in S
    /\ \A s \in S : WaitsFor(s) \cap S # {} /\ \E t \in S : s \in WaitsFor(t)

-----------------------------------------------------------------------------
(* One tick of a worker                                                    *)

Goto(w, step) == pc' = [pc EXCEPT ![w] = step]

\* The process ends: its transaction is rolled back, its claim stays to expire.
Stop(w) ==
  /\ Goto(w, "down")
  /\ now' = [now EXCEPT ![w] = 0]
  /\ claim' = [claim EXCEPT ![w] = NoClaim]
  /\ Release(w)
  /\ UNCHANGED <<schedulerVars, operationVars, requestVars, durableVars, pack>>

\* finalize_pending: each pending command is accepted, stays pending or is
\* refused; it is quarantined at the third refusal, or at once when it is ten
\* minutes old.
Finalize(w) ==
  /\ pc[w] = "finalize" /\ Share(w)
  /\ \E ok \in SUBSET Pending :
       /\ accepted' = accepted \cup ok
       /\ \E refused \in SUBSET (Pending \ ok) : \E old \in SUBSET refused :
            refusals' = [j \in AllJobs |-> IF j \in old THEN MaxRefusals
                                           ELSE IF j \in refused THEN refusals[j] + 1
                                           ELSE refusals[j]]
  /\ Goto(w, "register")
  /\ UNCHANGED <<schedulerVars, operationVars, requestVars, now, claim, pack, locks, crashes>>

\* The standby answers: no command stays pending.
Decided(w) ==
  Finalize(w) /\ \A j \in Pending : j \in accepted' \/ refusals'[j] # refusals[j]

\* register and scan read the clock before they wait for the tenant's row.
ReadClock(w) ==
  /\ pc[w] \in {"register", "scan"}
  /\ now' = [now EXCEPT ![w] = time]
  /\ Goto(w, IF pc[w] = "register" THEN "triggers" ELSE "tenant")
  /\ UNCHANGED <<schedulerVars, operationVars, requestVars, durableVars, claim, pack, locks,
                 crashes>>

\* RoutineLoop.tick registers every revision of its pack before it scans.
RegisterPack(w) ==
  /\ pc[w] = "triggers" /\ Free(w, {Tenant})
  /\ Register(pack, now[w])
  /\ now' = [now EXCEPT ![w] = 0]
  /\ Goto(w, "scan")
  /\ UNCHANGED <<time, outcome, closed, alarms, operationVars, requestVars, durableVars,
                 claim, pack, locks, crashes>>

\* scan locks the tenant and reads the due triggers.
BeginScan(w) ==
  /\ pc[w] = "tenant" /\ ~TooMany(now[w])
  /\ Lock(w, {Tenant})
  /\ Goto(w, "plan")
  /\ UNCHANGED <<schedulerVars, operationVars, requestVars, durableVars, now, claim, pack,
                 crashes>>

\* _plans refuses a routine with too many due fires: the exception ends the
\* tick and the process.
RefuseBacklog(w) ==
  /\ pc[w] = "tenant" /\ TooMany(now[w]) /\ Free(w, {Tenant})
  /\ Stop(w)
  /\ UNCHANGED crashes

\* The first occurrence's event takes the ledger.
TakeLedger(w) ==
  /\ pc[w] = "plan"
  /\ Lock(w, IF AnyDue(now[w]) THEN {Ledger} ELSE {})
  /\ Goto(w, "observe")
  /\ UNCHANGED <<schedulerVars, operationVars, requestVars, durableVars, now, claim, pack,
                 crashes>>

\* The alarms' query locks the open items.
ObserveItems(w) ==
  /\ pc[w] = "observe"
  /\ Lock(w, OpenItems)
  /\ Goto(w, "commit")
  /\ UNCHANGED <<schedulerVars, operationVars, requestVars, durableVars, now, claim, pack,
                 crashes>>

\* The scan's writes become visible.  Nothing it has read can have changed: no
\* other transaction of the tenant commits while it holds the tenant's row.
CommitScan(w) ==
  /\ pc[w] = "commit"
  /\ UNCHANGED <<time, closed, dropped, operationVars, requestVars, durableVars, claim, pack,
                 crashes>>
  /\ \E gates \in SUBSET Gated, seats \in BOOLEAN :
       /\ RecordPlans(now[w],
                      {r \in Routines : Handler[r] = "synthetic" /\ Unsettled # {}}, gates)
       /\ alarms' = alarms \cup Observations(now[w], OpenItems', seats)
       /\ alarms' # alarms => Free(w, {Ledger})
  /\ Release(w)
  /\ now' = [now EXCEPT ![w] = 0]
  /\ Goto(w, "claim")

\* _tick_synthetic claims a job (the oldest there is; here any) whose occurrence
\* is accepted.
ClaimJob(w) ==
  LET claimable == {j \in Created \cap accepted : Claimable(j)} IN
  /\ pc[w] = "claim" /\ Share(w)
  /\ \/ /\ claimable = {}
        /\ Goto(w, "finalize")
        /\ UNCHANGED <<operationVars, claim>>
     \/ \E j \in claimable :
          /\ Claim(j)
          /\ claim' = [claim EXCEPT ![w] = ClaimOf(j)]
          /\ Goto(w, "execute")
  /\ UNCHANGED <<schedulerVars, requestVars, durableVars, now, pack, locks, crashes>>

\* The handler succeeds or meets a problem, and the attempt is completed.
CompleteJob(w) ==
  /\ pc[w] = "execute" /\ Share(w)
  /\ Settled(claim[w][1]) \/ HoldsFence(claim[w])
  /\ Complete(claim[w])
  /\ claim' = [claim EXCEPT ![w] = NoClaim]
  /\ Goto(w, "finalize")
  /\ UNCHANGED <<schedulerVars, requestVars, durableVars, now, pack, locks,
                 crashes>>

\* SyntheticRetryError: a step of the handler is not accepted yet, and the
\* claim is left to expire.
RetryLater(w) ==
  /\ pc[w] = "execute"
  /\ claim' = [claim EXCEPT ![w] = NoClaim]
  /\ Goto(w, "finalize")
  /\ UNCHANGED <<schedulerVars, operationVars, requestVars, durableVars, now, pack, locks,
                 crashes>>

\* The completion has lost its fence: the exception ends the process.
LoseFence(w) ==
  /\ pc[w] = "execute" /\ Share(w)
  /\ ~Settled(claim[w][1]) /\ ~HoldsFence(claim[w])
  /\ Stop(w)
  /\ UNCHANGED crashes

MayDisturb == crashes + (pack - 1) < MaxTogether

\* The service restarts the process, which loads the packs on disk.
Restart(w) ==
  /\ pc[w] = "down"
  /\ Goto(w, "finalize")
  /\ UNCHANGED <<schedulerVars, operationVars, requestVars, durableVars, now, claim, pack, locks,
                 crashes>>

\* Any loop raises, or the process is killed.
Crash(w) ==
  /\ pc[w] # "down" /\ MayDisturb
  /\ crashes' = crashes + 1
  /\ Stop(w)

-----------------------------------------------------------------------------
(* Transactions of the API                                                 *)

End(q, step) == request' = [request EXCEPT ![q] = [at |-> step, item |-> NoFire]]

\* complete locks the item's row and reads its status: a closed one is refused.
CheckItem(q) ==
  /\ request[q].at = "new"
  /\ \E f \in OpenItems :
       /\ Lock(q, {f})
       /\ request' = [request EXCEPT ![q] = [at |-> "checked", item |-> f]]
  /\ UNCHANGED <<schedulerVars, operationVars, workerVars, durableVars, pack, crashes>>

\* append_event takes the next record position: start_synthetic's first write,
\* complete's after the checks.
AppendEvent(q) ==
  /\ request[q].at \in {"new", "checked"}
  /\ Lock(q, {Ledger})
  /\ request' = [request EXCEPT ![q].at = "appending"]
  /\ UNCHANGED <<schedulerVars, operationVars, workerVars, durableVars, pack, crashes>>

\* The event is inserted, and the item closed or the job created.
CommitRequest(q) ==
  /\ request[q].at = "appending" /\ Share(q)
  /\ IF request[q].item # NoFire
       THEN CloseItem(request[q].item) /\ End(q, "done")
       ELSE UNCHANGED closed /\ End(q, "started")
  /\ Release(q)
  /\ UNCHANGED <<time, trigger, outcome, alarms, dropped, operationVars, workerVars,
                 durableVars, pack, crashes>>

Running(q) == request[q].at \in {"checked", "appending"}

\* The transaction fails and is rolled back; a new try is another request.
FailRequest(q) ==
  /\ End(q, "failed")
  /\ Release(q)
  /\ UNCHANGED <<schedulerVars, operationVars, workerVars, durableVars, pack, crashes>>

-----------------------------------------------------------------------------
(* The rest of the world                                                   *)

\* PostgreSQL's deadlock detector ends one transaction of a wait cycle.
EndDeadlock(a) ==
  /\ InCycle(a)
  /\ IF a \in Workers THEN Stop(a) /\ UNCHANGED crashes ELSE FailRequest(a)

\* Time passes; fires come due.
FireDue ==
  /\ time < MaxTime
  /\ time' = time + 1
  /\ UNCHANGED <<trigger, outcome, closed, alarms, dropped, operationVars,
                 workerVars, requestVars, durableVars, pack, locks, crashes>>

ExpireClaim(j) ==
  /\ Expire(j)
  /\ UNCHANGED <<schedulerVars, workerVars, requestVars, durableVars, pack, locks, crashes>>

\* New packs are installed while the service is stopped.
Deploy ==
  /\ \A w \in Workers : pc[w] = "down"
  /\ pack < MaxRevision /\ MayDisturb
  /\ pack' = pack + 1
  /\ UNCHANGED <<schedulerVars, operationVars, workerVars, requestVars, durableVars, locks,
                 crashes>>

Tick(w) == \/ Finalize(w) \/ ReadClock(w) \/ RegisterPack(w) \/ BeginScan(w) \/ RefuseBacklog(w)
           \/ TakeLedger(w) \/ ObserveItems(w) \/ CommitScan(w)
           \/ ClaimJob(w) \/ CompleteJob(w) \/ RetryLater(w) \/ LoseFence(w) \/ Restart(w)
Serve(q) == CheckItem(q) \/ AppendEvent(q) \/ CommitRequest(q)

Next ==
  \/ \E w \in Workers : Tick(w) \/ Crash(w)
  \/ \E q \in Requests : Serve(q) \/ (Running(q) /\ FailRequest(q))
  \/ \E a \in Actors : EndDeadlock(a)
  \/ \E j \in AllJobs : ExpireClaim(j)
  \/ FireDue \/ Deploy

Spec == Init /\ [][Next]_vars

\* The worker ticks and is restarted; a lock that is waited for is granted in
\* turn; the standby answers again and again; a begun request goes on; deadlocks
\* are ended; claims expire.
FairSpec ==
  /\ Spec
  /\ \A w \in Workers : SF_vars(Tick(w)) /\ SF_vars(Decided(w))
  /\ \A q \in Requests : SF_vars(Running(q) /\ Serve(q))
  /\ WF_vars(\E a \in Actors : EndDeadlock(a))
  /\ \A j \in AllJobs : WF_vars(ExpireClaim(j))

-----------------------------------------------------------------------------
(* Properties                                                              *)

TypeOK ==
  /\ SchedulerTypeOK /\ OperationsTypeOK
  /\ pack \in 1..MaxRevision
  /\ pc \in [Workers -> {"down", "finalize", "register", "triggers", "scan", "tenant", "plan",
                         "observe", "commit", "claim", "execute"}]
  /\ now \in [Workers -> 0..MaxTime]
  /\ claim \in [Workers -> Claims \cup {NoClaim}]
  /\ request \in [Requests -> [at : {"new", "checked", "appending", "done", "started",
                                     "failed"},
                               item : Fires \cup {NoFire}]]
  /\ locks \subseteq Actors \X ({Tenant, Ledger} \cup Items)
  /\ accepted \subseteq Created
  /\ refusals \in [AllJobs -> 0..MaxRefusals]
  /\ crashes \in 0..MaxTogether

\* However late a scan comes, whatever it finds due, and whoever completes items
\* or starts runs meanwhile: a routine has at most one open work item, and a
\* routine that waits for its handler at most one scheduled job without a result.
OneAtATime ==
  \A r \in Routines :
    /\ \A f, g \in OpenItem(r) : f = g
    /\ Concurrency[r] # "always_enqueue_bounded" /\ CatchUpCap[r] = 1
         => \A i, j \in {j \in Unsettled \cap Fires : j[1] = r} : i = j

\* A routine with more due fires than a scan takes is never scanned again under
\* its revision, and every tick ends there.
Overdue == TooMany(time)

\* Through crashes, deadlocks and rescans every due fire is recorded, unless a
\* new revision replaces its trigger first or the backlog is refused.
FiresRecorded ==
  \A f \in Fires :
    []<>(time >= f[2] => outcome[f] # "none" \/ f \in dropped \/ Overdue)

\* Every job, scheduled or started by an operator, gets a result, unless its
\* occurrence is quarantined, its attempts are used up, or the backlog of some
\* routine keeps the worker from ever reaching its synthetic loop.
JobsSettle ==
  \A j \in AllJobs :
    []<>(j \in Created => Settled(j) \/ Exhausted(j) \/ Quarantined(j) \/ Overdue)
=============================================================================
