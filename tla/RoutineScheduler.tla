-------------------------- MODULE RoutineScheduler --------------------------
(***************************************************************************)
(* The routine scheduler of the Runtime component: what one scan of a      *)
(* tenant decides and writes (runtime/_routine_sql.py, interface.py,       *)
(* _gate_sql.py, _routine_work_items_sql.py, _routine_alarms_sql.py).  The *)
(* transactions that call it, and their locks, are in ControlWorker.       *)
(*                                                                         *)
(* Time advances in steps; a routine fires at the times of its schedule.   *)
(* An occurrence is named by its routine and time, as the deterministic    *)
(* ids of _occurrence_ids name it.                                         *)
(***************************************************************************)
EXTENDS Naturals, FiniteSets

CONSTANTS
  Routines,     \* routine references of one tenant
  Handler,      \* [routine -> "synthetic" or "item"], its handler_kind
  Concurrency,  \* [routine -> its concurrency policy]
  CatchUp,      \* [routine -> its catch-up policy]
  CatchUpCap,   \* [routine -> catch_up_cap]
  Schedule,     \* [routine -> the times it fires at]
  Gated,        \* routines with an activity gate
  MaxDue,       \* _MAX_DUE_PER_SCAN
  Window,       \* timeout of a work item
  MaxTime,      \* bound: the last time
  MaxRevision   \* bound: revisions of the routine packs

ASSUME SchedulerAssumption ==
  /\ Handler \in [Routines -> {"synthetic", "item"}]
  /\ \A r, s \in Routines : Handler[r] = Handler[s] => r = s
  /\ Concurrency \in [Routines -> {"coalesce_if_active", "skip_if_active",
                                   "serialize_one_pending", "always_enqueue_bounded"}]
  /\ CatchUp \in [Routines -> {"coalesce_latest", "skip_missed", "enqueue_missed_with_cap"}]
  /\ CatchUpCap \in [Routines -> Nat \ {0}]
  /\ Schedule \in [Routines -> SUBSET (1..MaxTime)]
  /\ Gated \subseteq Routines
  /\ MaxDue \in Nat \ {0} /\ Window \in Nat \ {0}
  /\ MaxTime \in Nat /\ MaxRevision \in Nat \ {0}

VARIABLES
  time,         \* the present
  trigger,      \* [routine -> revision of its trigger, earliest time of next_fire_at]
  outcome,      \* [fire -> outcome of its occurrence, "none" before it is recorded]
  closed,       \* work items closed by a receipt
  alarms,       \* observations of the alarm episodes: <<item, kind>>
  dropped       \* fires whose trigger was replaced before they were recorded

schedulerVars == <<time, trigger, outcome, closed, alarms, dropped>>

Fires    == {f \in Routines \X (1..MaxTime) : f[2] \in Schedule[f[1]]}
NoFire   == <<>>
Outcomes == {"queued", "coalesced", "skipped"}
Terminal == {"missed_window", "recovered_receipted"}
Observed == Terminal \cup {"escalation_unresolved"}

\* Work items and scheduled jobs are the queued occurrences of their handler.
Queued(kind) == {f \in Fires : Handler[f[1]] = kind /\ outcome[f] = "queued"}
Items        == Queued("item")
OpenItems    == Items \ closed

SchedulerInit ==
  /\ time = 0
  /\ trigger = [r \in Routines |-> [revision |-> 1, next |-> 1]]
  /\ outcome = [f \in Fires |-> "none"]
  /\ closed = {} /\ alarms = {} /\ dropped = {}

-----------------------------------------------------------------------------
(* Planning                                                                *)

\* The fires of r a scan that reads the clock at `now` finds due.
Due(r, now)   == Schedule[r] \cap (trigger[r].next..now)
AnyDue(now)   == \E r \in Routines : Due(r, now) # {}
TooMany(now)  == \E r \in Routines : Cardinality(Due(r, now)) > MaxDue

\* Catch-up keeps the latest fires: one, or catch_up_cap of them.
CaughtUp(r, due, t) ==
  LET later == Cardinality({u \in due : u > t}) IN
  IF CatchUp[r] = "coalesce_latest"
    THEN IF later = 0 THEN "queued" ELSE "coalesced"
    ELSE IF later < CatchUpCap[r] THEN "queued" ELSE "skipped"

\* What becomes of a fire to queue while jobs of the handler are `pending`, that
\* is, without a result.  No job is ever counted as active.
WhenPending(r, pending) ==
  CASE pending /\ Concurrency[r] \in {"coalesce_if_active", "serialize_one_pending"}
         -> "coalesced"
    [] pending /\ Concurrency[r] = "skip_if_active" -> "skipped"
    [] OTHER -> "queued"

\* The plan of one routine: catch-up, then concurrency, then the gate, which
\* skips every fire of the scan unless it lets them pass.
Plan(r, now, pending, open) ==
  [t \in Due(r, now) |->
     LET o == CaughtUp(r, Due(r, now), t) IN
     IF r \in Gated /\ ~open THEN "skipped"
     ELSE IF o = "queued" THEN WhenPending(r, pending) ELSE o]

OpenItem(r) == {f \in OpenItems : f[1] = r}

\* Mutant: an open item of an earlier scan does not hold the next one back.
BlockWithinScan(r, plan) ==
  LET queued == {t \in DOMAIN plan : plan[t] = "queued"} IN
  [t \in DOMAIN plan |-> IF t \in queued /\ \E u \in queued : u < t THEN "skipped" ELSE plan[t]]

\* A routine has one open work item: a fire behind an open item, or behind one
\* queued earlier in the same scan, is skipped.
Blocked(r, plan) ==
  LET queued == {t \in DOMAIN plan : plan[t] = "queued"} IN
  [t \in DOMAIN plan |->
     IF /\ Handler[r] = "item" /\ t \in queued
        /\ OpenItem(r) # {} \/ \E u \in queued : u < t
       THEN "skipped" ELSE plan[t]]

-----------------------------------------------------------------------------
(* What the transactions write                                             *)

\* scan: the occurrences of every due fire, with their items and
\* jobs, and the triggers' next fires.  pending: the routines with jobs of
\* their handler without a result; open: the gated routines whose gate lets the scan pass.
RecordPlans(now, pending, open) ==
  LET plans == [r \in Routines |-> Blocked(r, Plan(r, now, r \in pending, r \in open))]
      due   == {f \in Fires : f[2] \in Due(f[1], now)}
  IN  /\ outcome' = [f \in Fires |-> IF f \in due THEN plans[f[1]][f[2]] ELSE outcome[f]]
      /\ trigger' = [r \in Routines |-> IF Due(r, now) = {} THEN trigger[r]
                                        ELSE [trigger[r] EXCEPT !.next = now + 1]]

Alarmed(f)  == \E k \in Observed : <<f, k>> \in alarms
Resolved(f) == \E k \in Terminal : <<f, k>> \in alarms

\* append_episode_observations at the end of a scan that leaves `open` items
\* open: an item whose window is over is missed, or cannot be escalated while
\* no live seat is bound; a closed item with an unresolved episode recovers.
Observations(now, open, seats) ==
  {<<f, IF seats THEN "missed_window" ELSE "escalation_unresolved">> :
     f \in {f \in open : f[2] + Window <= now}}
  \cup {<<f, "recovered_receipted">> : f \in {f \in closed : Alarmed(f) /\ ~Resolved(f)}}

\* complete: the receipt of an open item.
CloseItem(f) == closed' = closed \cup {f}

\* Mutant: registering the revision a trigger already has moves it to the next fire.
RegisterAgain(revision, now) ==
  /\ trigger' = [r \in Routines |-> [revision |-> revision, next |-> now + 1]]
  /\ UNCHANGED dropped

\* register: a trigger of another revision is deleted with the fires it still
\* had to record, and the new one starts at the next fire.
Register(revision, now) ==
  LET changed == {r \in Routines : trigger[r].revision # revision} IN
  /\ trigger' = [r \in Routines |-> IF r \in changed
                                      THEN [revision |-> revision, next |-> now + 1]
                                      ELSE trigger[r]]
  /\ dropped' = dropped \cup {f \in Fires : f[1] \in changed /\ f[2] \in Due(f[1], now)}

-----------------------------------------------------------------------------
SchedulerTypeOK ==
  /\ time \in 0..MaxTime
  /\ trigger \in [Routines -> [revision : 1..MaxRevision, next : 1..(MaxTime + 1)]]
  /\ outcome \in [Fires -> Outcomes \cup {"none"}]
  /\ closed \subseteq Items
  /\ alarms \subseteq Items \X Observed
  /\ dropped \subseteq Fires
=============================================================================
