---------------------------- MODULE CommandRecord ----------------------------
(***************************************************************************)
(* The command transaction of the Record component (record/transaction.py, *)
(* _commands.py, _event_store.py) as a ticket mutation runs it             *)
(* (work/_postgres_sql.py, execute_work), under durability mode            *)
(* cutover_rpo0: reserve the idempotency key, replay or refuse, lock the   *)
(* durability heads of the touched tickets, refuse while one of them is    *)
(* not acknowledged, lock the tickets, compare the version, append one     *)
(* event with the result and move the heads; all retried by                *)
(* recover_ambiguous_commit over a fresh connection.                       *)
(*                                                                         *)
(* A session is one attempt of one request: a PostgreSQL transaction under *)
(* READ COMMITTED whose writes and locks end together.  A client that      *)
(* gives up on a session leaves an orphan on the server, which rolls back  *)
(* or, if COMMIT had been sent, may still commit.                          *)
(***************************************************************************)
EXTENDS Naturals, FiniteSets

CONSTANTS
  Requests,    \* calls of the API; a client's retry is another request
  Keys, NoKey, \* principal-scoped command keys
  Tickets,     \* ticket ids, numbers because locks follow their order
  KeyOf,       \* [request -> its command key]
  DigestOf,    \* [request -> digest of its body]
  TicketsOf,   \* [request -> tickets it locks (two for a relation)]
  SourceOf,    \* [request -> the ticket whose version it changes]
  ExpectedOf,  \* [request -> expected_version]
  MaxAttempts, \* _MAXIMUM_ATTEMPTS
  MaxFailures, \* bound: sessions that fail
  Revocable    \* bound: whether the callers may lose their seat

ASSUME RequestAssumption ==
  /\ Tickets \subseteq Nat /\ IsFiniteSet(Tickets)
  /\ NoKey \notin Keys /\ MaxAttempts \in Nat \ {0}
  /\ MaxFailures \in Nat /\ Revocable \in BOOLEAN
  /\ KeyOf \in [Requests -> Keys]
  /\ SourceOf \in [Requests -> Tickets]
  /\ \A r \in Requests : /\ TicketsOf[r] \subseteq Tickets /\ SourceOf[r] \in TicketsOf[r]
                         /\ ExpectedOf[r] \in Nat

Sessions  == Requests \X (1..MaxAttempts)
NoSession == <<>>
Resources == ({"key"} \X Keys) \cup ({"identity", "head", "ticket"} \X Tickets)
               \cup {<<"ledger", 0>>}

\* What a caller can be answered; `at` is the version the answer speaks of.
Outcome(kind, at) == [kind |-> kind, at |-> at]
NoOutcome == Outcome("none", 0)
Stored    == {"ok", "scope_denied", "durability_pending", "version_conflict"}
Answers   == Stored \cup {"none", "idempotency_conflict", "integrity_error", "exhausted"}

VARIABLES
  results,  \* [key -> stored digest and outcome]
  version,  \* [ticket -> its version]
  head,     \* [ticket -> key in its durability subject head]
  acked,    \* keys with an acknowledgement on the named standby
  events,   \* canonical events
  ledger,   \* record_position_ledger.last_position
  granted,  \* whether the callers hold their project seat
  holder,   \* [resource -> session that holds the lock]
  pc,       \* [session -> where it is]
  left,     \* [session -> tickets its current phase has still to lock]
  snap,     \* [session -> head row as its waiting statement first saw it]
  pending,  \* [session -> whether a head was found unacknowledged]
  draft,    \* [session -> uncommitted outcome and record position]
  attempt,  \* [request -> attempt it waits for, 0 = not sent]
  reply     \* [request -> answer]

dataVars  == <<results, version, head, events, ledger>>
worldVars == <<acked, granted>>
callVars  == <<attempt, reply>>
vars == <<results, version, head, acked, events, ledger, granted, holder, pc, left,
          snap, pending, draft, attempt, reply>>

NoResult == [digest |-> "none", outcome |-> NoOutcome]
NoSnap   == [key |-> NoKey, acked |-> FALSE]
NoDraft  == [outcome |-> NoOutcome, position |-> 0]

-----------------------------------------------------------------------------
\* The tickets exist at version 1; their heads may or may not exist yet.
Init ==
  /\ results = [k \in Keys |-> NoResult]
  /\ version = [t \in Tickets |-> 1]
  /\ head = [t \in Tickets |-> NoKey]
  /\ acked = {} /\ events = {} /\ ledger = 0 /\ granted = TRUE
  /\ holder = [x \in Resources |-> NoSession]
  /\ pc = [s \in Sessions |-> "unused"]
  /\ left = [s \in Sessions |-> {}]
  /\ snap = [s \in Sessions |-> NoSnap]
  /\ pending = [s \in Sessions |-> FALSE]
  /\ draft = [s \in Sessions |-> NoDraft]
  /\ attempt = [r \in Requests |-> 0]
  /\ reply = [r \in Requests |-> NoOutcome]

Key(s)     == KeyOf[s[1]]
Waited(s)  == attempt[s[1]] = s[2] /\ reply[s[1]] = NoOutcome
Finished   == {"unused", "done"}
Running(s) == Waited(s) /\ pc[s] \notin Finished
Orphan(s)  == ~Waited(s) /\ pc[s] \notin Finished
Failed     == {s \in Sessions : \/ s[2] < attempt[s[1]]
                                \/ s[2] = attempt[s[1]] /\ reply[s[1]].kind = "exhausted"}

Free(x)       == holder[x] = NoSession
Acquire(s, x) == Free(x) /\ holder' = [holder EXCEPT ![x] = s]
Release(s)    == holder' = [x \in Resources |-> IF holder[x] = s THEN NoSession ELSE holder[x]]

Goto(s, step) == pc' = [pc EXCEPT ![s] = step]

\* Mutant: a relation locks its source before its target.
SourceFirst(s) ==
  IF SourceOf[s[1]] \in left[s] THEN SourceOf[s[1]] ELSE CHOOSE t \in left[s] : TRUE

\* Locks are taken in ticket order.
FirstLeft(s) == CHOOSE t \in left[s] : \A u \in left[s] : t <= u

\* The current ticket is done; `step` goes on with the rest, `next` comes after.
Proceed(s, step, next) ==
  LET rest == left[s] \ {FirstLeft(s)} IN
  IF rest = {} THEN left' = [left EXCEPT ![s] = TicketsOf[s[1]]] /\ Goto(s, next)
               ELSE left' = [left EXCEPT ![s] = rest] /\ Goto(s, step)

Draft(s, outcome) == draft' = [draft EXCEPT ![s].outcome = outcome]

\* The transaction ends without a write and the request is answered.
Answer(s, outcome) ==
  /\ Goto(s, "done")
  /\ reply' = [reply EXCEPT ![s[1]] = outcome]
  /\ UNCHANGED attempt

-----------------------------------------------------------------------------
(* The caller                                                              *)

Send(r) ==
  /\ attempt[r] = 0
  /\ attempt' = [attempt EXCEPT ![r] = 1]
  /\ Goto(<<r, 1>>, "reserve")
  /\ UNCHANGED <<dataVars, worldVars, holder, left, snap, pending, draft, reply>>

\* A statement is cancelled or the connection fails; the next attempt opens its
\* own session, or the policy (attempts, elapsed time) is spent.
Fail(s) ==
  LET r == s[1] IN
  /\ Running(s) /\ Cardinality(Failed) < MaxFailures
  /\ \/ /\ s[2] < MaxAttempts
        /\ attempt' = [attempt EXCEPT ![r] = s[2] + 1]
        /\ Goto(<<r, s[2] + 1>>, "reserve")
        /\ UNCHANGED reply
     \/ /\ reply' = [reply EXCEPT ![r] = Outcome("exhausted", 0)]
        /\ UNCHANGED <<attempt, pc>>
  /\ UNCHANGED <<dataVars, worldVars, holder, left, snap, pending, draft>>

\* Mutant: the session's locks outlive it.
RollBackLocked(s) ==
  /\ Orphan(s)
  /\ Goto(s, "done")
  /\ UNCHANGED <<dataVars, worldVars, holder, left, snap, pending, draft, callVars>>

\* The server ends a session nobody waits for.
RollBack(s) ==
  /\ Orphan(s)
  /\ Goto(s, "done")
  /\ Release(s)
  /\ UNCHANGED <<dataVars, worldVars, left, snap, pending, draft, callVars>>

-----------------------------------------------------------------------------
(* RecordTransaction.reserve, require_project_mutation                     *)

\* Mutant: a replay does not compare the request digest.
ReplayAnyBody(s) == results[Key(s)].outcome

\* The stored answer belongs to one body; another body under its key is refused.
ReplayResult(s) ==
  IF results[Key(s)].digest = DigestOf[s[1]] THEN results[Key(s)].outcome
  ELSE Outcome("idempotency_conflict", 0)

\* The key's advisory lock, then the lookup: nothing can store a result for the
\* key between the two.
Reserve(s) ==
  LET stored == results[Key(s)] IN
  /\ pc[s] = "reserve" /\ Waited(s)
  /\ Free(<<"key", Key(s)>>)
  /\ \/ /\ stored # NoResult
        /\ Answer(s, ReplayResult(s))
        /\ UNCHANGED <<holder, left, draft>>
     \/ /\ stored = NoResult /\ ~granted
        /\ Acquire(s, <<"key", Key(s)>>)
        /\ Draft(s, Outcome("scope_denied", 0))
        /\ Goto(s, "write")
        /\ UNCHANGED <<left, callVars>>
     \/ /\ stored = NoResult /\ granted
        /\ Acquire(s, <<"key", Key(s)>>)
        /\ left' = [left EXCEPT ![s] = TicketsOf[s[1]]]
        /\ Goto(s, "absent")
        /\ UNCHANGED <<draft, callVars>>
  /\ UNCHANGED <<dataVars, worldVars, snap, pending>>

-----------------------------------------------------------------------------
(* RecordTransaction.require_durable_subjects                              *)

\* A head that exists needs no identity lock.
CheckAbsent(s) ==
  /\ pc[s] = "absent" /\ Waited(s)
  /\ \/ head[FirstLeft(s)] # NoKey /\ Proceed(s, "absent", "head")
     \/ head[FirstLeft(s)] = NoKey /\ Goto(s, "identity") /\ UNCHANGED left
  /\ UNCHANGED <<dataVars, worldVars, holder, snap, pending, draft, callVars>>

LockIdentity(s) ==
  /\ pc[s] = "identity" /\ Waited(s)
  /\ Acquire(s, <<"identity", FirstLeft(s)>>)
  /\ Proceed(s, "absent", "head")
  /\ UNCHANGED <<dataVars, worldVars, snap, pending, draft, callVars>>

\* The statement's snapshot of the head row joined with its acknowledgement.
ReadHead(s) ==
  LET t == FirstLeft(s) IN
  /\ pc[s] = "head" /\ Waited(s)
  /\ \/ head[t] = NoKey /\ Proceed(s, "head", "verdict") /\ UNCHANGED snap
     \/ /\ head[t] # NoKey
        /\ snap' = [snap EXCEPT ![s] = [key |-> head[t], acked |-> head[t] \in acked]]
        /\ Goto(s, "headLock")
        /\ UNCHANGED left
  /\ UNCHANGED <<dataVars, worldVars, holder, pending, draft, callVars>>

\* Mutant: a head that moved while the statement waited is not judged again.
LockHeadAsSeen(s) ==
  /\ pc[s] = "headLock" /\ Waited(s)
  /\ Acquire(s, <<"head", FirstLeft(s)>>)
  /\ pending' = [pending EXCEPT ![s] = @ \/ ~snap[s].acked]
  /\ Proceed(s, "head", "verdict")
  /\ UNCHANGED <<dataVars, worldVars, snap, draft, callVars>>

\* FOR UPDATE OF head.  A head that moved while the statement waited is joined
\* again with the acknowledgement of the snapshot, which is not its own: the
\* outer join finds none.
LockHead(s) ==
  LET t == FirstLeft(s) IN
  /\ pc[s] = "headLock" /\ Waited(s)
  /\ Acquire(s, <<"head", t>>)
  /\ pending' = [pending EXCEPT ![s] = @ \/ head[t] # snap[s].key \/ ~snap[s].acked]
  /\ Proceed(s, "head", "verdict")
  /\ UNCHANGED <<dataVars, worldVars, snap, draft, callVars>>

JudgeHeads(s) ==
  /\ pc[s] = "verdict" /\ Waited(s)
  /\ \/ pending[s] /\ Draft(s, Outcome("durability_pending", 0)) /\ Goto(s, "write")
     \/ ~pending[s] /\ Goto(s, "ticket") /\ UNCHANGED draft
  /\ UNCHANGED <<dataVars, worldVars, holder, left, snap, pending, callVars>>

-----------------------------------------------------------------------------
(* execute_work and commit_batch                                           *)

\* SELECT ... ORDER BY ticket_id FOR UPDATE.
LockTicket(s) ==
  /\ pc[s] = "ticket" /\ Waited(s)
  /\ Acquire(s, <<"ticket", FirstLeft(s)>>)
  /\ Proceed(s, "ticket", "compare")
  /\ UNCHANGED <<dataVars, worldVars, snap, pending, draft, callVars>>

\* Mutant: the expected version is trusted.
TrustVersion(s) ==
  /\ pc[s] = "compare" /\ Waited(s)
  /\ Draft(s, Outcome("ok", ExpectedOf[s[1]] + 1))
  /\ Goto(s, "append")
  /\ UNCHANGED <<dataVars, worldVars, holder, left, snap, pending, callVars>>

CompareVersion(s) ==
  LET current == version[SourceOf[s[1]]] IN
  /\ pc[s] = "compare" /\ Waited(s)
  /\ \/ /\ ExpectedOf[s[1]] # current
        /\ Draft(s, Outcome("version_conflict", current))
        /\ Goto(s, "write")
     \/ /\ ExpectedOf[s[1]] = current
        /\ Draft(s, Outcome("ok", current + 1))
        /\ Goto(s, "append")
  /\ UNCHANGED <<dataVars, worldVars, holder, left, snap, pending, callVars>>

\* Mutant: the position is read without locking the ledger row.
AppendUnlocked(s) ==
  /\ pc[s] = "append" /\ Waited(s)
  /\ draft' = [draft EXCEPT ![s].position = ledger + 1]
  /\ Goto(s, "write")
  /\ UNCHANGED <<dataVars, worldVars, holder, left, snap, pending, callVars>>

\* append_event updates the ledger row and takes the next record position.
AppendEvent(s) ==
  /\ pc[s] = "append" /\ Waited(s)
  /\ Acquire(s, <<"ledger", 0>>)
  /\ draft' = [draft EXCEPT ![s].position = ledger + 1]
  /\ Goto(s, "write")
  /\ UNCHANGED <<dataVars, worldVars, left, snap, pending, callVars>>

\* INSERT INTO command_results, whose key is unique: it waits for another
\* undecided row and fails on a committed one.  Then COMMIT is sent.
WriteResult(s) ==
  /\ pc[s] = "write" /\ Waited(s)
  /\ \A o \in Sessions : Key(o) = Key(s) => pc[o] # "commit"
  /\ \/ results[Key(s)] = NoResult /\ Goto(s, "commit") /\ UNCHANGED <<holder, callVars>>
     \/ /\ results[Key(s)] # NoResult
        /\ Answer(s, Outcome("integrity_error", 0))
        /\ Release(s)
  /\ UNCHANGED <<dataVars, worldVars, left, snap, pending, draft>>

\* The transaction's writes become visible and its locks are released; the
\* caller learns of it if it still waits.
Commit(s) ==
  LET r == s[1]
      outcome == draft[s].outcome
      source == SourceOf[r]
  IN
  /\ pc[s] = "commit"
  /\ Goto(s, "done")
  /\ Release(s)
  /\ results' = [results EXCEPT ![Key(s)] = [digest |-> DigestOf[r], outcome |-> outcome]]
  /\ IF outcome.kind = "ok"
     THEN /\ version' = [version EXCEPT ![source] = outcome.at]
          /\ ledger' = draft[s].position
          /\ events' = events \cup {[key |-> Key(s), ticket |-> source,
                                     position |-> draft[s].position]}
          /\ head' = [t \in Tickets |-> IF t \in TicketsOf[r] THEN Key(s) ELSE head[t]]
     ELSE UNCHANGED <<version, ledger, events, head>>
  /\ reply' = IF Waited(s) THEN [reply EXCEPT ![r] = outcome] ELSE reply
  /\ UNCHANGED <<worldVars, left, snap, pending, draft, attempt>>

-----------------------------------------------------------------------------
(* The rest of the system                                                  *)

\* A reconcile acknowledges a recorded command (module Durability).
Acknowledge(k) ==
  /\ results[k] # NoResult /\ k \notin acked
  /\ acked' = acked \cup {k}
  /\ UNCHANGED <<dataVars, granted, holder, pc, left, snap, pending, draft, callVars>>

RevokeSeat ==
  /\ Revocable /\ granted
  /\ granted' = FALSE
  /\ UNCHANGED <<dataVars, acked, holder, pc, left, snap, pending, draft, callVars>>

SessionStep(s) ==
  \/ Reserve(s) \/ CheckAbsent(s) \/ LockIdentity(s) \/ ReadHead(s) \/ LockHead(s)
  \/ JudgeHeads(s) \/ LockTicket(s) \/ CompareVersion(s) \/ AppendEvent(s)
  \/ WriteResult(s) \/ Commit(s)

Next ==
  \/ \E r \in Requests : Send(r)
  \/ \E s \in Sessions : SessionStep(s) \/ Fail(s) \/ RollBack(s)
  \/ \E k \in Keys : Acknowledge(k)
  \/ RevokeSeat

Spec == Init /\ [][Next]_vars

\* Connections make progress and the server ends the sessions nobody waits for.
FairSpec == Spec /\ \A s \in Sessions : WF_vars(SessionStep(s)) /\ WF_vars(RollBack(s))

-----------------------------------------------------------------------------
(* Properties                                                              *)

TypeOK ==
  /\ \A k \in Keys : results[k].outcome.kind \in Stored \cup {"none"}
  /\ version \in [Tickets -> Nat] /\ ledger \in Nat
  /\ head \in [Tickets -> Keys \cup {NoKey}] /\ acked \subseteq Keys
  /\ events \subseteq [key : Keys, ticket : Tickets, position : Nat]
  /\ holder \in [Resources -> Sessions \cup {NoSession}]
  /\ \A s \in Sessions : left[s] \subseteq Tickets /\ pending[s] \in BOOLEAN
  /\ \A r \in Requests : reply[r].kind \in Answers /\ attempt[r] \in 0..MaxAttempts

\* Exactly-once answers: requests with the same key and body, through retries,
\* ambiguous commits and clients that gave up, are given the same outcome, and
\* no two bodies under one key are both served.
RepliesAgree ==
  \A r, q \in Requests :
    LET served(x) == reply[x].kind \notin {"none", "idempotency_conflict", "exhausted"} IN
    /\ reply[r].kind # "integrity_error"
    /\ KeyOf[r] = KeyOf[q] /\ served(r) /\ served(q) =>
         DigestOf[r] = DigestOf[q] /\ reply[r] = reply[q]

\* Compare-and-set is not lost: a ticket's version counts the events that changed
\* it, and each of them is the one event of its key.
VersionCountsEvents ==
  /\ \A t \in Tickets : version[t] = 1 + Cardinality({e \in events : e.ticket = t})
  /\ \A e, f \in events : e.key = f.key => e = f

\* The record has no gap and no fork: positions are 1..n, one event each, although
\* transactions that took a position roll back.
PositionsGapless ==
  /\ {e.position : e \in events} = 1..Cardinality(events)
  /\ ledger = Cardinality(events)

\* A ticket's head never moves past a command that the named standby has not
\* acknowledged: losing the primary cannot take back a prefix of its history.
HeadMovesWhenAcked ==
  [][\A t \in Tickets : head'[t] # head[t] => head[t] \in acked \cup {NoKey}]_vars

\* The sessions never wait for each other in a circle: in every set of sessions
\* one can go on, or waits for a session outside the set.
Wanted(s) ==
  IF ~Waited(s) THEN {}
  ELSE CASE pc[s] = "reserve"  -> {<<"key", Key(s)>>}
         [] pc[s] = "identity" -> {<<"identity", FirstLeft(s)>>}
         [] pc[s] = "headLock" -> {<<"head", FirstLeft(s)>>}
         [] pc[s] = "ticket"   -> {<<"ticket", FirstLeft(s)>>}
         [] pc[s] = "append"   -> {<<"ledger", 0>>}
         [] OTHER -> {}
NoWaitCycle ==
  \A S \in (SUBSET {s \in Sessions : Running(s)}) \ {{}} :
    \E s \in S : \A x \in Wanted(s) : holder[x] \notin S

\* Every request that is sent is answered: it waits for its answer until it has it, and
\* time and again no request waits.
EveryRequestAnswered ==
  []<>(\A r \in Requests : attempt[r] # 0 => reply[r] # NoOutcome)
=============================================================================
