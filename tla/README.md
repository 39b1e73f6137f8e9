# ctower in TLA+

A verification project for the ctower kernel: a ticket system of record on
PostgreSQL whose commands are idempotent, whose history is an append-only event
stream, and whose commands count as *accepted* only once a named standby holds
the evidence. The modules are written from the code, not from its
specification; where the two disagree a run shows it (see Findings).

`K` below is `src/packages/ctower-kernel/src/ctower_kernel`, `API` is
`src/apps/ctower-api/src/ctower_api`, `CTL` is `src/apps/ctowerctl/src/ctowerctl`.

## Inventory

| Component | State | Operations | Talks to | What is hard | Correct when |
|---|---|---|---|---|---|
| Record, command transaction (`K/record/transaction.py`, `_commands.py`, `_event_store.py`) | `command_results`, `events`, `outbox`, `record_position_ledger`, `durability_subject_heads` | reserve, require_durable_subjects, append_event, commit_batch, recover_ambiguous_commit | every writing component; the durability protocol | retries of ambiguous commits, races on a key, lock order, locks under READ COMMITTED | one outcome per key, no lost update, gapless positions, no deadlock, a head only moves when acknowledged |
| Record, durability (`_durability_sql.py`, `_durability_confirmation_sql.py`, `_durability_finalizer_sql.py`) | acknowledgements, finalizations, confirmations, finalizer attempts | reconcile_durability, finalize_pending | API threads, worker, primary and standby | cancelled commit waits, outages, loss of the primary, several reconcilers of one command | nothing accepted is lost; the answer is stable; everything is accepted in the end |
| Projections, accepted outbox consumer and Board (`K/projections/_consumer_sql.py`, `_board_sql.py`) | cursor, delivery attempts, poison, disposable rows | consume_one, catch_up, rebuild, board | confirmations (in), Attention (poison), web | confirmation order, partial batches, poison, retry, rebuilds that overlap folds, statements of one transaction that see different moments | folded once per generation; CURRENT only when complete; drains or is visibly held |
| Attention (`K/attention/_postgres_sql.py`) | findings, poison dispositions | record a disposition | consumer | a disposition is accepted later than it is recorded | the latest accepted disposition decides |
| Work, tickets (`K/work/_postgres_sql.py`, `_relations.py`, `_assignments.py`, `_intents.py`, `_blockers.py`) | tickets' relations, assignments, intents, blockers, priority | execute_work: relate, admit, defer, reopen, block, assign, consume a review dispatch | Record transaction, Workflow, Proof | cycle check against concurrent writers; compare-and-set of versions; a verdict and the consumption it belongs to in either order | acyclic graphs, no lost change, every verdict linked to its review |
| Work, requests (`K/work/_request_*.py`, `_ruling_sql.py`) | append-only facts of each Request, rulings, the holder row of each Ticket | triage, priority, owner, relate, block, evaluate closure, rule; list | Tickets and proofs (reads them), durability (the list reads confirmed facts) | the state is derived from facts of several Requests and Tickets, and a stored evaluation counts while a digest is unchanged; confirmations in any order | DONE is never stale, duplicates do not chain, one Request per Ticket |
| Worker (`API/control_worker.py`, `_outbox_loop.py`, `_routine_loop.py`) | none of its own | tick: finalizer, scheduler, outbox, project delivery, connectors, synthetic | all of the above | an exception ends a tick, and the process; it restarts | every loop comes round again |
| Integrations (`K/integrations`, `API/connectors`, `API/connector_loop.py`) | connector progress with leases and fences | pull pages, import tickets and comments, deliver closes | Record through deterministic command ids; GitHub, GitLab | expired leases, replayed pages, stored refusals | every page is applied once and finished |
| Runtime (`K/runtime`) | routine fires, work items, fixed-operation claims, spawn records | scan, claim, complete | worker, synthetic handler | late scans, missed fires, expiring claims | each fire is one work item or an explicit suppression |
| Workflow and Proof (`K/workflow`, `K/proof`) | runs, stages, review effects; bundle, evidence, verdicts, invalidations | start, transition, close, reopen; freeze, record, change the candidate | Record, Work | a close that rests on facts four components change | no close without standing proof and answered reviews |
| Inbox, Console, Pools, Runner, Catalog, Access, Knowledge, Objects, Telemetry, estate import | see `PROJECT.json` | single transactions, I/O, declared data; the import is a two-pass operator procedure | Record | – | – |
| ctowerctl spool (`CTL/spool`) | files of queued commands, receipts, hash chain | enqueue, drain, recover | API | a crash between receipt and move, ordered replay, quarantine | in order, none lost, none sent as new |

How they interact: an API request runs one command transaction and then
`reconcile_durability` in the same thread. The worker's finalizer runs the same
reconcile for commands without a confirmation. A confirmation is what makes a
command's events readable for the projection consumer, which the same worker
runs on every tick. All state is in one PostgreSQL primary, except what the
standby proves, the spool's files and what providers hold; components share rows
and locks, and only the spool and the connectors exchange messages with another
party that may lose, delay or repeat them.

`PROJECT.json` lists every component with its status, and under `hazards` what
is hard to test, each at its line.

## Modules

| Module | Models | Variables ↔ code | Actions ↔ code |
|---|---|---|---|
| `Durability` | `reconcile_durability` by API threads and the finalizer over one primary and one standby | `lsn`, `visible`: the four row kinds by WAL position and by what the primary's sessions see; `ackPos`, `finPos`: `acceptance_position`; `applied`: standby replay; `pc`, `cmd`, `seen`: a call in flight; `accepted`: answers given | one database access per action, failures beside them (`InsertAck` / `InsertAckFails` / `AckCommitted`, …); `Replay`, `LoseStandby`, `Promote` for the servers |
| `AcceptanceAuthority` | what that protocol promises | `told` | `AcceptCommand` |
| `OutboxConsumer` | `consume_one`, `catch_up`, `rebuild`, dispositions, the portfolio read | `cursor`, `health`, `blocked`, `generation`: the cursor row; `attempts`, `outcome`: delivery attempts; `taken`: the open transaction; `board`: the folds whose rows are there; `resetting`: an open `reset_projection` and what it has deleted | `TakeMessage`, then one action per outcome (`Deliver`, `Tombstone`, `RetryableFailure`, `Poison`, `NothingToFold`), `Abandon`; `ClearRows` and `StartOver` (or `AbandonReset`) for the two halves of a reset |
| `AcceptedBoard` | the two together | Durability's rows *are* the consumer's source: `position <- finPos`, `confirmed <- visible["conf"]` | steps of either |
| `CommandRecord` | `RecordTransaction` as `execute_work` uses it, under `recover_ambiguous_commit` | `results`, `version`, `head`, `events`, `ledger`: tables; `holder`: locks; `draft`: uncommitted writes of a session | one statement that can wait or decide per action |
| `WorkRelations` | `add_relation` for one cycle-checked relation kind | `edges`, `version`, `holder` | lock, check, refuse, commit, roll back |
| `Spool` | `CTL/spool`: recovery, enqueue, drain, retry, discard, compaction, and the server it sends to | `disk`: the sealed records by sequence, kind and directory; `head`, `cursor`: the two control files; `torn`: how many files killed writes left; `session`: the holder of the flock; `flight`, `server`, `executed`: requests under way and what the server stored | one file operation or request per action (`AppendRecord` / `WriteHead` / `Settle`, `Recover`, `Drain`, `Owner`, …); `Crash`, `Rot`, and `Network` for requests that arrive late |
| `SpoolQueue` | what the spool promises its owner | `entries`, `accepted` | `Enqueue`, `Archive`, `Quarantine`, `Retry`, `Discard`, `Rot`, `Compact` |
| `ConnectorSync` | one tick of `K/integrations/service.py` over the progress row, by several workers | `progress`: cursor, event cursor, lease; `links`, `observed`, `receipts`: connector tables; `tickets`, `results`, `closes`: what commands did and stored; `source`, `marks`: the provider | one transaction or provider request per action (`Claim`, `Step`: fetch, intake, label, comment, marker, close, complete); `PostUnanswered`, `PutUnanswered`: no answer; `LandNote`, `LandClose`, `Bury`: what the provider does later; `Raise`, `Crash`, `Lapse`; `Edit`, `CloseTicket`, `LabelTicket`: people |
| `RoutineScheduler` | what one scan decides and writes (`K/runtime/_routine_sql.py`) | `trigger`, `outcome`, `closed`, `alarms`: trigger, occurrence, receipt and alarm rows; `dropped`: fires whose trigger was replaced unrecorded | operators `ControlWorker` calls inside its transactions |
| `FixedOperations` | claims and results of synthetic jobs (`_synthetic_sql.py`) | `attempts`, `live`, `result` | `Claimable`, claim, expire, complete |
| `ControlWorker` | the loops of `API/control_worker.py` in their order, beside API transactions | `pc`, `now`, `claim`: a worker's tick; `request`: an API transaction; `locks`: row locks; `pack`: routine packs on disk; `accepted`, `refusals`: finalizer's outcome per job | `Finalize`, `RegisterPack`, `BeginScan`, `TakeLedger`, `ObserveItems`, `CommitScan`, `ClaimJob`, `CompleteJob`, `RetryLater`; `CheckItem`, `AppendEvent`, `CommitRequest`; `EndDeadlock`, `Crash`, `Restart`, `Deploy` |
| `ProofBundle` | the proof of one ticket (`K/proof`) | `bundle`, `evidence`, `verdicts` | operators for freezing, recording, replacing the candidate; the evaluation of a policy |
| `TicketWork` | what Work and Record keep about it | `episode`, `lifecycle`, `admitted`, `blockers`, `custodian`, `assigned` | `Admit`, `Defer`, `Block`, `Unblock`, `ChangeAssignment`, `TransferCustody`, … |
| `TicketClose` | Workflow over the two: run, review effects and their links, close, reopening | `run`, `effects`, `links` | `StartWorkflow`, `Transition`, `ConsumeReviewDispatch`, `Freeze`, `Evidence`, `Verdict`, `NewCandidate`, `ResolveClose`, `ReopenTicket`, `WorkStep` |
| `ProvenTicket` | what a reader may rely on about a closed ticket | `criteria`, `candidate`, `proven`, `awaited`, `closed` | `Freeze`, `Replace`, `Judge`, `Await`, `Close`, `Reopen` |
| `RequestFacts` | the commands on Requests, the derived state, the list | `version`, `latest`: facts of every Request; `acceptedVersion`, `accepted`: what confirmed facts show; `pending`: facts still to be confirmed; `rulings`; `holder`: `request_ticket_holders`; `ticket`: the columns of a Ticket that are read | one action per command (`Accept`, `Reject`, `Duplicate`, `RelateTicket`, `ReleaseTicket`, `SetBlocker`, `EvaluateClosure`, `RecordRuling`, …), `ConfirmFact`, `ConfirmRuling`, and the changes of a Ticket |
| `MC*` | small instances | | |
| `*_proofs` | theorems | | |

An operator introduced by `\* Mutant:` is a plausible mistake in the definition
that follows it; each shows that a property can fail (`mutants` in
`PROJECT.json` pairs them). No specification uses one.

### Abstractions

* A database access is atomic; a lock wait is a disabled action. WAL shipping is
  in order, one record at a time.
* Hash chains, canonical bytes, signatures, time zones and texts are left out, and
  with them the refusals that only tampered rows can cause.
* `Durability`: one standby; after a promotion there is none, so nothing is
  acknowledged again and the position sequence plays no further part. A commit
  whose remote-apply wait is cancelled ends as visible, whatever it looked like
  to its caller. The finalizer's batch, its cursor and its refusal counters are
  abstracted to the choice of a command without confirmation.
* `OutboxConsumer`: a fold's content is the event itself, with the generation it
  belongs to (`board` is the sequence of folds whose rows are there); what the
  handlers make of a card is left out. `invalid` is what the deployed build cannot
  fold, and `Repair` a deployment. The order in which dispositions are recorded
  stands for `recorded_at`. `reset_projection` deletes rows first and takes the cursor
  row last: its three DELETEs are one step (`ClearRows`; Inbox rows go the way of the
  Board's), which a fold under way does not hold up, and its deletes appear with the
  commit (`StartOver`). What is folded between the two survives, except that a fold
  of a deleted row waits for the reset (`Locked`), which waits for the fold's cursor
  row: PostgreSQL ends one of the two (`FoldFails`, or `AbandonReset`, which also
  stands for a lost session). One rebuild runs at a time.
* `CommandRecord`: durability mode `cutover_rpo0`, where the subject heads gate.
  One event per command. A ticket's facts are its version.
* `WorkRelations`: a ticket's durability head and its row are locked together, in
  the same order, and are one lock. `Reaches` is the recursive query, defined by
  closed sets.
* `Spool`: a rename is atomic and survives. What a killed write leaves in `tmp/`
  is evidence, which switches compaction off and counts against the scan limit of
  `quarantine/` (`_store.py:282`). A record is known by its sequence;
  hashes, keys and seals are not modelled. Only command files in `pending/` and
  `quarantine/` rot.
* `ConnectorSync`: a worker runs one tick at a time, so the fence says no more
  than the owner. `next_poll` and backoff are "may claim at any time". One label,
  GitLab's paging, a ticket closed at most once; the event page of 100 is never
  full. What a request whose answer does not come has done is looked up, as
  `_reconcile_marker_result` does, and a comment or a close may be under way past that
  look and past a crash, to land at any later time (`marks[i].adrift`, `closing`).
  A lookup reads the newest hundred comments: `marks[i].seen` counts the markers among
  them, and `Bury` is the later comments that hide them, all at once. `left` is a count
  for the property. `Held` names an issue whose stored refusal stops its page for ever, and
  the liveness properties name it as their exception.
* `ControlWorker`: time advances in steps and a routine fires at the times of its
  schedule; at most one routine per handler. What a gate reads and whether a seat
  resolves are nondeterministic. The finalizer's backoff and batch are left out;
  a refusal may come for any job. All revisions of a pack are registered in one
  step. Not modelled: a daylight-saving gap, retirement, dream dispatches,
  suppression rows, a scan whose process died but whose session lives on. The
  outbox and connector loops are modules of their own, the project delivery loop
  is not modelled.
* `TicketClose`: one ticket. The change reference, the author's session and its
  model binding are recorded; versions and priority do not appear (each handler
  holds the ticket's locks from its first read, `CommandRecord`). The pinned graph
  is a constant; the instance has the four stages of the standard pack, a way back
  and a review stage.
* `RequestFacts`: a committed change is one step on the current state: the
  commands run under REPEATABLE READ and all update one ledger row, so of two
  that overlap one fails and is retried. Capture is the initial state and is
  confirmed. Superseded facts leave `pending`, because confirming them changes
  nothing the list shows. Tickets are the environment, with the columns a Request
  reads and with what `TicketWork`, `ProofBundle` and `TicketClose` let happen to
  them; a close may have an earlier clock than an invalidation it follows, but not an
  earlier one than the ticket's last close, whose version it is compared with. Proposals, cutover, attention facts and superseded rulings are left out.
* `CHECK_DEADLOCK FALSE` wherever it stands: clients send finitely many requests,
  bounds run out, and a system with nothing to do stops. Waiting for one another
  is what `NoWaitCycle`, `EveryRequestAnswered` and `JobsSettle` are about.

## Runs

| Run | Instance | Shows |
|---|---|---|
| `durability` | 2 commands, an API thread and the finalizer, 1 outage, promotion at any moment | accepted evidence survives the loss of the primary, answers are stable, evidence is in order, and the protocol implements `AcceptanceAuthority` |
| `outbox` | a command of 2 events and one of 1, confirmed in any order; 1 failure or crash besides the deadlocks of the rebuild, 1 invalid event, 2 dispositions, terminal at 2 attempts, 1 rebuild and any number that are rolled back | folded once per generation, with nothing left of the old one but what overlapped the reset; poison holds the stream; nothing is passed over except at or behind a late confirmation; CURRENT shows every card |
| `board` | 1 command of 2 events, API thread, finalizer, consumer, operator; 1 outage, 1 disposition, 1 rebuild; folds fail as victims of the rebuild, any number of times (`outbox` adds other failures and crashes) | the Board shows only what is durable; every recorded command is confirmed and reaches the Board, or the stream is held visibly |
| `board_gap` | 2 commands, finalizer and consumer, no failure at all | *violated* (see Findings) |
| `command_retry` | 2 requests with one key and body, 1 with that key and another body, 2 attempts each | one outcome per key and body through ambiguous commits |
| `command_contention` | a change and two opposite relations over 2 tickets | no lost update, no wait cycle, gapless positions, heads move only when acknowledged, every request is answered |
| `relations` | 2 writers, 4 tickets, all relations among three of them and a way through the fourth | no cycle of up to three tickets |
| `spool` | 2 commands, at most 2 live, 2 enqueues, 2 dispositions, 2 faults (crash, lost answer, rot), a scan limit of 7 files | the server executes in queue order; the tree opens again after any crash except for one known combination; the files implement `SpoolQueue`; what is pending settles or is visibly held |
| `connector` | 2 workers, 2 issues on pages of one, one of them labelled; up to 2 edits, a change by people, a failure or crash and an expired lease, any two of them together; late landings and buried markers | nothing is imported twice, a close is commented once among what a lookup reads but for expired leases and late landings, no page is left unfinished, progress is never undone, issues and closes settle but for the named exceptions |
| `worker` | a synthetic and a gated work-item routine, 3 time steps, one worker, one API request; backlog limit 2, 2 attempts, 1 new pack | one item and one waiting job per routine; every due fire is recorded and every job settled, but for the named exceptions |
| `ticket_close` | a commander, an operator and a reviewer; 2 candidates, 2 criteria, 2 episodes, 4 stages with a way back; 2 evidence rows, 2 verdicts | verdicts are linked to the reviews they answer, custody follows the episode, and the whole implements `ProvenTicket` |
| `requests` | 3 Requests, 1 Ticket, the decision blocker; 3 commands after each Request was accepted or rejected and confirmed; one unconfirmed fact or ruling, 1 change of the proof | duplicates stay flat, one Request per Ticket, DONE is never stale, what the list gets wrong waits for a confirmation |

`TypeOK` of `Durability`, `OutboxConsumer`, `CommandRecord`, `Spool` and
`ConnectorSync` documents their variables and is part of no run; for `Durability` and
`ConnectorSync` it is proved.

Why the bounds are enough. Two reconcilers meet in every pair of steps; a third
could only repeat what one of the two does. Two commands are needed to see
positions collide, and one command already has the whole evidence chain, which is
per command: `board` uses one so that liveness can be checked through failures.
One outage is enough to interrupt any step of a reconcile, and a second one meets
the same states. A command of two events and one of one are the smallest stream
with a batch, a neighbour and an order. Terminal at two attempts keeps the
distinction of first, last and terminal attempt (the code's value is three). One
rebuild that completes has an old and a new generation; that two leave nothing of the
first is proved. Two
attempts of a request are the smallest number in which an orphan and its
successor are both alive. For `command_contention` two tickets and two opposite
two-ticket commands are the smallest wait cycle, and a third command moves a head
while they wait. A cycle of four needs four tickets; shorter ones fit in three.
For `spool`, two commands have a front and a follower, two faults are a crash
during the recovery from a crash, and the scan limit is one that the longest
histories exceed and the others do not. For `connector`, two issues on pages of one are a
page and its successor, and `MaxTogether` lets every two kinds of disturbance meet
but not three; late landings and burials come on top of the two, and a burial only
before the second of them, which is enough for a buried marker to be posted again. For `worker`, two routines meet in one scan, two fires of one
routine are a backlog and three exceed it, and one request is enough to close
the cycle of locks with a scan. For `ticket_close`, a second candidate invalidates
the first, a second episode finds what the first left, and two verdicts suffice for
one before and one after a consumption. For `requests`, three Requests are a
duplicate, its canonical Request and a third to which that one may be tied, and
every history that ends in one of the start triages stands for its last step; each
evaluation, relation and retriage needed for a stale DONE fits in three commands,
and `TicketKeeps` in the proofs does without the bound.
The theorems below do without bounds.

Symmetry is used over commands in `durability`, candidates in `ticket_close` and
Requests in `requests`, where no liveness is checked and the configuration treats
the members alike.

### Fairness

* `Durability!Fairness`: replay and reconnection go on (streaming replication and
  systemd restarts); a reconcile in flight takes its next step or fails (statement
  and connection timeouts are set everywhere). The finalizer comes back to every
  unconfirmed command: `finalize_pending` continues behind its cursor and wraps
  round when nothing is left there, hence strong fairness of `Start(Finalizer, c)`
  (a finite set of commands; see the hazards for an endless stream of new ones).
  Its statements fail, but not for ever: strong fairness of its three writes. API
  threads owe nothing. This is the worker of `API/development_runtime.py`; the one of
  `control_worker.main` has no finalizer, and `EventuallyConfirmed` is not claimed
  for it.
* The consumer: weak fairness of `ConsumeOne`, because `ControlWorker.run` ticks for
  ever. Operators owe nothing, so a poisoned event may hold the stream for ever.
  A fold that waits for an open reset goes on because a running reset reaches its
  upsert, where the deadlock detector ends one of the two, or its session ends.
* `CommandRecord`: sessions that are waited for go on, and the server ends the
  others. Failures are never forced.
* `Spool`: a session that is open goes on, recovery included; the owner drains
  again and again (strong, since other sessions may hold the flock); the server
  handles what reaches it and its pending commands become durable.
* `ConnectorSync`: a tick goes on, a lease expires, commands become durable, and
  a free lease is claimed by some worker. People and failures owe nothing, nor has what
  is under way at the provider to land; a second worker may never get the lease.
* `ControlWorker`: each worker ticks again and again (strong: a row lock, a
  deadlock or a restart may be in between; the service unit restarts on failure),
  a standby answers the finalizer again and again, a request that has begun goes
  on, PostgreSQL's deadlock detector ends one waiter, claims expire.
* `TicketClose` and `RequestFacts` have safety properties only and no fairness: a
  ticket nobody works on stays as it is.

## Findings

`board_gap` (bug). Positions are drawn by the acknowledgement, confirmations
appear later in any order, and `_next_message` looks beyond its cursor only. A
late one is passed over and the Board reads CURRENT. `OnlyLateIsPassedOver` says
exactly how much can be lost: events at or behind the late position, including the
rest of a command whose first event was just folded.

### Observations

What the models and their proofs had to except or to allow, without a run of its own:

* Acceptance: after a promotion `_finalized_outcome` answers from the named copy
  and stores no confirmation; projections read confirmations only, so such a
  command is accepted and not projected.
* Board: rows that a fold inserts while a reset is under way survive it and are
  folded again in the next generation. A creation is then skipped (`ON CONFLICT DO
  NOTHING`) and changes are applied to the newer card, which shows until the stream has
  come as far again; `FoldedOnce` bounds what can survive. A rebuild that meets the
  consumer on one card can cost that event an attempt, and with the last one poison
  a sound event. A tombstoned creation keeps the Board from CURRENT for ever. A read
  counts the rows and fetches them in two statements: a reset that commits in between
  gives an empty Board that reads CURRENT; `CurrentShowsEveryCard` is about one moment.
* Relations: `add_relation` locks its own two tickets and walks committed
  relations: two writers without a common ticket close a cycle of four.
  `NoShortCycle` says what the locks do guarantee.
* Spool: retry, a second quarantine and a discard, with a crash at the wrong
  moment, leave records recovery refuses to open (the exception in `OpensUnlessKnown`;
  `src/docs/internal/SPEC.md:4664`, AC-DUR-08). Capacity counts live commands and the
  scan limit all files, and nothing relates the two: receipts, dispositions and torn
  evidence can carry a spool past what `scan_records` will open.
* Connector: a tick synchronises the page of issues before it delivers closes
  (`K/integrations/service.py:232`). When a close fails once after its marker
  comment was written, the comment has moved the issue's `updated_at`; the next tick
  meets it as changed, its update comment is refused `ticket-comment-ineligible`, and
  the stored refusal keeps every later tick from the close (connectors.md:336, CX-10,
  says that replays "reconcile by marker"). `ClosesSettle` and `IssuesSettle` except it
  as `Held`. A close can be commented twice without two owners: a comment that times
  out, is looked up as absent (`connectors/gitlab/adapter.py:259`) and lands after the
  second was posted, and one behind a hundred later comments, where
  `_marker_present` does not look (`adapter.py:374`). `OneMarkPerOwner` counts the first
  kind and speaks of the comments a lookup reads.
* Worker: a scan and a completion take tenant, ledger and item in opposite orders,
  so they can deadlock (SPEC.md:3692), and a scan that is ended takes the process
  with it. More than 400 due fires of a routine are refused in every tick, before the
  loops behind the scan come round; a new
  revision drops the fires its predecessor had not recorded (SPEC.md:1103). Jobs of
  `daily_backup` and `record_anchor` have no handler, so their later fires coalesce for
  ever. A gate's watermark is the scan's `now`, behind which events may commit.
* Ticket close: a review effect for a candidate abandoned before its review keeps the
  run from closing until the author changes back; one consumed by a principal of
  kind `reviewer` cannot be completed. After a reopening the old proof is current, a
  verdict may be linked to an effect of the old episode when candidate and reviewer
  are the same, and a different policy can never prove. A candidate changed behind
  the review stage needs no review from another model family (SPEC.md:2028). A close
  does not read blockers, and the proof may change after it.
* Requests: (a) the list can follow canonical Requests in a circle
  (`RecursionError` out of `list_requests`): r2 is rejected and evaluated done; r1
  is made its duplicate and evaluated done, all confirmed; r1 is rejected and
  evaluated, unconfirmed; r2 is made a duplicate of r1 and evaluated done,
  confirmed. operator-requests.md:94 calls the relation acyclic by construction;
  `DuplicatesStayFlat` proves that for the commands, and `ClashesArePending` says that
  the list recovers with the confirmation. The case needs eight commands, more than
  the run has; `Raises` stands for it. (b) A Ticket may be listed under two Requests
  while a release is unconfirmed. (c) An invalidation whose clock was read before
  that of the close it follows does not count as a later one. (d) An untriaged
  canonical Request cannot be triaged while a duplicate names it; a rejected
  Request keeps its Tickets. (e) A Ticket that is reopened and closed again brings an
  old DONE evaluation back, its episode being no part of the digest. (f) A ruling
  answers the latest confirmed occurrence of the decision, which may be outdated.
  (g) When a canonical Request's capture is unconfirmed and a later command is not,
  `latest_triage` raises. (h) Ticket facts in the list are not filtered by acceptance.

## Proofs

All theorems hold for any values of the constants that meet the named assumptions
(names of nothing are not members, bounds are numbers, constants that describe the
workflow graph or policies are well-formed, and what is counted is finite).

`Durability_proofs` proves `TypeCorrect`, `AcceptedIsNeverLost`, `AnswersAreStable`
and `EvidenceIsOrdered`. None of the properties is inductive. The invariant is

    IInv == Evidence /\ StepsKnow /\ PromotedIsFrozen /\ Answers

* `Evidence`: the standby is not ahead of the WAL, what is seen has been written,
  rows are in order, a finalization repeats its acknowledgement's position, a
  confirmation comes with a visible finalization.
* `StepsKnow`: what a reconciler has established when it reaches a step. It knows at
  `final` that the acknowledgement is on the standby and at `confirm` that the
  finalization is too. Other reconcilers cannot take that away, since rows are
  written once and the standby only moves forward; this is why the answer given at
  `confirm` is safe.
* `PromotedIsFrozen`: after a promotion the standby is unreachable, no reconcile is
  beyond its first reads, and whatever finalization is left is on the standby;
  so no step that needs the old world can be taken.
* `Answers`: the two properties themselves.

`Work_proofs` proves `RelationTypes` and `RelationsStayLegal` of `WorkRelations`. The invariant is
`PendingStaysLegal` with what locking means (a writer past its check holds both
tickets). `CheckedIsLegal` extracts a closed set from the failed search; any two
relations of a cycle of two or three share a ticket, so their writers exclude each
other, and one committed since the check would have needed one of the held tickets.

`ControlWorker_proofs` proves `TypeCorrect`, `OneItemOneJob` and `OutcomesStand` (a
recorded fire is never recorded again) for any number of workers, routines and
requests. The invariant adds `TriggersAdvance` (a trigger stands beyond every
recorded fire of its routine, and one of an old revision is only replaced by a worker
whose clock is not behind the scans made under it) and `ClaimsAndItems`. All steps but
the commit of a scan only close items and settle jobs (`OnlyCloses`), which
disturbs neither theorem.

It also proves, of `TicketClose`, `TypeCorrect`, `CustodyStays`, `LinksStay` and
`TicketImplementsProven`: every step of workflow, proof and work is a step of
`ProvenTicket` or leaves it alone. Its invariant says beside the types that before
the freeze there are no rows and no effects, that a bundle has criteria, that no
effect belongs to a later episode, and that a closed ticket was proven. One lemma
per handler says which abstract action it is.

`RequestFacts_proofs` proves `TypeCorrect`, `DuplicatesFlat`, `HolderIsRelation`,
`ListClashesPend` and `DoneIsSound`, for any number of Requests, Tickets and blockers
and without the run's bounds. `CommandAppends` reduces every command to one fact that
`Fits`. Duplicates and holders are inductive by themselves. For the rest the
invariant needs

* `Lag`: where the list may still come to show something else than the commands see,
  the latest fact of that slot is pending, behind all others of the slot. So when
  two listed Requests contradict what the commands guarantee, one of the facts
  involved is not confirmed yet;
* `AllSound`: of every evaluation that was ever stored (in the facts, in the list or
  on its way there) what its digest still means: each required Ticket was closed and
  unblocked, and has no late invalidation as long as its count of invalidations
  is the one in the digest. A Ticket's rows move on under it, and only a new
  invalidation, which the digest counts, can undo it. Equality of digests then
  gives the outcome of an evaluation made now.

`Durability_proofs` also proves the refinement, `ProtocolImplementsAuthority`: a step
answers one caller at most (`OneAnswer`), and the position it answers with is the one
of the command's receipt. That no two commands share it is a fact about the
identity column (`PositionsDrawn`). `BoardIsDurable` composes this with the consumer:
what the consumer has in its registers comes from commands whose rows are on the
standby (`ConsumerHoldsDurable`), and the standby keeps what it has replayed, also
through a promotion (`StandbyKeeps`).

`OutboxConsumer_proofs` proves `BoardFoldsOnce`, `PoisonHolds`, `CursorPassesOnlyLate`
and `CurrentCardsAreAll`, for any number of commands, events, failures, dispositions and
rebuilds. They are inductive only together, with what is known of the event that is
taken or blocked while other commands are confirmed (`InHand`): it is accepted,
beyond the cursor and unsettled, and whatever has come in front of it since was late.
For the rows the invariant adds that what is folded during a reset stands behind the
deleted ones and belongs to the generation that ends (`Survivors`), and that only
accepted events are shown, so that as many cards as accepted creations are all of them.

`CommandRecord_proofs` proves `OneAnswerPerKey`, `VersionsCount`, `RecordHasNoGap`,
`HeadsMoveWhenAcked` and `SessionsNeverWaitInACircle`. The invariant says what a session
relies on from one statement to the next (`SessionKnows`), each fact under the lock
that keeps it true while other sessions commit: the key's absence, heads that were
settled, the version that was compared, the position that was taken. Orphans whose
client has gone are no exception. `LocksInOrder` says which locks a session can have
at which statement. In a circle every session waits for one of the set; from the
last lock to the first, no member can wait there, and within a loop over tickets
the ticket waited for would have no highest value (`NoHighest`).

`ConnectorSync_proofs` proves `ConnectorTypes`, `NoVersionTwice`, `MarksAreCounted`,
`NoPageIsLeft` and `PositionIsKept`. Its invariant relates every tick, with the lease or
without it, to what is stored:

* `TickRight`: where a tick is in its page, that what it was shown is not newer than the
  source (`SeenEarlier`), that what it has finished of its page is observed
  (`PageDone`), and, for the tick that has the lease, that it is not behind the stored
  cursor (`Ahead`), which is why a completion never moves it back;
* `StampsDiffer` and `CommentsStored`: an order of updates, and every comment on a ticket
  is the stored result of its version's key, so that a repeated command finds it;
* `StraysCounted` and `MarksCounted`: every tick without the lease was paid for by an
  expired lease, and so was every tick that is going to write a second marker. The
  second counts the markers a lookup finds together with those under way and the ticks
  that have found none, against the overlaps and the comments ever left under way.

`Spool_proofs` proves `SpoolTypes`, `ServerKeepsOrder`, `SpoolOpens` and the refinement
`SpoolImplementsQueue`, for any number of commands, enqueues, dispositions and faults.
The invariant speaks of the records on disk and not of the steps that wrote them:

* `OnDisk`: records have numbers of their own, receipts are about earlier commands, a
  discard is the last that is said of a command, one command at most is quarantined
  and it is in front of all pending ones (`Barrier`), and in front of an anchor there are
  only accepted commands and their receipts (`Compacted`).
* `AtServer`: nothing that was ever sent is behind an unsettled command
  (`SentInFront`), and a request that may still execute belongs to an unsettled or a
  dropped one (`OnTheWay`). The order of execution follows.
* `InSession`: the directories agree with the receipts only after recovery and but
  for the record at work (`Places`), a cursor that knows the last record knows where
  the commands belong (`CursorRight`; this is why `TrustCursor` may skip the replay), a
  drain sends the first pending command with nothing that holds it back (`Drains`).

In the refinement the queue lists commands by their receipts and never by their
directories, so that a receipt is the abstract step and everything after it (head,
rename, cursor, recovery) is a stutter (`MovesAreSteps`, `RestIsAStep`).

`SpoolOpens` needs a second invariant, `OInv`, on top: every number up to the head is a
record, of a discarded command or in front of an anchor (`NoNumberMissing`); nothing is
written before a compaction is finished (`FrontCleared`), so that a chain that starts at
an anchor has no half-deleted part in front; the cursor lies in the chain or is what the
anchor names (`CursorKnown`); and each receipt takes its command from the state in which
the one before left it (`FollowsState`), with nothing after an acceptance or a discard
(`Final`), which is what the replay checks. The number of files is finite because they
have different numbers up to the head's successor (`FilesAreFinite`).

Only model-checked: liveness (`EventuallyConfirmed`, `RecordedReachesBoard`,
`EveryRequestAnswered`, `PendingSettles`, `IssuesSettle`, `ClosesSettle`, `FiresRecorded`,
`JobsSettle`), which with ENABLED is out of the prover's reach. Every invariant, action
property and refinement of a passing run is stated by a theorem. That the derivation
of a Request's state ends in the list is an induction over the number of Requests, which
the prover cannot instantiate; `DoneIsJustified` is stated for every state of the
canonical Request instead. No module declares a RECURSIVE operator.

## Plan

Next, in this order:

1. The estate import (`K/migration`): its two passes, fences and the importer's
   credential, as a state machine over import runs.
2. The finalizer's rotating batch cursor, backoff and quarantine, refining the choice
   of `Start(Finalizer, c)`.
3. Request capture, proposals and cutover beside `RequestFacts`; superseded rulings.
4. Durability mode `development_offhost_ack` in `CommandRecord`; erasure of proof
   objects.

### Not modelled

The web applications (user interface), generated clients and contracts, the runner (it
drives external processes), console streaming (I/O), catalog and bundle validation
(declared data), inbox, digest and health projections (folds of the stream
`OutboxConsumer` models), hash verification and recovery (cryptographic content,
little state), deployment scripts.
