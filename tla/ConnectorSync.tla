---------------------------- MODULE ConnectorSync ----------------------------
(***************************************************************************)
(* The standing tick of an issue connector (integrations/service.py) over  *)
(* its progress row, as several control workers run it: claim a lease,     *)
(* fetch one page of the provider's issues, turn each into a ticket or a   *)
(* comment, deliver the closes of linked tickets to the provider, and      *)
(* complete under the fence.  Every write to ctower is a command whose key *)
(* is derived from what it is about, so a repeated tick replays stored     *)
(* results, refusals included.                                             *)
(*                                                                         *)
(* One step is one transaction or one provider request.  The provider is   *)
(* GitLab as its adapter uses it: issues by time of update, in pages that  *)
(* are numbered afresh on every request.  A ticket is named by the issue   *)
(* it was made from and is closed at most once.  Refusals of a misdirected *)
(* configuration (project, custodian, label vocabulary) are left out.      *)
(***************************************************************************)
EXTENDS Naturals, FiniteSets, Sequences, SequencesExt

CONSTANTS
  Workers,      \* control workers, each with a claim owner of its own
  NoWorker,     \* claim_owner IS NULL
  Issues,       \* issues of the configured project
  FirstLabels,  \* those of them that carry the label before anybody edits them
  PageSize,     \* registration.page_size
  MaxEdits,     \* bound: changes that people make at the provider
  MaxHuman,     \* bound: changes that people make to the tickets
  MaxFaults,    \* bound: exceptions and crashes in ticks, answers that do not come
  MaxOverlaps,  \* bound: leases that expire while their owner still works
  MaxTogether   \* bound: all of these together

ASSUME ConnectorAssumption == NoWorker \notin Workers /\ PageSize \in Nat \ {0}
                              /\ IsFiniteSet(Issues) /\ FirstLabels \subseteq Issues
ASSUME ConnectorBoundAssumption ==
  /\ MaxEdits \in Nat /\ MaxHuman \in Nat
  /\ MaxFaults \in Nat /\ MaxOverlaps \in Nat /\ MaxTogether \in Nat

VARIABLES
  source,    \* the issues at the provider: [stamp, label, open]; stamp is updated_at
  marks,     \* the close of each issue at the provider: [seen, adrift, left, closing]
  progress,  \* row of connector_sync_progress: [cursor, events, owner, live]
  links,     \* issues with a row in connector_issue_links
  observed,  \* connector_issue_observations: the stamps of each issue
  receipts,  \* connector_close_deliveries: [issue, created]
  tickets,   \* [state, acked, label, comments]; acked: its durability head is
  results,   \* command_results of the connector's keys
  closes,    \* proof-gated closes in record order
  tick,      \* the tick of each worker
  budget     \* what is left of the bounds

ticketVars == <<tickets, results, closes>>
storeVars  == <<links, observed, receipts>>
\* marks[i]: seen, the comments with the marker among those a lookup reads, the newest
\* hundred; adrift, comments under way whose sender has gone on without an answer; left,
\* how many there ever were; closing, closes that are under way in the same manner.
vars == <<source, marks, progress, links, observed, receipts, tickets, results,
          closes, tick, budget>>

Steps == {"idle", "fetch", "look", "label", "intake", "link", "comment", "observe",
          "events", "close", "marker", "post", "put", "receipt", "complete", "failing"}
Cursor == [since : Nat, page : Nat \ {0}]
Idle == [pc |-> "idle", batch |-> <<>>, n |-> 1, next |-> [since |-> 0, page |-> 1],
         prev |-> 0, task |-> "replay", todo |-> <<>>, events |-> 0, created |-> FALSE]

\* The issues that are there at first, in some order of their updates.
FirstStamp == CHOOSE stamp \in [Issues -> 1 .. Cardinality(Issues)] : IsInjective(stamp)

Init ==
  /\ source = [i \in Issues |-> [stamp |-> FirstStamp[i], label |-> i \in FirstLabels,
                                open |-> TRUE]]
  /\ marks = [i \in Issues |-> [seen |-> 0, adrift |-> 0, left |-> 0, closing |-> 0]]
  /\ progress = [cursor |-> [since |-> 0, page |-> 1], events |-> 0,
                 owner |-> NoWorker, live |-> FALSE]
  /\ links = {} /\ observed = [i \in Issues |-> {}] /\ receipts = {}
  /\ tickets = [i \in Issues |-> [state |-> "none", acked |-> FALSE, label |-> FALSE,
                                  comments |-> <<>>]]
  /\ results = {} /\ closes = <<>>
  /\ tick = [w \in Workers |-> Idle]
  /\ budget = [edit |-> MaxEdits, human |-> MaxHuman, fault |-> MaxFaults,
               overlap |-> MaxOverlaps, any |-> MaxTogether]

-----------------------------------------------------------------------------
At(w, pc) == tick[w].pc = pc
Goto(w, pc) == tick' = [tick EXCEPT ![w].pc = pc]
Issue(w) == tick[w].batch[tick[w].n].issue
Spend(what) ==
  /\ budget[what] > 0 /\ budget.any > 0
  /\ budget' = [budget EXCEPT ![what] = @ - 1, !.any = @ - 1]

Now == 1 + Max({source[i].stamp : i \in Issues})

\* Mutant: completion does not ask whose lease it is.
HoldsByName(w) == progress.owner = w \/ progress.owner = NoWorker

\* The lease is still the tick's own.  claim_fence is compared beside claim_owner; a
\* worker has an owner id of its own and runs one tick at a time, so that the pair says
\* no more than the owner does.
Holds(w) == progress.owner = w /\ progress.live

\* How a tick goes on: to its next issue, once the labels are applied, or to them.
Past(t) == [t EXCEPT !.n = @ + 1, !.pc = IF t.n < Len(t.batch) THEN "look" ELSE "events"]
Labelled(t) == IF t.task = "update" THEN [t EXCEPT !.pc = "comment"] ELSE Past(t)
Labelling(t) == IF t.batch[t.n].label THEN [t EXCEPT !.pc = "label"] ELSE Labelled(t)

-----------------------------------------------------------------------------
(* Commands: the stored result of a key answers every repetition of it. *)

Stored(key) == {r \in results : r.key = key}
Outcome(key, body, fresh) ==
  IF Stored(key) = {} THEN fresh
  ELSE IF \E r \in Stored(key) : r.body = body
       THEN (CHOOSE r \in Stored(key) : TRUE).outcome
       ELSE "idempotency-conflict"
\* Mutant: a repeated command is executed again.
ExecuteAnew(key, body, fresh, i, ticket) ==
  /\ results' = results \union {[key |-> key, body |-> body, outcome |-> fresh]}
  /\ tickets' = IF fresh = "ok" THEN [tickets EXCEPT ![i] = ticket] ELSE tickets

\* A new command is decided on the ticket as it is, and stored whatever it decides.
Execute(key, body, fresh, i, ticket) ==
  IF Stored(key) = {}
  THEN /\ results' = results \union {[key |-> key, body |-> body, outcome |-> fresh]}
       /\ tickets' = IF fresh = "ok" THEN [tickets EXCEPT ![i] = ticket] ELSE tickets
  ELSE UNCHANGED <<results, tickets>>

-----------------------------------------------------------------------------
(* The lease. *)

Claim(w) ==
  /\ At(w, "idle")
  /\ progress.owner = NoWorker \/ ~progress.live
  /\ progress' = [progress EXCEPT !.owner = w, !.live = TRUE]
  /\ tick' = [tick EXCEPT ![w] = [Idle EXCEPT !.pc = "fetch", !.next = progress.cursor,
                                             !.events = progress.events]]
  /\ UNCHANGED <<source, marks, storeVars, ticketVars, budget>>

\* claim_expires_at passes; the bound is on expiries under a tick that still runs.
Lapse ==
  /\ progress.owner # NoWorker /\ progress.live
  /\ IF \E w \in Workers : Holds(w) /\ ~At(w, "idle") THEN Spend("overlap")
     ELSE UNCHANGED budget
  /\ progress' = [progress EXCEPT !.live = FALSE]
  /\ UNCHANGED <<source, marks, storeVars, ticketVars, tick>>

\* A completion that is stale fails like anything else in a tick.
Complete(w) ==
  /\ At(w, "complete")
  /\ IF Holds(w) /\ progress.events <= tick[w].events
     THEN /\ progress' = [progress EXCEPT !.cursor = tick[w].next, !.events = tick[w].events,
                                          !.owner = NoWorker, !.live = FALSE]
          /\ tick' = [tick EXCEPT ![w] = Idle]
     ELSE Goto(w, "failing") /\ UNCHANGED progress
  /\ UNCHANGED <<source, marks, storeVars, ticketVars, budget>>

Fail(w) ==
  /\ At(w, "failing")
  /\ progress' = IF Holds(w) THEN [progress EXCEPT !.owner = NoWorker, !.live = FALSE]
                 ELSE progress
  /\ tick' = [tick EXCEPT ![w] = Idle]
  /\ UNCHANGED <<source, marks, storeVars, ticketVars, budget>>

-----------------------------------------------------------------------------
(* The page of issues. *)

Newer(since) ==
  LET late == {i \in Issues : source[i].stamp > since}
  IN CHOOSE list \in [1 .. Cardinality(late) -> late] :
       \A k, n \in DOMAIN list : k < n => source[list[k]].stamp < source[list[n]].stamp
Snapshot(i) == [issue |-> i, stamp |-> source[i].stamp, label |-> source[i].label,
                open |-> source[i].open]
Page(cursor) ==
  LET list == Newer(cursor.since)
      part == SubSeq(list, (cursor.page - 1) * PageSize + 1,
                     Min({cursor.page * PageSize, Len(list)}))
  IN [k \in DOMAIN part |-> Snapshot(part[k])]

\* Mutant: the last page is the place to wait for more.
NextCursorStay(cursor, page) ==
  IF Len(Newer(cursor.since)) > cursor.page * PageSize
  THEN [cursor EXCEPT !.page = @ + 1] ELSE cursor

NextCursor(cursor, page) ==
  IF Len(Newer(cursor.since)) > cursor.page * PageSize
  THEN [cursor EXCEPT !.page = @ + 1]
  ELSE [since |-> IF page = <<>> THEN cursor.since ELSE page[Len(page)].stamp, page |-> 1]

Fetch(w) ==
  LET page == Page(tick[w].next)
  IN /\ At(w, "fetch")
     /\ tick' = [tick EXCEPT ![w].batch = page, ![w].next = NextCursor(@, page),
                             ![w].pc = IF page = <<>> THEN "events" ELSE "look"]
     /\ UNCHANGED <<source, marks, progress, storeVars, ticketVars, budget>>

Look(w) ==
  LET i == Issue(w)
      latest == Max(observed[i] \union {0})
      t == [tick[w] EXCEPT !.prev = latest,
                           !.task = IF i \notin links THEN "create"
                                    ELSE IF latest = tick[w].batch[tick[w].n].stamp
                                    THEN "replay" ELSE "update"]
  IN /\ At(w, "look")
     /\ tick' = [tick EXCEPT ![w] = IF t.task = "create" THEN [t EXCEPT !.pc = "intake"]
                                    ELSE Labelling(t)]
     /\ UNCHANGED <<source, marks, progress, storeVars, ticketVars, budget>>

Submit(w) ==
  LET i == Issue(w)
      key == <<"intake", i, 0>>
      body == tick[w].batch[tick[w].n].stamp
  IN /\ At(w, "intake")
     /\ Execute(key, body, "ok", i, [tickets[i] EXCEPT !.state = "open"])
     /\ Goto(w, IF Outcome(key, body, "ok") = "ok" THEN "link" ELSE "failing")
     /\ UNCHANGED <<source, marks, progress, storeVars, closes, budget>>

\* The link and the first observation are one transaction.
RecordIssue(w) ==
  LET i == Issue(w)
  IN /\ At(w, "link")
     /\ links' = links \union {i}
     /\ observed' = [observed EXCEPT ![i] = @ \union {tick[w].batch[tick[w].n].stamp}]
     /\ tick' = [tick EXCEPT ![w] = Labelling(@)]
     /\ UNCHANGED <<source, marks, progress, receipts, ticketVars, budget>>

ApplyLabel(w) ==
  LET i == Issue(w)
      key == <<"label", i, 0>>
      fresh == IF ~tickets[i].acked THEN "durability_pending"
               ELSE IF tickets[i].label THEN "label-already-applied" ELSE "ok"
      outcome == Outcome(key, 0, fresh)
  IN /\ At(w, "label")
     /\ Execute(key, 0, fresh, i, [tickets[i] EXCEPT !.label = TRUE, !.acked = FALSE])
     /\ IF outcome \in {"ok", "durability_pending"}
        THEN tick' = [tick EXCEPT ![w] = Labelled(@)]
        ELSE Goto(w, "failing")
     /\ UNCHANGED <<source, marks, progress, storeVars, closes, budget>>

\* Mutant: an issue whose comment is refused is skipped, as a label is.
AddCommentOrSkip(w) ==
  LET i == Issue(w)
      seen == tick[w].batch[tick[w].n]
      key == <<"update", i, seen.stamp>>
      fresh == IF ~tickets[i].acked THEN "durability_pending" ELSE "ok"
  IN /\ At(w, "comment")
     /\ Execute(key, tick[w].prev, fresh, i,
                [tickets[i] EXCEPT !.comments = Append(@, seen.stamp), !.acked = FALSE])
     /\ IF Outcome(key, tick[w].prev, fresh) = "ok" THEN Goto(w, "observe")
        ELSE tick' = [tick EXCEPT ![w] = Past(@)]
     /\ UNCHANGED <<source, marks, progress, storeVars, closes, budget>>

AddComment(w) ==
  LET i == Issue(w)
      seen == tick[w].batch[tick[w].n]
      key == <<"update", i, seen.stamp>>
      fresh == IF ~tickets[i].acked THEN "durability_pending"
               ELSE IF tickets[i].state = "closed" THEN "ticket-comment-ineligible" ELSE "ok"
      outcome == Outcome(key, tick[w].prev, fresh)
  IN /\ At(w, "comment")
     /\ Execute(key, tick[w].prev, fresh, i,
                [tickets[i] EXCEPT !.comments = Append(@, seen.stamp), !.acked = FALSE])
     /\ Goto(w, IF \/ outcome = "ok"
                   \/ outcome = "ticket-comment-ineligible" /\ ~seen.open
                THEN "observe" ELSE "failing")
     /\ UNCHANGED <<source, marks, progress, storeVars, closes, budget>>

Observe(w) ==
  /\ At(w, "observe")
  /\ observed' = [observed EXCEPT ![Issue(w)] = @ \union {tick[w].batch[tick[w].n].stamp}]
  /\ tick' = [tick EXCEPT ![w] = Past(@)]
  /\ UNCHANGED <<source, marks, progress, links, receipts, ticketVars, budget>>
-----------------------------------------------------------------------------
(* The closes of linked tickets. *)

\* Mutant: the read starts one event too late.
ReadEventsBehind(w) ==
  LET todo == SubSeq(closes, tick[w].events + 2, Len(closes))
  IN /\ At(w, "events")
     /\ tick' = [tick EXCEPT ![w].todo = todo,
                             ![w].pc = IF todo = <<>> THEN "complete" ELSE "close"]
     /\ UNCHANGED <<source, marks, progress, storeVars, ticketVars, budget>>

\* One read of the project's events behind the claimed position.
ReadEvents(w) ==
  LET todo == SubSeq(closes, tick[w].events + 1, Len(closes))
  IN /\ At(w, "events")
     /\ tick' = [tick EXCEPT ![w].todo = todo,
                             ![w].pc = IF todo = <<>> THEN "complete" ELSE "close"]
     /\ UNCHANGED <<source, marks, progress, storeVars, ticketVars, budget>>

Delivered(i) == \E r \in receipts : r.issue = i
Closed(t) == [t EXCEPT !.todo = Tail(@), !.events = @ + 1,
                       !.pc = IF Len(t.todo) = 1 THEN "complete" ELSE "close"]

\* What has no link, or has its receipt, is passed.
CheckDelivery(w) ==
  LET i == Head(tick[w].todo)
  IN /\ At(w, "close")
     /\ IF i \in links /\ ~Delivered(i) THEN Goto(w, "marker")
        ELSE tick' = [tick EXCEPT ![w] = Closed(@)]
     /\ UNCHANGED <<source, marks, progress, storeVars, ticketVars, budget>>

\* Mutant: the comment is posted without a look for its marker.
ReadMarkerBlind(w) ==
  /\ At(w, "marker")
  /\ Goto(w, "post")
  /\ UNCHANGED <<source, marks, progress, storeVars, ticketVars, budget>>

ReadMarker(w) ==
  /\ At(w, "marker")
  /\ tick' = [tick EXCEPT ![w].created = FALSE,
                          ![w].pc = IF marks[Head(tick[w].todo)].seen > 0 THEN "put" ELSE "post"]
  /\ UNCHANGED <<source, marks, progress, storeVars, ticketVars, budget>>

\* A comment and a close each move the issue's updated_at.
PostMarker(i) ==
  /\ marks' = [marks EXCEPT ![i].seen = @ + 1]
  /\ source' = [source EXCEPT ![i].stamp = Now]
PutClosed(i) ==
  source' = IF source[i].open THEN [source EXCEPT ![i].open = FALSE, ![i].stamp = Now]
            ELSE source

\* The sender goes on, and what it has sent is still under way.
LeaveNote(i) ==
  /\ marks' = [marks EXCEPT ![i].adrift = @ + 1, ![i].left = @ + 1]
  /\ UNCHANGED source
LeaveClose(i) == marks' = [marks EXCEPT ![i].closing = @ + 1] /\ UNCHANGED source

Post(w) ==
  /\ At(w, "post")
  /\ PostMarker(Head(tick[w].todo))
  /\ tick' = [tick EXCEPT ![w].created = TRUE, ![w].pc = "put"]
  /\ UNCHANGED <<progress, storeVars, ticketVars, budget>>

Put(w) ==
  /\ At(w, "put")
  /\ PutClosed(Head(tick[w].todo))
  /\ Goto(w, "receipt")
  /\ UNCHANGED <<marks, progress, storeVars, ticketVars, budget>>

\* No answer: the write did not happen, it did, or it will.  The sender looks it up: found,
\* it goes on; absent, it is tried again; and without an answer to that the tick fails.
PostUnanswered(w) ==
  LET i == Head(tick[w].todo)
  IN /\ At(w, "post") /\ Spend("fault")
     /\ UNCHANGED <<source, marks>> \/ PostMarker(i) \/ LeaveNote(i)
     /\ \/ Goto(w, "failing")
        \/ marks'[i].seen = 0 /\ Goto(w, "marker")
        \/ /\ marks'[i].seen > 0
           /\ tick' = [tick EXCEPT ![w].created = TRUE, ![w].pc = "put"]
     /\ UNCHANGED <<progress, storeVars, ticketVars>>

PutUnanswered(w) ==
  LET i == Head(tick[w].todo)
  IN /\ At(w, "put") /\ Spend("fault")
     /\ UNCHANGED <<source, marks>> \/ (PutClosed(i) /\ UNCHANGED marks) \/ LeaveClose(i)
     /\ \/ Goto(w, "failing")
        \/ (marks[i].seen = 0 \/ source'[i].open) /\ Goto(w, "marker")
        \/ marks[i].seen > 0 /\ ~source'[i].open /\ Goto(w, "receipt")
     /\ UNCHANGED <<progress, storeVars, ticketVars>>

\* Another receipt than the one that is there already is an error.
RecordDelivery(w) ==
  LET receipt == [issue |-> Head(tick[w].todo), created |-> tick[w].created]
  IN /\ At(w, "receipt")
     /\ receipts' = IF Delivered(receipt.issue) THEN receipts ELSE receipts \union {receipt}
     /\ IF receipt \in receipts' THEN tick' = [tick EXCEPT ![w] = Closed(@)]
        ELSE Goto(w, "failing")
     /\ UNCHANGED <<source, marks, progress, links, observed, ticketVars, budget>>

-----------------------------------------------------------------------------
(* The world around the ticks. *)

\* An exception anywhere in a tick; the provider's answers may fail at fetch.
Raise(w) ==
  /\ tick[w].pc \notin {"idle", "failing"} /\ Spend("fault")
  /\ Goto(w, "failing")
  /\ UNCHANGED <<source, marks, progress, storeVars, ticketVars>>

\* The process ends; its lease stays behind, and what it has sent may still be under way.
Crash(w) ==
  /\ ~At(w, "idle") /\ Spend("fault")
  /\ tick' = [tick EXCEPT ![w] = Idle]
  /\ \/ UNCHANGED <<source, marks>>
     \/ At(w, "post") /\ LeaveNote(Head(tick[w].todo))
     \/ At(w, "put") /\ LeaveClose(Head(tick[w].todo))
  /\ UNCHANGED <<progress, storeVars, ticketVars>>

\* What was under way arrives.
LandNote(i) ==
  /\ marks[i].adrift > 0
  /\ marks' = [marks EXCEPT ![i].adrift = @ - 1, ![i].seen = @ + 1]
  /\ source' = [source EXCEPT ![i].stamp = Now]
  /\ UNCHANGED <<progress, storeVars, ticketVars, tick, budget>>

LandClose(i) ==
  /\ marks[i].closing > 0
  /\ marks' = [marks EXCEPT ![i].closing = @ - 1]
  /\ PutClosed(i)
  /\ UNCHANGED <<progress, storeVars, ticketVars, tick, budget>>

\* People comment on, until the marker is no longer among the newest hundred.  The bound
\* is on when: not after the last of the things that are counted.
Bury(i) ==
  /\ marks[i].seen > 0 /\ budget.any > 0
  /\ marks' = [marks EXCEPT ![i].seen = 0]
  /\ source' = [source EXCEPT ![i].stamp = Now]
  /\ UNCHANGED <<progress, storeVars, ticketVars, tick, budget>>

\* Somebody edits, labels, closes or reopens an issue.
Edit(i) ==
  /\ Spend("edit")
  /\ \E label \in {source[i].label, TRUE}, open \in BOOLEAN :
       source' = [source EXCEPT ![i] = [stamp |-> Now, label |-> label, open |-> open]]
  /\ UNCHANGED <<marks, progress, storeVars, ticketVars, tick>>

\* A ticket is closed through its proof gate, or labelled, by somebody else.
CloseTicket(i) ==
  /\ tickets[i].state = "open" /\ tickets[i].acked /\ Spend("human")
  /\ tickets' = [tickets EXCEPT ![i].state = "closed", ![i].acked = FALSE]
  /\ closes' = Append(closes, i)
  /\ UNCHANGED <<source, marks, progress, storeVars, results, tick>>

LabelTicket(i) ==
  /\ tickets[i].state # "none" /\ tickets[i].acked /\ ~tickets[i].label /\ Spend("human")
  /\ tickets' = [tickets EXCEPT ![i].label = TRUE, ![i].acked = FALSE]
  /\ UNCHANGED <<source, marks, progress, storeVars, results, closes, tick>>

\* The finalizer of some worker has the ticket's head acknowledged (Durability).
Acknowledge(i) ==
  /\ tickets[i].state # "none" /\ ~tickets[i].acked
  /\ tickets' = [tickets EXCEPT ![i].acked = TRUE]
  /\ UNCHANGED <<source, marks, progress, storeVars, results, closes, tick, budget>>

-----------------------------------------------------------------------------
Step(w) ==
  \/ Fetch(w) \/ Look(w) \/ Submit(w) \/ RecordIssue(w) \/ ApplyLabel(w) \/ AddComment(w)
  \/ Observe(w) \/ ReadEvents(w) \/ CheckDelivery(w) \/ ReadMarker(w) \/ Post(w)
  \/ Put(w) \/ RecordDelivery(w) \/ Complete(w) \/ Fail(w)

Next ==
  \/ \E w \in Workers :
       \/ Claim(w) \/ Step(w) \/ PostUnanswered(w) \/ PutUnanswered(w)
       \/ Raise(w) \/ Crash(w)
  \/ Lapse
  \/ \E i \in Issues :
       \/ LandNote(i) \/ LandClose(i) \/ Bury(i) \/ Edit(i)
       \/ CloseTicket(i) \/ LabelTicket(i) \/ Acknowledge(i)

Spec == Init /\ [][Next]_vars

\* A free lease is claimed by some worker's next tick, not by every worker's in turn, and
\* a tick takes its steps; time passes; the finalizer comes round.  Nobody has to edit,
\* close or label anything.
Fairness ==
  /\ WF_vars(\E w \in Workers : Claim(w))
  /\ \A w \in Workers : WF_vars(Step(w))
  /\ WF_vars(Lapse)
  /\ \A i \in Issues : WF_vars(Acknowledge(i))

FairSpec == Spec /\ Fairness

-----------------------------------------------------------------------------
(* Properties                                                              *)

TypeOK ==
  /\ source \in [Issues -> [stamp : Nat, label : BOOLEAN, open : BOOLEAN]]
  /\ marks \in [Issues -> [seen : Nat, adrift : Nat, left : Nat, closing : Nat]]
  /\ progress \in [cursor : Cursor, events : Nat, owner : Workers \union {NoWorker},
                   live : BOOLEAN]
  /\ links \subseteq Issues /\ observed \in [Issues -> SUBSET Nat]
  /\ receipts \subseteq [issue : Issues, created : BOOLEAN]
  /\ tickets \in [Issues -> [state : {"none", "open", "closed"}, acked : BOOLEAN,
                            label : BOOLEAN, comments : Seq(Nat)]]
  /\ \A w \in Workers : tick[w].pc \in Steps /\ tick[w].next \in Cursor

\* The cursor leaves a page only when everything the page held is observed: no refusal,
\* failure, crash or second owner makes a tick drop an issue it was given.
PagesAreFinished ==
  [][progress'.cursor # progress.cursor =>
       \E w \in Workers :
         /\ At(w, "complete") /\ progress.owner = w
         /\ \A k \in DOMAIN tick[w].batch :
              tick[w].batch[k].stamp \in observed[tick[w].batch[k].issue]]_vars

\* Whatever ticks overlap, the stored position does not go back: neither the time the
\* pages start from nor the events that are done.
ProgressIsKept ==
  [][/\ progress'.cursor.since >= progress.cursor.since
     /\ progress'.events >= progress.events]_vars

\* Replays, restarts and overlapping ticks put no version of an issue on its ticket
\* twice, and none that the provider never had.
NoDuplicateUpdates ==
  \A i \in Issues :
    /\ IsInjective(tickets[i].comments)
    /\ \A k \in DOMAIN tickets[i].comments : tickets[i].comments[k] <= source[i].stamp

\* Among the comments a lookup reads, a close is commented once, and once more at most for
\* every lease that expired under its owner and for every comment whose sender did not
\* wait for it: it was looked up as absent, and may land beside another.
OneMarkPerOwner ==
  \A i \in Issues :
    marks[i].seen <= 1 + (MaxOverlaps - budget.overlap) + marks[i].left

\* As stored results stand, a tick that gets this issue fails at it: its creation was
\* recorded with other content, its label was refused for good, or its comment was.
Held(i) ==
  LET now == source[i].stamp
      update == Stored(<<"update", i, now>>)
  IN \/ i \notin links /\ \E r \in Stored(<<"intake", i, 0>>) : r.body # now
     \/ /\ source[i].label
        /\ \E r \in Stored(<<"label", i, 0>>) : r.outcome = "label-already-applied"
     \/ /\ i \in links /\ now \notin observed[i]
        /\ \E r \in update : \/ r.body # Max(observed[i])
                             \/ r.outcome = "durability_pending"
                             \/ r.outcome = "ticket-comment-ineligible" /\ source[i].open

\* The page moved on behind the issue: it was edited while its list was being paged.
PassedOver(i) ==
  source[i].stamp \notin observed[i] /\ source[i].stamp <= progress.cursor.since

\* Every issue at the provider comes to ctower as it is, through failures and overlaps,
\* unless a stored refusal holds the connector or the paging has passed an issue over.
IssuesSettle ==
  \A i \in Issues :
    <>[](source[i].stamp \in observed[i] \/ PassedOver(i) \/ \E j \in Issues : Held(j))

\* Every close of a linked ticket is delivered, unless a stored refusal holds the connector
\* or ticks overlapped: one may link a ticket whose close the other has already passed.
ClosesSettle ==
  \A i \in Issues :
    <>[](\/ tickets[i].state = "closed" /\ i \in links => Delivered(i)
         \/ \E j \in Issues : Held(j)
         \/ budget.overlap < MaxOverlaps)
=============================================================================
