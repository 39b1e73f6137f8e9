------------------------ MODULE CommandRecord_proofs ------------------------
(***************************************************************************)
(* Proofs about CommandRecord for every set of requests, keys and tickets, *)
(* every number of attempts and of failures: requests with one key agree   *)
(* on their answer, a version counts the events of its ticket, the record  *)
(* has no gap, a durability head moves only past acknowledged commands,    *)
(* and the sessions never wait for each other in a circle.                 *)
(*                                                                         *)
(* The inductive invariant says what a session may rely on from one        *)
(* statement to the next (SessionKnows), each fact under the lock that     *)
(* keeps it true while other sessions commit, and which locks it can have  *)
(* at all (LocksInOrder).  It is kept by orphans too: a session that       *)
(* nobody waits for has its locks until it rolls back or commits.          *)
(***************************************************************************)
EXTENDS CommandRecord, FiniteSetTheorems, WellFoundedInduction, TLAPS

-----------------------------------------------------------------------------
(* The invariant.                                                          *)

Inside == {"absent", "identity", "head", "headLock", "verdict", "ticket", "compare",
           "append", "write", "commit"}
Steps  == Inside \cup {"unused", "reserve", "done"}

OutcomeSet == [kind : Answers, at : Nat]
ResultSet  == [digest : {"none"} \cup {DigestOf[r] : r \in Requests}, outcome : OutcomeSet]

\* What is stored and what the sessions have in hand.
DataTypes ==
  /\ results \in [Keys -> ResultSet]
  /\ version \in [Tickets -> Nat] /\ ledger \in Nat
  /\ head \in [Tickets -> Keys \cup {NoKey}] /\ acked \subseteq Keys
  /\ events \subseteq [key : Keys, ticket : Tickets, position : Nat]
  /\ IsFiniteSet(events)

SessionTypes ==
  /\ holder \in [Resources -> Sessions \cup {NoSession}]
  /\ pc \in [Sessions -> Steps]
  /\ left \in [Sessions -> SUBSET Tickets]
  /\ snap \in [Sessions -> [key : Keys \cup {NoKey}, acked : BOOLEAN]]
  /\ pending \in [Sessions -> BOOLEAN]
  /\ draft \in [Sessions -> [outcome : OutcomeSet, position : Nat]]
  /\ attempt \in [Requests -> 0..MaxAttempts] /\ reply \in [Requests -> OutcomeSet]

Types == DataTypes /\ SessionTypes

\* What is stored is an answer, and replies are what is stored.
RepliesStored ==
  /\ \A k \in Keys : results[k] # NoResult => results[k].outcome.kind \in Stored
  /\ \A r \in Requests : reply[r].kind \notin {"none", "idempotency_conflict", "exhausted"} =>
       /\ results[KeyOf[r]] # NoResult
       /\ results[KeyOf[r]].digest = DigestOf[r] /\ results[KeyOf[r]].outcome = reply[r]

\* An event's key has its result.
EventsStored == \A e \in events : results[e.key] # NoResult

\* Attempts that were not made yet.
Unused == \A s \in Sessions : s[2] > attempt[s[1]] => pc[s] = "unused"

Served(s) == TicketsOf[s[1]]

\* The session is going to change its tickets ...
Applying(s) == pc[s] \in {"append", "write", "commit"} /\ draft[s].outcome.kind = "ok"
\* ... or has found that it may.
Judged(s) == pc[s] \in {"ticket", "compare"} \/ Applying(s)

\* The loops over the tickets that it has completed for t.
PastAbsent(s, t) ==
  \/ pc[s] \in {"absent", "identity"} /\ t \notin left[s]
  \/ pc[s] \in {"head", "headLock", "verdict"} \/ Judged(s)
PastHead(s, t) ==
  \/ pc[s] \in {"head", "headLock"} /\ t \notin left[s]
  \/ pc[s] = "verdict" \/ Judged(s)
PastTicket(s, t) ==
  \/ pc[s] = "ticket" /\ t \notin left[s]
  \/ pc[s] = "compare" \/ Applying(s)

Has(s, kind, x) == holder[<<kind, x>>] = s

\* Nothing was stored for the key since the session has its lock.
KeyGuard(s) == pc[s] \in Inside => Has(s, "key", Key(s)) /\ results[Key(s)] = NoResult

\* The tickets of the current loop that are left.
LeftGuard(s) ==
  /\ pc[s] \in {"absent", "identity", "head", "headLock", "verdict", "ticket"} =>
       left[s] # {} /\ left[s] \subseteq Served(s)
  /\ pc[s] = "verdict" => left[s] = Served(s)

\* A head that did not exist cannot appear while its identity is locked.
IdentityGuard(s) ==
  \A t \in Served(s) : PastAbsent(s, t) => head[t] # NoKey \/ Has(s, "identity", t)

\* A head that was not found pending has not moved since.
HeadKept(s, t) ==
  \/ head[t] = NoKey /\ Has(s, "identity", t)
  \/ head[t] \in acked /\ Has(s, "head", t)
HeadGuard(s) ==
  /\ \A t \in Served(s) : PastHead(s, t) => pending[s] \/ HeadKept(s, t)
  /\ Judged(s) => ~pending[s]
  /\ pc[s] = "headLock" /\ snap[s].acked => snap[s].key \in acked

\* The version that was compared is still the ticket's.
TicketGuard(s) ==
  /\ \A t \in Served(s) : PastTicket(s, t) => Has(s, "ticket", t)
  /\ Applying(s) => draft[s].outcome.at = version[SourceOf[s[1]]] + 1

\* The position that was taken is still the next.
LedgerGuard(s) ==
  /\ Applying(s) /\ pc[s] # "append" => Has(s, "ledger", 0) /\ draft[s].position = ledger + 1
  /\ pc[s] = "append" => draft[s].outcome.kind = "ok"
  /\ pc[s] \in {"write", "commit"} => draft[s].outcome.kind \in Stored

SessionKnows(s) ==
  /\ KeyGuard(s) /\ LeftGuard(s) /\ IdentityGuard(s)
  /\ HeadGuard(s) /\ TicketGuard(s) /\ LedgerGuard(s)

\* Locks are taken kind after kind, and within a kind in ticket order.
LocksInOrder(s) ==
  /\ \A k \in Keys : Has(s, "key", k) => pc[s] \in Inside
  /\ \A t \in Tickets : Has(s, "identity", t) =>
       \/ pc[s] \in {"absent", "identity"} /\ \A u \in left[s] : t < u
       \/ pc[s] \in Inside \ {"absent", "identity"}
  /\ \A t \in Tickets : Has(s, "head", t) =>
       \/ pc[s] \in {"head", "headLock"} /\ \A u \in left[s] : t < u
       \/ pc[s] \in Inside \ {"absent", "identity", "head", "headLock"}
  /\ \A t \in Tickets : Has(s, "ticket", t) =>
       \/ pc[s] = "ticket" /\ \A u \in left[s] : t < u
       \/ pc[s] \in {"compare", "append", "write", "commit"}
  /\ Has(s, "ledger", 0) => pc[s] \in {"write", "commit"}

\* The inductive invariant.
IInv ==
  /\ Types /\ RepliesStored /\ EventsStored /\ Unused
  /\ VersionCountsEvents /\ PositionsGapless
  /\ \A s \in Sessions : SessionKnows(s) /\ LocksInOrder(s)

-----------------------------------------------------------------------------
(* Sessions, locks and the order of tickets.                               *)

\* A session is a request with the number of an attempt.
LEMMA SessionParts ==
  ASSUME NEW s \in Sessions
  PROVE  /\ s[1] \in Requests /\ s[2] \in 1..MaxAttempts /\ s = <<s[1], s[2]>>
         /\ Key(s) \in Keys /\ s # NoSession
         /\ SourceOf[s[1]] \in Served(s) /\ Served(s) \subseteq Tickets /\ Served(s) # {}
<1>1. s[1] \in Requests /\ s[2] \in 1..MaxAttempts /\ s = <<s[1], s[2]>>
  BY DEF Sessions
<1>2. s # NoSession
  BY <1>1 DEF NoSession
<1> QED BY <1>1, <1>2, RequestAssumption DEF Key, Served

\* What can be locked.
LEMMA ResourceParts ==
  /\ \A k \in Keys : <<"key", k>> \in Resources
  /\ \A t \in Tickets : /\ <<"identity", t>> \in Resources /\ <<"head", t>> \in Resources
                        /\ <<"ticket", t>> \in Resources
  /\ <<"ledger", 0>> \in Resources
BY DEF Resources

\* A set of numbers that has a member has a least one.
LEMMA LeastNumber ==
  ASSUME NEW S \in SUBSET Nat, S # {}
  PROVE  \E n \in S : \A m \in S : n <= m
<1>1. PICK n \in S : \A m \in S : <<m, n>> \notin OpToRel(<, Nat)
  BY NatLessThanWellFounded, WFMin
<1>2. \A m \in S : ~(m < n)
  BY <1>1 DEF OpToRel
<1> QED BY <1>2

\* FirstLeft is the lowest ticket of the current loop.
LEMMA FirstLeftIsFirst ==
  ASSUME NEW s \in Sessions, left[s] \subseteq Tickets, left[s] # {}
  PROVE  /\ FirstLeft(s) \in left[s] /\ \A u \in left[s] : FirstLeft(s) <= u
         /\ \A u \in left[s] \ {FirstLeft(s)} : FirstLeft(s) < u
<1>1. left[s] \in SUBSET Nat
  BY RequestAssumption
<1>2. \E t \in left[s] : \A u \in left[s] : t <= u
  BY <1>1, LeastNumber
<1>3. FirstLeft(s) \in left[s] /\ \A u \in left[s] : FirstLeft(s) <= u
  BY <1>2 DEF FirstLeft
<1> QED BY <1>1, <1>3

\* A loop goes on with the tickets after the first, or ends.
LEMMA ProceedLeaves ==
  ASSUME SessionTypes, NEW s \in Sessions, left[s] # {}, left[s] \subseteq Served(s),
         NEW step, NEW next, Proceed(s, step, next)
  PROVE  /\ FirstLeft(s) \in left[s] /\ FirstLeft(s) \in Served(s) /\ FirstLeft(s) \in Tickets
         /\ \A u \in left[s] : u = FirstLeft(s) \/ FirstLeft(s) < u
         /\ \/ /\ pc' = [pc EXCEPT ![s] = step] /\ pc'[s] = step
               /\ left'[s] = left[s] \ {FirstLeft(s)} /\ left'[s] # {}
            \/ /\ pc' = [pc EXCEPT ![s] = next] /\ pc'[s] = next
               /\ left'[s] = Served(s) /\ left[s] = {FirstLeft(s)}
         /\ \A o \in Sessions \ {s} : left'[o] = left[o] /\ pc'[o] = pc[o]
         /\ left' \in [Sessions -> SUBSET Tickets]
         /\ left'[s] \subseteq Served(s)
<1>1. left[s] \subseteq Tickets /\ Served(s) \subseteq Tickets
  BY SessionParts
<1>2. /\ FirstLeft(s) \in left[s]
      /\ \A u \in left[s] : u = FirstLeft(s) \/ FirstLeft(s) < u
  BY <1>1, FirstLeftIsFirst
<1>3. CASE left[s] \ {FirstLeft(s)} = {}
  <2>1. left' = [left EXCEPT ![s] = Served(s)] /\ pc' = [pc EXCEPT ![s] = next]
    BY <1>3 DEF Proceed, Goto, Served
  <2> QED BY <1>1, <1>2, <1>3, <2>1 DEF SessionTypes
<1>4. CASE left[s] \ {FirstLeft(s)} # {}
  <2>1. /\ left' = [left EXCEPT ![s] = left[s] \ {FirstLeft(s)}]
        /\ pc' = [pc EXCEPT ![s] = step]
    BY <1>4 DEF Proceed, Goto
  <2> QED BY <1>1, <1>2, <1>4, <2>1 DEF SessionTypes
<1> QED BY <1>3, <1>4

\* A lock that is taken was free.
LEMMA AcquireTakes ==
  ASSUME SessionTypes, NEW s \in Sessions, NEW x \in Resources, Acquire(s, x)
  PROVE  /\ holder' \in [Resources -> Sessions \cup {NoSession}]
         /\ \A y \in Resources : holder'[y] = IF y = x THEN s ELSE holder[y]
         /\ \A o \in Sessions \ {s}, y \in Resources : holder'[y] = o <=> holder[y] = o
<1>1. holder[x] = NoSession /\ holder' = [holder EXCEPT ![x] = s]
  BY DEF Acquire, Free
<1>2. \A o \in Sessions : o # NoSession
  BY SessionParts
<1> QED BY <1>1, <1>2 DEF SessionTypes

\* The locks of a session end with it.
LEMMA ReleaseFrees ==
  ASSUME SessionTypes, NEW s \in Sessions, Release(s)
  PROVE  /\ holder' \in [Resources -> Sessions \cup {NoSession}]
         /\ \A y \in Resources : holder'[y] # s
         /\ \A o \in Sessions \ {s}, y \in Resources : holder'[y] = o <=> holder[y] = o
<1>1. \A o \in Sessions : o # NoSession
  BY SessionParts
<1> QED BY <1>1 DEF SessionTypes, Release

-----------------------------------------------------------------------------
(* What a step of one session leaves to the others.                        *)

OthersRest(s) ==
  \A o \in Sessions \ {s} :
    /\ pc'[o] = pc[o] /\ left'[o] = left[o] /\ snap'[o] = snap[o]
    /\ pending'[o] = pending[o] /\ draft'[o] = draft[o]
    /\ \A x \in Resources : holder'[x] = o <=> holder[x] = o

\* While nothing commits, the others know what they knew.
LEMMA OthersKnow ==
  ASSUME NEW s \in Sessions, NEW o \in Sessions \ {s}, SessionKnows(o), LocksInOrder(o),
         OthersRest(s), UNCHANGED dataVars, acked \subseteq acked'
  PROVE  SessionKnows(o)' /\ LocksInOrder(o)'
<1>1. /\ pc'[o] = pc[o] /\ left'[o] = left[o] /\ snap'[o] = snap[o]
      /\ pending'[o] = pending[o] /\ draft'[o] = draft[o]
      /\ results' = results /\ version' = version /\ head' = head /\ ledger' = ledger
  BY DEF OthersRest, dataVars
<1>2. /\ \A k \in Keys : Has(o, "key", k)' <=> Has(o, "key", k)
      /\ \A t \in Tickets : /\ Has(o, "identity", t)' <=> Has(o, "identity", t)
                            /\ Has(o, "head", t)' <=> Has(o, "head", t)
                            /\ Has(o, "ticket", t)' <=> Has(o, "ticket", t)
      /\ Has(o, "ledger", 0)' <=> Has(o, "ledger", 0)
  BY ResourceParts DEF OthersRest, Has
<1>3. Key(o) \in Keys /\ Served(o) \subseteq Tickets
  BY SessionParts
<1>4. (Applying(o)' <=> Applying(o)) /\ (Judged(o)' <=> Judged(o))
  BY <1>1 DEF Applying, Judged
<1>5. \A t : /\ PastAbsent(o, t)' <=> PastAbsent(o, t)
             /\ PastHead(o, t)' <=> PastHead(o, t)
             /\ PastTicket(o, t)' <=> PastTicket(o, t)
  BY <1>1, <1>4 DEF PastAbsent, PastHead, PastTicket
<1>6. KeyGuard(o)' /\ LeftGuard(o)'
  BY <1>1, <1>2, <1>3 DEF SessionKnows, KeyGuard, LeftGuard, Key, Served
<1>7. IdentityGuard(o)'
  BY <1>1, <1>2, <1>3, <1>5 DEF SessionKnows, IdentityGuard, Served
<1>8. HeadGuard(o)'
  <2>1. \A t \in Served(o) : HeadKept(o, t) => HeadKept(o, t)'
    BY <1>1, <1>2, <1>3 DEF HeadKept
  <2> QED BY <1>1, <1>4, <1>5, <2>1 DEF SessionKnows, HeadGuard, Served
<1>9. TicketGuard(o)'
  BY <1>1, <1>2, <1>3, <1>4, <1>5 DEF SessionKnows, TicketGuard, Served
<1>10. LedgerGuard(o)'
  BY <1>1, <1>2, <1>4 DEF SessionKnows, LedgerGuard
<1>11. LocksInOrder(o)'
  BY <1>1, <1>2 DEF LocksInOrder
<1> QED BY <1>6, <1>7, <1>8, <1>9, <1>10, <1>11 DEF SessionKnows

\* So a step that commits nothing is right when the session it is of is.
LEMMA StepOfOne ==
  ASSUME IInv, NEW s \in Sessions, OthersRest(s), UNCHANGED dataVars, acked \subseteq acked',
         Types', RepliesStored', Unused', SessionKnows(s)', LocksInOrder(s)'
  PROVE  IInv'
<1>1. \A o \in Sessions : SessionKnows(o)' /\ LocksInOrder(o)'
  BY OthersKnow DEF IInv
<1>2. EventsStored' /\ VersionCountsEvents' /\ PositionsGapless'
  BY DEF IInv, EventsStored, VersionCountsEvents, PositionsGapless, dataVars
<1> QED BY <1>1, <1>2 DEF IInv

\* A session that has ended, or has not begun, knows nothing and locks nothing.
LEMMA NothingToKnow ==
  ASSUME NEW s \in Sessions, pc'[s] \in {"unused", "reserve", "done"},
         \A x \in Resources : holder'[x] # s
  PROVE  SessionKnows(s)' /\ LocksInOrder(s)'
<1>1. SessionKnows(s)'
  BY DEF SessionKnows, KeyGuard, LeftGuard, IdentityGuard, HeadGuard, TicketGuard, LedgerGuard,
         PastAbsent, PastHead, PastTicket, Judged, Applying, Inside
<1>2. LocksInOrder(s)'
  BY ResourceParts DEF LocksInOrder, Has
<1> QED BY <1>1, <1>2

\* A session that is not at work holds no lock.
LEMMA RestersHoldNothing ==
  ASSUME SessionTypes, NEW s \in Sessions, LocksInOrder(s), pc[s] \in {"unused", "reserve", "done"}
  PROVE  \A x \in Resources : holder[x] # s
<1>1. \A k \in Keys : ~Has(s, "key", k)
  BY DEF LocksInOrder, Inside
<1>2. \A t \in Tickets : ~Has(s, "identity", t) /\ ~Has(s, "head", t) /\ ~Has(s, "ticket", t)
  BY DEF LocksInOrder, Inside
<1>3. ~Has(s, "ledger", 0)
  BY DEF LocksInOrder
<1>4. ASSUME NEW x \in Resources
      PROVE  holder[x] # s
  <2>1. \/ x[2] \in Keys /\ x = <<"key", x[2]>>
        \/ /\ x[1] \in {"identity", "head", "ticket"} /\ x[2] \in Tickets
           /\ x = <<x[1], x[2]>>
        \/ x = <<"ledger", 0>>
    BY <1>4 DEF Resources
  <2> QED BY <1>1, <1>2, <1>3, <2>1 DEF Has
<1> QED BY <1>4

-----------------------------------------------------------------------------
(* The steps of the caller and of the server.                              *)

\* Nothing is stored, locked or begun at first.
LEMMA Initially == Init => IInv
<1> SUFFICES ASSUME Init PROVE IInv
  OBVIOUS
<1>1. NoResult \in ResultSet /\ NoSnap \in [key : Keys \cup {NoKey}, acked : BOOLEAN]
      /\ NoDraft \in [outcome : OutcomeSet, position : Nat] /\ NoOutcome \in OutcomeSet
  <2>1. NoOutcome \in OutcomeSet
    BY DEF NoOutcome, Outcome, OutcomeSet, Answers
  <2> QED BY <2>1 DEF NoResult, NoSnap, NoDraft, ResultSet
<1>2. DataTypes
  BY <1>1, FS_EmptySet DEF Init, DataTypes
<1>3. SessionTypes
  <2>1. pending \in [Sessions -> BOOLEAN]
    BY DEF Init
  <2>2. attempt \in [Requests -> 0..MaxAttempts]
    BY RequestAssumption DEF Init
  <2> QED BY <1>1, <2>1, <2>2 DEF Init, SessionTypes, Steps
<1>4. RepliesStored /\ EventsStored /\ Unused
  BY DEF Init, RepliesStored, EventsStored, Unused, NoOutcome, Outcome
<1>5. VersionCountsEvents
  <2>1. \A t \in Tickets : {e \in events : e.ticket = t} = {}
    BY DEF Init
  <2> QED BY <2>1, FS_EmptySet DEF Init, VersionCountsEvents
<1>6. PositionsGapless
  BY FS_EmptySet DEF Init, PositionsGapless
<1>7. \A s \in Sessions : SessionKnows(s) /\ LocksInOrder(s)
  <2>1. \A s \in Sessions : pc[s] = "unused" /\ \A x \in Resources : holder[x] # s
    BY SessionParts DEF Init
  <2>2. \A s \in Sessions : SessionKnows(s)
    BY <2>1 DEF SessionKnows, KeyGuard, LeftGuard, IdentityGuard, HeadGuard, TicketGuard,
                LedgerGuard, PastAbsent, PastHead, PastTicket, Judged, Applying, Inside
  <2>3. \A s \in Sessions : LocksInOrder(s)
    BY <2>1, ResourceParts DEF LocksInOrder, Has
  <2> QED BY <2>2, <2>3
<1> QED BY <1>2, <1>3, <1>4, <1>5, <1>6, <1>7 DEF IInv, Types

\* A new attempt opens a session that was not used before.
LEMMA OpenKeeps ==
  ASSUME IInv, NEW s \in Sessions, s[2] > attempt[s[1]], Goto(s, "reserve"),
         attempt' = [attempt EXCEPT ![s[1]] = s[2]],
         UNCHANGED <<dataVars, worldVars, holder, left, snap, pending, draft, reply>>
  PROVE  IInv'
<1>1. s[1] \in Requests /\ s[2] \in 1..MaxAttempts
  BY SessionParts
<1>2. pc' = [pc EXCEPT ![s] = "reserve"] /\ pc[s] = "unused"
  BY DEF Goto, IInv, Unused
<1>3. Types'
  BY <1>1, <1>2, RequestAssumption DEF IInv, Types, DataTypes, SessionTypes, Steps, dataVars, worldVars
<1>4. OthersRest(s)
  BY <1>2 DEF OthersRest, IInv, Types, SessionTypes
<1>5. RepliesStored'
  BY DEF IInv, RepliesStored, dataVars
<1>6. Unused'
  <2> SUFFICES ASSUME NEW o \in Sessions, o[2] > attempt'[o[1]] PROVE pc'[o] = "unused"
    BY DEF Unused
  <2>1. attempt[s[1]] \in Nat /\ o[2] \in Nat /\ o[1] \in Requests
    BY <1>1, SessionParts, RequestAssumption DEF IInv, Types, SessionTypes
  <2>2. o # s /\ o[2] > attempt[o[1]]
    BY <1>1, <2>1 DEF IInv, Types, SessionTypes
  <2> QED BY <1>2, <2>2 DEF IInv, Types, SessionTypes, Unused
<1>7. SessionKnows(s)' /\ LocksInOrder(s)'
  <2>1. \A x \in Resources : holder[x] # s
    BY <1>2, RestersHoldNothing DEF IInv, Types
  <2>2. pc'[s] = "reserve" /\ \A x \in Resources : holder'[x] # s
    BY <1>2, <2>1 DEF IInv, Types, SessionTypes
  <2> QED BY <2>2, NothingToKnow
<1> QED BY <1>3, <1>4, <1>5, <1>6, <1>7, StepOfOne DEF worldVars

\* The policy is spent: only the caller learns of it.
LEMMA ExhaustedKeeps ==
  ASSUME IInv, NEW r \in Requests, reply' = [reply EXCEPT ![r] = Outcome("exhausted", 0)],
         UNCHANGED <<dataVars, worldVars, holder, left, snap, pending, draft, attempt, pc>>
  PROVE  IInv'
<1>1. Types'
  BY DEF IInv, Types, DataTypes, SessionTypes, OutcomeSet, Outcome, Answers, dataVars, worldVars
<1>2. RepliesStored'
  BY DEF IInv, Types, SessionTypes, RepliesStored, Outcome, dataVars
<1>3. Unused'
  BY DEF IInv, Unused
<1>4. EventsStored' /\ VersionCountsEvents' /\ PositionsGapless'
  BY DEF IInv, EventsStored, VersionCountsEvents, PositionsGapless, dataVars
<1>5. ASSUME NEW s \in Sessions
      PROVE  SessionKnows(s)' /\ LocksInOrder(s)'
  <2>1. SessionKnows(s) /\ LocksInOrder(s)
    BY DEF IInv
  <2>2. SessionKnows(s)'
    BY <2>1 DEF SessionKnows, KeyGuard, LeftGuard, IdentityGuard, HeadGuard, HeadKept,
                TicketGuard, LedgerGuard, PastAbsent, PastHead, PastTicket, Judged, Applying,
                Has, Key, Served, dataVars, worldVars
  <2>3. LocksInOrder(s)'
    BY <2>1 DEF LocksInOrder, Has
  <2> QED BY <2>2, <2>3
<1> QED BY <1>1, <1>2, <1>3, <1>4, <1>5 DEF IInv

LEMMA SendKeeps ==
  ASSUME IInv, NEW r \in Requests, Send(r)
  PROVE  IInv'
<1> DEFINE s == <<r, 1>>
<1>1. s \in Sessions /\ s[1] = r /\ s[2] = 1
  BY RequestAssumption DEF Sessions
<1>2. attempt[r] = 0 /\ attempt' = [attempt EXCEPT ![r] = 1] /\ Goto(s, "reserve")
      /\ UNCHANGED <<dataVars, worldVars, holder, left, snap, pending, draft, reply>>
  BY DEF Send
<1> HIDE DEF s
<1>3. s[2] > attempt[s[1]] /\ attempt' = [attempt EXCEPT ![s[1]] = s[2]]
  BY <1>1, <1>2
<1> QED BY <1>1, <1>2, <1>3, OpenKeeps

LEMMA FailKeeps ==
  ASSUME IInv, NEW s \in Sessions, Fail(s)
  PROVE  IInv'
<1>1. s[1] \in Requests /\ s[2] \in 1..MaxAttempts /\ attempt[s[1]] = s[2]
  BY SessionParts DEF Fail, Running, Waited
<1>2. CASE reply' = [reply EXCEPT ![s[1]] = Outcome("exhausted", 0)] /\ UNCHANGED <<attempt, pc>>
  BY <1>1, <1>2, ExhaustedKeeps DEF Fail
<1>3. CASE /\ s[2] < MaxAttempts /\ attempt' = [attempt EXCEPT ![s[1]] = s[2] + 1]
           /\ Goto(<<s[1], s[2] + 1>>, "reserve") /\ UNCHANGED reply
  <2> DEFINE n == <<s[1], s[2] + 1>>
  <2>1. n \in Sessions /\ n[1] = s[1] /\ n[2] = s[2] + 1
    BY <1>1, <1>3, RequestAssumption DEF Sessions
  <2>2. n[2] > attempt[n[1]]
    BY <1>1, <2>1
  <2> HIDE DEF n
  <2> QED BY <1>3, <2>1, <2>2, OpenKeeps DEF Fail, n
<1> QED BY <1>2, <1>3 DEF Fail

\* A step that leaves its session's data alone and ends or moves it.
LEMMA PcTypes ==
  ASSUME SessionTypes, NEW s \in Sessions, NEW step \in Steps, Goto(s, step)
  PROVE  /\ pc' \in [Sessions -> Steps] /\ pc'[s] = step
         /\ \A o \in Sessions \ {s} : pc'[o] = pc[o]
BY DEF SessionTypes, Goto

\* The attempts that were not made yet are not of a session that is at work.
LEMMA UnusedKept ==
  ASSUME Unused, NEW s \in Sessions, pc[s] # "unused", UNCHANGED attempt,
         \A o \in Sessions \ {s} : pc'[o] = pc[o]
  PROVE  Unused'
BY DEF Unused

\* The server ends a session nobody waits for.
LEMMA RollBackKeeps ==
  ASSUME IInv, NEW s \in Sessions, RollBack(s)
  PROVE  IInv'
<1>1. SessionTypes /\ Goto(s, "done") /\ Release(s) /\ pc[s] # "unused"
  BY DEF IInv, Types, RollBack, Orphan, Finished
<1>2. /\ pc' \in [Sessions -> Steps] /\ pc'[s] = "done"
      /\ \A o \in Sessions \ {s} : pc'[o] = pc[o]
  BY <1>1, PcTypes DEF Steps
<1>3. /\ holder' \in [Resources -> Sessions \cup {NoSession}]
      /\ \A y \in Resources : holder'[y] # s
      /\ \A o \in Sessions \ {s}, y \in Resources : holder'[y] = o <=> holder[y] = o
  BY <1>1, ReleaseFrees
<1>4. UNCHANGED <<dataVars, acked, left, snap, pending, draft, attempt, reply>>
  BY DEF RollBack, worldVars, callVars
<1>5. Types'
  BY <1>2, <1>3, <1>4 DEF IInv, Types, DataTypes, SessionTypes, dataVars
<1>6. OthersRest(s) /\ RepliesStored' /\ Unused'
  BY <1>1, <1>2, <1>3, <1>4, UnusedKept DEF OthersRest, IInv, RepliesStored, dataVars
<1>7. SessionKnows(s)' /\ LocksInOrder(s)'
  BY <1>2, <1>3, NothingToKnow
<1> QED BY <1>4, <1>5, <1>6, <1>7, StepOfOne

-----------------------------------------------------------------------------
(* reserve and require_durable_subjects.                                   *)

\* What every statement of a session at work leaves in place: its key, the other
\* sessions, the answers, and the attempts that were not made.
LEMMA StatementFrame ==
  ASSUME IInv, NEW s \in Sessions, pc[s] \in Inside, pc'[s] \in Inside,
         \A o \in Sessions \ {s} :
           /\ pc'[o] = pc[o] /\ left'[o] = left[o] /\ snap'[o] = snap[o]
           /\ pending'[o] = pending[o] /\ draft'[o] = draft[o],
         \A x \in Resources : holder[x] = s => holder'[x] = s,
         \A o \in Sessions \ {s}, x \in Resources : holder'[x] = o <=> holder[x] = o,
         UNCHANGED <<dataVars, worldVars, callVars>>
  PROVE  /\ OthersRest(s) /\ RepliesStored' /\ Unused' /\ DataTypes' /\ KeyGuard(s)'
<1>1. OthersRest(s)
  BY DEF OthersRest
<1>2. RepliesStored' /\ Unused' /\ DataTypes'
  BY DEF IInv, Types, DataTypes, RepliesStored, Unused, Inside, dataVars, worldVars, callVars
<1>3. KeyGuard(s)'
  BY SessionParts, ResourceParts DEF IInv, SessionKnows, KeyGuard, Has, Key, dataVars
<1> QED BY <1>1, <1>2, <1>3

\* A statement that adds no more than one lock.
AddsLock(s, x) ==
  /\ \A y \in Resources : holder[y] = s => holder'[y] = s
  /\ \A y \in Resources : y # x => (holder'[y] = s <=> holder[y] = s)
  /\ \A o \in Sessions \ {s}, y \in Resources : holder'[y] = o <=> holder[y] = o
  /\ holder' \in [Resources -> Sessions \cup {NoSession}]

LEMMA AcquireAdds ==
  ASSUME SessionTypes, NEW s \in Sessions, NEW x \in Resources,
         Acquire(s, x) \/ UNCHANGED holder
  PROVE  AddsLock(s, x) /\ (Acquire(s, x) => holder'[x] = s)
<1>1. CASE Acquire(s, x)
  BY <1>1, AcquireTakes DEF AddsLock
<1>2. CASE UNCHANGED holder
  <2>1. s # NoSession
    BY SessionParts
  <2>2. Acquire(s, x) => FALSE
    BY <1>2, <2>1 DEF Acquire, Free, SessionTypes
  <2> QED BY <1>2, <2>2 DEF AddsLock, SessionTypes
<1> QED BY <1>1, <1>2

\* The first ticket is done with: its head exists, or its identity is locked.
LEMMA AbsentPassed ==
  ASSUME IInv, NEW s \in Sessions, pc[s] \in {"absent", "identity"}, Proceed(s, "absent", "head"),
         AddsLock(s, <<"identity", FirstLeft(s)>>),
         head[FirstLeft(s)] # NoKey \/ holder'[<<"identity", FirstLeft(s)>>] = s,
         UNCHANGED <<dataVars, worldVars, callVars>>, UNCHANGED <<snap, pending, draft>>
  PROVE  IInv'
<1> DEFINE first == FirstLeft(s)
<1>1. /\ SessionTypes /\ SessionKnows(s) /\ LocksInOrder(s)
      /\ left[s] # {} /\ left[s] \subseteq Served(s)
  BY DEF IInv, Types, SessionKnows, LeftGuard
<1>2. /\ first \in left[s] /\ first \in Served(s) /\ first \in Tickets
      /\ \A u \in left[s] : u = first \/ first < u
      /\ \/ /\ pc' = [pc EXCEPT ![s] = "absent"] /\ pc'[s] = "absent"
            /\ left'[s] = left[s] \ {first} /\ left'[s] # {}
         \/ /\ pc' = [pc EXCEPT ![s] = "head"] /\ pc'[s] = "head"
            /\ left'[s] = Served(s) /\ left[s] = {first}
      /\ \A o \in Sessions \ {s} : left'[o] = left[o] /\ pc'[o] = pc[o]
      /\ left' \in [Sessions -> SUBSET Tickets] /\ left'[s] \subseteq Served(s)
  BY <1>1, ProceedLeaves
<1>3. Served(s) \subseteq Tickets /\ Served(s) # {} /\ Tickets \subseteq Nat
  BY SessionParts, RequestAssumption
<1> HIDE DEF first
<1>4. SessionTypes'
  BY <1>1, <1>2 DEF SessionTypes, Steps, Inside, callVars, AddsLock
<1>5. OthersRest(s) /\ RepliesStored' /\ Unused' /\ DataTypes' /\ KeyGuard(s)'
  BY <1>1, <1>2, StatementFrame DEF Inside, AddsLock
<1>6. LeftGuard(s)'
  BY <1>2, <1>3 DEF LeftGuard, Served
<1>7. IdentityGuard(s)'
  <2> SUFFICES ASSUME NEW t \in Served(s), PastAbsent(s, t)'
               PROVE  head[t] # NoKey \/ Has(s, "identity", t)'
    BY DEF IdentityGuard, dataVars, Served
  <2>1. t = first \/ t \notin left[s]
    BY <1>2 DEF PastAbsent, Judged, Applying
  <2>2. t \notin left[s] => head[t] # NoKey \/ Has(s, "identity", t)
    BY <1>1 DEF SessionKnows, IdentityGuard, PastAbsent
  <2>3. Has(s, "identity", t) => Has(s, "identity", t)'
    BY <1>3, ResourceParts DEF Has, AddsLock
  <2> QED BY <2>1, <2>2, <2>3 DEF Has, first
<1>8. HeadGuard(s)' /\ TicketGuard(s)' /\ LedgerGuard(s)'
  BY <1>2 DEF HeadGuard, TicketGuard, LedgerGuard, PastHead, PastTicket, Judged, Applying, Served
<1>9. LocksInOrder(s)'
  <2>1. /\ \A k \in Keys : Has(s, "key", k)' <=> Has(s, "key", k)
        /\ \A t \in Tickets : /\ t # first => (Has(s, "identity", t)' <=> Has(s, "identity", t))
                              /\ Has(s, "head", t)' <=> Has(s, "head", t)
                              /\ Has(s, "ticket", t)' <=> Has(s, "ticket", t)
        /\ Has(s, "ledger", 0)' <=> Has(s, "ledger", 0)
    BY ResourceParts DEF Has, AddsLock, first
  <2> QED BY <1>1, <1>2, <1>3, <2>1 DEF LocksInOrder, Inside
<1> QED BY <1>4, <1>5, <1>6, <1>7, <1>8, <1>9, StepOfOne DEF SessionKnows, Types, worldVars

LEMMA CheckAbsentKeeps ==
  ASSUME IInv, NEW s \in Sessions, CheckAbsent(s)
  PROVE  IInv'
<1>1. /\ SessionTypes /\ SessionKnows(s) /\ LocksInOrder(s) /\ pc[s] = "absent"
      /\ left[s] # {} /\ left[s] \subseteq Served(s) /\ Served(s) \subseteq Tickets
  BY SessionParts DEF IInv, Types, CheckAbsent, SessionKnows, LeftGuard
<1>2. FirstLeft(s) \in Tickets
  BY <1>1, FirstLeftIsFirst
<1>3. UNCHANGED <<dataVars, worldVars, callVars>> /\ UNCHANGED <<holder, snap, pending, draft>>
  BY DEF CheckAbsent
<1>4. AddsLock(s, <<"identity", FirstLeft(s)>>)
  BY <1>1, <1>2, <1>3, AcquireAdds, ResourceParts
<1>5. CASE head[FirstLeft(s)] # NoKey /\ Proceed(s, "absent", "head")
  BY <1>1, <1>3, <1>4, <1>5, AbsentPassed
<1>6. CASE head[FirstLeft(s)] = NoKey /\ Goto(s, "identity") /\ UNCHANGED left
  <2>1. /\ pc' \in [Sessions -> Steps] /\ pc'[s] = "identity"
        /\ \A o \in Sessions \ {s} : pc'[o] = pc[o]
    BY <1>1, <1>6, PcTypes DEF Steps, Inside
  <2>2. SessionTypes'
    BY <1>1, <1>3, <1>6, <2>1 DEF SessionTypes, callVars
  <2>3. OthersRest(s) /\ RepliesStored' /\ Unused' /\ DataTypes' /\ KeyGuard(s)'
    BY <1>1, <1>3, <1>6, <2>1, StatementFrame DEF Inside
  <2>4. LeftGuard(s)' /\ IdentityGuard(s)'
    BY <1>1, <1>3, <1>6, <2>1 DEF SessionKnows, LeftGuard, IdentityGuard, PastAbsent, Judged,
                                  Applying, Has, Served, dataVars
  <2>5. HeadGuard(s)' /\ TicketGuard(s)' /\ LedgerGuard(s)'
    BY <2>1 DEF HeadGuard, TicketGuard, LedgerGuard, PastHead, PastTicket, Judged, Applying
  <2>6. LocksInOrder(s)'
    BY <1>1, <1>3, <1>6, <2>1 DEF LocksInOrder, Has, Inside
  <2> QED BY <1>3, <2>2, <2>3, <2>4, <2>5, <2>6, StepOfOne DEF SessionKnows, Types, worldVars
<1> QED BY <1>5, <1>6 DEF CheckAbsent

LEMMA LockIdentityKeeps ==
  ASSUME IInv, NEW s \in Sessions, LockIdentity(s)
  PROVE  IInv'
<1>1. /\ SessionTypes /\ pc[s] = "identity"
      /\ left[s] # {} /\ left[s] \subseteq Served(s) /\ Served(s) \subseteq Tickets
  BY SessionParts DEF IInv, Types, LockIdentity, SessionKnows, LeftGuard
<1>2. <<"identity", FirstLeft(s)>> \in Resources
  BY <1>1, FirstLeftIsFirst, ResourceParts
<1>3. /\ Acquire(s, <<"identity", FirstLeft(s)>>) /\ Proceed(s, "absent", "head")
      /\ UNCHANGED <<dataVars, worldVars, callVars>> /\ UNCHANGED <<snap, pending, draft>>
  BY DEF LockIdentity
<1> QED BY <1>1, <1>2, <1>3, AcquireAdds, AbsentPassed

\* The first head is done with: it is missing, kept under its lock, or pending.
LEMMA HeadPassed ==
  ASSUME IInv, NEW s \in Sessions, pc[s] \in {"head", "headLock"}, Proceed(s, "head", "verdict"),
         AddsLock(s, <<"head", FirstLeft(s)>>),
         \/ pending'[s]
         \/ head[FirstLeft(s)] = NoKey /\ Has(s, "identity", FirstLeft(s))
         \/ head[FirstLeft(s)] \in acked /\ holder'[<<"head", FirstLeft(s)>>] = s,
         pending[s] => pending'[s], pending' \in [Sessions -> BOOLEAN],
         \A o \in Sessions \ {s} : pending'[o] = pending[o],
         UNCHANGED <<dataVars, worldVars, callVars>>, UNCHANGED <<snap, draft>>
  PROVE  IInv'
<1> DEFINE first == FirstLeft(s)
<1>1. /\ SessionTypes /\ SessionKnows(s) /\ LocksInOrder(s)
      /\ left[s] # {} /\ left[s] \subseteq Served(s)
  BY DEF IInv, Types, SessionKnows, LeftGuard
<1>2. /\ first \in left[s] /\ first \in Served(s) /\ first \in Tickets
      /\ \A u \in left[s] : u = first \/ first < u
      /\ \/ /\ pc' = [pc EXCEPT ![s] = "head"] /\ pc'[s] = "head"
            /\ left'[s] = left[s] \ {first} /\ left'[s] # {}
         \/ /\ pc' = [pc EXCEPT ![s] = "verdict"] /\ pc'[s] = "verdict"
            /\ left'[s] = Served(s) /\ left[s] = {first}
      /\ \A o \in Sessions \ {s} : left'[o] = left[o] /\ pc'[o] = pc[o]
      /\ left' \in [Sessions -> SUBSET Tickets] /\ left'[s] \subseteq Served(s)
  BY <1>1, ProceedLeaves
<1>3. Served(s) \subseteq Tickets /\ Served(s) # {} /\ Tickets \subseteq Nat
  BY SessionParts, RequestAssumption
<1> HIDE DEF first
<1>4. SessionTypes'
  BY <1>1, <1>2 DEF SessionTypes, Steps, Inside, callVars, AddsLock
<1>5. OthersRest(s) /\ RepliesStored' /\ Unused' /\ DataTypes' /\ KeyGuard(s)'
  BY <1>1, <1>2, StatementFrame DEF Inside, AddsLock
<1>6. LeftGuard(s)'
  BY <1>2, <1>3 DEF LeftGuard, Served
<1>7. /\ \A k \in Keys : Has(s, "key", k)' <=> Has(s, "key", k)
      /\ \A t \in Tickets : /\ Has(s, "identity", t)' <=> Has(s, "identity", t)
                            /\ t # first => (Has(s, "head", t)' <=> Has(s, "head", t))
                            /\ Has(s, "head", t) => Has(s, "head", t)'
                            /\ Has(s, "ticket", t)' <=> Has(s, "ticket", t)
      /\ Has(s, "ledger", 0)' <=> Has(s, "ledger", 0)
  BY ResourceParts DEF Has, AddsLock, first
<1>8. IdentityGuard(s)'
  BY <1>1, <1>2, <1>3, <1>7 DEF SessionKnows, IdentityGuard, PastAbsent, Judged, Applying, Served, dataVars
<1>9. HeadGuard(s)'
  <2>1. ~Judged(s)' /\ pc'[s] # "headLock"
    BY <1>2 DEF Judged, Applying
  <2>2. ASSUME NEW t \in Served(s), PastHead(s, t)', ~pending'[s]
        PROVE  HeadKept(s, t)'
    <3>1. t = first \/ t \notin left[s]
      BY <1>2, <2>1, <2>2 DEF PastHead
    <3>2. CASE t = first
      BY <1>2, <1>7, <2>2, <3>2 DEF HeadKept, Has, first, dataVars, worldVars
    <3>3. CASE t \notin left[s]
      <4>1. HeadKept(s, t)
        BY <1>1, <2>2, <3>3 DEF SessionKnows, HeadGuard, PastHead
      <4> QED BY <1>3, <1>7, <4>1 DEF HeadKept, dataVars, worldVars
    <3> QED BY <3>1, <3>2, <3>3
  <2> QED BY <2>1, <2>2 DEF HeadGuard, Served
<1>10. TicketGuard(s)' /\ LedgerGuard(s)'
  BY <1>2 DEF TicketGuard, LedgerGuard, PastTicket, Applying
<1>11. LocksInOrder(s)'
  BY <1>1, <1>2, <1>3, <1>7 DEF LocksInOrder, Inside
<1> QED BY <1>4, <1>5, <1>6, <1>8, <1>9, <1>10, <1>11, StepOfOne DEF SessionKnows, Types, worldVars

LEMMA ReadHeadKeeps ==
  ASSUME IInv, NEW s \in Sessions, ReadHead(s)
  PROVE  IInv'
<1> DEFINE first == FirstLeft(s)
<1>1. /\ SessionTypes /\ SessionKnows(s) /\ LocksInOrder(s) /\ pc[s] = "head"
      /\ left[s] # {} /\ left[s] \subseteq Served(s) /\ Served(s) \subseteq Tickets
      /\ acked \subseteq Keys
  BY SessionParts DEF IInv, Types, DataTypes, ReadHead, SessionKnows, LeftGuard
<1>2. first \in Tickets /\ first \in Served(s)
  BY <1>1, FirstLeftIsFirst
<1>3. UNCHANGED <<dataVars, worldVars, callVars>> /\ UNCHANGED <<holder, pending, draft>>
  BY DEF ReadHead
<1>4. AddsLock(s, <<"head", first>>)
  BY <1>1, <1>2, <1>3, AcquireAdds, ResourceParts
<1>5. CASE head[first] = NoKey /\ Proceed(s, "head", "verdict") /\ UNCHANGED snap
  <2>1. Has(s, "identity", first)
    BY <1>1, <1>2, <1>5 DEF SessionKnows, IdentityGuard, PastAbsent
  <2>2. pending' \in [Sessions -> BOOLEAN]
    BY <1>1, <1>3 DEF SessionTypes
  <2> QED BY <1>1, <1>3, <1>4, <1>5, <2>1, <2>2, HeadPassed
<1>6. CASE /\ head[first] # NoKey /\ Goto(s, "headLock") /\ UNCHANGED left
           /\ snap' = [snap EXCEPT ![s] = [key |-> head[first], acked |-> head[first] \in acked]]
  <2>1. /\ pc' \in [Sessions -> Steps] /\ pc'[s] = "headLock"
        /\ \A o \in Sessions \ {s} : pc'[o] = pc[o]
    BY <1>1, <1>6, PcTypes DEF Steps, Inside
  <2> DEFINE known == head[first] \in acked
  <2>2. known \in BOOLEAN /\ (known => head[first] \in acked) /\ head[first] \in Keys \cup {NoKey}
    BY <1>2 DEF IInv, Types, DataTypes
  <2>3. snap' = [snap EXCEPT ![s] = [key |-> head[first], acked |-> known]]
    BY <1>6
  <2> HIDE DEF known, first
  <2>4. /\ snap' \in [Sessions -> [key : Keys \cup {NoKey}, acked : BOOLEAN]]
        /\ snap'[s].acked => snap'[s].key \in acked
        /\ \A o \in Sessions \ {s} : snap'[o] = snap[o]
    BY <1>1, <2>2, <2>3 DEF SessionTypes
  <2>5. SessionTypes'
    BY <1>1, <1>3, <1>6, <2>1, <2>4 DEF SessionTypes, callVars
  <2>6. OthersRest(s) /\ RepliesStored' /\ Unused' /\ DataTypes' /\ KeyGuard(s)'
    BY <1>1, <1>3, <1>6, <2>1, <2>4, StatementFrame DEF Inside
  <2>7. LeftGuard(s)' /\ IdentityGuard(s)'
    BY <1>1, <1>3, <1>6, <2>1 DEF SessionKnows, LeftGuard, IdentityGuard, PastAbsent, Judged,
                                  Applying, Has, Served, dataVars
  <2>8. HeadGuard(s)'
    BY <1>1, <1>3, <1>6, <2>1, <2>4 DEF SessionKnows, HeadGuard, HeadKept, PastHead, Judged,
                                        Applying, Has, Served, dataVars, worldVars
  <2>9. TicketGuard(s)' /\ LedgerGuard(s)'
    BY <2>1 DEF TicketGuard, LedgerGuard, PastTicket, Judged, Applying
  <2>10. LocksInOrder(s)'
    BY <1>1, <1>3, <1>6, <2>1 DEF LocksInOrder, Has, Inside
  <2> QED BY <1>3, <2>5, <2>6, <2>7, <2>8, <2>9, <2>10, StepOfOne DEF SessionKnows, Types, worldVars
<1> QED BY <1>5, <1>6 DEF ReadHead

LEMMA LockHeadKeeps ==
  ASSUME IInv, NEW s \in Sessions, LockHead(s)
  PROVE  IInv'
<1> DEFINE first == FirstLeft(s)
<1>1. /\ SessionTypes /\ SessionKnows(s) /\ pc[s] = "headLock"
      /\ left[s] # {} /\ left[s] \subseteq Served(s) /\ Served(s) \subseteq Tickets
  BY SessionParts DEF IInv, Types, LockHead, SessionKnows, LeftGuard
<1>2. <<"head", first>> \in Resources
  BY <1>1, FirstLeftIsFirst, ResourceParts
<1> DEFINE verdict == pending[s] \/ head[first] # snap[s].key \/ ~snap[s].acked
<1>3. /\ Acquire(s, <<"head", first>>) /\ Proceed(s, "head", "verdict")
      /\ pending' = [pending EXCEPT ![s] = verdict]
      /\ UNCHANGED <<dataVars, worldVars, callVars>> /\ UNCHANGED <<snap, draft>>
  BY DEF LockHead
<1>4. /\ verdict \in BOOLEAN /\ (pending[s] => verdict)
      /\ ~verdict => head[first] \in acked
  BY <1>1 DEF SessionKnows, HeadGuard
<1> HIDE DEF verdict
<1>5. /\ pending' \in [Sessions -> BOOLEAN] /\ pending'[s] = verdict
      /\ \A o \in Sessions \ {s} : pending'[o] = pending[o]
  BY <1>1, <1>3, <1>4 DEF SessionTypes
<1>6. AddsLock(s, <<"head", first>>) /\ holder'[<<"head", first>>] = s
  BY <1>1, <1>2, <1>3, AcquireAdds
<1> QED BY <1>1, <1>3, <1>4, <1>5, <1>6, HeadPassed

\* The heads are judged: pending is an answer, and otherwise the tickets follow.
LEMMA JudgeHeadsKeeps ==
  ASSUME IInv, NEW s \in Sessions, JudgeHeads(s)
  PROVE  IInv'
<1>1. /\ SessionTypes /\ SessionKnows(s) /\ LocksInOrder(s) /\ pc[s] = "verdict"
      /\ left[s] = Served(s) /\ Served(s) \subseteq Tickets /\ Served(s) # {}
  BY SessionParts DEF IInv, Types, JudgeHeads, SessionKnows, LeftGuard
<1>2. UNCHANGED <<dataVars, worldVars, callVars>> /\ UNCHANGED <<holder, left, snap, pending>>
  BY DEF JudgeHeads
<1>3. CASE pending[s] /\ Draft(s, Outcome("durability_pending", 0)) /\ Goto(s, "write")
  <2>1. /\ pc' \in [Sessions -> Steps] /\ pc'[s] = "write"
        /\ \A o \in Sessions \ {s} : pc'[o] = pc[o]
    BY <1>1, <1>3, PcTypes DEF Steps, Inside
  <2>2. Outcome("durability_pending", 0) \in OutcomeSet
    BY DEF Outcome, OutcomeSet, Answers, Stored
  <2>3. /\ draft' \in [Sessions -> [outcome : OutcomeSet, position : Nat]]
        /\ draft'[s].outcome.kind = "durability_pending"
        /\ \A o \in Sessions \ {s} : draft'[o] = draft[o]
    BY <1>1, <1>3, <2>2 DEF Draft, SessionTypes, Outcome
  <2>4. SessionTypes'
    BY <1>1, <1>2, <2>1, <2>3 DEF SessionTypes, callVars
  <2>5. OthersRest(s) /\ RepliesStored' /\ Unused' /\ DataTypes' /\ KeyGuard(s)'
    BY <1>1, <1>2, <2>1, <2>3, StatementFrame DEF Inside
  <2>6. /\ LeftGuard(s)' /\ IdentityGuard(s)' /\ HeadGuard(s)' /\ TicketGuard(s)' /\ LedgerGuard(s)'
    BY <2>1, <2>3 DEF LeftGuard, IdentityGuard, HeadGuard, TicketGuard, LedgerGuard, PastAbsent,
                      PastHead, PastTicket, Judged, Applying, Stored
  <2>7. LocksInOrder(s)'
    BY <1>1, <1>2, <2>1 DEF LocksInOrder, Has, Inside
  <2> QED BY <1>2, <2>4, <2>5, <2>6, <2>7, StepOfOne DEF SessionKnows, Types, worldVars
<1>4. CASE ~pending[s] /\ Goto(s, "ticket") /\ UNCHANGED draft
  <2>1. /\ pc' \in [Sessions -> Steps] /\ pc'[s] = "ticket"
        /\ \A o \in Sessions \ {s} : pc'[o] = pc[o]
    BY <1>1, <1>4, PcTypes DEF Steps, Inside
  <2>2. SessionTypes'
    BY <1>1, <1>2, <1>4, <2>1 DEF SessionTypes, callVars
  <2>3. OthersRest(s) /\ RepliesStored' /\ Unused' /\ DataTypes' /\ KeyGuard(s)'
    BY <1>1, <1>2, <1>4, <2>1, StatementFrame DEF Inside
  <2>4. LeftGuard(s)' /\ IdentityGuard(s)'
    BY <1>1, <1>2, <2>1 DEF SessionKnows, LeftGuard, IdentityGuard, PastAbsent, Has, Served, dataVars
  <2>5. HeadGuard(s)'
    BY <1>1, <1>2, <1>4, <2>1 DEF SessionKnows, HeadGuard, HeadKept, PastHead, Has, Served,
                                  dataVars, worldVars
  <2>6. TicketGuard(s)' /\ LedgerGuard(s)'
    BY <1>1, <1>2, <2>1 DEF TicketGuard, LedgerGuard, PastTicket, Applying, Served
  <2>7. LocksInOrder(s)'
    BY <1>1, <1>2, <2>1 DEF LocksInOrder, Has, Inside
  <2> QED BY <1>2, <2>2, <2>3, <2>4, <2>5, <2>6, <2>7, StepOfOne DEF SessionKnows, Types, worldVars
<1> QED BY <1>3, <1>4 DEF JudgeHeads

\* A session that begins is locked out by nobody and has nothing but its key.
LEMMA ReserveKeeps ==
  ASSUME IInv, NEW s \in Sessions, Reserve(s)
  PROVE  IInv'
<1> DEFINE r == s[1]
           lock == <<"key", Key(s)>>
<1>1. /\ SessionTypes /\ pc[s] = "reserve" /\ LocksInOrder(s)
      /\ r \in Requests /\ Key(s) \in Keys /\ Key(s) = KeyOf[r] /\ lock \in Resources
      /\ Served(s) # {} /\ Served(s) \subseteq Tickets
  BY SessionParts, ResourceParts DEF IInv, Types, Reserve, Key
<1>2. \A x \in Resources : holder[x] # s
  BY <1>1, RestersHoldNothing
<1>3. UNCHANGED <<dataVars, worldVars, snap, pending>>
  BY DEF Reserve
<1>4. CASE results[Key(s)] # NoResult /\ Answer(s, ReplayResult(s)) /\ UNCHANGED <<holder, left, draft>>
  <2>1. Goto(s, "done") /\ reply' = [reply EXCEPT ![r] = ReplayResult(s)] /\ UNCHANGED attempt
    BY <1>4 DEF Answer
  <2>2. /\ pc' \in [Sessions -> Steps] /\ pc'[s] = "done"
        /\ \A o \in Sessions \ {s} : pc'[o] = pc[o]
    BY <1>1, <2>1, PcTypes DEF Steps
  <2>3. /\ ReplayResult(s) \in OutcomeSet
        /\ \/ ReplayResult(s).kind = "idempotency_conflict"
           \/ /\ results[KeyOf[r]].digest = DigestOf[r]
              /\ results[KeyOf[r]].outcome = ReplayResult(s)
    <3>1. results[Key(s)].outcome \in OutcomeSet
      BY <1>1 DEF IInv, Types, DataTypes, ResultSet
    <3> QED BY <1>1, <3>1 DEF ReplayResult, Outcome, OutcomeSet, Answers, r
  <2>4. Types'
    BY <1>1, <1>3, <1>4, <2>1, <2>2, <2>3 DEF IInv, Types, DataTypes, SessionTypes, dataVars, worldVars
  <2>5. RepliesStored'
    BY <1>1, <1>3, <1>4, <2>1, <2>3 DEF IInv, Types, SessionTypes, RepliesStored, dataVars
  <2>6. OthersRest(s) /\ Unused'
    BY <1>1, <1>3, <1>4, <2>1, <2>2, UnusedKept DEF OthersRest, IInv
  <2>7. SessionKnows(s)' /\ LocksInOrder(s)'
    BY <1>2, <1>4, <2>2, NothingToKnow
  <2> QED BY <1>3, <2>4, <2>5, <2>6, <2>7, StepOfOne DEF worldVars
<1>5. ASSUME results[Key(s)] = NoResult, Acquire(s, lock), UNCHANGED callVars, pc'[s] \in Inside
      PROVE  /\ holder' \in [Resources -> Sessions \cup {NoSession}] /\ KeyGuard(s)'
             /\ \A x \in Resources : holder'[x] = s <=> x = lock
             /\ \A o \in Sessions \ {s}, y \in Resources : holder'[y] = o <=> holder[y] = o
             /\ DataTypes' /\ RepliesStored'
  <2>1. /\ holder' \in [Resources -> Sessions \cup {NoSession}]
        /\ \A y \in Resources : holder'[y] = IF y = lock THEN s ELSE holder[y]
        /\ \A o \in Sessions \ {s}, y \in Resources : holder'[y] = o <=> holder[y] = o
    BY <1>1, <1>5, AcquireTakes
  <2>2. KeyGuard(s)'
    BY <1>1, <1>3, <1>5, <2>1 DEF KeyGuard, Has, Key, dataVars
  <2>3. DataTypes' /\ RepliesStored'
    BY <1>3, <1>5 DEF IInv, Types, DataTypes, RepliesStored, dataVars, worldVars, callVars
  <2> QED BY <1>2, <2>1, <2>2, <2>3
<1>6. ASSUME pc'[s] \in Inside, \A x \in Resources : holder'[x] = s <=> x = lock,
             pc'[s] \in {"absent", "identity"} => \A u \in left'[s] : u \in Tickets
      PROVE  LocksInOrder(s)'
  <2>1. \A t \in Tickets : /\ <<"identity", t>> # lock /\ <<"head", t>> # lock
                           /\ <<"ticket", t>> # lock
    OBVIOUS
  <2>2. <<"ledger", 0>> # lock
    OBVIOUS
  <2> QED BY <1>6, <2>1, <2>2, ResourceParts DEF LocksInOrder, Has
<1>7. CASE /\ results[Key(s)] = NoResult /\ Acquire(s, lock) /\ Goto(s, "write")
           /\ Draft(s, Outcome("scope_denied", 0)) /\ UNCHANGED <<left, callVars>>
  <2>1. /\ pc' \in [Sessions -> Steps] /\ pc'[s] = "write"
        /\ \A o \in Sessions \ {s} : pc'[o] = pc[o]
    BY <1>1, <1>7, PcTypes DEF Steps, Inside
  <2>2. Outcome("scope_denied", 0) \in OutcomeSet
    BY DEF Outcome, OutcomeSet, Answers, Stored
  <2>3. /\ draft' \in [Sessions -> [outcome : OutcomeSet, position : Nat]]
        /\ draft'[s].outcome.kind = "scope_denied"
        /\ \A o \in Sessions \ {s} : draft'[o] = draft[o]
    BY <1>1, <1>7, <2>2 DEF Draft, SessionTypes, Outcome
  <2>4. /\ holder' \in [Resources -> Sessions \cup {NoSession}] /\ KeyGuard(s)'
        /\ \A x \in Resources : holder'[x] = s <=> x = lock
        /\ \A o \in Sessions \ {s}, y \in Resources : holder'[y] = o <=> holder[y] = o
        /\ DataTypes' /\ RepliesStored'
    BY <1>5, <1>7, <2>1 DEF Inside
  <2>5. SessionTypes'
    BY <1>1, <1>3, <1>7, <2>1, <2>3, <2>4 DEF SessionTypes, callVars
  <2>6. OthersRest(s) /\ Unused'
    BY <1>1, <1>3, <1>7, <2>1, <2>3, <2>4, UnusedKept DEF OthersRest, IInv, callVars
  <2>7. LeftGuard(s)' /\ IdentityGuard(s)' /\ HeadGuard(s)' /\ TicketGuard(s)' /\ LedgerGuard(s)'
    BY <2>1, <2>3 DEF LeftGuard, IdentityGuard, HeadGuard, TicketGuard, LedgerGuard, PastAbsent,
                      PastHead, PastTicket, Judged, Applying, Stored
  <2>8. LocksInOrder(s)'
    BY <1>6, <2>1, <2>4 DEF Inside
  <2> QED BY <1>3, <2>4, <2>5, <2>6, <2>7, <2>8, StepOfOne DEF SessionKnows, Types, worldVars
<1>8. CASE /\ results[Key(s)] = NoResult /\ Acquire(s, lock) /\ Goto(s, "absent")
           /\ left' = [left EXCEPT ![s] = TicketsOf[s[1]]] /\ UNCHANGED <<draft, callVars>>
  <2>1. /\ pc' \in [Sessions -> Steps] /\ pc'[s] = "absent"
        /\ \A o \in Sessions \ {s} : pc'[o] = pc[o]
    BY <1>1, <1>8, PcTypes DEF Steps, Inside
  <2>2. /\ left' \in [Sessions -> SUBSET Tickets] /\ left'[s] = Served(s)
        /\ \A o \in Sessions \ {s} : left'[o] = left[o]
    BY <1>1, <1>8 DEF SessionTypes, Served
  <2>3. /\ holder' \in [Resources -> Sessions \cup {NoSession}] /\ KeyGuard(s)'
        /\ \A x \in Resources : holder'[x] = s <=> x = lock
        /\ \A o \in Sessions \ {s}, y \in Resources : holder'[y] = o <=> holder[y] = o
        /\ DataTypes' /\ RepliesStored'
    BY <1>5, <1>8, <2>1 DEF Inside
  <2>4. SessionTypes'
    BY <1>1, <1>3, <1>8, <2>1, <2>2, <2>3 DEF SessionTypes, callVars
  <2>5. OthersRest(s) /\ Unused'
    BY <1>1, <1>3, <1>8, <2>1, <2>2, <2>3, UnusedKept DEF OthersRest, IInv, callVars
  <2>6. LeftGuard(s)' /\ IdentityGuard(s)' /\ HeadGuard(s)' /\ TicketGuard(s)' /\ LedgerGuard(s)'
    BY <1>1, <2>1, <2>2 DEF LeftGuard, IdentityGuard, HeadGuard, TicketGuard, LedgerGuard,
                            PastAbsent, PastHead, PastTicket, Judged, Applying, Served
  <2>7. LocksInOrder(s)'
    BY <1>1, <1>6, <2>1, <2>2, <2>3 DEF Inside
  <2> QED BY <1>3, <2>3, <2>4, <2>5, <2>6, <2>7, StepOfOne DEF SessionKnows, Types, worldVars
<1> QED BY <1>4, <1>7, <1>8 DEF Reserve

-----------------------------------------------------------------------------
(* execute_work and commit_batch.                                          *)

LEMMA LockTicketKeeps ==
  ASSUME IInv, NEW s \in Sessions, LockTicket(s)
  PROVE  IInv'
<1> DEFINE first == FirstLeft(s)
<1>1. /\ SessionTypes /\ SessionKnows(s) /\ LocksInOrder(s) /\ pc[s] = "ticket"
      /\ left[s] # {} /\ left[s] \subseteq Served(s) /\ Served(s) \subseteq Tickets
      /\ Served(s) # {} /\ Tickets \subseteq Nat
  BY SessionParts, RequestAssumption DEF IInv, Types, LockTicket, SessionKnows, LeftGuard
<1>2. <<"ticket", first>> \in Resources
  BY <1>1, FirstLeftIsFirst, ResourceParts
<1>3. /\ Acquire(s, <<"ticket", first>>) /\ Proceed(s, "ticket", "compare")
      /\ UNCHANGED <<dataVars, worldVars, callVars>> /\ UNCHANGED <<snap, pending, draft>>
  BY DEF LockTicket
<1>4. AddsLock(s, <<"ticket", first>>) /\ holder'[<<"ticket", first>>] = s
  BY <1>1, <1>2, <1>3, AcquireAdds
<1>5. /\ first \in left[s] /\ first \in Served(s) /\ first \in Tickets
      /\ \A u \in left[s] : u = first \/ first < u
      /\ \/ /\ pc' = [pc EXCEPT ![s] = "ticket"] /\ pc'[s] = "ticket"
            /\ left'[s] = left[s] \ {first} /\ left'[s] # {}
         \/ /\ pc' = [pc EXCEPT ![s] = "compare"] /\ pc'[s] = "compare"
            /\ left'[s] = Served(s) /\ left[s] = {first}
      /\ \A o \in Sessions \ {s} : left'[o] = left[o] /\ pc'[o] = pc[o]
      /\ left' \in [Sessions -> SUBSET Tickets] /\ left'[s] \subseteq Served(s)
  BY <1>1, <1>3, ProceedLeaves
<1> HIDE DEF first
<1>6. SessionTypes'
  BY <1>1, <1>3, <1>4, <1>5 DEF SessionTypes, Steps, Inside, callVars, AddsLock
<1>7. OthersRest(s) /\ RepliesStored' /\ Unused' /\ DataTypes' /\ KeyGuard(s)'
  BY <1>1, <1>3, <1>4, <1>5, StatementFrame DEF Inside, AddsLock
<1>8. /\ \A k \in Keys : Has(s, "key", k)' <=> Has(s, "key", k)
      /\ \A t \in Tickets : /\ Has(s, "identity", t)' <=> Has(s, "identity", t)
                            /\ Has(s, "head", t)' <=> Has(s, "head", t)
                            /\ t # first => (Has(s, "ticket", t)' <=> Has(s, "ticket", t))
                            /\ t = first => Has(s, "ticket", t)'
      /\ Has(s, "ledger", 0)' <=> Has(s, "ledger", 0)
  BY <1>4, ResourceParts DEF Has, AddsLock
<1>9. LeftGuard(s)'
  BY <1>1, <1>5 DEF LeftGuard, Served
<1>10. IdentityGuard(s)' /\ HeadGuard(s)'
  BY <1>1, <1>3, <1>5, <1>8 DEF SessionKnows, IdentityGuard, HeadGuard, HeadKept, PastAbsent,
                                PastHead, Judged, Served, dataVars, worldVars
<1>11. TicketGuard(s)'
  <2>1. ~Applying(s)'
    BY <1>5 DEF Applying
  <2>2. ASSUME NEW t \in Served(s), PastTicket(s, t)'
        PROVE  Has(s, "ticket", t)'
    <3>1. t = first \/ t \notin left[s]
      BY <1>5, <2>1, <2>2 DEF PastTicket
    <3>2. t \notin left[s] => Has(s, "ticket", t)
      BY <1>1, <2>2 DEF SessionKnows, TicketGuard, PastTicket
    <3> QED BY <1>1, <1>5, <1>8, <3>1, <3>2
  <2> QED BY <2>1, <2>2 DEF TicketGuard, Served
<1>12. LedgerGuard(s)' /\ LocksInOrder(s)'
  BY <1>1, <1>5, <1>8 DEF LedgerGuard, LocksInOrder, Applying, Inside
<1> QED BY <1>3, <1>6, <1>7, <1>9, <1>10, <1>11, <1>12, StepOfOne DEF SessionKnows, Types, worldVars

\* A session's outcome is drafted, and nothing else happens.
LEMMA CompareVersionKeeps ==
  ASSUME IInv, NEW s \in Sessions, CompareVersion(s)
  PROVE  IInv'
<1> DEFINE current == version[SourceOf[s[1]]]
<1>1. /\ SessionTypes /\ SessionKnows(s) /\ LocksInOrder(s) /\ pc[s] = "compare"
      /\ current \in Nat
  BY SessionParts DEF IInv, Types, DataTypes, CompareVersion
<1>2. UNCHANGED <<dataVars, worldVars, callVars>> /\ UNCHANGED <<holder, left, snap, pending>>
  BY DEF CompareVersion
<1>3. ASSUME NEW kind \in {"ok", "version_conflict"}, NEW at \in Nat,
             NEW step \in {"append", "write"}, Draft(s, Outcome(kind, at)), Goto(s, step),
             kind = "ok" <=> step = "append", kind = "ok" => at = current + 1
      PROVE  IInv'
  <2>1. /\ pc' \in [Sessions -> Steps] /\ pc'[s] = step
        /\ \A o \in Sessions \ {s} : pc'[o] = pc[o]
    BY <1>1, <1>3, PcTypes DEF Steps, Inside
  <2>2. Outcome(kind, at) \in OutcomeSet
    BY DEF Outcome, OutcomeSet, Answers, Stored
  <2>3. /\ draft' \in [Sessions -> [outcome : OutcomeSet, position : Nat]]
        /\ draft'[s].outcome.kind = kind /\ draft'[s].outcome.at = at
        /\ \A o \in Sessions \ {s} : draft'[o] = draft[o]
    BY <1>1, <1>3, <2>2 DEF Draft, SessionTypes, Outcome
  <2>4. SessionTypes'
    BY <1>1, <1>2, <2>1, <2>3 DEF SessionTypes, callVars
  <2>5. OthersRest(s) /\ RepliesStored' /\ Unused' /\ DataTypes' /\ KeyGuard(s)'
    BY <1>1, <1>2, <2>1, <2>3, StatementFrame DEF Inside
  <2>6. LeftGuard(s)' /\ IdentityGuard(s)'
    BY <1>1, <1>2, <2>1 DEF SessionKnows, LeftGuard, IdentityGuard, PastAbsent, Judged, Applying,
                            Has, Served, dataVars
  <2>7. HeadGuard(s)'
    BY <1>1, <1>2, <2>1 DEF SessionKnows, HeadGuard, HeadKept, PastHead, Judged, Applying, Has,
                            Served, dataVars, worldVars
  <2>8. TicketGuard(s)' /\ LedgerGuard(s)'
    BY <1>1, <1>2, <1>3, <2>1, <2>3 DEF SessionKnows, TicketGuard, LedgerGuard, PastTicket, Applying,
                                  Has, Served, Stored, dataVars
  <2>9. LocksInOrder(s)'
    BY <1>1, <1>2, <2>1 DEF LocksInOrder, Has, Inside
  <2> QED BY <1>2, <2>4, <2>5, <2>6, <2>7, <2>8, <2>9, StepOfOne DEF SessionKnows, Types, worldVars
<1> QED BY <1>1, <1>3 DEF CompareVersion

LEMMA AppendEventKeeps ==
  ASSUME IInv, NEW s \in Sessions, AppendEvent(s)
  PROVE  IInv'
<1>1. /\ SessionTypes /\ SessionKnows(s) /\ LocksInOrder(s) /\ pc[s] = "append" /\ ledger \in Nat
      /\ <<"ledger", 0>> \in Resources /\ draft[s].outcome.kind = "ok"
  BY ResourceParts DEF IInv, Types, DataTypes, AppendEvent, SessionKnows, LedgerGuard
<1>2. /\ Acquire(s, <<"ledger", 0>>) /\ Goto(s, "write")
      /\ draft' = [draft EXCEPT ![s].position = ledger + 1]
      /\ UNCHANGED <<dataVars, worldVars, callVars>> /\ UNCHANGED <<left, snap, pending>>
  BY DEF AppendEvent
<1>3. AddsLock(s, <<"ledger", 0>>) /\ holder'[<<"ledger", 0>>] = s
  BY <1>1, <1>2, AcquireAdds
<1>4. /\ pc' \in [Sessions -> Steps] /\ pc'[s] = "write"
      /\ \A o \in Sessions \ {s} : pc'[o] = pc[o]
  BY <1>1, <1>2, PcTypes DEF Steps, Inside
<1>5. /\ draft' \in [Sessions -> [outcome : OutcomeSet, position : Nat]]
      /\ draft'[s].outcome = draft[s].outcome /\ draft'[s].position = ledger + 1
      /\ \A o \in Sessions \ {s} : draft'[o] = draft[o]
  BY <1>1, <1>2 DEF SessionTypes
<1>6. SessionTypes'
  BY <1>1, <1>2, <1>3, <1>4, <1>5 DEF SessionTypes, callVars, AddsLock
<1>7. OthersRest(s) /\ RepliesStored' /\ Unused' /\ DataTypes' /\ KeyGuard(s)'
  BY <1>1, <1>2, <1>3, <1>4, <1>5, StatementFrame DEF Inside, AddsLock
<1>8. /\ \A k \in Keys : Has(s, "key", k)' <=> Has(s, "key", k)
      /\ \A t \in Tickets : /\ Has(s, "identity", t)' <=> Has(s, "identity", t)
                            /\ Has(s, "head", t)' <=> Has(s, "head", t)
                            /\ Has(s, "ticket", t)' <=> Has(s, "ticket", t)
      /\ Has(s, "ledger", 0)'
  BY <1>3, ResourceParts DEF Has, AddsLock
<1>9. Applying(s) /\ Applying(s)' /\ Served(s) \subseteq Tickets
  BY <1>1, <1>4, <1>5, SessionParts DEF Applying
<1>10. LeftGuard(s)' /\ IdentityGuard(s)'
  BY <1>1, <1>2, <1>4, <1>8, <1>9 DEF SessionKnows, LeftGuard, IdentityGuard, PastAbsent, Judged,
                                      Served, dataVars
<1>11. HeadGuard(s)'
  BY <1>1, <1>2, <1>4, <1>8, <1>9 DEF SessionKnows, HeadGuard, HeadKept, PastHead, Judged,
                                      Served, dataVars, worldVars
<1>12. TicketGuard(s)' /\ LedgerGuard(s)'
  BY <1>1, <1>2, <1>4, <1>5, <1>8, <1>9 DEF SessionKnows, TicketGuard, LedgerGuard, PastTicket,
                                            Served, Stored, dataVars
<1>13. LocksInOrder(s)'
  BY <1>1, <1>2, <1>4, <1>8 DEF LocksInOrder, Inside
<1> QED BY <1>2, <1>6, <1>7, <1>10, <1>11, <1>12, <1>13, StepOfOne DEF SessionKnows, Types, worldVars

\* Under the key's lock the insert never meets another result.
LEMMA WriteResultKeeps ==
  ASSUME IInv, NEW s \in Sessions, WriteResult(s)
  PROVE  IInv'
<1>1. /\ SessionTypes /\ SessionKnows(s) /\ LocksInOrder(s) /\ pc[s] = "write"
      /\ results[Key(s)] = NoResult
  BY DEF IInv, Types, WriteResult, SessionKnows, KeyGuard, Inside
<1>2. /\ Goto(s, "commit") /\ UNCHANGED <<holder, callVars>>
      /\ UNCHANGED <<dataVars, worldVars, left, snap, pending, draft>>
  BY <1>1 DEF WriteResult
<1>3. /\ pc' \in [Sessions -> Steps] /\ pc'[s] = "commit"
      /\ \A o \in Sessions \ {s} : pc'[o] = pc[o]
  BY <1>1, <1>2, PcTypes DEF Steps, Inside
<1>4. SessionTypes'
  BY <1>1, <1>2, <1>3 DEF SessionTypes, callVars
<1>5. OthersRest(s) /\ RepliesStored' /\ Unused' /\ DataTypes' /\ KeyGuard(s)'
  BY <1>1, <1>2, <1>3, StatementFrame DEF Inside
<1>6. LeftGuard(s)' /\ IdentityGuard(s)'
  BY <1>1, <1>2, <1>3 DEF SessionKnows, LeftGuard, IdentityGuard, PastAbsent, Judged, Applying,
                          Has, Served, dataVars
<1>7. HeadGuard(s)'
  BY <1>1, <1>2, <1>3 DEF SessionKnows, HeadGuard, HeadKept, PastHead, Judged, Applying, Has,
                          Served, dataVars, worldVars
<1>8. TicketGuard(s)' /\ LedgerGuard(s)'
  BY <1>1, <1>2, <1>3 DEF SessionKnows, TicketGuard, LedgerGuard, PastTicket, Applying, Has,
                          Served, dataVars
<1>9. LocksInOrder(s)'
  BY <1>1, <1>2, <1>3 DEF LocksInOrder, Has, Inside
<1> QED BY <1>2, <1>4, <1>5, <1>6, <1>7, <1>8, <1>9, StepOfOne DEF SessionKnows, Types, worldVars

\* A commit changes what its locks protect: no other session relies on it.
LEMMA OthersSurviveCommit ==
  ASSUME IInv, NEW s \in Sessions, Commit(s), NEW o \in Sessions \ {s}
  PROVE  SessionKnows(o)' /\ LocksInOrder(o)'
<1>1. /\ SessionTypes /\ DataTypes /\ SessionKnows(s) /\ SessionKnows(o) /\ LocksInOrder(o)
      /\ pc[s] = "commit" /\ Goto(s, "done") /\ Release(s)
      /\ UNCHANGED <<acked, left, snap, pending, draft>>
  BY DEF IInv, Types, Commit, worldVars
<1>2. /\ pc'[o] = pc[o] /\ Key(s) \in Keys /\ Key(o) \in Keys
      /\ Served(s) \subseteq Tickets /\ Served(o) \subseteq Tickets
      /\ SourceOf[s[1]] \in Served(s) /\ SourceOf[o[1]] \in Served(o)
  BY <1>1, SessionParts DEF Goto, SessionTypes
<1>3. /\ \A k \in Keys : Has(o, "key", k)' <=> Has(o, "key", k)
      /\ \A t \in Tickets : /\ Has(o, "identity", t)' <=> Has(o, "identity", t)
                            /\ Has(o, "head", t)' <=> Has(o, "head", t)
                            /\ Has(o, "ticket", t)' <=> Has(o, "ticket", t)
      /\ Has(o, "ledger", 0)' <=> Has(o, "ledger", 0)
  BY <1>1, ReleaseFrees, ResourceParts DEF Has
<1>4. \A k, x : ~(Has(s, k, x) /\ Has(o, k, x))
  BY DEF Has
<1>5. (Applying(o)' <=> Applying(o)) /\ (Judged(o)' <=> Judged(o))
  BY <1>1, <1>2 DEF Applying, Judged
<1>6. \A t : /\ PastAbsent(o, t)' <=> PastAbsent(o, t)
             /\ PastHead(o, t)' <=> PastHead(o, t)
             /\ PastTicket(o, t)' <=> PastTicket(o, t)
  BY <1>1, <1>2, <1>5 DEF PastAbsent, PastHead, PastTicket
<1>7. KeyGuard(o)'
  <2>1. pc[o] \in Inside => Key(o) # Key(s)
    BY <1>1, <1>4 DEF SessionKnows, KeyGuard, Inside
  <2>2. results' = [results EXCEPT ![Key(s)] = [digest |-> DigestOf[s[1]], outcome |-> draft[s].outcome]]
    BY DEF Commit
  <2> QED BY <1>1, <1>2, <1>3, <2>1, <2>2 DEF SessionKnows, KeyGuard, DataTypes, Key
<1>8. LeftGuard(o)' /\ LocksInOrder(o)'
  BY <1>1, <1>2, <1>3 DEF SessionKnows, LeftGuard, LocksInOrder, Served
<1>9. CASE draft[s].outcome.kind # "ok"
  <2>1. UNCHANGED <<version, ledger, head>>
    BY <1>9 DEF Commit
  <2>2. IdentityGuard(o)' /\ TicketGuard(o)' /\ LedgerGuard(o)'
    BY <1>1, <1>2, <1>3, <1>5, <1>6, <2>1 DEF SessionKnows, IdentityGuard, TicketGuard,
                                              LedgerGuard, Served
  <2>3. HeadGuard(o)'
    <3>1. \A t \in Served(o) : HeadKept(o, t) => HeadKept(o, t)'
      BY <1>1, <1>2, <1>3, <2>1 DEF HeadKept
    <3> QED BY <1>1, <1>2, <1>5, <1>6, <3>1 DEF SessionKnows, HeadGuard, Served
  <2> QED BY <1>7, <1>8, <2>2, <2>3 DEF SessionKnows
<1>10. CASE draft[s].outcome.kind = "ok"
  <2>1. Applying(s) /\ Judged(s)
    BY <1>1, <1>10 DEF Applying, Judged
  <2>2. /\ version' = [version EXCEPT ![SourceOf[s[1]]] = draft[s].outcome.at]
        /\ ledger' = draft[s].position
        /\ head' = [t \in Tickets |-> IF t \in Served(s) THEN Key(s) ELSE head[t]]
    BY <1>10 DEF Commit, Served
  <2>3. \A t \in Served(s) : HeadKept(s, t) /\ Has(s, "ticket", t)
    BY <1>1, <2>1 DEF SessionKnows, HeadGuard, TicketGuard, PastHead, PastTicket
  <2>4. IdentityGuard(o)'
    <3>1. \A t \in Tickets : head[t] # NoKey => head'[t] # NoKey
      BY <1>2, <2>2, RequestAssumption
    <3> QED BY <1>1, <1>2, <1>3, <1>6, <3>1 DEF SessionKnows, IdentityGuard, Served
  <2>5. HeadGuard(o)'
    <3>1. ASSUME NEW t \in Served(o), HeadKept(o, t) PROVE HeadKept(o, t)'
      <4>1. t \notin Served(s)
        BY <1>1, <1>4, <2>3, <3>1, RequestAssumption DEF HeadKept, DataTypes
      <4> QED BY <1>1, <1>2, <1>3, <2>2, <3>1, <4>1 DEF HeadKept
    <3> QED BY <1>1, <1>2, <1>5, <1>6, <3>1 DEF SessionKnows, HeadGuard, Served
  <2>6. TicketGuard(o)'
    <3>1. Applying(o) => SourceOf[o[1]] # SourceOf[s[1]]
      BY <1>1, <1>2, <1>4, <2>3 DEF SessionKnows, TicketGuard, PastTicket
    <3>2. Applying(o) => version'[SourceOf[o[1]]] = version[SourceOf[o[1]]]
      BY <1>1, <1>2, <2>2, <3>1 DEF DataTypes
    <3> QED BY <1>1, <1>2, <1>3, <1>5, <1>6, <3>2 DEF SessionKnows, TicketGuard, Served
  <2>7. LedgerGuard(o)'
    <3>1. Has(s, "ledger", 0)
      BY <1>1, <2>1 DEF SessionKnows, LedgerGuard
    <3> QED BY <1>1, <1>2, <1>4, <1>5, <3>1 DEF SessionKnows, LedgerGuard
  <2> QED BY <1>7, <1>8, <2>4, <2>5, <2>6, <2>7 DEF SessionKnows
<1> QED BY <1>9, <1>10

\* The one event of a command that is applied is new, at the next position and
\* with the next version of its ticket.
LEMMA CommitCounts ==
  ASSUME IInv, NEW s \in Sessions, Commit(s)
  PROVE  /\ DataTypes' /\ EventsStored' /\ VersionCountsEvents' /\ PositionsGapless'
<1> DEFINE source == SourceOf[s[1]]
           event == [key |-> Key(s), ticket |-> source, position |-> draft[s].position]
           result == [digest |-> DigestOf[s[1]], outcome |-> draft[s].outcome]
<1>1. /\ DataTypes /\ SessionTypes /\ SessionKnows(s) /\ pc[s] = "commit" /\ acked' = acked
      /\ results' = [results EXCEPT ![Key(s)] = result]
  BY DEF IInv, Types, Commit, worldVars
<1>2. /\ s[1] \in Requests /\ Key(s) \in Keys /\ source \in Tickets
      /\ Served(s) \subseteq Tickets /\ source \in Served(s)
  BY SessionParts
<1>3. /\ results[Key(s)] = NoResult /\ draft[s].outcome.kind \in Stored
      /\ draft[s].outcome \in OutcomeSet /\ draft[s].position \in Nat
  BY <1>1 DEF SessionKnows, KeyGuard, LedgerGuard, Inside, SessionTypes
<1>4. result \in ResultSet /\ result # NoResult
  BY <1>2, <1>3 DEF ResultSet, NoResult, NoOutcome, Outcome, Stored
<1> HIDE DEF result
<1>5. results' \in [Keys -> ResultSet] /\ results'[Key(s)] # NoResult
      /\ \A k \in Keys : results[k] # NoResult => results'[k] = results[k]
  BY <1>1, <1>2, <1>3, <1>4 DEF DataTypes
<1>6. CASE draft[s].outcome.kind # "ok"
  <2>1. UNCHANGED <<version, ledger, events, head>>
    BY <1>6 DEF Commit
  <2>2. \A e \in events : e.key \in Keys
    BY <1>1 DEF DataTypes
  <2> QED BY <1>1, <1>5, <2>1, <2>2 DEF IInv, DataTypes, EventsStored, VersionCountsEvents, PositionsGapless
<1>7. CASE draft[s].outcome.kind = "ok"
  <2>1. /\ version' = [version EXCEPT ![source] = draft[s].outcome.at]
        /\ ledger' = draft[s].position /\ events' = events \cup {event}
        /\ head' = [t \in Tickets |-> IF t \in Served(s) THEN Key(s) ELSE head[t]]
    BY <1>7 DEF Commit, Served
  <2>2. draft[s].outcome.at = version[source] + 1 /\ draft[s].position = ledger + 1
    BY <1>1, <1>7 DEF SessionKnows, TicketGuard, LedgerGuard, Applying
  <2>3. \A e \in events : e.key \in Keys /\ e.key # Key(s)
    BY <1>1, <1>3 DEF IInv, EventsStored, DataTypes
  <2>4. event \notin events /\ event \in [key : Keys, ticket : Tickets, position : Nat]
    BY <1>2, <1>3, <2>3
  <2>0. event.position = ledger + 1 /\ event.key = Key(s) /\ event.ticket = source
    BY <2>2
  <2> HIDE DEF event
  <2>5. IsFiniteSet(events) /\ IsFiniteSet(events') /\ Cardinality(events') = Cardinality(events) + 1
    BY <1>1, <2>1, <2>4, FS_AddElement DEF DataTypes
  <2>6. DataTypes'
    <3>1. version' \in [Tickets -> Nat] /\ ledger' \in Nat
      BY <1>1, <1>2, <1>3, <2>1, <2>2 DEF DataTypes
    <3>2. head' \in [Tickets -> Keys \cup {NoKey}]
      BY <1>1, <1>2, <2>1 DEF DataTypes
    <3>3. events' \subseteq [key : Keys, ticket : Tickets, position : Nat]
      BY <1>1, <2>1, <2>4 DEF DataTypes
    <3> QED BY <1>1, <1>5, <2>5, <3>1, <3>2, <3>3 DEF DataTypes
  <2>7. EventsStored'
    BY <1>5, <2>0, <2>1, <2>3 DEF IInv, EventsStored
  <2>8. PositionsGapless'
    <3>1. {e.position : e \in events'} = {e.position : e \in events} \cup {ledger + 1}
      BY <2>0, <2>1
    <3>2. Cardinality(events) \in Nat /\ ledger = Cardinality(events)
      BY <2>5, FS_CardinalityType DEF IInv, PositionsGapless
    <3>3. {e.position : e \in events} = 1..ledger
      BY <3>2 DEF IInv, PositionsGapless
    <3>4. (1..ledger) \cup {ledger + 1} = 1..(ledger + 1)
      BY <3>2
    <3> QED BY <2>1, <2>2, <2>5, <3>1, <3>2, <3>3, <3>4 DEF PositionsGapless
  <2>9. VersionCountsEvents'
    <3>1. ASSUME NEW t \in Tickets
          PROVE  version'[t] = 1 + Cardinality({e \in events' : e.ticket = t})
      <4> DEFINE old == {e \in events : e.ticket = t}
      <4>1. version[t] = 1 + Cardinality(old) /\ IsFiniteSet(old) /\ Cardinality(old) \in Nat
        BY <2>5, FS_Subset, FS_CardinalityType DEF IInv, VersionCountsEvents
      <4>2. CASE t # source
        <5>1. {e \in events' : e.ticket = t} = old
          BY <2>0, <2>1, <4>2
        <5> QED BY <1>1, <1>2, <2>1, <4>1, <4>2, <5>1 DEF DataTypes
      <4>3. CASE t = source
        <5>1. {e \in events' : e.ticket = t} = old \cup {event}
          BY <2>0, <2>1, <4>3
        <5>2. Cardinality(old \cup {event}) = Cardinality(old) + 1
          BY <2>4, <4>1, FS_AddElement
        <5>3. Cardinality({e \in events' : e.ticket = t}) = Cardinality(old) + 1
          BY <5>1, <5>2, Zenon
        <5>4. version'[t] = version[t] + 1
          BY <1>1, <1>2, <2>1, <2>2, <4>3 DEF DataTypes
        <5> HIDE DEF old
        <5> QED BY <4>1, <5>3, <5>4
      <4> QED BY <4>2, <4>3
    <3>2. \A e, f \in events' : e.key = f.key => e = f
      BY <2>0, <2>1, <2>3 DEF IInv, VersionCountsEvents
    <3> QED BY <3>1, <3>2 DEF VersionCountsEvents
  <2> QED BY <2>6, <2>7, <2>8, <2>9
<1> QED BY <1>6, <1>7

LEMMA CommitKeeps ==
  ASSUME IInv, NEW s \in Sessions, Commit(s)
  PROVE  IInv'
<1>1. /\ SessionTypes /\ DataTypes /\ SessionKnows(s) /\ pc[s] = "commit"
      /\ Goto(s, "done") /\ Release(s) /\ UNCHANGED <<left, snap, pending, draft, attempt>>
  BY DEF IInv, Types, Commit
<1>2. /\ pc' \in [Sessions -> Steps] /\ pc'[s] = "done"
      /\ \A o \in Sessions \ {s} : pc'[o] = pc[o]
  BY <1>1, PcTypes DEF Steps
<1>3. /\ holder' \in [Resources -> Sessions \cup {NoSession}]
      /\ \A y \in Resources : holder'[y] # s
  BY <1>1, ReleaseFrees
<1>4. s[1] \in Requests /\ Key(s) \in Keys /\ Key(s) = KeyOf[s[1]]
  BY SessionParts DEF Key
<1>5. /\ draft[s].outcome \in OutcomeSet /\ draft[s].outcome.kind \in Stored
      /\ results[Key(s)] = NoResult
  BY <1>1 DEF SessionKnows, KeyGuard, LedgerGuard, Inside, SessionTypes
<1>6. reply' = IF Waited(s) THEN [reply EXCEPT ![s[1]] = draft[s].outcome] ELSE reply
  BY DEF Commit
<1>7. SessionTypes'
  BY <1>1, <1>2, <1>3, <1>4, <1>5, <1>6 DEF SessionTypes
<1>8. RepliesStored'
  <2> DEFINE result == [digest |-> DigestOf[s[1]], outcome |-> draft[s].outcome]
  <2>1. results' = [results EXCEPT ![Key(s)] = result]
    BY DEF Commit
  <2>2. \A k \in Keys : results'[k] = IF k = Key(s) THEN result ELSE results[k]
    BY <1>1, <2>1 DEF DataTypes
  <2>3. /\ result # NoResult /\ result.outcome = draft[s].outcome
        /\ result.digest = DigestOf[s[1]]
    BY <1>5 DEF NoResult, NoOutcome, Outcome, Stored
  <2> HIDE DEF result
  <2>4. \A r \in Requests : KeyOf[r] \in Keys
    BY RequestAssumption
  <2>5. \A k \in Keys : results'[k] # NoResult => results'[k].outcome.kind \in Stored
    BY <1>5, <2>2, <2>3 DEF IInv, RepliesStored
  <2>6. ASSUME NEW r \in Requests, reply'[r].kind \notin {"none", "idempotency_conflict", "exhausted"}
        PROVE  /\ results'[KeyOf[r]] # NoResult
               /\ results'[KeyOf[r]].digest = DigestOf[r]
               /\ results'[KeyOf[r]].outcome = reply'[r]
    <3>1. CASE reply'[r] = reply[r]
      <4>1. /\ results[KeyOf[r]] # NoResult
            /\ results[KeyOf[r]].digest = DigestOf[r] /\ results[KeyOf[r]].outcome = reply[r]
        BY <2>6, <3>1 DEF IInv, RepliesStored
      <4>2. results'[KeyOf[r]] = results[KeyOf[r]]
        BY <1>5, <2>2, <2>4, <4>1
      <4> QED BY <3>1, <4>1, <4>2
    <3>2. CASE reply'[r] # reply[r]
      <4>1. r = s[1] /\ reply'[r] = draft[s].outcome
        BY <1>1, <1>4, <1>6, <3>2 DEF SessionTypes
      <4> QED BY <1>4, <2>2, <2>3, <4>1
    <3> QED BY <3>1, <3>2
  <2> QED BY <2>5, <2>6 DEF RepliesStored
<1>9. Unused'
  BY <1>1, <1>2, UnusedKept DEF IInv
<1>10. SessionKnows(s)' /\ LocksInOrder(s)'
  BY <1>2, <1>3, NothingToKnow
<1>11. \A o \in Sessions : SessionKnows(o)' /\ LocksInOrder(o)'
  BY <1>10, OthersSurviveCommit
<1> QED BY <1>7, <1>8, <1>9, <1>11, CommitCounts DEF IInv, Types

-----------------------------------------------------------------------------
(* The invariant holds.                                                    *)

\* Acknowledgements only add to what the sessions have found acknowledged.
LEMMA WorldKeeps ==
  ASSUME IInv, acked \subseteq acked', acked' \subseteq Keys,
         UNCHANGED <<dataVars, holder, pc, left, snap, pending, draft, callVars>>
  PROVE  IInv'
<1>1. Types' /\ RepliesStored' /\ Unused' /\ EventsStored' /\ VersionCountsEvents' /\ PositionsGapless'
  BY DEF IInv, Types, DataTypes, SessionTypes, RepliesStored, Unused, EventsStored,
         VersionCountsEvents, PositionsGapless, dataVars, callVars
<1>2. ASSUME NEW s \in Sessions
      PROVE  SessionKnows(s)' /\ LocksInOrder(s)'
  <2>1. SessionKnows(s) /\ LocksInOrder(s)
    BY DEF IInv
  <2>2. SessionKnows(s)'
    BY <2>1 DEF SessionKnows, KeyGuard, LeftGuard, IdentityGuard, HeadGuard, HeadKept,
                TicketGuard, LedgerGuard, PastAbsent, PastHead, PastTicket, Judged, Applying,
                Has, Key, Served, dataVars
  <2>3. LocksInOrder(s)'
    BY <2>1 DEF LocksInOrder, Has
  <2> QED BY <2>2, <2>3
<1> QED BY <1>1, <1>2 DEF IInv

LEMMA StepKeeps == IInv /\ [Next]_vars => IInv'
<1> SUFFICES ASSUME IInv, [Next]_vars PROVE IInv'
  OBVIOUS
<1>1. ASSUME NEW s \in Sessions, SessionStep(s) \/ Fail(s) \/ RollBack(s) PROVE IInv'
  BY <1>1, ReserveKeeps, CheckAbsentKeeps, LockIdentityKeeps, ReadHeadKeeps, LockHeadKeeps,
     JudgeHeadsKeeps, LockTicketKeeps, CompareVersionKeeps, AppendEventKeeps, WriteResultKeeps,
     CommitKeeps, FailKeeps, RollBackKeeps DEF SessionStep
<1>2. ASSUME NEW k \in Keys, Acknowledge(k) PROVE IInv'
  BY <1>2, WorldKeeps DEF Acknowledge, IInv, Types, DataTypes
<1>3. CASE RevokeSeat
  BY <1>3, WorldKeeps DEF RevokeSeat, IInv, Types, DataTypes
<1>4. CASE UNCHANGED vars
  BY <1>4, WorldKeeps DEF vars, dataVars, callVars, IInv, Types, DataTypes
<1> QED BY <1>1, <1>2, <1>3, <1>4, SendKeeps DEF Next

THEOREM CommandInvariant == Spec => []IInv
<1> QED BY Initially, StepKeeps, PTL DEF Spec

-----------------------------------------------------------------------------
(* The properties the runs check.                                          *)

\* Requests with one key and body are given one outcome, no two bodies under a
\* key are both served, and no request ends in an integrity error, through
\* retries, ambiguous commits and clients that gave up.
THEOREM OneAnswerPerKey == Spec => []RepliesAgree
<1>1. IInv => RepliesAgree
  <2> SUFFICES ASSUME IInv, NEW r \in Requests, NEW q \in Requests
               PROVE  /\ reply[r].kind # "integrity_error"
                      /\ /\ KeyOf[r] = KeyOf[q]
                         /\ reply[r].kind \notin {"none", "idempotency_conflict", "exhausted"}
                         /\ reply[q].kind \notin {"none", "idempotency_conflict", "exhausted"}
                         => DigestOf[r] = DigestOf[q] /\ reply[r] = reply[q]
    BY DEF RepliesAgree
  <2>1. KeyOf[r] \in Keys
    BY RequestAssumption
  <2>2. reply[r].kind # "integrity_error"
    BY <2>1 DEF IInv, RepliesStored, Stored
  <2> QED BY <2>2 DEF IInv, RepliesStored
<1> QED BY <1>1, CommandInvariant, PTL

\* No update is lost: a ticket's version counts the events that changed it, and
\* no key has two events.
THEOREM VersionsCount == Spec => []VersionCountsEvents
<1> QED BY CommandInvariant, PTL DEF IInv

\* The record positions are 1..n, one event each, whatever rolls back.
THEOREM RecordHasNoGap == Spec => []PositionsGapless
<1> QED BY CommandInvariant, PTL DEF IInv

\* A head moves only past a command that the named standby has acknowledged.
THEOREM HeadsMoveWhenAcked == Spec => HeadMovesWhenAcked
<1>1. IInv /\ [Next]_vars => [\A t \in Tickets : head'[t] # head[t] => head[t] \in acked \cup {NoKey}]_vars
  <2> SUFFICES ASSUME IInv, Next, NEW t \in Tickets, head'[t] # head[t]
               PROVE  head[t] \in acked \cup {NoKey}
    OBVIOUS
  <2>1. ASSUME NEW s \in Sessions, Commit(s)
        PROVE  head[t] \in acked \cup {NoKey}
    <3>1. SessionKnows(s) /\ pc[s] = "commit" /\ Served(s) \subseteq Tickets
      BY <2>1, SessionParts DEF IInv, Commit
    <3>2. draft[s].outcome.kind = "ok" /\ t \in Served(s)
      BY <2>1 DEF Commit, Served
    <3>3. HeadKept(s, t)
      BY <3>1, <3>2 DEF SessionKnows, HeadGuard, PastHead, Judged, Applying
    <3> QED BY <3>3 DEF HeadKept
  <2>2. ASSUME NEW s \in Sessions, ~Commit(s), SessionStep(s) \/ Fail(s) \/ RollBack(s)
        PROVE  head' = head
    BY <2>2 DEF SessionStep, Reserve, CheckAbsent, LockIdentity, ReadHead, LockHead, JudgeHeads,
                LockTicket, CompareVersion, AppendEvent, WriteResult, Fail, RollBack, dataVars
  <2>3. ASSUME NEW r \in Requests, Send(r) PROVE head' = head
    BY <2>3 DEF Send, dataVars
  <2>4. ASSUME NEW k \in Keys, Acknowledge(k) PROVE head' = head
    BY <2>4 DEF Acknowledge, dataVars
  <2>5. RevokeSeat => head' = head
    BY DEF RevokeSeat, dataVars
  <2> QED BY <2>1, <2>2, <2>3, <2>4, <2>5 DEF Next, SessionStep
<1> QED BY <1>1, CommandInvariant, PTL DEF Spec, HeadMovesWhenAcked

-----------------------------------------------------------------------------
(* No circle of sessions that wait.                                        *)

\* Tickets without a highest one: there are finitely many, so there is none.
LEMMA NoHighest ==
  ASSUME NEW T \in SUBSET Tickets, \A t \in T : \E u \in T : t < u
  PROVE  T = {}
<1> SUFFICES ASSUME T # {} PROVE FALSE
  OBVIOUS
<1> DEFINE Above(t) == {u \in T : t < u}
           Counts == {Cardinality(Above(t)) : t \in T}
<1>1. IsFiniteSet(T) /\ T \subseteq Nat
  BY FS_Subset, RequestAssumption
<1>2. \A t \in T : IsFiniteSet(Above(t)) /\ Cardinality(Above(t)) \in Nat
  BY <1>1, FS_Subset, FS_CardinalityType
<1>3. Counts \in SUBSET Nat /\ Counts # {}
  BY <1>2
<1>4. PICK t \in T : \A u \in T : Cardinality(Above(t)) <= Cardinality(Above(u))
  <2>1. PICK n \in Counts : \A m \in Counts : n <= m
    <3> HIDE DEF Counts
    <3> QED BY <1>3, LeastNumber
  <2> HIDE DEF Above
  <2> QED BY <2>1
<1>5. PICK u \in T : t < u
  OBVIOUS
<1>6. Above(u) \subseteq Above(t) /\ u \in Above(t) /\ u \notin Above(u)
  <2>1. \A v \in T : u < v => t < v
    BY <1>1, <1>5
  <2>2. ~(u < u)
    BY <1>1
  <2> QED BY <1>5, <2>1, <2>2
<1>7. Cardinality(Above(u)) <= Cardinality(Above(t)) /\ Cardinality(Above(u)) # Cardinality(Above(t))
  <2> HIDE DEF Above
  <2> QED BY <1>2, <1>6, FS_Subset
<1>8. Cardinality(Above(t)) <= Cardinality(Above(u))
  BY <1>4
<1> HIDE DEF Above
<1> QED BY <1>2, <1>7, <1>8

\* A set of sessions each of which waits for one of the set.
Circle(S) == \A s \in S : \E x \in Wanted(s) : holder[x] \in S

Waiting == {"reserve", "identity", "headLock", "ticket", "append"}

\* What a session in a circle waits for, and where.
LEMMA CircleWaits ==
  ASSUME IInv, NEW S \in SUBSET Sessions, Circle(S), NEW s \in S
  PROVE  /\ pc[s] \in Waiting
         /\ pc[s] = "reserve" => \E o \in S : Has(o, "key", Key(s))
         /\ pc[s] = "identity" => \E o \in S : Has(o, "identity", FirstLeft(s))
         /\ pc[s] = "headLock" => \E o \in S : Has(o, "head", FirstLeft(s))
         /\ pc[s] = "ticket" => \E o \in S : Has(o, "ticket", FirstLeft(s))
         /\ pc[s] = "append" => \E o \in S : Has(o, "ledger", 0)
<1>1. PICK x \in Wanted(s) : holder[x] \in S
  BY DEF Circle
<1>2. pc[s] \in Waiting
  BY <1>1 DEF Wanted, Waiting
<1>3. /\ pc[s] = "reserve" => x = <<"key", Key(s)>>
      /\ pc[s] = "identity" => x = <<"identity", FirstLeft(s)>>
      /\ pc[s] = "headLock" => x = <<"head", FirstLeft(s)>>
      /\ pc[s] = "ticket" => x = <<"ticket", FirstLeft(s)>>
      /\ pc[s] = "append" => x = <<"ledger", 0>>
  BY <1>1 DEF Wanted
<1> QED BY <1>1, <1>2, <1>3 DEF Has

\* Where a session waits for a ticket's lock, the lowest it has left is ahead of
\* those it holds.
LEMMA CircleTickets ==
  ASSUME IInv, NEW S \in SUBSET Sessions, Circle(S), NEW s \in S,
         pc[s] \in {"identity", "headLock", "ticket"}
  PROVE  FirstLeft(s) \in left[s] /\ FirstLeft(s) \in Tickets
<1>1. left[s] # {} /\ left[s] \subseteq Tickets
  BY DEF IInv, Types, SessionTypes, SessionKnows, LeftGuard
<1> QED BY <1>1, FirstLeftIsFirst

\* Nobody in a circle waits in a loop over tickets whose locks are held only by
\* sessions that are in the same loop, behind them.
LEMMA LoopHasNoCircle ==
  ASSUME IInv, NEW S \in SUBSET Sessions, Circle(S), NEW step \in {"identity", "headLock", "ticket"},
         \A s \in S : pc[s] = step =>
           \E o \in S : pc[o] = step /\ \A u \in left[o] : FirstLeft(s) < u
  PROVE  \A s \in S : pc[s] # step
<1> DEFINE T == {FirstLeft(s) : s \in {o \in S : pc[o] = step}}
<1>1. T \in SUBSET Tickets
  BY CircleTickets
<1>2. ASSUME NEW t \in T PROVE \E u \in T : t < u
  <2>1. PICK s \in S : pc[s] = step /\ t = FirstLeft(s)
    OBVIOUS
  <2>2. PICK o \in S : pc[o] = step /\ \A u \in left[o] : FirstLeft(s) < u
    BY <2>1
  <2>3. FirstLeft(o) \in left[o] /\ FirstLeft(o) \in T
    BY <2>2, CircleTickets
  <2> QED BY <2>1, <2>2, <2>3
<1>3. T = {}
  BY <1>1, <1>2, NoHighest
<1> QED BY <1>3

\* There is no circle.
LEMMA CirclesAreEmpty ==
  ASSUME IInv, NEW S \in SUBSET Sessions, Circle(S)
  PROVE  S = {}
<1>1. \A o \in S : pc[o] \in Waiting /\ LocksInOrder(o)
  BY CircleWaits DEF IInv
<1>2. \A s \in S : pc[s] # "append"
  BY <1>1, CircleWaits DEF LocksInOrder, Waiting
<1>3. \A s \in S : pc[s] # "ticket"
  <2>1. ASSUME NEW s \in S, pc[s] = "ticket"
        PROVE  \E o \in S : pc[o] = "ticket" /\ \A u \in left[o] : FirstLeft(s) < u
    <3>1. PICK o \in S : Has(o, "ticket", FirstLeft(s))
      BY <2>1, CircleWaits
    <3>2. FirstLeft(s) \in Tickets
      BY <2>1, CircleTickets
    <3> QED BY <1>1, <1>2, <3>1, <3>2 DEF LocksInOrder, Waiting
  <2> QED BY <2>1, LoopHasNoCircle
<1>4. \A s \in S : pc[s] # "headLock"
  <2>1. ASSUME NEW s \in S, pc[s] = "headLock"
        PROVE  \E o \in S : pc[o] = "headLock" /\ \A u \in left[o] : FirstLeft(s) < u
    <3>1. PICK o \in S : Has(o, "head", FirstLeft(s))
      BY <2>1, CircleWaits
    <3>2. FirstLeft(s) \in Tickets
      BY <2>1, CircleTickets
    <3>3. pc[o] \in {"reserve", "identity", "headLock"}
      BY <1>1, <1>2, <1>3 DEF Waiting
    <3> QED BY <1>1, <3>1, <3>2, <3>3 DEF LocksInOrder, Inside
  <2> QED BY <2>1, LoopHasNoCircle
<1>5. \A s \in S : pc[s] # "identity"
  <2>1. ASSUME NEW s \in S, pc[s] = "identity"
        PROVE  \E o \in S : pc[o] = "identity" /\ \A u \in left[o] : FirstLeft(s) < u
    <3>1. PICK o \in S : Has(o, "identity", FirstLeft(s))
      BY <2>1, CircleWaits
    <3>2. FirstLeft(s) \in Tickets
      BY <2>1, CircleTickets
    <3>3. pc[o] \in {"reserve", "identity"}
      BY <1>1, <1>2, <1>3, <1>4 DEF Waiting
    <3> QED BY <1>1, <3>1, <3>2, <3>3 DEF LocksInOrder, Inside
  <2> QED BY <2>1, LoopHasNoCircle
<1>6. \A s \in S : pc[s] = "reserve"
  BY <1>1, <1>2, <1>3, <1>4, <1>5 DEF Waiting
<1>7. ASSUME NEW s \in S PROVE FALSE
  <2>1. PICK o \in S : Has(o, "key", Key(s))
    BY <1>6, CircleWaits
  <2>2. Key(s) \in Keys
    BY SessionParts
  <2> QED BY <1>1, <1>6, <2>1, <2>2 DEF LocksInOrder, Inside
<1> QED BY <1>7

\* In every set of running sessions one waits for none of them: the order of the
\* locks (key, identities, heads, tickets, ledger; tickets in ascending order)
\* leaves no circle, for any number of sessions and tickets.
THEOREM SessionsNeverWaitInACircle == Spec => []NoWaitCycle
<1>1. IInv => NoWaitCycle
  <2> SUFFICES ASSUME IInv, NEW S \in (SUBSET {s \in Sessions : Running(s)}) \ {{}}
               PROVE  \E s \in S : \A x \in Wanted(s) : holder[x] \notin S
    BY DEF NoWaitCycle
  <2>1. ~Circle(S)
    BY CirclesAreEmpty
  <2> QED BY <2>1 DEF Circle
<1> QED BY <1>1, CommandInvariant, PTL
=============================================================================
