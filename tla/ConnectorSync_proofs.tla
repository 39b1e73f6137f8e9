------------------------ MODULE ConnectorSync_proofs ------------------------
(***************************************************************************)
(* Proofs about ConnectorSync for every number of workers and issues, every*)
(* page size and without the bounds' values: a version of an issue reaches *)
(* its ticket at most once, the stored position never goes back, a page is *)
(* finished before the cursor leaves it, and a close is commented once but *)
(* for the ticks whose lease expired under them.                           *)
(*                                                                         *)
(* The inductive invariant says of every tick, with a lease or without     *)
(* one, what it has finished of its page (PageDone) and that it is not     *)
(* behind the position it may store (Ahead); it counts the ticks that run  *)
(* without the lease against the overlaps that were spent, and the         *)
(* comments together with the ticks that have found none.                  *)
(***************************************************************************)
EXTENDS ConnectorSync, FiniteSetTheorems, FunctionTheorems, SequenceTheorems,
        WellFoundedInduction, TLAPS

-----------------------------------------------------------------------------
(* The invariant.                                                          *)

IssueSet == [stamp : Nat, label : BOOLEAN, open : BOOLEAN]
MarkSet  == [seen : Nat, adrift : Nat, left : Nat, closing : Nat]
SeenSet  == [issue : Issues, stamp : Nat, label : BOOLEAN, open : BOOLEAN]
TicketSet == [state : {"none", "open", "closed"}, acked : BOOLEAN, label : BOOLEAN,
              comments : Seq(Nat)]
TickSet == [pc : Steps, batch : Seq(SeenSet), n : Nat \ {0}, next : Cursor, prev : Nat,
            task : {"create", "replay", "update"}, todo : Seq(Issues), events : Nat,
            created : BOOLEAN]
Purposes == {"edit", "human", "fault", "overlap", "any"}

DataTypes ==
  /\ source \in [Issues -> IssueSet] /\ marks \in [Issues -> MarkSet]
  /\ progress \in [cursor : Cursor, events : Nat, owner : Workers \union {NoWorker},
                   live : BOOLEAN]
  /\ links \subseteq Issues /\ receipts \subseteq [issue : Issues, created : BOOLEAN]
  /\ observed \in [Issues -> SUBSET Nat] /\ \A i \in Issues : IsFiniteSet(observed[i])
  /\ tickets \in [Issues -> TicketSet] /\ closes \in Seq(Issues)
  /\ budget \in [Purposes -> Nat]
Types == DataTypes /\ tick \in [Workers -> TickSet]

InPage     == {"look", "label", "intake", "link", "comment", "observe"}
Delivering == {"close", "marker", "post", "put", "receipt"}
Beyond     == Delivering \union {"events", "complete"}

\* A tick is at an issue of its page, or at a close; it begins with the first issue.
AtWork(t) ==
  /\ t.pc = "fetch" => t.n = 1
  /\ t.pc \in InPage => t.n \in 1 .. Len(t.batch)
  /\ t.pc \in Delivering => t.todo # <<>>

\* No two issues have one time of update.
StampsDiffer == \A i, j \in Issues : source[i].stamp = source[j].stamp => i = j

\* The page shows issues as they were.
SeenEarlier(w) ==
  \A k \in 1 .. Len(tick[w].batch) :
    /\ 0 < tick[w].batch[k].stamp
    /\ tick[w].batch[k].stamp <= source[tick[w].batch[k].issue].stamp

\* What a tick has finished of its page is observed.
Finished(t, k) ==
  \/ k < t.n \/ t.pc \in Beyond
  \/ k = t.n /\ t.pc = "label" /\ t.task # "update"
PageDone(w) ==
  \A k \in 1 .. Len(tick[w].batch) :
    Finished(tick[w], k) => tick[w].batch[k].stamp \in observed[tick[w].batch[k].issue]

\* Who has the lease goes on from the stored cursor.
Ahead(w) ==
  progress.owner = w /\ tick[w].pc # "idle" => tick[w].next.since >= progress.cursor.since

\* A comment is the stored result of its version's key.
CommentsStored ==
  \A i \in Issues :
    /\ IsInjective(tickets[i].comments)
    /\ \A k \in 1 .. Len(tickets[i].comments) :
         /\ tickets[i].comments[k] <= source[i].stamp
         /\ \E r \in results : r.key = <<"update", i, tickets[i].comments[k]>>

\* Ticks that run without the lease, each for an overlap that was spent.
Strays == {w \in Workers : tick[w].pc # "idle" /\ ~Holds(w)}
StraysCounted ==
  IsFiniteSet(Strays) /\ Cardinality(Strays) + budget.overlap <= MaxOverlaps

\* Ticks that have found no marker on the issue and are going to write one.  They, the
\* markers a lookup finds and those under way are as many as the overlaps allow, but for
\* the ones that were ever left under way.
Posting(i) == {w \in Workers : tick[w].pc = "post" /\ Head(tick[w].todo) = i}
MarkRight(i) ==
  /\ IsFiniteSet(Posting(i)) /\ marks[i].adrift <= marks[i].left
  /\ marks[i].seen + marks[i].adrift + Cardinality(Posting(i)) + budget.overlap
       <= 1 + MaxOverlaps + marks[i].left
MarksCounted == \A i \in Issues : MarkRight(i)

TickRight(w) == AtWork(tick[w]) /\ SeenEarlier(w) /\ PageDone(w) /\ Ahead(w)

\* The inductive invariant.
IInv ==
  /\ Types /\ StampsDiffer /\ CommentsStored
  /\ \A w \in Workers : TickRight(w)
  /\ StraysCounted /\ MarksCounted

-----------------------------------------------------------------------------
(* Numbers, and lists in the order of their stamps.                        *)

\* A set of numbers that has a member has a least one, and a finite one a highest.
LEMMA LeastNumber ==
  ASSUME NEW S \in SUBSET Nat, S # {}
  PROVE  \E n \in S : \A m \in S : n <= m
<1>1. PICK n \in S : \A m \in S : <<m, n>> \notin OpToRel(<, Nat)
  BY NatLessThanWellFounded, WFMin
<1>2. \A m \in S : ~(m < n)
  BY <1>1 DEF OpToRel
<1> QED BY <1>2

LEMMA HighestNumber ==
  ASSUME NEW S \in SUBSET Nat, IsFiniteSet(S), S # {}
  PROVE  Max(S) \in S /\ \A m \in S : m <= Max(S)
<1> DEFINE Above(n) == {m \in S : n < m}
           Counts == {Cardinality(Above(n)) : n \in S}
<1>1. \A n \in S : IsFiniteSet(Above(n)) /\ Cardinality(Above(n)) \in Nat
  BY FS_Subset, FS_CardinalityType
<1>2. Counts \in SUBSET Nat /\ Counts # {}
  BY <1>1
<1>3. PICK n \in S : \A m \in S : Cardinality(Above(n)) <= Cardinality(Above(m))
  <2>1. PICK c \in Counts : \A d \in Counts : c <= d
    <3> HIDE DEF Counts
    <3> QED BY <1>2, LeastNumber
  <2> HIDE DEF Above
  <2> QED BY <2>1
<1>4. ASSUME NEW m \in S, n < m PROVE FALSE
  <2>1. Above(m) \subseteq Above(n)
    <3>1. \A k \in S : m < k => n < k
      BY <1>4
    <3> QED BY <3>1
  <2>2. m \in Above(n) /\ m \notin Above(m)
    BY <1>4
  <2> HIDE DEF Above
  <2>3. Cardinality(Above(m)) <= Cardinality(Above(n)) /\ Cardinality(Above(m)) # Cardinality(Above(n))
    BY <1>1, <2>1, <2>2, FS_Subset
  <2> QED BY <1>1, <1>3, <2>3
<1>5. \A m \in S : n >= m
  BY <1>4
<1>6. Max(S) \in S /\ \A m \in S : Max(S) >= m
  BY <1>5 DEF Max
<1> QED BY <1>6

LEMMA LesserOfTwo ==
  ASSUME NEW m \in Int, NEW n \in Int
  PROVE  Min({m, n}) \in Int /\ Min({m, n}) <= m /\ Min({m, n}) <= n
<1>1. \E x \in {m, n} : \A y \in {m, n} : x <= y
  BY m <= n \/ n <= m
<1>2. Min({m, n}) \in {m, n} /\ \A y \in {m, n} : Min({m, n}) <= y
  BY <1>1 DEF Min
<1> QED BY <1>2

\* A finite set whose members have different stamps can be listed in their order.
LEMMA SortedList ==
  ASSUME NEW S, IsFiniteSet(S), NEW stamp, \A i \in S : stamp[i] \in Nat,
         \A i, j \in S : stamp[i] = stamp[j] => i = j
  PROVE  \E list \in [1 .. Cardinality(S) -> S] :
           \A k, n \in DOMAIN list : k < n => stamp[list[k]] < stamp[list[n]]
<1> DEFINE N == Cardinality(S)
           UpTo(i) == {j \in S : stamp[j] <= stamp[i]}
           rank == [i \in S |-> Cardinality(UpTo(i))]
<1>1. N \in Nat
  BY FS_CardinalityType
<1>2. \A i \in S : /\ UpTo(i) \in SUBSET S /\ i \in UpTo(i) /\ IsFiniteSet(UpTo(i))
                   /\ Cardinality(UpTo(i)) \in Nat
  BY FS_Subset, FS_CardinalityType
<1>3. ASSUME NEW i \in S PROVE rank[i] \in 1 .. N
  <2>1. /\ UpTo(i) \in SUBSET S /\ UpTo(i) # {} /\ IsFiniteSet(UpTo(i))
        /\ Cardinality(UpTo(i)) \in Nat /\ rank[i] = Cardinality(UpTo(i))
    BY <1>2
  <2> HIDE DEF UpTo, rank
  <2> QED BY <1>1, <2>1, FS_Subset, FS_EmptySet
<1>4. ASSUME NEW i \in S, NEW j \in S, stamp[i] < stamp[j] PROVE rank[i] < rank[j]
  <2>1. UpTo(i) \subseteq UpTo(j)
    <3>1. \A k \in S : stamp[k] <= stamp[i] => stamp[k] <= stamp[j]
      BY <1>4
    <3> QED BY <3>1
  <2>2. j \notin UpTo(i) /\ j \in UpTo(j)
    BY <1>4
  <2>3. /\ IsFiniteSet(UpTo(j)) /\ Cardinality(UpTo(i)) \in Nat /\ Cardinality(UpTo(j)) \in Nat
        /\ rank[i] = Cardinality(UpTo(i)) /\ rank[j] = Cardinality(UpTo(j))
    BY <1>2
  <2> HIDE DEF UpTo, rank
  <2>4. Cardinality(UpTo(i)) <= Cardinality(UpTo(j)) /\ Cardinality(UpTo(i)) # Cardinality(UpTo(j))
    BY <2>1, <2>2, <2>3, FS_Subset
  <2> QED BY <2>3, <2>4
<1>5. DOMAIN rank = S
  OBVIOUS
<1>6. rank \in Injection(S, 1 .. N)
  <2>1. rank \in [S -> 1 .. N]
    <3>1. rank = [i \in S |-> rank[i]]
      OBVIOUS
    <3> HIDE DEF rank
    <3> QED BY <1>3, <3>1
  <2> HIDE DEF rank
  <2>2. ASSUME NEW i \in S, NEW j \in S, rank[i] = rank[j] PROVE i = j
    <3>1. rank[i] \in Nat /\ rank[j] \in Nat
      BY <1>1, <1>3
    <3>2. ~(stamp[i] < stamp[j]) /\ ~(stamp[j] < stamp[i])
      BY <1>4, <2>2, <3>1
    <3>3. stamp[i] = stamp[j]
      BY <3>2
    <3> QED BY <3>3
  <2> QED BY <1>5, <2>1, <2>2 DEF Injection, IsInjective
<1> HIDE DEF rank
<1>7. rank \in Surjection(S, 1 .. N)
  <2>1. IsFiniteSet(1 .. N) /\ Cardinality(1 .. N) = N
    BY <1>1, FS_Interval
  <2> QED BY <1>6, <2>1, FS_Injection
<1> DEFINE list == [k \in 1 .. N |-> CHOOSE i \in S : rank[i] = k]
<1>8. \A k \in 1 .. N : list[k] \in S /\ rank[list[k]] = k
  BY <1>7 DEF Surjection
<1>9. list \in [1 .. N -> S] /\ DOMAIN list = 1 .. N
  BY <1>8
<1> HIDE DEF list, N
<1>10. ASSUME NEW k \in 1 .. N, NEW n \in 1 .. N, k < n
       PROVE  stamp[list[k]] < stamp[list[n]]
  <2>1. list[k] \in S /\ list[n] \in S /\ rank[list[k]] = k /\ rank[list[n]] = n
    BY <1>8
  <2>2. stamp[list[k]] # stamp[list[n]]
    BY <1>1, <1>10, <2>1
  <2>3. ~(stamp[list[n]] < stamp[list[k]])
    BY <1>1, <1>4, <1>10, <2>1
  <2>4. stamp[list[k]] \in Nat /\ stamp[list[n]] \in Nat
    BY <2>1
  <2> QED BY <2>2, <2>3, <2>4
<1>11. \A k, n \in DOMAIN list : k < n => stamp[list[k]] < stamp[list[n]]
  BY <1>9, <1>10
<1> QED BY <1>9, <1>11 DEF N

\* A mapping of a sequence's positions is a sequence.
LEMMA MappedSequence ==
  ASSUME NEW S, NEW seq, NEW n \in Nat, seq \in [1 .. n -> S]
  PROVE  seq \in Seq(S) /\ Len(seq) = n
<1>1. seq \in Seq(S)
  BY SeqDef
<1>2. DOMAIN seq = 1 .. n /\ DOMAIN seq = 1 .. Len(seq) /\ Len(seq) \in Nat
  BY <1>1, LenProperties
<1> QED BY <1>1, <1>2

-----------------------------------------------------------------------------
(* The provider.                                                           *)

\* Every change of an issue is later than all that were before.
LEMMA NowIsLater ==
  ASSUME Types, NEW i \in Issues
  PROVE  Now \in Nat /\ \A j \in Issues : source[j].stamp < Now
<1> DEFINE stamps == {source[j].stamp : j \in Issues}
<1>1. \A j \in Issues : source[j].stamp \in Nat /\ source[j].stamp \in stamps
  BY DEF Types, DataTypes, IssueSet
<1>2. stamps \in SUBSET Nat /\ stamps # {} /\ Now = 1 + Max(stamps)
  BY <1>1 DEF Now
<1>3. IsFiniteSet(stamps)
  <2> DEFINE f == [j \in Issues |-> source[j].stamp]
  <2>1. f \in Surjection(Issues, stamps)
    BY DEF Surjection
  <2> HIDE DEF f, stamps
  <2> QED BY <2>1, FS_Surjection, ConnectorAssumption
<1> HIDE DEF stamps
<1>4. Max(stamps) \in Nat /\ \A n \in stamps : n <= Max(stamps)
  BY <1>2, <1>3, HighestNumber
<1> QED BY <1>1, <1>2, <1>4

\* The issues behind a time, in the order of their updates.
LEMMA NewerIssues ==
  ASSUME Types, StampsDiffer, NEW since \in Nat
  PROVE  /\ Newer(since) \in Seq(Issues)
         /\ \A k \in 1 .. Len(Newer(since)) :
              Newer(since)[k] \in Issues /\ source[Newer(since)[k]].stamp > since
<1> DEFINE late == {i \in Issues : source[i].stamp > since}
           stamp == [i \in Issues |-> source[i].stamp]
           Sorted(list) == \A k, n \in DOMAIN list :
                             k < n => source[list[k]].stamp < source[list[n]].stamp
<1>1. IsFiniteSet(late) /\ Cardinality(late) \in Nat
  BY FS_Subset, FS_CardinalityType, ConnectorAssumption
<1>2. /\ \A i \in late : i \in Issues /\ stamp[i] = source[i].stamp /\ stamp[i] \in Nat
      /\ \A i, j \in late : stamp[i] = stamp[j] => i = j
  BY DEF Types, DataTypes, IssueSet, StampsDiffer
<1>3. \A i \in late : source[i].stamp > since
  OBVIOUS
<1> HIDE DEF late, stamp
<1>4. PICK list \in [1 .. Cardinality(late) -> late] :
        \A k, n \in DOMAIN list : k < n => stamp[list[k]] < stamp[list[n]]
  BY <1>1, <1>2, SortedList
<1>5. Sorted(list)
  <2>1. \A k \in DOMAIN list : list[k] \in late
    BY <1>4
  <2> QED BY <1>2, <1>4, <2>1
<1>6. Newer(since) = CHOOSE l \in [1 .. Cardinality(late) -> late] : Sorted(l)
  BY DEF Newer, late
<1> HIDE DEF Sorted
<1>7. Newer(since) \in [1 .. Cardinality(late) -> late]
  BY <1>4, <1>5, <1>6
<1>8. Newer(since) \in Seq(late) /\ Len(Newer(since)) = Cardinality(late)
  BY <1>1, <1>7, MappedSequence
<1>9. Newer(since) \in Seq(Issues)
  BY <1>2, <1>8, SeqMonotonic
<1> QED BY <1>2, <1>3, <1>7, <1>8, <1>9

\* A page holds issues behind the cursor as they are.
LEMMA PageShowsIssues ==
  ASSUME Types, StampsDiffer, NEW cursor \in Cursor
  PROVE  /\ Page(cursor) \in Seq(SeenSet)
         /\ \A k \in 1 .. Len(Page(cursor)) :
              /\ Page(cursor)[k].issue \in Issues
              /\ Page(cursor)[k].stamp = source[Page(cursor)[k].issue].stamp
              /\ Page(cursor)[k].stamp > cursor.since
<1> DEFINE list == Newer(cursor.since)
           first == (cursor.page - 1) * PageSize + 1
           last == Min({cursor.page * PageSize, Len(list)})
           part == SubSeq(list, first, last)
<1>1. cursor.since \in Nat /\ cursor.page \in Nat \ {0}
  BY DEF Cursor
<1>2. /\ list \in Seq(Issues) /\ Len(list) \in Nat
      /\ \A k \in 1 .. Len(list) : list[k] \in Issues /\ source[list[k]].stamp > cursor.since
  BY <1>1, NewerIssues, LenProperties
<1>3. first \in Nat /\ first >= 1 /\ last \in Int /\ last <= Len(list)
  <2>1. cursor.page - 1 \in Nat /\ cursor.page \in Nat /\ PageSize \in Nat
    BY <1>1, ConnectorAssumption
  <2>2. (cursor.page - 1) * PageSize \in Nat /\ cursor.page * PageSize \in Nat
    BY <2>1
  <2>3. first \in Nat /\ first >= 1
    BY <2>2
  <2> DEFINE size == cursor.page * PageSize
             length == Len(list)
  <2>4. size \in Int /\ length \in Int /\ last = Min({size, length})
    BY <1>2, <2>2
  <2> HIDE DEF size, length, last
  <2>5. last \in Int /\ last <= length
    BY <2>4, LesserOfTwo
  <2> QED BY <2>3, <2>5 DEF length
<1> HIDE DEF list, first, last
<1>4. \A k \in first .. last : k \in 1 .. Len(list)
  BY <1>2, <1>3
<1>5. \A k \in first .. last : list[k] \in Issues
  BY <1>2, <1>4
<1>6. /\ part \in Seq(Issues) /\ Len(part) = IF first <= last THEN last - first + 1 ELSE 0
      /\ \A k \in 1 .. last - first + 1 : part[k] = list[first + k - 1]
  BY <1>3, <1>5, SubSeqProperties
<1>7. Len(part) \in Nat /\ DOMAIN part = 1 .. Len(part)
  BY <1>6, LenProperties
<1>8. ASSUME NEW k \in 1 .. Len(part)
      PROVE  part[k] \in Issues /\ source[part[k]].stamp > cursor.since
  <2>1. part[k] = list[first + k - 1] /\ first + k - 1 \in first .. last
    BY <1>3, <1>6
  <2> HIDE DEF part
  <2> QED BY <1>2, <1>4, <2>1
<1>9. Page(cursor) = [k \in DOMAIN part |-> Snapshot(part[k])]
  BY DEF Page, list, first, last
<1> HIDE DEF part
<1>10. \A i \in Issues : Snapshot(i) \in SeenSet /\ Snapshot(i).issue = i
                         /\ Snapshot(i).stamp = source[i].stamp
  BY DEF Types, DataTypes, IssueSet, SeenSet, Snapshot
<1>11. Page(cursor) \in [1 .. Len(part) -> SeenSet]
  BY <1>7, <1>8, <1>9, <1>10
<1>12. Page(cursor) \in Seq(SeenSet) /\ Len(Page(cursor)) = Len(part)
  BY <1>7, <1>11, MappedSequence
<1>13. \A k \in 1 .. Len(part) : Page(cursor)[k] = Snapshot(part[k])
  BY <1>7, <1>9
<1> QED BY <1>8, <1>10, <1>12, <1>13

\* The cursor that follows a page does not go back.
LEMMA CursorGoesOn ==
  ASSUME Types, StampsDiffer, NEW cursor \in Cursor
  PROVE  /\ NextCursor(cursor, Page(cursor)) \in Cursor
         /\ NextCursor(cursor, Page(cursor)).since >= cursor.since
<1> DEFINE page == Page(cursor)
<1>1. cursor.since \in Nat /\ cursor.page \in Nat \ {0}
  BY DEF Cursor
<1>2. /\ page \in Seq(SeenSet)
      /\ \A k \in 1 .. Len(page) : page[k].stamp > cursor.since /\ page[k] \in SeenSet
  BY PageShowsIssues, ElementOfSeq
<1> HIDE DEF page
<1>3. CASE Len(Newer(cursor.since)) > cursor.page * PageSize
  BY <1>1, <1>3 DEF NextCursor, Cursor
<1>4. CASE ~(Len(Newer(cursor.since)) > cursor.page * PageSize)
  <2> DEFINE since == IF page = <<>> THEN cursor.since ELSE page[Len(page)].stamp
  <2>1. NextCursor(cursor, page) = [since |-> since, page |-> 1]
    BY <1>4 DEF NextCursor
  <2>2. since \in Nat /\ since >= cursor.since
    <3>1. CASE page = <<>>
      BY <1>1, <3>1
    <3>2. CASE page # <<>>
      <4>1. Len(page) \in 1 .. Len(page)
        BY <1>2, <3>2, EmptySeq
      <4>2. page[Len(page)].stamp \in Nat /\ page[Len(page)].stamp > cursor.since
        BY <1>2, <4>1 DEF SeenSet
      <4> QED BY <1>1, <3>2, <4>2
    <3> QED BY <3>1, <3>2
  <2> HIDE DEF since
  <2> QED BY <2>1, <2>2 DEF Cursor, page
<1> QED BY <1>3, <1>4 DEF page

-----------------------------------------------------------------------------
(* Ticks.                                                                  *)

\* A tick that changes is well typed when its new value is.
LEMMA TickMoves ==
  ASSUME Types, NEW w \in Workers, NEW t \in TickSet, tick' = [tick EXCEPT ![w] = t]
  PROVE  /\ tick' \in [Workers -> TickSet] /\ tick'[w] = t
         /\ \A o \in Workers \ {w} : tick'[o] = tick[o]
BY DEF Types, DataTypes

\* Another step of the same work.
LEMMA TickGoes ==
  ASSUME Types, NEW w \in Workers, NEW pc \in Steps, Goto(w, pc)
  PROVE  /\ tick' \in [Workers -> TickSet]
         /\ tick'[w] = [tick[w] EXCEPT !.pc = pc] /\ tick'[w].pc = pc
         /\ tick'[w].batch = tick[w].batch /\ tick'[w].n = tick[w].n
         /\ tick'[w].next = tick[w].next /\ tick'[w].todo = tick[w].todo
         /\ tick'[w].task = tick[w].task
         /\ \A o \in Workers \ {w} : tick'[o] = tick[o]
<1> DEFINE t == [tick[w] EXCEPT !.pc = pc]
<1>1. tick[w] \in TickSet
  BY DEF Types, DataTypes
<1>2. /\ t \in TickSet /\ t.pc = pc /\ t.batch = tick[w].batch /\ t.n = tick[w].n
      /\ t.next = tick[w].next /\ t.todo = tick[w].todo /\ t.task = tick[w].task
  BY <1>1 DEF TickSet
<1>3. tick' = [tick EXCEPT ![w] = t]
  BY DEF Goto
<1> HIDE DEF t
<1>4. /\ tick' \in [Workers -> TickSet] /\ tick'[w] = t
      /\ \A o \in Workers \ {w} : tick'[o] = tick[o]
  BY <1>2, <1>3, TickMoves
<1> QED BY <1>2, <1>4 DEF t

\* The fields of a tick that its walk over the page leaves alone.
SameWork(t, u) ==
  u \in TickSet /\ u.batch = t.batch /\ u.next = t.next /\ u.todo = t.todo /\ u.task = t.task

\* The next issue of the page, or its end.
LEMMA PastIssue ==
  ASSUME NEW t \in TickSet, t.n \in 1 .. Len(t.batch)
  PROVE  /\ SameWork(t, Past(t)) /\ Past(t).n = t.n + 1
         /\ \/ Past(t).pc = "look" /\ t.n + 1 \in 1 .. Len(t.batch)
            \/ Past(t).pc = "events" /\ t.n = Len(t.batch)
<1>1. Len(t.batch) \in Nat /\ t.n \in Nat \ {0}
  BY LenProperties DEF TickSet
<1> DEFINE step == IF t.n < Len(t.batch) THEN "look" ELSE "events"
           n == t.n + 1
           u == [t EXCEPT !.n = n]
<1>2. step \in Steps
  BY DEF Steps
<1>3. Past(t) = [u EXCEPT !.pc = step]
  BY DEF Past
<1>4. \/ step = "look" /\ n \in 1 .. Len(t.batch)
      \/ step = "events" /\ t.n = Len(t.batch)
  BY <1>1
<1>5. n \in Nat \ {0} /\ n = t.n + 1
  BY <1>1
<1> HIDE DEF step, n
<1>6. u.n = n /\ SameWork(t, u)
  BY <1>5 DEF TickSet, SameWork
<1> HIDE DEF u
<1>7. SameWork(t, Past(t)) /\ Past(t).n = n /\ Past(t).pc = step
  BY <1>2, <1>3, <1>6 DEF TickSet, SameWork
<1> QED BY <1>4, <1>5, <1>7

\* After its label: the comment of an update, or the next issue.
LEMMA LabelledIssue ==
  ASSUME NEW t \in TickSet, t.n \in 1 .. Len(t.batch)
  PROVE  \/ Labelled(t) = Past(t) /\ t.task # "update"
         \/ /\ SameWork(t, Labelled(t)) /\ Labelled(t).n = t.n
            /\ Labelled(t).pc = "comment" /\ t.task = "update"
BY DEF Labelled, SameWork, TickSet, Steps

LEMMA LabellingIssue ==
  ASSUME NEW t \in TickSet
  PROVE  \/ Labelling(t) = Labelled(t)
         \/ /\ SameWork(t, Labelling(t)) /\ Labelling(t).n = t.n
            /\ Labelling(t).pc = "label"
BY DEF Labelling, SameWork, TickSet, Steps

\* The next close, or the end of the tick.
LEMMA ClosedTick ==
  ASSUME NEW t \in TickSet, t.todo # <<>>
  PROVE  /\ Closed(t) \in TickSet /\ Closed(t).batch = t.batch /\ Closed(t).next = t.next
         /\ Closed(t).n = t.n
         /\ Closed(t).pc = "complete" \/ (Closed(t).pc = "close" /\ Closed(t).todo # <<>>)
<1> DEFINE step == IF Len(t.todo) = 1 THEN "complete" ELSE "close"
           rest == Tail(t.todo)
<1>1. t.todo \in Seq(Issues) /\ t.events \in Nat
  BY DEF TickSet
<1>2. rest \in Seq(Issues) /\ (Len(t.todo) # 1 => rest # <<>>)
  <2>1. rest \in Seq(Issues) /\ Len(rest) = Len(t.todo) - 1 /\ Len(t.todo) \in Nat
    BY <1>1, HeadTailProperties, LenProperties
  <2>2. Len(t.todo) # 1 => Len(rest) # 0
    BY <2>1
  <2> QED BY <2>1, <2>2, EmptySeq
<1> HIDE DEF rest
<1>3. step \in Steps /\ (step = "complete" \/ (step = "close" /\ rest # <<>>))
  BY <1>2 DEF Steps
<1> DEFINE u == [t EXCEPT !.todo = rest]
           done == t.events + 1
           v == [u EXCEPT !.events = done]
<1>4. Closed(t) = [v EXCEPT !.pc = step]
  BY DEF Closed, rest
<1> HIDE DEF step
<1>5. u \in TickSet /\ u.batch = t.batch /\ u.next = t.next /\ u.n = t.n /\ u.todo = rest
  BY <1>2 DEF TickSet
<1>6. done \in Nat
  BY <1>1
<1> HIDE DEF u, done
<1>7. v \in TickSet /\ v.batch = t.batch /\ v.next = t.next /\ v.n = t.n /\ v.todo = rest
  BY <1>5, <1>6 DEF TickSet
<1> HIDE DEF v
<1>8. /\ Closed(t) \in TickSet /\ Closed(t).batch = t.batch /\ Closed(t).next = t.next
      /\ Closed(t).n = t.n /\ Closed(t).pc = step /\ Closed(t).todo = rest
  BY <1>3, <1>4, <1>7 DEF TickSet
<1> QED BY <1>3, <1>8

-----------------------------------------------------------------------------
(* What a step leaves as it was.                                           *)

\* Issues are only updated later, and observations are only added.
Later == \A i \in Issues : source'[i].stamp >= source[i].stamp
Grown == \A i \in Issues : observed[i] \subseteq observed'[i]

\* A tick is right as long as what it has newly finished is observed.
LEMMA TickKeeps ==
  ASSUME Types, Types', NEW w \in Workers, TickRight(w), Later, Grown,
         tick'[w].batch = tick[w].batch, tick'[w].next = tick[w].next, AtWork(tick'[w]),
         \A k \in 1 .. Len(tick[w].batch) :
           Finished(tick'[w], k) =>
             \/ Finished(tick[w], k)
             \/ tick[w].batch[k].stamp \in observed'[tick[w].batch[k].issue],
         tick'[w].pc # "idle" => tick[w].pc # "idle",
         progress'.owner = w => progress.owner = w /\ progress'.cursor = progress.cursor
  PROVE  TickRight(w)'
<1>1. \A k \in 1 .. Len(tick[w].batch) :
        tick[w].batch[k].issue \in Issues /\ tick[w].batch[k].stamp \in Nat
  <2>1. tick[w].batch \in Seq(SeenSet)
    BY DEF Types, TickSet
  <2>2. \A k \in 1 .. Len(tick[w].batch) : tick[w].batch[k] \in SeenSet
    BY <2>1, ElementOfSeq
  <2> QED BY <2>2 DEF SeenSet
<1>2. \A i \in Issues : source[i].stamp \in Nat /\ source'[i].stamp \in Nat
  BY DEF Types, DataTypes, IssueSet
<1>3. SeenEarlier(w)'
  <2>1. ASSUME NEW k \in 1 .. Len(tick[w].batch)
        PROVE  /\ 0 < tick[w].batch[k].stamp
               /\ tick[w].batch[k].stamp <= source'[tick[w].batch[k].issue].stamp
    <3>1. /\ 0 < tick[w].batch[k].stamp
          /\ tick[w].batch[k].stamp <= source[tick[w].batch[k].issue].stamp
      BY DEF TickRight, SeenEarlier
    <3> QED BY <1>1, <1>2, <3>1 DEF Later
  <2> QED BY <2>1 DEF SeenEarlier
<1>4. PageDone(w)'
  BY <1>1 DEF TickRight, PageDone, Grown
<1>5. Ahead(w)'
  BY DEF TickRight, Ahead
<1>6. AtWork(tick[w])'
  OBVIOUS
<1> QED BY <1>3, <1>4, <1>5, <1>6 DEF TickRight

\* Comments stay the stored results of their versions.
LEMMA CommentsKeep ==
  ASSUME DataTypes, DataTypes', CommentsStored, Later, results \subseteq results',
         \A i \in Issues : tickets'[i].comments = tickets[i].comments
  PROVE  CommentsStored'
<1>1. \A i \in Issues : source[i].stamp \in Nat /\ source'[i].stamp \in Nat
  BY DEF DataTypes, IssueSet
<1>2. \A i \in Issues : \A k \in 1 .. Len(tickets[i].comments) : tickets[i].comments[k] \in Nat
  BY ElementOfSeq DEF DataTypes, TicketSet
<1>3. ASSUME NEW i \in Issues, NEW k \in 1 .. Len(tickets[i].comments)
      PROVE  /\ tickets[i].comments[k] <= source'[i].stamp
             /\ \E r \in results' : r.key = <<"update", i, tickets[i].comments[k]>>
  <2>1. /\ tickets[i].comments[k] <= source[i].stamp
        /\ \E r \in results : r.key = <<"update", i, tickets[i].comments[k]>>
    BY DEF CommentsStored
  <2> QED BY <1>1, <1>2, <2>1 DEF Later
<1> QED BY <1>3 DEF CommentsStored

\* No tick begins to run without the lease.
LEMMA StraysKeep ==
  ASSUME StraysCounted, budget'.overlap = budget.overlap,
         \A o \in Workers : tick'[o].pc # "idle" /\ ~Holds(o)' => tick[o].pc # "idle" /\ ~Holds(o),
         Types
  PROVE  StraysCounted'
<1>1. Strays' \in SUBSET Strays
  BY DEF Strays
<1>2. /\ IsFiniteSet(Strays') /\ Cardinality(Strays') <= Cardinality(Strays)
      /\ Cardinality(Strays') \in Nat /\ Cardinality(Strays) \in Nat
  BY <1>1, FS_Subset, FS_CardinalityType DEF StraysCounted
<1>3. budget.overlap \in Nat /\ MaxOverlaps \in Nat
  BY ConnectorBoundAssumption DEF Types, DataTypes, Purposes
<1>4. Cardinality(Strays') + budget.overlap <= MaxOverlaps
  BY <1>2, <1>3 DEF StraysCounted
<1> QED BY <1>2, <1>4 DEF StraysCounted

\* What becomes of the markers while nobody comes to post: those under way arrive, are
\* left under way or cannot be found any more.
NoMore(m, n) ==
  /\ n.adrift <= n.left
  /\ n.seen + n.adrift + m.left <= m.seen + m.adrift + n.left
MarksHold ==
  marks' \in [Issues -> MarkSet] /\ \A i \in Issues : NoMore(marks[i], marks'[i])

LEMMA MarkKept ==
  ASSUME NEW i \in Issues, MarkRight(i), marks[i] \in MarkSet, marks'[i] \in MarkSet,
         NoMore(marks[i], marks'[i]), Posting(i)' \subseteq Posting(i), budget.overlap \in Nat,
         budget'.overlap <= budget.overlap, budget'.overlap \in Nat
  PROVE  MarkRight(i)'
<1>1. /\ IsFiniteSet(Posting(i)') /\ Cardinality(Posting(i)') <= Cardinality(Posting(i))
      /\ Cardinality(Posting(i)') \in Nat /\ Cardinality(Posting(i)) \in Nat
  BY FS_Subset, FS_CardinalityType DEF MarkRight
<1>2. PICK m \in MarkSet, n \in MarkSet : m = marks[i] /\ n = marks'[i]
  OBVIOUS
<1>3. /\ m.seen \in Nat /\ m.adrift \in Nat /\ m.left \in Nat
      /\ n.seen \in Nat /\ n.adrift \in Nat /\ n.left \in Nat /\ MaxOverlaps \in Nat
  BY ConnectorBoundAssumption DEF MarkSet
<1>4. m.seen + m.adrift + Cardinality(Posting(i)) + budget.overlap <= 1 + MaxOverlaps + m.left
  BY <1>2 DEF MarkRight
<1>5. n.adrift <= n.left /\ n.seen + n.adrift + m.left <= m.seen + m.adrift + n.left
  BY <1>2 DEF NoMore
<1>6. n.seen + n.adrift + Cardinality(Posting(i)') + budget'.overlap <= 1 + MaxOverlaps + n.left
  BY <1>1, <1>3, <1>4, <1>5
<1> QED BY <1>1, <1>2, <1>5, <1>6 DEF MarkRight

LEMMA MarksStay ==
  ASSUME Types, MarksCounted, MarksHold \/ marks' = marks
  PROVE  MarksHold
<1>1. CASE marks' = marks
  <2>1. marks \in [Issues -> MarkSet]
    BY DEF Types, DataTypes
  <2>2. ASSUME NEW i \in Issues PROVE NoMore(marks[i], marks[i])
    <3>1. /\ marks[i].seen \in Nat /\ marks[i].adrift \in Nat /\ marks[i].left \in Nat
          /\ marks[i].adrift <= marks[i].left
      BY <2>1 DEF MarkSet, MarksCounted, MarkRight
    <3> QED BY <3>1 DEF NoMore
  <2> QED BY <1>1, <2>1, <2>2 DEF MarksHold
<1> QED BY <1>1

\* Nor on any other.
LEMMA MarksKeep ==
  ASSUME Types, MarksCounted, MarksHold \/ marks' = marks,
         budget'.overlap <= budget.overlap, budget'.overlap \in Nat,
         \A o \in Workers : tick'[o].pc = "post" => tick'[o] = tick[o]
  PROVE  MarksCounted'
<1>1. MarksHold
  BY MarksStay
<1>2. ASSUME NEW i \in Issues PROVE Posting(i)' \subseteq Posting(i)
  BY DEF Posting
<1>3. budget.overlap \in Nat
  BY DEF Types, DataTypes, Purposes
<1>4. ASSUME NEW i \in Issues PROVE MarkRight(i)'
  <2>1. /\ marks[i] \in MarkSet /\ marks'[i] \in MarkSet /\ NoMore(marks[i], marks'[i])
        /\ MarkRight(i)
    BY <1>1 DEF Types, DataTypes, MarksHold, MarksCounted
  <2> QED BY <1>2, <1>3, <2>1, MarkKept
<1> QED BY <1>4 DEF MarksCounted

\* So a step of one worker is right when its tick and the counts are.
LEMMA StepOfOne ==
  ASSUME IInv, NEW w \in Workers, Types', StampsDiffer', CommentsStored', Later, Grown,
         \A o \in Workers \ {w} :
           /\ tick'[o] = tick[o]
           /\ progress'.owner = o => progress.owner = o /\ progress'.cursor = progress.cursor,
         TickRight(w)', StraysCounted', MarksCounted'
  PROVE  IInv'
<1>1. ASSUME NEW o \in Workers \ {w} PROVE TickRight(o)'
  <2>1. TickRight(o) /\ AtWork(tick[o]) /\ tick'[o] = tick[o]
    BY DEF IInv, TickRight
  <2> QED BY <2>1, TickKeeps DEF IInv
<1> QED BY <1>1 DEF IInv

\* The steps of a tick that leave the lease, the markers and its page alone and do
\* not come to a post.
LEMMA WalkKeeps ==
  ASSUME IInv, NEW w \in Workers, NEW t \in TickSet, tick' = [tick EXCEPT ![w] = t],
         DataTypes', StampsDiffer', CommentsStored', Later, Grown,
         progress' = progress, MarksHold \/ marks' = marks,
         budget'.overlap = budget.overlap, tick[w].pc # "idle", t.pc # "post", AtWork(t),
         t.batch = tick[w].batch, t.next = tick[w].next,
         \A k \in 1 .. Len(t.batch) :
           Finished(t, k) =>
             \/ Finished(tick[w], k)
             \/ t.batch[k].stamp \in observed'[t.batch[k].issue]
  PROVE  IInv'
<1>1. /\ tick'[w] = t /\ Types' /\ tick[w] \in TickSet
      /\ \A o \in Workers \ {w} : tick'[o] = tick[o]
  BY TickMoves DEF IInv, Types
<1>2. TickRight(w)'
  BY <1>1, TickKeeps DEF IInv
<1>3. \A o \in Workers : Holds(o)' <=> Holds(o)
  BY DEF Holds
<1>4. StraysCounted'
  BY <1>1, <1>3, StraysKeep DEF IInv
<1>5. budget'.overlap <= budget.overlap /\ budget'.overlap \in Nat
  BY DEF IInv, Types, DataTypes, Purposes
<1>6. MarksCounted'
  BY <1>1, <1>5, MarksKeep DEF IInv
<1> QED BY <1>1, <1>2, <1>4, <1>6, StepOfOne

\* A step to another place of the same kind, or to the end of a failing tick.
LEMMA GoingKeeps ==
  ASSUME IInv, NEW w \in Workers, NEW pc \in Steps, Goto(w, pc),
         DataTypes', StampsDiffer', CommentsStored', Later, Grown,
         progress' = progress, MarksHold \/ marks' = marks,
         budget'.overlap = budget.overlap, tick[w].pc # "idle", pc \notin {"post", "label", "fetch"},
         pc \in InPage => tick[w].pc \in InPage,
         pc \in Delivering => tick[w].pc \in Delivering,
         pc \in Beyond => tick[w].pc \in Beyond
  PROVE  IInv'
<1> DEFINE t == [tick[w] EXCEPT !.pc = pc]
<1>1. /\ t \in TickSet /\ t.pc = pc /\ t.batch = tick[w].batch /\ t.n = tick[w].n
      /\ t.next = tick[w].next /\ t.todo = tick[w].todo /\ t.task = tick[w].task
  BY DEF IInv, Types, TickSet
<1>2. tick' = [tick EXCEPT ![w] = t]
  BY DEF Goto
<1> HIDE DEF t
<1>3. AtWork(t)
  BY <1>1 DEF IInv, TickRight, AtWork
<1>4. \A k \in 1 .. Len(t.batch) : Finished(t, k) => Finished(tick[w], k)
  BY <1>1 DEF Finished
<1> QED BY <1>1, <1>2, <1>3, <1>4, WalkKeeps

\* What nobody touches stays right.
LEMMA DataKept ==
  ASSUME IInv, UNCHANGED <<source, marks, progress, storeVars, ticketVars, budget>>
  PROVE  /\ DataTypes' /\ StampsDiffer' /\ CommentsStored' /\ Later /\ Grown
         /\ budget'.overlap = budget.overlap
<1>1. UNCHANGED <<source, marks, progress, links, observed, receipts, tickets, results, closes,
                 budget>>
  BY DEF storeVars, ticketVars
<1>2. \A i \in Issues : source[i].stamp \in Nat
  BY DEF IInv, Types, DataTypes, IssueSet
<1>3. DataTypes' /\ StampsDiffer' /\ CommentsStored'
  BY <1>1 DEF IInv, Types, DataTypes, StampsDiffer, CommentsStored
<1> QED BY <1>1, <1>2, <1>3 DEF Later, Grown

-----------------------------------------------------------------------------
(* Bounds and the provider's issues.                                       *)

\* What is spent on something else leaves the overlaps.
LEMMA SpendTakes ==
  ASSUME Types, NEW what \in Purposes \ {"any"}, Spend(what)
  PROVE  /\ budget' \in [Purposes -> Nat]
         /\ what # "overlap" => budget'.overlap = budget.overlap
         /\ what = "overlap" => budget'.overlap = budget.overlap - 1 /\ budget.overlap > 0
<1>1. /\ budget \in [Purposes -> Nat] /\ budget[what] > 0 /\ budget["any"] > 0
      /\ budget' = [budget EXCEPT ![what] = @ - 1, !["any"] = @ - 1]
  BY DEF Types, DataTypes, Spend
<1>2. what \in Purposes /\ what # "any" /\ "any" \in Purposes /\ "overlap" \in Purposes
  BY DEF Purposes
<1>3. budget[what] \in Nat /\ budget["any"] \in Nat
  BY <1>1, <1>2
<1>4. budget[what] - 1 \in Nat /\ budget["any"] - 1 \in Nat
  BY <1>1, <1>3
<1>5. \A p \in Purposes : budget'[p] = IF p = "any" THEN budget["any"] - 1
                                     ELSE IF p = what THEN budget[what] - 1 ELSE budget[p]
  BY <1>1, <1>2
<1>6. budget' \in [Purposes -> Nat]
  <2>1. \A p \in Purposes : budget'[p] \in Nat
    BY <1>1, <1>4, <1>5
  <2>2. budget' = [p \in Purposes |-> budget'[p]]
    BY <1>1
  <2> QED BY <2>1, <2>2
<1>7. budget'["overlap"] = IF what = "overlap" THEN budget["overlap"] - 1 ELSE budget["overlap"]
  BY <1>2, <1>5
<1> QED BY <1>1, <1>6, <1>7

\* An issue that changes does so later than every other.
LEMMA IssueChanges ==
  ASSUME Types, StampsDiffer, NEW i \in Issues, NEW issue \in IssueSet, issue.stamp = Now,
         source' = [source EXCEPT ![i] = issue]
  PROVE  source' \in [Issues -> IssueSet] /\ StampsDiffer' /\ Later
<1>1. /\ source' \in [Issues -> IssueSet] /\ source'[i] = issue
      /\ \A j \in Issues \ {i} : source'[j] = source[j]
  BY DEF Types, DataTypes
<1>2. Now \in Nat /\ \A j \in Issues : source[j].stamp < Now /\ source[j].stamp \in Nat
  BY NowIsLater DEF Types, DataTypes, IssueSet
<1>3. source'[i].stamp = Now /\ \A j \in Issues \ {i} : source'[j].stamp = source[j].stamp
  BY <1>1
<1>4. Later
  BY <1>2, <1>3 DEF Later
<1>5. StampsDiffer'
  BY <1>2, <1>3 DEF StampsDiffer
<1> QED BY <1>1, <1>4, <1>5

LEMMA MarkerUpdates ==
  ASSUME Types, StampsDiffer, NEW i \in Issues, PostMarker(i)
  PROVE  /\ source' \in [Issues -> IssueSet] /\ StampsDiffer' /\ Later
         /\ marks' \in [Issues -> MarkSet] /\ marks'[i] = [marks[i] EXCEPT !.seen = @ + 1]
         /\ \A j \in Issues \ {i} : marks'[j] = marks[j]
<1> DEFINE issue == [source[i] EXCEPT !.stamp = Now]
<1>1. Now \in Nat /\ source[i] \in IssueSet
  BY NowIsLater DEF Types, DataTypes
<1>2. issue \in IssueSet /\ issue.stamp = Now
  BY <1>1 DEF IssueSet
<1>3. source' = [source EXCEPT ![i] = issue] /\ marks' = [marks EXCEPT ![i].seen = @ + 1]
  BY DEF PostMarker
<1> HIDE DEF issue
<1>4. source' \in [Issues -> IssueSet] /\ StampsDiffer' /\ Later
  BY <1>2, <1>3, IssueChanges
<1>5. marks \in [Issues -> MarkSet] /\ marks[i] \in MarkSet
  BY DEF Types, DataTypes
<1> DEFINE n == [marks[i] EXCEPT !.seen = @ + 1]
<1>6. n \in MarkSet /\ marks' = [marks EXCEPT ![i] = n]
  BY <1>3, <1>5 DEF MarkSet
<1>7. n = [marks[i] EXCEPT !.seen = @ + 1]
  OBVIOUS
<1> HIDE DEF n
<1> QED BY <1>4, <1>5, <1>6, <1>7

\* What is left under way, arrives there or can no longer be found is no marker more.
LEMMA MarksMove ==
  ASSUME Types, MarksCounted, NEW i \in Issues, NEW n \in MarkSet, NoMore(marks[i], n),
         marks' = [marks EXCEPT ![i] = n]
  PROVE  MarksHold
<1>1. marks \in [Issues -> MarkSet] /\ marks' \in [Issues -> MarkSet] /\ marks'[i] = n
  BY DEF Types, DataTypes
<1>2. ASSUME NEW j \in Issues \ {i} PROVE NoMore(marks[j], marks'[j])
  <2>1. /\ marks[j] \in MarkSet /\ marks[j].adrift <= marks[j].left /\ marks'[j] = marks[j]
    BY <1>1 DEF Types, DataTypes, MarksCounted, MarkRight
  <2> QED BY <2>1 DEF NoMore, MarkSet
<1> QED BY <1>1, <1>2 DEF MarksHold

LEMMA MarksOf ==
  ASSUME Types, MarksCounted, NEW i \in Issues
  PROVE  /\ marks[i] \in MarkSet /\ marks[i].adrift <= marks[i].left
         /\ marks[i].seen \in Nat /\ marks[i].adrift \in Nat
         /\ marks[i].left \in Nat /\ marks[i].closing \in Nat
BY DEF Types, DataTypes, MarkSet, MarksCounted, MarkRight

LEMMA NoteLeft ==
  ASSUME Types, MarksCounted, NEW i \in Issues, LeaveNote(i)
  PROVE  MarksHold /\ source' = source
<1> DEFINE s == [marks[i] EXCEPT !.adrift = @ + 1]
           n == [s EXCEPT !.left = @ + 1]
<1>1. marks' = [marks EXCEPT ![i] = n] /\ source' = source
  BY DEF LeaveNote, Types, DataTypes
<1>2. /\ s \in MarkSet /\ s.adrift = marks[i].adrift + 1 /\ s.left = marks[i].left
      /\ s.seen = marks[i].seen
  BY MarksOf DEF MarkSet
<1> HIDE DEF s
<1>3. /\ n \in MarkSet /\ n.adrift = marks[i].adrift + 1 /\ n.left = marks[i].left + 1
      /\ n.seen = marks[i].seen
  BY <1>2, MarksOf DEF MarkSet
<1> HIDE DEF n
<1>4. NoMore(marks[i], n)
  BY <1>3, MarksOf DEF NoMore
<1> QED BY <1>1, <1>3, <1>4, MarksMove

LEMMA CloseLeft ==
  ASSUME Types, MarksCounted, NEW i \in Issues, LeaveClose(i)
  PROVE  MarksHold /\ source' = source
<1> DEFINE n == [marks[i] EXCEPT !.closing = @ + 1]
<1>1. marks' = [marks EXCEPT ![i] = n] /\ source' = source
  BY DEF LeaveClose, Types, DataTypes
<1>2. /\ n \in MarkSet /\ n.adrift = marks[i].adrift /\ n.left = marks[i].left
      /\ n.seen = marks[i].seen
  BY MarksOf DEF MarkSet
<1> HIDE DEF n
<1>3. NoMore(marks[i], n)
  BY <1>2, MarksOf DEF NoMore
<1> QED BY <1>1, <1>2, <1>3, MarksMove

LEMMA CloseUpdates ==
  ASSUME Types, StampsDiffer, NEW i \in Issues, PutClosed(i) \/ source' = source
  PROVE  source' \in [Issues -> IssueSet] /\ StampsDiffer' /\ Later
<1> DEFINE closed == [source[i] EXCEPT !.open = FALSE]
           issue == [closed EXCEPT !.stamp = Now]
<1>1. Now \in Nat /\ source[i] \in IssueSet
  BY NowIsLater DEF Types, DataTypes
<1>2. closed \in IssueSet
  BY <1>1 DEF IssueSet
<1>3. source' = source \/ source' = [source EXCEPT ![i] = issue]
  BY DEF PutClosed
<1> HIDE DEF closed
<1>4. issue \in IssueSet /\ issue.stamp = Now
  BY <1>1, <1>2 DEF IssueSet
<1> HIDE DEF issue
<1>5. CASE source' = source
  <2>1. source \in [Issues -> IssueSet] /\ \A j \in Issues : source[j].stamp \in Nat
    BY DEF Types, DataTypes, IssueSet
  <2> QED BY <1>5, <2>1 DEF StampsDiffer, Later
<1>6. CASE source' = [source EXCEPT ![i] = issue]
  BY <1>4, <1>6, IssueChanges
<1> QED BY <1>3, <1>5, <1>6

\* A command stores its result and changes one ticket, or nothing.
LEMMA ExecuteStores ==
  ASSUME Types, NEW i \in Issues, NEW key, NEW body, NEW fresh, NEW ticket \in TicketSet,
         Execute(key, body, fresh, i, ticket)
  PROVE  /\ tickets' \in [Issues -> TicketSet] /\ results \subseteq results'
         /\ \A j \in Issues \ {i} : tickets'[j] = tickets[j]
         /\ \/ tickets'[i] = tickets[i]
            \/ /\ tickets'[i] = ticket /\ fresh = "ok" /\ Stored(key) = {}
               /\ \E r \in results' : r.key = key
<1>1. tickets \in [Issues -> TicketSet]
  BY DEF Types, DataTypes
<1> DEFINE result == [key |-> key, body |-> body, outcome |-> fresh]
<1>2. CASE Stored(key) = {}
  <2>1. results' = results \union {result} /\ result.key = key
    BY <1>2 DEF Execute
  <2>2. tickets' = IF fresh = "ok" THEN [tickets EXCEPT ![i] = ticket] ELSE tickets
    BY <1>2 DEF Execute
  <2> HIDE DEF result
  <2> QED BY <1>1, <1>2, <2>1, <2>2
<1>3. CASE Stored(key) # {}
  <2>1. UNCHANGED <<results, tickets>>
    BY <1>3 DEF Execute
  <2> QED BY <1>1, <2>1
<1> QED BY <1>2, <1>3

-----------------------------------------------------------------------------
(* The page.                                                               *)

\* The issue that a tick is at.
LEMMA IssueAtHand ==
  ASSUME IInv, NEW w \in Workers, tick[w].pc \in InPage
  PROVE  /\ tick[w] \in TickSet /\ tick[w].n \in 1 .. Len(tick[w].batch)
         /\ Issue(w) = tick[w].batch[tick[w].n].issue /\ Issue(w) \in Issues
         /\ tick[w].batch[tick[w].n].stamp \in Nat \ {0}
         /\ tick[w].batch[tick[w].n].stamp <= source[Issue(w)].stamp
<1>1. /\ tick[w] \in TickSet /\ tick[w].batch \in Seq(SeenSet)
      /\ tick[w].n \in 1 .. Len(tick[w].batch)
  BY DEF IInv, Types, TickSet, TickRight, AtWork
<1>2. tick[w].batch[tick[w].n] \in SeenSet
  BY <1>1, ElementOfSeq
<1>3. tick[w].batch[tick[w].n].stamp # 0
  BY <1>1 DEF IInv, TickRight, SeenEarlier
<1> QED BY <1>1, <1>2, <1>3 DEF IInv, TickRight, SeenEarlier, SeenSet, Issue

\* A tick goes on behind an issue whose version is observed, or to its comment.
LEMMA LabelledKeeps ==
  ASSUME IInv, NEW w \in Workers, tick[w].pc \in InPage, NEW t \in TickSet,
         t.batch = tick[w].batch, t.next = tick[w].next, t.n = tick[w].n,
         t.task # "update" => t.batch[t.n].stamp \in observed'[t.batch[t.n].issue]
  PROVE  /\ SameWork(t, Labelled(t)) /\ AtWork(Labelled(t)) /\ Labelled(t).pc # "post"
         /\ \A k \in 1 .. Len(t.batch) :
              Finished(Labelled(t), k) =>
                Finished(tick[w], k) \/ t.batch[k].stamp \in observed'[t.batch[k].issue]
<1>1. t.n \in 1 .. Len(t.batch) /\ Len(t.batch) \in Nat
  BY IssueAtHand, LenProperties DEF TickSet
<1>2. CASE Labelled(t) = Past(t) /\ t.task # "update"
  <2> DEFINE u == Past(t)
  <2>1. /\ SameWork(t, u) /\ u.n = t.n + 1
        /\ \/ u.pc = "look" /\ t.n + 1 \in 1 .. Len(t.batch)
           \/ u.pc = "events" /\ t.n = Len(t.batch)
    BY <1>1, PastIssue
  <2> HIDE DEF u
  <2>2. AtWork(u) /\ u.pc # "post"
    BY <2>1 DEF AtWork, SameWork, InPage, Delivering
  <2>3. ASSUME NEW k \in 1 .. Len(t.batch), Finished(u, k)
        PROVE  Finished(tick[w], k) \/ t.batch[k].stamp \in observed'[t.batch[k].issue]
    <3>1. k < t.n \/ k = t.n
      BY <1>1, <2>1, <2>3 DEF Finished, Beyond, Delivering
    <3> QED BY <1>2, <3>1 DEF Finished
  <2> QED BY <1>2, <2>1, <2>2, <2>3 DEF u
<1>3. CASE /\ SameWork(t, Labelled(t)) /\ Labelled(t).n = t.n
           /\ Labelled(t).pc = "comment" /\ t.task = "update"
  <2> DEFINE u == Labelled(t)
  <2>1. SameWork(t, u) /\ u.n = t.n /\ u.pc = "comment"
    BY <1>3
  <2> HIDE DEF u
  <2>2. AtWork(u) /\ u.pc # "post"
    BY <1>1, <2>1 DEF AtWork, SameWork, InPage, Delivering
  <2>3. \A k \in 1 .. Len(t.batch) : Finished(u, k) => Finished(tick[w], k)
    BY <1>1, <2>1 DEF Finished, Beyond, Delivering
  <2> QED BY <2>1, <2>2, <2>3 DEF u
<1> QED BY <1>1, <1>2, <1>3, LabelledIssue

LEMMA LabellingKeeps ==
  ASSUME IInv, NEW w \in Workers, tick[w].pc \in InPage, NEW t \in TickSet,
         t.batch = tick[w].batch, t.next = tick[w].next, t.n = tick[w].n,
         t.task # "update" => t.batch[t.n].stamp \in observed'[t.batch[t.n].issue]
  PROVE  /\ SameWork(t, Labelling(t)) /\ AtWork(Labelling(t)) /\ Labelling(t).pc # "post"
         /\ \A k \in 1 .. Len(t.batch) :
              Finished(Labelling(t), k) =>
                Finished(tick[w], k) \/ t.batch[k].stamp \in observed'[t.batch[k].issue]
<1>1. CASE Labelling(t) = Labelled(t)
  BY <1>1, LabelledKeeps
<1>2. CASE /\ SameWork(t, Labelling(t)) /\ Labelling(t).n = t.n /\ Labelling(t).pc = "label"
  <2> DEFINE u == Labelling(t)
  <2>1. SameWork(t, u) /\ u.n = t.n /\ u.pc = "label"
    BY <1>2
  <2> HIDE DEF u
  <2>2. AtWork(u) /\ u.pc # "post"
    BY <2>1, IssueAtHand DEF AtWork, SameWork, InPage, Delivering
  <2>3. \A k \in 1 .. Len(t.batch) :
          Finished(u, k) =>
            Finished(tick[w], k) \/ t.batch[k].stamp \in observed'[t.batch[k].issue]
    BY <2>1 DEF Finished, Beyond, Delivering, SameWork
  <2> QED BY <2>1, <2>2, <2>3 DEF u
<1> QED BY <1>1, <1>2, LabellingIssue

LEMMA LookKeeps ==
  ASSUME IInv, NEW w \in Workers, Look(w)
  PROVE  IInv'
<1> DEFINE i == Issue(w)
           latest == Max(observed[i] \union {0})
           stamp == tick[w].batch[tick[w].n].stamp
           task == IF i \notin links THEN "create" ELSE IF latest = stamp THEN "replay"
                   ELSE "update"
           s == [tick[w] EXCEPT !.prev = latest]
           t == [s EXCEPT !.task = task]
           u == [t EXCEPT !.pc = "intake"]
<1>1. /\ tick[w].pc = "look" /\ UNCHANGED <<source, marks, progress, storeVars, ticketVars, budget>>
      /\ tick' = [tick EXCEPT ![w] = IF t.task = "create" THEN u ELSE Labelling(t)]
  BY DEF Look, At
<1>2. /\ DataTypes' /\ StampsDiffer' /\ CommentsStored' /\ Later /\ Grown
      /\ budget'.overlap = budget.overlap /\ observed' = observed
  BY <1>1, DataKept DEF storeVars
<1>3. /\ tick[w] \in TickSet /\ tick[w].n \in 1 .. Len(tick[w].batch) /\ i \in Issues
      /\ i = tick[w].batch[tick[w].n].issue /\ stamp \in Nat \ {0}
  BY <1>1, IssueAtHand DEF InPage
<1>4. latest \in Nat /\ latest \in observed[i] \union {0}
  <2> DEFINE seen == observed[i]
  <2>1. seen \in SUBSET Nat /\ IsFiniteSet(seen) /\ latest = Max(seen \union {0})
    BY <1>3 DEF IInv, Types, DataTypes
  <2> HIDE DEF seen, latest
  <2>2. IsFiniteSet(seen \union {0}) /\ seen \union {0} \in SUBSET Nat /\ seen \union {0} # {}
    BY <2>1, FS_AddElement
  <2> QED BY <2>1, <2>2, HighestNumber DEF seen
<1>5. task \in {"create", "replay", "update"} /\ (task = "replay" => latest = stamp)
  OBVIOUS
<1> HIDE DEF latest, task
<1>6. /\ s \in TickSet /\ s.pc = "look" /\ s.batch = tick[w].batch /\ s.next = tick[w].next
      /\ s.n = tick[w].n
  BY <1>1, <1>3, <1>4 DEF TickSet
<1> HIDE DEF s
<1>7. /\ t \in TickSet /\ t.pc = "look" /\ t.batch = tick[w].batch /\ t.next = tick[w].next
      /\ t.n = tick[w].n /\ t.task = task
  BY <1>5, <1>6 DEF TickSet
<1> HIDE DEF t
<1>8. CASE task = "create"
  <2>1. /\ u \in TickSet /\ u.pc = "intake" /\ u.batch = tick[w].batch /\ u.next = tick[w].next
        /\ u.n = tick[w].n /\ tick' = [tick EXCEPT ![w] = u]
    BY <1>1, <1>7, <1>8 DEF TickSet, Steps
  <2> HIDE DEF u
  <2>2. AtWork(u)
    BY <1>3, <2>1 DEF AtWork, InPage, Delivering
  <2>3. \A k \in 1 .. Len(u.batch) : Finished(u, k) => Finished(tick[w], k)
    BY <2>1 DEF Finished, Beyond, Delivering
  <2> QED BY <1>1, <1>2, <2>1, <2>2, <2>3, WalkKeeps
<1>9. CASE task # "create"
  <2>1. tick' = [tick EXCEPT ![w] = Labelling(t)]
    BY <1>1, <1>7, <1>9
  <2>2. t.task # "update" => t.batch[t.n].stamp \in observed'[t.batch[t.n].issue]
    BY <1>2, <1>3, <1>4, <1>5, <1>7, <1>9
  <2>3. /\ SameWork(t, Labelling(t)) /\ AtWork(Labelling(t)) /\ Labelling(t).pc # "post"
        /\ \A k \in 1 .. Len(t.batch) :
              Finished(Labelling(t), k) =>
                Finished(tick[w], k) \/ t.batch[k].stamp \in observed'[t.batch[k].issue]
    BY <1>1, <1>7, <2>2, LabellingKeeps DEF InPage
  <2> QED BY <1>1, <1>2, <1>7, <2>1, <2>3, WalkKeeps DEF SameWork
<1> QED BY <1>8, <1>9

\* Tickets change, but not their comments.
LEMMA TicketsChange ==
  ASSUME IInv, UNCHANGED <<source, marks, progress, storeVars>>,
         tickets' \in [Issues -> TicketSet], results \subseteq results', closes' \in Seq(Issues),
         \A j \in Issues : tickets'[j].comments = tickets[j].comments,
         budget' \in [Purposes -> Nat]
  PROVE  /\ DataTypes' /\ StampsDiffer' /\ CommentsStored' /\ Later /\ Grown
         /\ progress' = progress /\ marks' = marks /\ observed' = observed
<1>1. UNCHANGED <<source, marks, progress, links, observed, receipts>>
  BY DEF storeVars
<1>2. \A j \in Issues : source[j].stamp \in Nat
  BY DEF IInv, Types, DataTypes, IssueSet
<1>3. DataTypes'
  BY <1>1 DEF IInv, Types, DataTypes
<1>4. StampsDiffer'
  BY <1>1 DEF IInv, StampsDiffer
<1>5. CommentsStored'
  BY <1>1 DEF IInv, CommentsStored
<1> QED BY <1>1, <1>2, <1>3, <1>4, <1>5 DEF Later, Grown

\* A command changes a ticket and not its comments.
LEMMA CommandKeeps ==
  ASSUME IInv, UNCHANGED <<source, marks, progress, storeVars, closes, budget>>,
         tickets' \in [Issues -> TicketSet], results \subseteq results',
         \A j \in Issues : tickets'[j].comments = tickets[j].comments
  PROVE  /\ DataTypes' /\ StampsDiffer' /\ CommentsStored' /\ Later /\ Grown
         /\ budget'.overlap = budget.overlap /\ progress' = progress /\ marks' = marks
         /\ observed' = observed
<1>1. /\ closes' \in Seq(Issues) /\ budget' \in [Purposes -> Nat]
      /\ budget'.overlap = budget.overlap
  BY DEF IInv, Types, DataTypes
<1> QED BY <1>1, TicketsChange

LEMMA SubmitKeeps ==
  ASSUME IInv, NEW w \in Workers, Submit(w)
  PROVE  IInv'
<1> DEFINE i == Issue(w)
           ticket == [tickets[i] EXCEPT !.state = "open"]
<1>1. /\ tick[w].pc = "intake" /\ UNCHANGED <<source, marks, progress, storeVars, closes, budget>>
      /\ Goto(w, "link") \/ Goto(w, "failing")
  BY DEF Submit, At
<1>2. PICK key, body : Execute(key, body, "ok", i, ticket)
  BY DEF Submit
<1>3. i \in Issues
  BY <1>1, IssueAtHand DEF InPage
<1>4. ticket \in TicketSet /\ ticket.comments = tickets[i].comments
  BY <1>3 DEF IInv, Types, DataTypes, TicketSet
<1> HIDE DEF ticket
<1>5. /\ tickets' \in [Issues -> TicketSet] /\ results \subseteq results'
      /\ \A j \in Issues : tickets'[j].comments = tickets[j].comments
  BY <1>2, <1>3, <1>4, ExecuteStores DEF IInv
<1>6. /\ DataTypes' /\ StampsDiffer' /\ CommentsStored' /\ Later /\ Grown
      /\ budget'.overlap = budget.overlap /\ progress' = progress /\ marks' = marks
  BY <1>1, <1>5, CommandKeeps
<1> QED BY <1>1, <1>6, GoingKeeps DEF InPage, Delivering, Beyond, Steps

\* An observation is added, and nothing is lost.
LEMMA VersionObserved ==
  ASSUME IInv, NEW i \in Issues, NEW stamp \in Nat,
         observed' = [observed EXCEPT ![i] = @ \union {stamp}]
  PROVE  /\ observed' \in [Issues -> SUBSET Nat] /\ \A j \in Issues : IsFiniteSet(observed'[j])
         /\ stamp \in observed'[i] /\ Grown
<1>1. observed \in [Issues -> SUBSET Nat] /\ \A j \in Issues : IsFiniteSet(observed[j])
  BY DEF IInv, Types, DataTypes
<1>2. IsFiniteSet(observed[i] \union {stamp})
  BY <1>1, FS_AddElement
<1> QED BY <1>1, <1>2 DEF Grown

\* The integration's own rows change.
LEMMA StoreChanges ==
  ASSUME IInv, UNCHANGED <<source, marks, progress, ticketVars, budget>>,
         links' \subseteq Issues, receipts' \subseteq [issue : Issues, created : BOOLEAN],
         observed' \in [Issues -> SUBSET Nat], \A i \in Issues : IsFiniteSet(observed'[i])
  PROVE  /\ DataTypes' /\ StampsDiffer' /\ CommentsStored' /\ Later
         /\ budget'.overlap = budget.overlap /\ progress' = progress /\ marks' = marks
<1>1. UNCHANGED <<source, marks, progress, tickets, results, closes, budget>>
  BY DEF ticketVars
<1>2. \A i \in Issues : source[i].stamp \in Nat
  BY DEF IInv, Types, DataTypes, IssueSet
<1>3. DataTypes'
  BY <1>1 DEF IInv, Types, DataTypes
<1>4. StampsDiffer' /\ CommentsStored'
  BY <1>1 DEF IInv, StampsDiffer, CommentsStored
<1> QED BY <1>1, <1>2, <1>3, <1>4 DEF Later

LEMMA RecordIssueKeeps ==
  ASSUME IInv, NEW w \in Workers, RecordIssue(w)
  PROVE  IInv'
<1> DEFINE i == Issue(w)
           t == tick[w]
           stamp == t.batch[t.n].stamp
<1>1. /\ t.pc = "link" /\ UNCHANGED <<source, marks, progress, receipts, ticketVars, budget>>
      /\ tick' = [tick EXCEPT ![w] = Labelling(t)] /\ links' = links \union {i}
      /\ observed' = [observed EXCEPT ![i] = @ \union {stamp}]
  BY DEF RecordIssue, At
<1>2. /\ t \in TickSet /\ t.n \in 1 .. Len(t.batch) /\ i \in Issues
      /\ i = t.batch[t.n].issue /\ stamp \in Nat
  BY <1>1, IssueAtHand DEF InPage
<1> HIDE DEF t
<1>3. /\ observed' \in [Issues -> SUBSET Nat] /\ \A j \in Issues : IsFiniteSet(observed'[j])
      /\ stamp \in observed'[i] /\ Grown
  BY <1>1, <1>2, VersionObserved
<1>4. /\ DataTypes' /\ StampsDiffer' /\ CommentsStored' /\ Later
      /\ budget'.overlap = budget.overlap /\ progress' = progress /\ marks' = marks
  <2>1. links' \subseteq Issues /\ receipts' \subseteq [issue : Issues, created : BOOLEAN]
    BY <1>1, <1>2 DEF IInv, Types, DataTypes
  <2> QED BY <1>1, <1>3, <2>1, StoreChanges
<1>5. /\ SameWork(t, Labelling(t)) /\ AtWork(Labelling(t)) /\ Labelling(t).pc # "post"
      /\ \A k \in 1 .. Len(t.batch) :
            Finished(Labelling(t), k) =>
              Finished(tick[w], k) \/ t.batch[k].stamp \in observed'[t.batch[k].issue]
  BY <1>1, <1>2, <1>3, LabellingKeeps DEF InPage, t
<1> QED BY <1>1, <1>3, <1>4, <1>5, WalkKeeps DEF SameWork, t


LEMMA ApplyLabelKeeps ==
  ASSUME IInv, NEW w \in Workers, ApplyLabel(w)
  PROVE  IInv'
<1> DEFINE i == Issue(w)
           t == tick[w]
           labelled == [tickets[i] EXCEPT !.label = TRUE]
           ticket == [labelled EXCEPT !.acked = FALSE]
<1>1. /\ t.pc = "label" /\ UNCHANGED <<source, marks, progress, storeVars, closes, budget>>
      /\ tick' = [tick EXCEPT ![w] = Labelled(t)] \/ Goto(w, "failing")
  BY DEF ApplyLabel, At
<1>2. PICK key, body, fresh : Execute(key, body, fresh, i, ticket)
  BY DEF ApplyLabel
<1>3. /\ t \in TickSet /\ t.n \in 1 .. Len(t.batch) /\ i \in Issues /\ i = t.batch[t.n].issue
  BY <1>1, IssueAtHand DEF InPage
<1>4. labelled \in TicketSet /\ labelled.comments = tickets[i].comments
  BY <1>3 DEF IInv, Types, DataTypes, TicketSet
<1> HIDE DEF labelled
<1>5. ticket \in TicketSet /\ ticket.comments = tickets[i].comments
  BY <1>4 DEF TicketSet
<1> HIDE DEF ticket
<1>6. /\ tickets' \in [Issues -> TicketSet] /\ results \subseteq results'
      /\ \A j \in Issues : tickets'[j].comments = tickets[j].comments
  BY <1>2, <1>3, <1>5, ExecuteStores DEF IInv
<1>7. /\ DataTypes' /\ StampsDiffer' /\ CommentsStored' /\ Later /\ Grown
      /\ budget'.overlap = budget.overlap /\ progress' = progress /\ marks' = marks
      /\ observed' = observed
  BY <1>1, <1>6, CommandKeeps
<1>8. CASE Goto(w, "failing")
  BY <1>1, <1>7, <1>8, GoingKeeps DEF InPage, Delivering, Beyond, Steps
<1>9. CASE tick' = [tick EXCEPT ![w] = Labelled(t)]
  <2>1. t.task # "update" => t.batch[t.n].stamp \in observed'[t.batch[t.n].issue]
    BY <1>1, <1>3, <1>7 DEF IInv, TickRight, PageDone, Finished
  <2>2. /\ SameWork(t, Labelled(t)) /\ AtWork(Labelled(t)) /\ Labelled(t).pc # "post"
        /\ \A k \in 1 .. Len(t.batch) :
              Finished(Labelled(t), k) =>
                Finished(t, k) \/ t.batch[k].stamp \in observed'[t.batch[k].issue]
    BY <1>1, <1>3, <2>1, LabelledKeeps DEF InPage
  <2> QED BY <1>1, <1>7, <1>9, <2>2, WalkKeeps DEF SameWork
<1> QED BY <1>1, <1>8, <1>9

\* A comment is new when its version's key is.
LEMMA AddCommentKeeps ==
  ASSUME IInv, NEW w \in Workers, AddComment(w)
  PROVE  IInv'
<1> DEFINE i == Issue(w)
           t == tick[w]
           stamp == t.batch[t.n].stamp
           key == <<"update", i, stamp>>
           comments == Append(tickets[i].comments, stamp)
           commented == [tickets[i] EXCEPT !.comments = comments]
           ticket == [commented EXCEPT !.acked = FALSE]
<1>1. /\ t.pc = "comment" /\ UNCHANGED <<source, marks, progress, storeVars, closes, budget>>
      /\ Goto(w, "observe") \/ Goto(w, "failing")
  BY DEF AddComment, At
<1>2. PICK body, fresh : Execute(key, body, fresh, i, ticket)
  BY DEF AddComment
<1>3. i \in Issues /\ stamp \in Nat /\ stamp <= source[i].stamp
  BY <1>1, IssueAtHand DEF InPage
<1>4. tickets[i] \in TicketSet /\ tickets[i].comments \in Seq(Nat)
  BY <1>3 DEF IInv, Types, DataTypes, TicketSet
<1> HIDE DEF i, stamp
<1>5. /\ comments \in Seq(Nat) /\ Len(comments) = Len(tickets[i].comments) + 1
      /\ \A k \in 1 .. Len(tickets[i].comments) : comments[k] = tickets[i].comments[k]
      /\ comments[Len(tickets[i].comments) + 1] = stamp
  BY <1>3, <1>4, AppendProperties
<1> HIDE DEF comments
<1>6. commented \in TicketSet /\ commented.comments = comments
  BY <1>4, <1>5 DEF TicketSet
<1> HIDE DEF commented
<1>7. ticket \in TicketSet /\ ticket.comments = comments
  BY <1>6 DEF TicketSet
<1> HIDE DEF ticket, key
<1>8. /\ tickets' \in [Issues -> TicketSet] /\ results \subseteq results'
      /\ \A j \in Issues \ {i} : tickets'[j] = tickets[j]
      /\ \/ tickets'[i] = tickets[i]
         \/ /\ tickets'[i] = ticket /\ Stored(key) = {} /\ \E r \in results' : r.key = key
  BY <1>2, <1>3, <1>7, ExecuteStores DEF IInv
<1>9. CASE tickets'[i] = tickets[i]
  <2>1. \A j \in Issues : tickets'[j].comments = tickets[j].comments
    BY <1>8, <1>9
  <2>2. /\ DataTypes' /\ StampsDiffer' /\ CommentsStored' /\ Later /\ Grown
        /\ budget'.overlap = budget.overlap /\ progress' = progress /\ marks' = marks
    BY <1>1, <1>8, <2>1, CommandKeeps
  <2> QED BY <1>1, <2>2, GoingKeeps DEF InPage, Delivering, Beyond, Steps
<1>10. CASE tickets'[i] = ticket /\ Stored(key) = {} /\ \E r \in results' : r.key = key
  <2>1. UNCHANGED <<source, marks, progress, links, observed, receipts, closes, budget>>
    BY <1>1 DEF storeVars
  <2>2. DataTypes'
    BY <1>8, <2>1 DEF IInv, Types, DataTypes
  <2>3. StampsDiffer'
    BY <2>1 DEF IInv, StampsDiffer
  <2>4. \A j \in Issues : source[j].stamp \in Nat
    BY DEF IInv, Types, DataTypes, IssueSet
  <2>5. Later /\ Grown
    BY <2>1, <2>4 DEF Later, Grown
  <2>6. ASSUME NEW j \in Issues \ {i}
        PROVE  /\ IsInjective(tickets'[j].comments)
               /\ \A k \in 1 .. Len(tickets'[j].comments) :
                    /\ tickets'[j].comments[k] <= source'[j].stamp
                    /\ \E r \in results' : r.key = <<"update", j, tickets'[j].comments[k]>>
    BY <1>8, <2>1 DEF IInv, CommentsStored
  <2> DEFINE old == tickets[i].comments
  <2>7. /\ old \in Seq(Nat) /\ Len(old) \in Nat /\ DOMAIN old = 1 .. Len(old)
        /\ DOMAIN comments = 1 .. Len(old) + 1
    BY <1>4, <1>5, LenProperties
  <2>8. /\ IsInjective(old)
        /\ \A k \in 1 .. Len(old) : /\ old[k] <= source[i].stamp
                                    /\ \E r \in results : r.key = <<"update", i, old[k]>>
    BY <1>3 DEF IInv, CommentsStored
  <2>9. \A k \in 1 .. Len(old) : old[k] # stamp
    BY <1>10, <2>8 DEF Stored, key
  <2>10. tickets'[i].comments = comments
    BY <1>7, <1>10
  <2>11. \A k \in 1 .. Len(old) : comments[k] = old[k]
    BY <1>5
  <2>12. comments[Len(old) + 1] = stamp /\ Len(comments) = Len(old) + 1
    BY <1>5
  <2> HIDE DEF old
  <2>13. IsInjective(comments)
    <3> SUFFICES ASSUME NEW m \in DOMAIN comments, NEW n \in DOMAIN comments,
                        comments[m] = comments[n]
                 PROVE  m = n
      BY DEF IsInjective
    <3>1. (m \in 1 .. Len(old) \/ m = Len(old) + 1) /\ (n \in 1 .. Len(old) \/ n = Len(old) + 1)
      BY <2>7
    <3>2. \A a, b \in 1 .. Len(old) : old[a] = old[b] => a = b
      BY <2>7, <2>8 DEF IsInjective
    <3> QED BY <2>9, <2>11, <2>12, <3>1, <3>2
  <2>14. ASSUME NEW k \in 1 .. Len(comments)
         PROVE  /\ comments[k] <= source[i].stamp
                /\ \E r \in results' : r.key = <<"update", i, comments[k]>>
    <3>1. CASE k \in 1 .. Len(old)
      BY <1>8, <2>8, <2>11, <3>1
    <3>2. CASE k = Len(old) + 1
      BY <1>3, <1>10, <2>12, <3>2 DEF key
    <3> QED BY <2>7, <2>12, <3>1, <3>2
  <2>15. CommentsStored'
    BY <2>1, <2>6, <2>10, <2>13, <2>14 DEF CommentsStored
  <2> QED BY <1>1, <2>1, <2>2, <2>3, <2>5, <2>15, GoingKeeps DEF InPage, Delivering, Beyond, Steps
<1> QED BY <1>8, <1>9, <1>10

LEMMA ObserveKeeps ==
  ASSUME IInv, NEW w \in Workers, Observe(w)
  PROVE  IInv'
<1> DEFINE i == Issue(w)
           t == tick[w]
           stamp == t.batch[t.n].stamp
           u == Past(t)
<1>1. /\ t.pc = "observe" /\ UNCHANGED <<source, marks, progress, links, receipts, ticketVars, budget>>
      /\ tick' = [tick EXCEPT ![w] = u]
      /\ observed' = [observed EXCEPT ![i] = @ \union {stamp}]
  BY DEF Observe, At
<1>2. /\ t \in TickSet /\ t.n \in 1 .. Len(t.batch) /\ i \in Issues
      /\ i = t.batch[t.n].issue /\ stamp \in Nat
  BY <1>1, IssueAtHand DEF InPage
<1>3. /\ observed' \in [Issues -> SUBSET Nat] /\ \A j \in Issues : IsFiniteSet(observed'[j])
      /\ stamp \in observed'[i] /\ Grown
  BY <1>1, <1>2, VersionObserved
<1>4. /\ DataTypes' /\ StampsDiffer' /\ CommentsStored' /\ Later
      /\ budget'.overlap = budget.overlap /\ progress' = progress /\ marks' = marks
  <2>1. links' \subseteq Issues /\ receipts' \subseteq [issue : Issues, created : BOOLEAN]
    BY <1>1 DEF IInv, Types, DataTypes
  <2> QED BY <1>1, <1>3, <2>1, StoreChanges
<1>5. /\ SameWork(t, u) /\ u.n = t.n + 1
      /\ \/ u.pc = "look" /\ t.n + 1 \in 1 .. Len(t.batch)
         \/ u.pc = "events" /\ t.n = Len(t.batch)
  BY <1>2, PastIssue
<1>6. Len(t.batch) \in Nat
  BY <1>2, LenProperties DEF TickSet
<1> HIDE DEF u
<1>7. AtWork(u) /\ u.pc # "post"
  BY <1>5 DEF AtWork, SameWork, InPage, Delivering
<1>8. ASSUME NEW k \in 1 .. Len(t.batch), Finished(u, k)
      PROVE  Finished(t, k) \/ t.batch[k].stamp \in observed'[t.batch[k].issue]
  <2>1. k < t.n \/ k = t.n
    BY <1>2, <1>5, <1>6, <1>8 DEF Finished, Beyond, Delivering
  <2> QED BY <1>2, <1>3, <2>1 DEF Finished
<1> QED BY <1>1, <1>3, <1>4, <1>5, <1>7, <1>8, WalkKeeps DEF SameWork

-----------------------------------------------------------------------------
(* The closes.                                                             *)

LEMMA ReadEventsKeeps ==
  ASSUME IInv, NEW w \in Workers, ReadEvents(w)
  PROVE  IInv'
<1> DEFINE t == tick[w]
           first == t.events + 1
           todo == SubSeq(closes, first, Len(closes))
           pc == IF todo = <<>> THEN "complete" ELSE "close"
           s == [t EXCEPT !.todo = todo]
           u == [s EXCEPT !.pc = pc]
<1>1. /\ t.pc = "events" /\ UNCHANGED <<source, marks, progress, storeVars, ticketVars, budget>>
      /\ tick' = [tick EXCEPT ![w] = u]
  BY DEF ReadEvents, At
<1>2. /\ DataTypes' /\ StampsDiffer' /\ CommentsStored' /\ Later /\ Grown
      /\ budget'.overlap = budget.overlap
  BY <1>1, DataKept
<1>3. t \in TickSet /\ t.events \in Nat /\ closes \in Seq(Issues) /\ Len(closes) \in Nat
  BY LenProperties DEF IInv, Types, DataTypes, TickSet
<1>4. todo \in Seq(Issues)
  <2>1. \A k \in 1 .. Len(closes) : closes[k] \in Issues
    BY <1>3, ElementOfSeq
  <2>2. \A k \in first .. Len(closes) : closes[k] \in Issues
    BY <1>3, <2>1
  <2> QED BY <1>3, <2>2, SubSeqProperties
<1>5. pc \in Steps /\ (pc = "complete" \/ (pc = "close" /\ todo # <<>>))
  BY DEF Steps
<1> HIDE DEF todo, pc
<1>6. s \in TickSet /\ s.batch = t.batch /\ s.next = t.next /\ s.n = t.n /\ s.todo = todo
  BY <1>3, <1>4 DEF TickSet
<1> HIDE DEF s
<1>7. /\ u \in TickSet /\ u.batch = t.batch /\ u.next = t.next /\ u.n = t.n /\ u.todo = todo
      /\ u.pc = pc
  BY <1>5, <1>6 DEF TickSet
<1> HIDE DEF u
<1>8. AtWork(u) /\ u.pc # "post"
  BY <1>5, <1>7 DEF AtWork, InPage, Delivering
<1>9. \A k \in 1 .. Len(u.batch) : Finished(u, k) => Finished(t, k)
  BY <1>1 DEF Finished, Beyond
<1> QED BY <1>1, <1>2, <1>7, <1>8, <1>9, WalkKeeps

\* A close is done, whatever was found about it.
LEMMA CloseDone ==
  ASSUME IInv, NEW w \in Workers, tick[w].pc \in Delivering,
         tick' = [tick EXCEPT ![w] = Closed(@)],
         DataTypes', StampsDiffer', CommentsStored', Later, Grown,
         progress' = progress, marks' = marks, budget'.overlap = budget.overlap
  PROVE  IInv'
<1> DEFINE t == tick[w]
           u == Closed(t)
<1>1. t \in TickSet /\ t.todo # <<>> /\ t.pc \in Delivering /\ t.pc # "idle"
  BY DEF IInv, Types, TickRight, AtWork, Delivering
<1>2. /\ u \in TickSet /\ u.batch = t.batch /\ u.next = t.next /\ u.n = t.n
      /\ u.pc = "complete" \/ (u.pc = "close" /\ u.todo # <<>>)
  BY <1>1, ClosedTick
<1>3. tick' = [tick EXCEPT ![w] = u]
  OBVIOUS
<1> HIDE DEF u
<1>4. AtWork(u) /\ u.pc # "post"
  BY <1>2 DEF AtWork, InPage, Delivering
<1>5. \A k \in 1 .. Len(u.batch) : Finished(u, k) => Finished(t, k)
  BY <1>1 DEF Finished, Beyond
<1> QED BY <1>1, <1>2, <1>3, <1>4, <1>5, WalkKeeps

LEMMA CheckDeliveryKeeps ==
  ASSUME IInv, NEW w \in Workers, CheckDelivery(w)
  PROVE  IInv'
<1> DEFINE t == tick[w]
           u == Closed(t)
<1>1. /\ t.pc = "close" /\ UNCHANGED <<source, marks, progress, storeVars, ticketVars, budget>>
      /\ tick' = [tick EXCEPT ![w] = u] \/ Goto(w, "marker")
  BY DEF CheckDelivery, At
<1>2. /\ DataTypes' /\ StampsDiffer' /\ CommentsStored' /\ Later /\ Grown
      /\ budget'.overlap = budget.overlap
  BY <1>1, DataKept
<1>3. CASE Goto(w, "marker")
  BY <1>1, <1>2, <1>3, GoingKeeps DEF InPage, Delivering, Beyond, Steps
<1>4. CASE tick' = [tick EXCEPT ![w] = u]
  BY <1>1, <1>2, <1>4, CloseDone DEF Delivering
<1> QED BY <1>1, <1>3, <1>4

\* The issue whose close a tick delivers.
LEMMA CloseAtHand ==
  ASSUME IInv, NEW w \in Workers, tick[w].pc \in Delivering
  PROVE  tick[w] \in TickSet /\ Head(tick[w].todo) \in Issues
<1>1. tick[w] \in TickSet /\ tick[w].todo \in Seq(Issues) /\ tick[w].todo # <<>>
  BY DEF IInv, Types, TickSet, TickRight, AtWork
<1> QED BY <1>1, HeadTailProperties

\* Ticks that run: those without the lease, and whose lease it is.
LEMMA RunningTicks ==
  ASSUME Types, StraysCounted, NEW S, S \subseteq {o \in Workers : tick[o].pc # "idle"}
  PROVE  /\ IsFiniteSet(S) /\ Cardinality(S) \in Nat
         /\ Cardinality(S) + budget.overlap <= 1 + MaxOverlaps
<1> DEFINE all == Strays \union {progress.owner}
<1>1. S \subseteq all
  BY DEF Strays, Holds
<1>2. /\ IsFiniteSet(all) /\ Cardinality(all) \in Nat /\ Cardinality(Strays) \in Nat
      /\ Cardinality(all) <= Cardinality(Strays) + 1
  <2>1. IsFiniteSet(Strays) /\ Cardinality(Strays) \in Nat
    BY FS_CardinalityType DEF StraysCounted
  <2>2. /\ IsFiniteSet(all)
        /\ Cardinality(all) = Cardinality(Strays) \/ Cardinality(all) = Cardinality(Strays) + 1
    BY <2>1, FS_AddElement
  <2> QED BY <2>1, <2>2
<1> HIDE DEF all
<1>3. IsFiniteSet(S) /\ Cardinality(S) \in Nat /\ Cardinality(S) <= Cardinality(all)
  BY <1>1, <1>2, FS_Subset, FS_CardinalityType
<1>4. budget.overlap \in Nat /\ MaxOverlaps \in Nat
  BY ConnectorBoundAssumption DEF Types, DataTypes, Purposes
<1>5. Cardinality(Strays) + budget.overlap <= MaxOverlaps
  BY DEF StraysCounted
<1> QED BY <1>2, <1>3, <1>4, <1>5

\* A tick comes to post when there is no marker yet.
LEMMA ReadMarkerKeeps ==
  ASSUME IInv, NEW w \in Workers, ReadMarker(w)
  PROVE  IInv'
<1> DEFINE t == tick[w]
           i == Head(t.todo)
           pc == IF marks[i].seen > 0 THEN "put" ELSE "post"
           s == [t EXCEPT !.created = FALSE]
           u == [s EXCEPT !.pc = pc]
<1>1. /\ t.pc = "marker" /\ UNCHANGED <<source, marks, progress, storeVars, ticketVars, budget>>
      /\ tick' = [tick EXCEPT ![w] = u]
  BY DEF ReadMarker, At
<1>2. /\ DataTypes' /\ StampsDiffer' /\ CommentsStored' /\ Later /\ Grown
      /\ budget'.overlap = budget.overlap
  BY <1>1, DataKept
<1>3. t \in TickSet /\ i \in Issues
  BY <1>1, CloseAtHand DEF Delivering
<1>4. pc \in Steps /\ (pc = "put" \/ (pc = "post" /\ ~(marks[i].seen > 0)))
  BY DEF Steps
<1> HIDE DEF pc
<1>5. s \in TickSet /\ s.batch = t.batch /\ s.next = t.next /\ s.n = t.n /\ s.todo = t.todo
  BY <1>3 DEF TickSet
<1> HIDE DEF s
<1>6. /\ u \in TickSet /\ u.batch = t.batch /\ u.next = t.next /\ u.n = t.n /\ u.todo = t.todo
      /\ u.pc = pc
  BY <1>4, <1>5 DEF TickSet
<1> HIDE DEF u
<1>7. AtWork(u)
  <2>1. t.todo # <<>>
    BY <1>1 DEF IInv, TickRight, AtWork, Delivering
  <2> QED BY <1>4, <1>6, <2>1 DEF AtWork, InPage, Delivering
<1>8. \A k \in 1 .. Len(u.batch) : Finished(u, k) => Finished(t, k)
  BY <1>1 DEF Finished, Beyond, Delivering
<1>9. CASE pc = "put"
  BY <1>1, <1>2, <1>6, <1>7, <1>8, <1>9, WalkKeeps
<1>10. CASE pc = "post" /\ ~(marks[i].seen > 0)
  <2>1. /\ tick'[w] = u /\ Types' /\ \A o \in Workers \ {w} : tick'[o] = tick[o]
    BY <1>1, <1>2, <1>6, TickMoves DEF IInv, Types
  <2>2. progress' = progress /\ marks' = marks /\ marks[i] \in MarkSet /\ marks[i].seen = 0
    BY <1>1, <1>3, <1>10 DEF IInv, Types, DataTypes, MarkSet
  <2>3. TickRight(w)'
    BY <1>1, <1>2, <1>6, <1>7, <1>8, <2>1, <2>2, TickKeeps DEF IInv
  <2>4. \A o \in Workers : Holds(o)' <=> Holds(o)
    BY <2>2 DEF Holds
  <2>5. StraysCounted'
    BY <1>1, <1>2, <2>1, <2>4, StraysKeep DEF IInv
  <2>6. budget'.overlap <= budget.overlap /\ budget'.overlap \in Nat
    BY <1>2 DEF IInv, Types, DataTypes, Purposes
  <2>7. ASSUME NEW j \in Issues PROVE MarkRight(j)'
    <3>1. CASE j = i
      <4>1. Posting(j)' \subseteq {o \in Workers : tick[o].pc # "idle"}
        BY <1>1, <2>1 DEF Posting
      <4>2. /\ IsFiniteSet(Posting(j)') /\ Cardinality(Posting(j)') \in Nat
            /\ Cardinality(Posting(j)') + budget.overlap <= 1 + MaxOverlaps
        BY <4>1, RunningTicks DEF IInv
      <4>3. PICK m \in MarkSet : m = marks'[j] /\ m.seen = 0 /\ m.adrift <= m.left
        BY <2>2, <3>1 DEF IInv, MarksCounted, MarkRight
      <4>4. /\ m.adrift \in Nat /\ m.left \in Nat /\ MaxOverlaps \in Nat
            /\ budget'.overlap = budget.overlap /\ budget.overlap \in Nat
        BY <1>2, <2>6, ConnectorBoundAssumption DEF MarkSet
      <4> HIDE DEF i
      <4>5. m.seen + m.adrift + Cardinality(Posting(j)') + budget'.overlap
              <= 1 + MaxOverlaps + m.left
        BY <4>2, <4>3, <4>4
      <4> QED BY <4>2, <4>3, <4>5 DEF MarkRight
    <3>2. CASE j # i
      <4>1. Posting(j)' \subseteq Posting(j)
        BY <1>6, <2>1, <3>2 DEF Posting
      <4>2. MarksHold /\ marks[j] \in MarkSet /\ MarkRight(j) /\ budget.overlap \in Nat
        BY <2>2, MarksStay DEF IInv, Types, DataTypes, Purposes, MarksCounted
      <4>3. marks'[j] \in MarkSet /\ NoMore(marks[j], marks'[j])
        BY <4>2 DEF MarksHold
      <4> QED BY <2>6, <4>1, <4>2, <4>3, MarkKept
    <3> QED BY <3>1, <3>2
  <2>8. MarksCounted'
    BY <2>7 DEF MarksCounted
  <2> QED BY <1>2, <2>1, <2>2, <2>3, <2>5, <2>8, StepOfOne
<1> QED BY <1>4, <1>9, <1>10

\* The provider's issues change, later than before.
LEMMA ProviderChanges ==
  ASSUME IInv, source' \in [Issues -> IssueSet], Later, marks' \in [Issues -> MarkSet],
         UNCHANGED <<progress, storeVars, ticketVars>>, budget' \in [Purposes -> Nat]
  PROVE  DataTypes' /\ CommentsStored' /\ Grown /\ progress' = progress
<1>1. UNCHANGED <<progress, links, observed, receipts, tickets, results, closes>>
  BY DEF storeVars, ticketVars
<1>2. DataTypes'
  BY <1>1 DEF IInv, Types, DataTypes
<1>3. CommentsStored'
  BY <1>1, <1>2, CommentsKeep DEF IInv, Types
<1> QED BY <1>1, <1>2, <1>3 DEF Grown

\* A marker is written: one more comment, one less that is going to write one.
LEMMA MarkerWritten ==
  ASSUME IInv, NEW w \in Workers, NEW t \in TickSet, tick[w].pc = "post",
         tick' = [tick EXCEPT ![w] = t], t.pc \in {"put", "failing"},
         t.batch = tick[w].batch, t.next = tick[w].next, t.todo = tick[w].todo,
         PostMarker(Head(tick[w].todo)), UNCHANGED <<progress, storeVars, ticketVars>>,
         budget' \in [Purposes -> Nat], budget'.overlap = budget.overlap
  PROVE  IInv'
<1> DEFINE i == Head(tick[w].todo)
<1>1. i \in Issues /\ tick[w].todo # <<>>
  BY CloseAtHand DEF Delivering, IInv, TickRight, AtWork
<1>2. /\ source' \in [Issues -> IssueSet] /\ StampsDiffer' /\ Later
      /\ marks' \in [Issues -> MarkSet] /\ marks'[i] = [marks[i] EXCEPT !.seen = @ + 1]
      /\ \A j \in Issues \ {i} : marks'[j] = marks[j]
  BY <1>1, MarkerUpdates DEF IInv
<1>3. DataTypes' /\ CommentsStored' /\ Grown /\ progress' = progress
  BY <1>2, ProviderChanges
<1>4. /\ tick'[w] = t /\ Types' /\ \A o \in Workers \ {w} : tick'[o] = tick[o]
  BY <1>3, TickMoves DEF IInv, Types
<1>5. AtWork(t)
  BY <1>1 DEF AtWork, InPage, Delivering
<1>6. \A k \in 1 .. Len(tick[w].batch) : Finished(tick[w], k)
  BY DEF Finished, Beyond, Delivering
<1>7. TickRight(w)'
  BY <1>2, <1>3, <1>4, <1>5, <1>6, TickKeeps DEF IInv
<1>8. StraysCounted'
  <2>1. \A o \in Workers : Holds(o)' <=> Holds(o)
    BY <1>3 DEF Holds
  <2> QED BY <1>4, <2>1, StraysKeep DEF IInv
<1>9. budget'.overlap <= budget.overlap /\ budget.overlap \in Nat /\ MaxOverlaps \in Nat
  BY ConnectorBoundAssumption DEF IInv, Types, DataTypes, Purposes
<1>10. ASSUME NEW j \in Issues PROVE MarkRight(j)'
  <2>1. Posting(j)' \subseteq Posting(j)
    BY <1>4 DEF Posting
  <2>2. CASE j = i
    <3>1. w \in Posting(j) /\ Posting(j)' \subseteq Posting(j) \ {w}
      BY <1>4, <2>1, <2>2 DEF Posting
    <3>2. PICK m \in MarkSet : m = marks[j]
      BY <1>1, <2>2 DEF IInv, Types, DataTypes
    <3>3. /\ IsFiniteSet(Posting(j)) /\ Cardinality(Posting(j)) \in Nat
          /\ m.seen \in Nat /\ m.adrift \in Nat /\ m.left \in Nat /\ m.adrift <= m.left
          /\ m.seen + m.adrift + Cardinality(Posting(j)) + budget.overlap
               <= 1 + MaxOverlaps + m.left
      BY <1>1, <3>2, FS_CardinalityType DEF IInv, MarkSet, MarksCounted, MarkRight
    <3>4. /\ IsFiniteSet(Posting(j) \ {w})
          /\ Cardinality(Posting(j) \ {w}) = Cardinality(Posting(j)) - 1
      BY <3>1, <3>3, FS_RemoveElement
    <3>5. /\ IsFiniteSet(Posting(j)') /\ Cardinality(Posting(j)') \in Nat
          /\ Cardinality(Posting(j)') <= Cardinality(Posting(j)) - 1
      BY <3>1, <3>4, FS_Subset, FS_CardinalityType
    <3>6. PICK n \in MarkSet : /\ n = marks'[j] /\ n.seen = m.seen + 1
                              /\ n.adrift = m.adrift /\ n.left = m.left
      <4>1. marks'[j] = [m EXCEPT !.seen = @ + 1] /\ marks'[j] \in MarkSet
        BY <1>1, <1>2, <2>2, <3>2
      <4> QED BY <4>1 DEF MarkSet
    <3>7. n.seen + n.adrift + Cardinality(Posting(j)') + budget'.overlap
            <= 1 + MaxOverlaps + n.left
      <4> HIDE DEF i
      <4> QED BY <1>9, <3>3, <3>5, <3>6
    <3> QED BY <3>3, <3>5, <3>6, <3>7 DEF MarkRight
  <2>3. CASE j # i
    <3>1. /\ marks[j] \in MarkSet /\ MarkRight(j) /\ marks[j].adrift <= marks[j].left
          /\ marks'[j] = marks[j]
      BY <1>2, <2>3 DEF IInv, Types, DataTypes, MarksCounted, MarkRight
    <3>2. NoMore(marks[j], marks'[j])
      BY <3>1 DEF NoMore, MarkSet
    <3>3. budget'.overlap \in Nat
      BY DEF Purposes
    <3> QED BY <1>9, <2>1, <3>1, <3>2, <3>3, MarkKept
  <2> QED BY <2>2, <2>3
<1>11. MarksCounted'
  BY <1>10 DEF MarksCounted
<1> QED BY <1>2, <1>3, <1>4, <1>7, <1>8, <1>11, StepOfOne

LEMMA PostKeeps ==
  ASSUME IInv, NEW w \in Workers, Post(w)
  PROVE  IInv'
<1> DEFINE s == [tick[w] EXCEPT !.created = TRUE]
           u == [s EXCEPT !.pc = "put"]
<1>1. /\ tick[w].pc = "post" /\ tick' = [tick EXCEPT ![w] = u]
      /\ PostMarker(Head(tick[w].todo)) /\ UNCHANGED <<progress, storeVars, ticketVars, budget>>
  BY DEF Post, At
<1>2. tick[w] \in TickSet
  BY DEF IInv, Types
<1>3. /\ s \in TickSet /\ s.batch = tick[w].batch /\ s.next = tick[w].next
      /\ s.todo = tick[w].todo
  BY <1>2 DEF TickSet
<1> HIDE DEF s
<1>4. /\ u \in TickSet /\ u.pc = "put" /\ u.batch = tick[w].batch /\ u.next = tick[w].next
      /\ u.todo = tick[w].todo
  BY <1>3 DEF TickSet, Steps
<1>5. budget' = budget /\ budget \in [Purposes -> Nat]
  BY <1>1 DEF IInv, Types, DataTypes
<1> HIDE DEF u
<1> QED BY <1>1, <1>4, <1>5, MarkerWritten

LEMMA PostUnansweredKeeps ==
  ASSUME IInv, NEW w \in Workers, PostUnanswered(w)
  PROVE  IInv'
<1> DEFINE i == Head(tick[w].todo)
<1>1. /\ tick[w].pc = "post" /\ UNCHANGED <<progress, storeVars, ticketVars>>
      /\ UNCHANGED <<source, marks>> \/ PostMarker(i) \/ LeaveNote(i)
      /\ \/ Goto(w, "failing")
         \/ marks'[i].seen = 0 /\ Goto(w, "marker")
         \/ tick' = [tick EXCEPT ![w].created = TRUE, ![w].pc = "put"]
  BY DEF PostUnanswered, At
<1>2. budget' \in [Purposes -> Nat] /\ budget'.overlap = budget.overlap
  BY SpendTakes DEF PostUnanswered, IInv, Purposes
<1>3. i \in Issues /\ tick[w] \in TickSet
  BY <1>1, CloseAtHand DEF Delivering, IInv, Types
<1>4. PICK t \in TickSet :
        /\ tick' = [tick EXCEPT ![w] = t] /\ t.pc \in {"marker", "put", "failing"}
        /\ t.pc = "marker" => marks'[i].seen = 0
        /\ t.batch = tick[w].batch /\ t.next = tick[w].next /\ t.todo = tick[w].todo
  <2> DEFINE Going(pc) == [tick[w] EXCEPT !.pc = pc]
             s == [tick[w] EXCEPT !.created = TRUE]
             u == [s EXCEPT !.pc = "put"]
  <2>1. CASE Goto(w, "failing")
    <3>1. /\ Going("failing") \in TickSet /\ Going("failing").pc = "failing"
          /\ Going("failing").batch = tick[w].batch /\ Going("failing").next = tick[w].next
          /\ Going("failing").todo = tick[w].todo
      BY <1>3 DEF TickSet, Steps
    <3>2. tick' = [tick EXCEPT ![w] = Going("failing")]
      BY <2>1 DEF Goto
    <3> HIDE DEF Going
    <3> QED BY <3>1, <3>2
  <2>2. CASE marks'[i].seen = 0 /\ Goto(w, "marker")
    <3>1. /\ Going("marker") \in TickSet /\ Going("marker").pc = "marker"
          /\ Going("marker").batch = tick[w].batch /\ Going("marker").next = tick[w].next
          /\ Going("marker").todo = tick[w].todo
      BY <1>3 DEF TickSet, Steps
    <3>2. tick' = [tick EXCEPT ![w] = Going("marker")]
      BY <2>2 DEF Goto
    <3> HIDE DEF Going, i
    <3> QED BY <2>2, <3>1, <3>2
  <2>3. CASE tick' = [tick EXCEPT ![w].created = TRUE, ![w].pc = "put"]
    <3>1. tick' = [tick EXCEPT ![w] = u]
      BY <2>3
    <3>2. /\ s \in TickSet /\ s.batch = tick[w].batch /\ s.next = tick[w].next
          /\ s.todo = tick[w].todo
      BY <1>3 DEF TickSet
    <3> HIDE DEF s
    <3>3. /\ u \in TickSet /\ u.pc = "put" /\ u.batch = tick[w].batch
          /\ u.next = tick[w].next /\ u.todo = tick[w].todo
      BY <3>2 DEF TickSet, Steps
    <3> HIDE DEF u
    <3> QED BY <3>1, <3>3
  <2> QED BY <1>1, <2>1, <2>2, <2>3
<1>5. CASE PostMarker(i)
  <2>1. marks'[i].seen = marks[i].seen + 1 /\ marks[i].seen \in Nat
    BY <1>3, <1>5, MarkerUpdates, MarksOf DEF IInv, MarkSet
  <2>2. t.pc \in {"put", "failing"}
    <3> HIDE DEF i
    <3> QED BY <1>4, <2>1
  <2> QED BY <1>1, <1>2, <1>4, <1>5, <2>2, MarkerWritten
<1>6. CASE UNCHANGED <<source, marks>> \/ LeaveNote(i)
  <2>1. source' = source /\ MarksHold
    BY <1>3, <1>6, NoteLeft, MarksStay DEF IInv
  <2>2. source' \in [Issues -> IssueSet] /\ StampsDiffer' /\ Later
    BY <1>3, <2>1, CloseUpdates DEF IInv
  <2>3. marks' \in [Issues -> MarkSet]
    BY <2>1 DEF MarksHold
  <2>4. DataTypes' /\ CommentsStored' /\ Grown /\ progress' = progress
    BY <1>1, <1>2, <2>2, <2>3, ProviderChanges
  <2>5. AtWork(t)
    BY <1>1, <1>4 DEF IInv, TickRight, AtWork, InPage, Delivering
  <2>6. \A k \in 1 .. Len(t.batch) : Finished(tick[w], k)
    BY <1>1 DEF Finished, Beyond, Delivering
  <2> QED BY <1>1, <1>2, <1>4, <2>1, <2>2, <2>4, <2>5, <2>6, WalkKeeps
<1> QED BY <1>1, <1>5, <1>6

\* The close is put, or not, and the tick goes on to the receipt, back or to its end.
LEMMA PuttingKeeps ==
  ASSUME IInv, NEW w \in Workers, tick[w].pc = "put", NEW pc \in {"marker", "receipt", "failing"},
         Goto(w, pc), PutClosed(Head(tick[w].todo)) \/ source' = source,
         MarksHold \/ marks' = marks, UNCHANGED <<progress, storeVars, ticketVars>>,
         budget' \in [Purposes -> Nat], budget'.overlap = budget.overlap
  PROVE  IInv'
<1>1. Head(tick[w].todo) \in Issues
  BY CloseAtHand DEF Delivering
<1>2. source' \in [Issues -> IssueSet] /\ StampsDiffer' /\ Later
  BY <1>1, CloseUpdates DEF IInv
<1>3. MarksHold /\ marks' \in [Issues -> MarkSet]
  BY MarksStay DEF IInv, MarksHold
<1>4. DataTypes' /\ CommentsStored' /\ Grown /\ progress' = progress
  BY <1>2, <1>3, ProviderChanges
<1> QED BY <1>2, <1>3, <1>4, GoingKeeps DEF InPage, Delivering, Beyond, Steps

LEMMA PutKeeps ==
  ASSUME IInv, NEW w \in Workers, Put(w)
  PROVE  IInv'
<1>1. budget' \in [Purposes -> Nat] /\ budget'.overlap = budget.overlap
  BY DEF Put, IInv, Types, DataTypes
<1> QED BY <1>1, PuttingKeeps DEF Put, At

LEMMA PutUnansweredKeeps ==
  ASSUME IInv, NEW w \in Workers, PutUnanswered(w)
  PROVE  IInv'
<1>1. budget' \in [Purposes -> Nat] /\ budget'.overlap = budget.overlap
  BY SpendTakes DEF PutUnanswered, IInv, Purposes
<1>2. /\ tick[w].pc = "put" /\ UNCHANGED <<progress, storeVars, ticketVars>>
      /\ \/ UNCHANGED <<source, marks>>
         \/ PutClosed(Head(tick[w].todo)) /\ UNCHANGED marks
         \/ LeaveClose(Head(tick[w].todo))
  BY DEF PutUnanswered, At
<1>3. Goto(w, "failing") \/ Goto(w, "marker") \/ Goto(w, "receipt")
  BY DEF PutUnanswered
<1>4. Head(tick[w].todo) \in Issues
  BY <1>2, CloseAtHand DEF Delivering
<1>5. /\ PutClosed(Head(tick[w].todo)) \/ source' = source
      /\ MarksHold \/ marks' = marks
  BY <1>2, <1>4, CloseLeft DEF IInv
<1>6. CASE Goto(w, "failing")
  BY <1>1, <1>2, <1>5, <1>6, PuttingKeeps
<1>7. CASE Goto(w, "marker")
  BY <1>1, <1>2, <1>5, <1>7, PuttingKeeps
<1>8. CASE Goto(w, "receipt")
  BY <1>1, <1>2, <1>5, <1>8, PuttingKeeps
<1> QED BY <1>3, <1>6, <1>7, <1>8

LEMMA RecordDeliveryKeeps ==
  ASSUME IInv, NEW w \in Workers, RecordDelivery(w)
  PROVE  IInv'
<1> DEFINE t == tick[w]
           receipt == [issue |-> Head(t.todo), created |-> t.created]
<1>1. /\ t.pc = "receipt"
      /\ UNCHANGED <<source, marks, progress, links, observed, ticketVars, budget>>
      /\ receipts' = receipts \/ receipts' = receipts \union {receipt}
      /\ tick' = [tick EXCEPT ![w] = Closed(t)] \/ Goto(w, "failing")
  BY DEF RecordDelivery, At
<1>2. t \in TickSet /\ Head(t.todo) \in Issues /\ t.created \in BOOLEAN
  BY <1>1, CloseAtHand DEF Delivering, TickSet
<1>3. receipt \in [issue : Issues, created : BOOLEAN]
  BY <1>2
<1> HIDE DEF receipt
<1>4. /\ links' \subseteq Issues /\ receipts' \subseteq [issue : Issues, created : BOOLEAN]
      /\ observed' \in [Issues -> SUBSET Nat] /\ \A i \in Issues : IsFiniteSet(observed'[i])
  BY <1>1, <1>3 DEF IInv, Types, DataTypes
<1>5. /\ DataTypes' /\ StampsDiffer' /\ CommentsStored' /\ Later
      /\ budget'.overlap = budget.overlap /\ progress' = progress /\ marks' = marks
  BY <1>1, <1>4, StoreChanges
<1>6. Grown
  BY <1>1 DEF Grown
<1>7. CASE tick' = [tick EXCEPT ![w] = Closed(t)]
  BY <1>1, <1>5, <1>6, <1>7, CloseDone DEF Delivering
<1>8. CASE Goto(w, "failing")
  BY <1>1, <1>5, <1>6, <1>8, GoingKeeps DEF InPage, Delivering, Beyond, Steps
<1> QED BY <1>1, <1>7, <1>8

LEMMA RaiseKeeps ==
  ASSUME IInv, NEW w \in Workers, Raise(w)
  PROVE  IInv'
<1>1. /\ tick[w].pc # "idle" /\ Goto(w, "failing")
      /\ UNCHANGED <<source, marks, progress, storeVars, ticketVars>>
  BY DEF Raise
<1>2. budget' \in [Purposes -> Nat] /\ budget'.overlap = budget.overlap
  BY SpendTakes DEF Raise, IInv, Purposes
<1>3. source' \in [Issues -> IssueSet] /\ marks' \in [Issues -> MarkSet] /\ marks' = marks
  BY <1>1 DEF IInv, Types, DataTypes
<1>4. StampsDiffer' /\ Later
  <2>1. source' = source /\ \A j \in Issues : source[j].stamp \in Nat
    BY <1>1 DEF IInv, Types, DataTypes, IssueSet
  <2> QED BY <2>1 DEF IInv, StampsDiffer, Later
<1>5. DataTypes' /\ CommentsStored' /\ Grown /\ progress' = progress
  BY <1>1, <1>2, <1>3, <1>4, ProviderChanges
<1> QED BY <1>1, <1>2, <1>3, <1>4, <1>5, GoingKeeps DEF InPage, Delivering, Beyond, Steps

-----------------------------------------------------------------------------
(* Whole ticks, and the world around them.                                 *)

\* The page that comes is of issues as they are, and the cursor behind it not behind.
LEMMA FetchKeeps ==
  ASSUME IInv, NEW w \in Workers, Fetch(w)
  PROVE  IInv'
<1> DEFINE t == tick[w]
           page == Page(t.next)
           next == NextCursor(t.next, page)
           pc == IF page = <<>> THEN "events" ELSE "look"
           s == [t EXCEPT !.batch = page]
           r == [s EXCEPT !.next = next]
           u == [r EXCEPT !.pc = pc]
<1>1. /\ t.pc = "fetch" /\ UNCHANGED <<source, marks, progress, storeVars, ticketVars, budget>>
  BY DEF Fetch, At
<1>2. /\ DataTypes' /\ StampsDiffer' /\ CommentsStored' /\ Later /\ Grown
      /\ budget'.overlap = budget.overlap
  BY <1>1, DataKept
<1>3. t \in TickSet /\ t.next \in Cursor /\ t.n = 1
  BY <1>1 DEF IInv, Types, TickSet, TickRight, AtWork
<1>4. tick' = [tick EXCEPT ![w] = u]
  BY <1>3 DEF Fetch, IInv, Types, TickSet
<1>5. /\ page \in Seq(SeenSet)
      /\ \A k \in 1 .. Len(page) :
           /\ page[k].issue \in Issues /\ page[k].stamp = source[page[k].issue].stamp
           /\ page[k].stamp > t.next.since
  BY <1>3, PageShowsIssues DEF IInv
<1>6. next \in Cursor /\ next.since >= t.next.since
  BY <1>3, CursorGoesOn DEF IInv
<1> HIDE DEF page, next
<1>7. pc \in Steps /\ (pc = "events" \/ (pc = "look" /\ 1 \in 1 .. Len(page)))
  <2>1. page # <<>> => Len(page) \in Nat /\ Len(page) # 0
    BY <1>5, EmptySeq, LenProperties
  <2> QED BY <2>1 DEF Steps
<1>8. pc = "events" => page = <<>>
  OBVIOUS
<1> HIDE DEF pc
<1>9. s \in TickSet /\ s.batch = page /\ s.next = t.next /\ s.n = 1
  BY <1>3, <1>5 DEF TickSet
<1> HIDE DEF s
<1>10. r \in TickSet /\ r.batch = page /\ r.next = next /\ r.n = 1
  BY <1>6, <1>9 DEF TickSet
<1> HIDE DEF r
<1>11. u \in TickSet /\ u.batch = page /\ u.next = next /\ u.n = 1 /\ u.pc = pc
  BY <1>7, <1>10 DEF TickSet
<1> HIDE DEF u
<1>12. /\ tick'[w] = u /\ Types' /\ \A o \in Workers \ {w} : tick'[o] = tick[o]
  BY <1>2, <1>4, <1>11, TickMoves DEF IInv, Types
<1>13. AtWork(u)
  BY <1>7, <1>11 DEF AtWork, InPage, Delivering
<1>14. SeenEarlier(w)'
  <2>1. \A i \in Issues : source[i].stamp \in Nat /\ source'[i].stamp = source[i].stamp
    BY <1>1 DEF IInv, Types, DataTypes, IssueSet
  <2>2. t.next.since \in Nat
    BY <1>3 DEF Cursor
  <2>3. ASSUME NEW k \in 1 .. Len(page)
        PROVE  0 < page[k].stamp /\ page[k].stamp <= source'[page[k].issue].stamp
    BY <1>5, <2>1, <2>2
  <2> QED BY <1>11, <1>12, <2>3 DEF SeenEarlier
<1>15. PageDone(w)'
  <2>1. Len(page) \in Nat /\ (page = <<>> => Len(page) = 0)
    BY <1>5, LenProperties, EmptySeq
  <2>2. ASSUME NEW k \in 1 .. Len(page) PROVE ~Finished(u, k)
    BY <1>7, <1>8, <1>11, <2>1 DEF Finished, Beyond, Delivering
  <2> QED BY <1>11, <1>12, <2>2 DEF PageDone
<1>16. Ahead(w)'
  <2>1. progress.owner = w => t.next.since >= progress.cursor.since
    BY <1>1 DEF IInv, TickRight, Ahead
  <2>2. t.next.since \in Nat /\ next.since \in Nat /\ progress.cursor.since \in Nat
    BY <1>3, <1>6 DEF IInv, Types, DataTypes, Cursor
  <2>3. progress.owner = w => next.since >= progress.cursor.since
    BY <1>6, <2>1, <2>2
  <2> QED BY <1>1, <1>11, <1>12, <2>3 DEF Ahead
<1>17. StraysCounted'
  <2>1. \A o \in Workers : Holds(o)' <=> Holds(o)
    BY <1>1 DEF Holds
  <2> QED BY <1>1, <1>2, <1>12, <2>1, StraysKeep DEF IInv
<1>18. MarksCounted'
  <2>1. budget'.overlap <= budget.overlap /\ budget'.overlap \in Nat
    BY <1>1 DEF IInv, Types, DataTypes, Purposes
  <2> QED BY <1>1, <1>7, <1>11, <1>12, <2>1, MarksKeep DEF IInv
<1> QED BY <1>1, <1>2, <1>11, <1>12, <1>13, <1>14, <1>15, <1>16, <1>17, <1>18, StepOfOne
           DEF TickRight

\* Whoever has no work yet has nothing to answer for.
LEMMA NoWork ==
  ASSUME NEW w \in Workers, tick'[w].batch = <<>>, tick'[w].pc \in {"idle", "fetch"},
         tick'[w].n = 1,
         progress'.owner = w /\ tick'[w].pc # "idle" =>
           tick'[w].next.since >= progress'.cursor.since
  PROVE  TickRight(w)'
<1>1. AtWork(tick[w])'
  BY DEF AtWork, InPage, Delivering
<1>2. \A k \in 1 .. Len(tick'[w].batch) : FALSE
  BY EmptySeq
<1> QED BY <1>1, <1>2 DEF TickRight, SeenEarlier, PageDone, Ahead

LEMMA IdleTick ==
  /\ Idle \in TickSet /\ Idle.pc = "idle" /\ Idle.batch = <<>> /\ Idle.n = 1
<1>1. <<>> \in Seq(SeenSet) /\ <<>> \in Seq(Issues)
  BY EmptySeq
<1>2. [since |-> 0, page |-> 1] \in Cursor
  BY DEF Cursor
<1> QED BY <1>1, <1>2 DEF Idle, TickSet, Steps

\* A tick is at its end, and its lease is free or as it was.
LEMMA TickEnds ==
  ASSUME IInv, NEW w \in Workers, tick' = [tick EXCEPT ![w] = Idle],
         DataTypes', StampsDiffer', CommentsStored', Later, Grown,
         MarksHold \/ marks' = marks, budget'.overlap = budget.overlap,
         progress' = progress \/ (Holds(w) /\ progress'.owner = NoWorker)
  PROVE  IInv'
<1>1. /\ tick'[w] = Idle /\ Types' /\ \A o \in Workers \ {w} : tick'[o] = tick[o]
  BY TickMoves, IdleTick DEF IInv, Types
<1>2. \A o \in Workers \ {w} :
        progress'.owner = o => progress.owner = o /\ progress'.cursor = progress.cursor
  BY ConnectorAssumption
<1>3. TickRight(w)'
  BY <1>1, IdleTick, NoWork
<1>4. ASSUME NEW o \in Workers, tick'[o].pc # "idle", ~Holds(o)'
      PROVE  tick[o].pc # "idle" /\ ~Holds(o)
  <2>1. o # w
    BY <1>1, <1>4, IdleTick
  <2> QED BY <1>1, <1>4, <2>1 DEF Holds
<1>5. StraysCounted'
  BY <1>4, StraysKeep DEF IInv
<1>6. budget'.overlap <= budget.overlap /\ budget'.overlap \in Nat
  BY DEF IInv, Types, DataTypes, Purposes
<1>7. \A o \in Workers : tick'[o].pc = "post" => tick'[o] = tick[o]
  BY <1>1, IdleTick
<1>8. MarksCounted'
  BY <1>6, <1>7, MarksKeep DEF IInv
<1> QED BY <1>1, <1>2, <1>3, <1>5, <1>8, StepOfOne

\* The lease and its position change, and nothing else.
LEMMA LeaseChanges ==
  ASSUME IInv, UNCHANGED <<source, marks, storeVars, ticketVars>>,
         budget' \in [Purposes -> Nat],
         progress' \in [cursor : Cursor, events : Nat, owner : Workers \union {NoWorker},
                        live : BOOLEAN]
  PROVE  DataTypes' /\ StampsDiffer' /\ CommentsStored' /\ Later /\ Grown /\ marks' = marks
<1>1. UNCHANGED <<source, marks, links, observed, receipts, tickets, results, closes>>
  BY DEF storeVars, ticketVars
<1>2. \A i \in Issues : source[i].stamp \in Nat
  BY DEF IInv, Types, DataTypes, IssueSet
<1>3. DataTypes'
  BY <1>1 DEF IInv, Types, DataTypes
<1>4. StampsDiffer' /\ CommentsStored'
  BY <1>1 DEF IInv, StampsDiffer, CommentsStored
<1> QED BY <1>1, <1>2, <1>3, <1>4 DEF Later, Grown

\* A tick begins from the stored position, when nobody has the lease.
LEMMA ClaimKeeps ==
  ASSUME IInv, NEW w \in Workers, Claim(w)
  PROVE  IInv'
<1> DEFINE s == [Idle EXCEPT !.pc = "fetch"]
           r == [s EXCEPT !.next = progress.cursor]
           u == [r EXCEPT !.events = progress.events]
           p == [progress EXCEPT !.owner = w]
           lease == [p EXCEPT !.live = TRUE]
<1>1. /\ tick[w].pc = "idle" /\ (progress.owner = NoWorker \/ ~progress.live)
      /\ progress' = lease /\ tick' = [tick EXCEPT ![w] = u]
      /\ UNCHANGED <<source, marks, storeVars, ticketVars, budget>>
  BY DEF Claim, At
<1>2. progress \in [cursor : Cursor, events : Nat, owner : Workers \union {NoWorker},
                    live : BOOLEAN] /\ budget \in [Purposes -> Nat]
  BY DEF IInv, Types, DataTypes
<1>3. s \in TickSet /\ s.pc = "fetch" /\ s.batch = <<>> /\ s.n = 1
  BY IdleTick DEF TickSet, Steps
<1> HIDE DEF s
<1>4. r \in TickSet /\ r.pc = "fetch" /\ r.batch = <<>> /\ r.n = 1 /\ r.next = progress.cursor
  BY <1>2, <1>3 DEF TickSet
<1> HIDE DEF r
<1>5. u \in TickSet /\ u.pc = "fetch" /\ u.batch = <<>> /\ u.n = 1 /\ u.next = progress.cursor
  BY <1>2, <1>4 DEF TickSet
<1> HIDE DEF u
<1>6. /\ p \in [cursor : Cursor, events : Nat, owner : Workers \union {NoWorker}, live : BOOLEAN]
      /\ p.owner = w /\ p.cursor = progress.cursor
  BY <1>2
<1> HIDE DEF p
<1>7. /\ lease \in [cursor : Cursor, events : Nat, owner : Workers \union {NoWorker},
                    live : BOOLEAN]
      /\ lease.owner = w /\ lease.cursor = progress.cursor /\ lease.live = TRUE
  BY <1>6
<1> HIDE DEF lease
<1>8. /\ DataTypes' /\ StampsDiffer' /\ CommentsStored' /\ Later /\ Grown /\ marks' = marks
  BY <1>1, <1>2, <1>7, LeaseChanges
<1>9. /\ tick'[w] = u /\ Types' /\ \A o \in Workers \ {w} : tick'[o] = tick[o]
  BY <1>1, <1>5, <1>8, TickMoves DEF IInv, Types
<1>10. TickRight(w)'
  <2>1. progress.cursor.since \in Nat
    BY <1>2 DEF Cursor
  <2> QED BY <1>1, <1>5, <1>7, <1>9, <2>1, NoWork
<1>11. \A o \in Workers : ~Holds(o)
  BY <1>1, ConnectorAssumption DEF Holds
<1>12. ASSUME NEW o \in Workers, tick'[o].pc # "idle", ~Holds(o)'
       PROVE  tick[o].pc # "idle" /\ ~Holds(o)
  <2>1. o # w
    BY <1>1, <1>7, <1>12 DEF Holds
  <2> QED BY <1>9, <1>11, <1>12, <2>1
<1>13. StraysCounted'
  BY <1>1, <1>12, StraysKeep DEF IInv
<1>14. budget'.overlap <= budget.overlap /\ budget'.overlap \in Nat
  BY <1>1 DEF IInv, Types, DataTypes, Purposes
<1>15. \A o \in Workers : tick'[o].pc = "post" => tick'[o] = tick[o]
  BY <1>5, <1>9
<1>16. MarksCounted'
  BY <1>8, <1>14, <1>15, MarksKeep DEF IInv
<1> QED BY <1>1, <1>7, <1>8, <1>9, <1>10, <1>13, <1>16, StepOfOne

LEMMA CompleteKeeps ==
  ASSUME IInv, NEW w \in Workers, Complete(w)
  PROVE  IInv'
<1>1. /\ tick[w].pc = "complete" /\ UNCHANGED <<source, marks, storeVars, ticketVars, budget>>
  BY DEF Complete, At
<1>2. budget' \in [Purposes -> Nat] /\ budget'.overlap = budget.overlap
  BY <1>1 DEF IInv, Types, DataTypes
<1>3. CASE Holds(w) /\ progress.events <= tick[w].events
  <2> DEFINE a == [progress EXCEPT !.cursor = tick[w].next]
             b == [a EXCEPT !.events = tick[w].events]
             c == [b EXCEPT !.owner = NoWorker]
             free == [c EXCEPT !.live = FALSE]
             Rows == [cursor : Cursor, events : Nat, owner : Workers \union {NoWorker},
                      live : BOOLEAN]
  <2>1. progress' = free /\ tick' = [tick EXCEPT ![w] = Idle]
    BY <1>3 DEF Complete
  <2>2. progress \in Rows /\ tick[w].next \in Cursor /\ tick[w].events \in Nat
    BY DEF IInv, Types, DataTypes, TickSet
  <2>3. a \in Rows
    BY <2>2
  <2> HIDE DEF a
  <2>4. b \in Rows
    BY <2>2, <2>3
  <2> HIDE DEF b
  <2>5. c \in Rows /\ c.owner = NoWorker
    BY <2>4
  <2> HIDE DEF c
  <2>6. free \in Rows /\ free.owner = NoWorker
    BY <2>5
  <2> HIDE DEF free
  <2>7. DataTypes' /\ StampsDiffer' /\ CommentsStored' /\ Later /\ Grown /\ marks' = marks
    BY <1>1, <1>2, <2>1, <2>6, LeaseChanges
  <2> QED BY <1>2, <1>3, <2>1, <2>6, <2>7, TickEnds
<1>4. CASE ~(Holds(w) /\ progress.events <= tick[w].events)
  <2>1. Goto(w, "failing") /\ UNCHANGED progress
    BY <1>4 DEF Complete
  <2>2. /\ DataTypes' /\ StampsDiffer' /\ CommentsStored' /\ Later /\ Grown
        /\ budget'.overlap = budget.overlap
    BY <1>1, <2>1, DataKept
  <2> QED BY <1>1, <2>1, <2>2, GoingKeeps DEF InPage, Delivering, Beyond, Steps
<1> QED BY <1>3, <1>4

LEMMA FailKeeps ==
  ASSUME IInv, NEW w \in Workers, Fail(w)
  PROVE  IInv'
<1> DEFINE c == [progress EXCEPT !.owner = NoWorker]
           free == [c EXCEPT !.live = FALSE]
           Rows == [cursor : Cursor, events : Nat, owner : Workers \union {NoWorker},
                    live : BOOLEAN]
<1>1. /\ progress' = (IF Holds(w) THEN free ELSE progress) /\ tick' = [tick EXCEPT ![w] = Idle]
      /\ UNCHANGED <<source, marks, storeVars, ticketVars, budget>>
  BY DEF Fail
<1>2. /\ progress \in Rows /\ budget' \in [Purposes -> Nat] /\ budget'.overlap = budget.overlap
  BY <1>1 DEF IInv, Types, DataTypes
<1>3. c \in Rows /\ c.owner = NoWorker
  BY <1>2
<1> HIDE DEF c
<1>4. free \in Rows /\ free.owner = NoWorker
  BY <1>3
<1> HIDE DEF free
<1>5. DataTypes' /\ StampsDiffer' /\ CommentsStored' /\ Later /\ Grown /\ marks' = marks
  BY <1>1, <1>2, <1>4, LeaseChanges
<1> QED BY <1>1, <1>2, <1>4, <1>5, TickEnds

LEMMA CrashKeeps ==
  ASSUME IInv, NEW w \in Workers, Crash(w)
  PROVE  IInv'
<1> DEFINE i == Head(tick[w].todo)
<1>1. /\ tick' = [tick EXCEPT ![w] = Idle] /\ UNCHANGED <<progress, storeVars, ticketVars>>
      /\ \/ UNCHANGED <<source, marks>>
         \/ tick[w].pc = "post" /\ LeaveNote(i)
         \/ tick[w].pc = "put" /\ LeaveClose(i)
  BY DEF Crash, At
<1>2. budget' \in [Purposes -> Nat] /\ budget'.overlap = budget.overlap
  BY SpendTakes DEF Crash, IInv, Purposes
<1>3. source' = source /\ MarksHold
  <2>1. tick[w].pc \in {"post", "put"} => i \in Issues
    BY CloseAtHand DEF Delivering
  <2> QED BY <1>1, <2>1, NoteLeft, CloseLeft, MarksStay DEF IInv
<1>4. source' \in [Issues -> IssueSet] /\ StampsDiffer' /\ Later
  <2>1. \A j \in Issues : source[j].stamp \in Nat
    BY DEF IInv, Types, DataTypes, IssueSet
  <2> QED BY <1>3, <2>1 DEF IInv, Types, DataTypes, StampsDiffer, Later
<1>5. DataTypes' /\ CommentsStored' /\ Grown /\ progress' = progress
  <2>1. marks' \in [Issues -> MarkSet]
    BY <1>3 DEF MarksHold
  <2> QED BY <1>1, <1>2, <1>4, <2>1, ProviderChanges
<1> QED BY <1>1, <1>2, <1>3, <1>4, <1>5, TickEnds

\* Nobody's tick takes a step, and the lease stays with its owner.
LEMMA TicksStay ==
  ASSUME IInv, tick' = tick, DataTypes', StampsDiffer', CommentsStored', Later, Grown,
         progress'.owner = progress.owner, progress'.cursor = progress.cursor
  PROVE  Types' /\ \A w \in Workers : TickRight(w)'
<1>1. Types'
  BY DEF IInv, Types
<1>2. ASSUME NEW w \in Workers PROVE TickRight(w)'
  <2>1. TickRight(w) /\ AtWork(tick[w])
    BY DEF IInv, TickRight
  <2> QED BY <1>1, <2>1, TickKeeps DEF IInv
<1> QED BY <1>1, <1>2

\* A lease that expires under its owner makes one stray more, for one overlap less.
LEMMA LapseKeeps ==
  ASSUME IInv, Lapse
  PROVE  IInv'
<1> DEFINE lease == [progress EXCEPT !.live = FALSE]
           Rows == [cursor : Cursor, events : Nat, owner : Workers \union {NoWorker},
                    live : BOOLEAN]
           Under == \E w \in Workers : Holds(w) /\ ~At(w, "idle")
<1>1. /\ progress' = lease /\ UNCHANGED <<source, marks, storeVars, ticketVars, tick>>
      /\ IF Under THEN Spend("overlap") ELSE UNCHANGED budget
  BY DEF Lapse
<1>2. progress \in Rows /\ budget \in [Purposes -> Nat]
  BY DEF IInv, Types, DataTypes
<1>3. lease \in Rows /\ lease.owner = progress.owner /\ lease.cursor = progress.cursor
  BY <1>2
<1> HIDE DEF lease
<1>4. /\ budget' \in [Purposes -> Nat]
      /\ Under => budget'.overlap = budget.overlap - 1
      /\ ~Under => budget'.overlap = budget.overlap
  <2>1. CASE Under
    <3>1. Spend("overlap")
      BY <1>1, <2>1
    <3> HIDE DEF Under
    <3> QED BY <2>1, <3>1, SpendTakes DEF IInv, Purposes
  <2>2. CASE ~Under
    BY <1>1, <1>2, <2>2
  <2> QED BY <2>1, <2>2
<1>5. DataTypes' /\ StampsDiffer' /\ CommentsStored' /\ Later /\ Grown /\ marks' = marks
  BY <1>1, <1>3, <1>4, LeaseChanges
<1>6. Types' /\ \A w \in Workers : TickRight(w)'
  BY <1>1, <1>3, <1>5, TicksStay
<1>7. /\ budget.overlap \in Nat /\ budget'.overlap \in Nat /\ MaxOverlaps \in Nat
      /\ budget'.overlap <= budget.overlap
  BY <1>2, <1>4, ConnectorBoundAssumption DEF Purposes
<1>8. StraysCounted'
  <2>1. /\ IsFiniteSet(Strays) /\ Cardinality(Strays) \in Nat
        /\ Cardinality(Strays) + budget.overlap <= MaxOverlaps
    BY FS_CardinalityType DEF IInv, StraysCounted
  <2>2. CASE Under
    <3> DEFINE more == Strays \union {progress.owner}
    <3>1. Strays' \subseteq more
      BY <1>1 DEF Strays, Holds
    <3>2. /\ IsFiniteSet(more) /\ Cardinality(more) \in Nat
          /\ Cardinality(more) <= Cardinality(Strays) + 1
      <4>1. /\ IsFiniteSet(more)
            /\ Cardinality(more) = Cardinality(Strays) \/ Cardinality(more) = Cardinality(Strays) + 1
        BY <2>1, FS_AddElement
      <4> QED BY <2>1, <4>1
    <3> HIDE DEF more
    <3>3. IsFiniteSet(Strays') /\ Cardinality(Strays') \in Nat /\ Cardinality(Strays') <= Cardinality(more)
      BY <3>1, <3>2, FS_Subset, FS_CardinalityType
    <3>4. budget'.overlap = budget.overlap - 1
      BY <1>4, <2>2
    <3> HIDE DEF Under
    <3>5. Cardinality(Strays') + budget'.overlap <= MaxOverlaps
      BY <1>7, <2>1, <3>2, <3>3, <3>4
    <3> QED BY <3>3, <3>5 DEF StraysCounted
  <2>3. CASE ~Under
    <3>1. Strays' \subseteq Strays
      BY <1>1, <2>3 DEF Strays, At
    <3>2. IsFiniteSet(Strays') /\ Cardinality(Strays') \in Nat /\ Cardinality(Strays') <= Cardinality(Strays)
      BY <2>1, <3>1, FS_Subset, FS_CardinalityType
    <3>3. budget'.overlap = budget.overlap
      BY <1>4, <2>3
    <3> HIDE DEF Under
    <3>4. Cardinality(Strays') + budget'.overlap <= MaxOverlaps
      BY <1>7, <2>1, <3>2, <3>3
    <3> QED BY <3>2, <3>4 DEF StraysCounted
  <2> QED BY <2>2, <2>3
<1>9. MarksCounted'
  BY <1>1, <1>5, <1>7, MarksKeep DEF IInv
<1> QED BY <1>5, <1>6, <1>8, <1>9 DEF IInv

\* What people and the finalizer do beside the ticks.
LEMMA WorldKeeps ==
  ASSUME IInv, tick' = tick, progress' = progress, MarksHold \/ marks' = marks,
         DataTypes', StampsDiffer', CommentsStored', Later, Grown,
         budget'.overlap = budget.overlap
  PROVE  IInv'
<1>1. Types' /\ \A w \in Workers : TickRight(w)'
  BY TicksStay
<1>2. StraysCounted'
  <2>1. \A o \in Workers : Holds(o)' <=> Holds(o)
    BY DEF Holds
  <2> QED BY <2>1, StraysKeep DEF IInv
<1>3. budget'.overlap <= budget.overlap /\ budget'.overlap \in Nat
  BY DEF IInv, Types, DataTypes, Purposes
<1>4. MarksCounted'
  BY <1>3, MarksKeep DEF IInv
<1> QED BY <1>1, <1>2, <1>4 DEF IInv

LEMMA EditKeeps ==
  ASSUME IInv, NEW i \in Issues, Edit(i)
  PROVE  IInv'
<1>1. /\ UNCHANGED <<marks, progress, storeVars, ticketVars, tick>>
      /\ budget' \in [Purposes -> Nat] /\ budget'.overlap = budget.overlap
  BY SpendTakes DEF Edit, IInv, Purposes
<1>2. PICK label \in {source[i].label, TRUE}, open \in BOOLEAN :
        source' = [source EXCEPT ![i] = [stamp |-> Now, label |-> label, open |-> open]]
  BY DEF Edit
<1> DEFINE issue == [stamp |-> Now, label |-> label, open |-> open]
<1>3. issue \in IssueSet /\ issue.stamp = Now
  <2>1. source[i].label \in BOOLEAN
    BY DEF IInv, Types, DataTypes, IssueSet
  <2>2. Now \in Nat /\ label \in BOOLEAN /\ open \in BOOLEAN
    BY <1>2, <2>1, NowIsLater DEF IInv
  <2> QED BY <2>2 DEF IssueSet
<1>4. source' = [source EXCEPT ![i] = issue]
  BY <1>2
<1> HIDE DEF issue
<1>5. source' \in [Issues -> IssueSet] /\ StampsDiffer' /\ Later
  BY <1>3, <1>4, IssueChanges DEF IInv
<1>6. marks' \in [Issues -> MarkSet]
  BY <1>1 DEF IInv, Types, DataTypes
<1>7. DataTypes' /\ CommentsStored' /\ Grown /\ progress' = progress
  BY <1>1, <1>5, <1>6, ProviderChanges
<1> QED BY <1>1, <1>5, <1>7, WorldKeeps

\* What was under way arrives at the provider, or is buried there.
LEMMA NoteWritten ==
  ASSUME IInv, NEW i \in Issues, NEW n \in MarkSet, NoMore(marks[i], n),
         UNCHANGED <<progress, storeVars, ticketVars, tick, budget>>,
         marks' = [marks EXCEPT ![i] = n],
         source' = [source EXCEPT ![i] = [source[i] EXCEPT !.stamp = Now]]
  PROVE  IInv'
<1> DEFINE issue == [source[i] EXCEPT !.stamp = Now]
<1>1. issue \in IssueSet /\ issue.stamp = Now
  BY NowIsLater DEF IInv, Types, DataTypes, IssueSet
<1>2. source' = [source EXCEPT ![i] = issue]
  OBVIOUS
<1> HIDE DEF issue
<1>3. source' \in [Issues -> IssueSet] /\ StampsDiffer' /\ Later
  BY <1>1, <1>2, IssueChanges DEF IInv
<1>4. MarksHold /\ marks' \in [Issues -> MarkSet]
  BY MarksMove DEF IInv, MarksHold
<1>5. budget' \in [Purposes -> Nat] /\ budget'.overlap = budget.overlap /\ tick' = tick
  BY DEF IInv, Types, DataTypes
<1>6. DataTypes' /\ CommentsStored' /\ Grown /\ progress' = progress
  BY <1>3, <1>4, <1>5, ProviderChanges
<1> QED BY <1>3, <1>4, <1>5, <1>6, WorldKeeps

LEMMA LandNoteKeeps ==
  ASSUME IInv, NEW i \in Issues, LandNote(i)
  PROVE  IInv'
<1> DEFINE s == [marks[i] EXCEPT !.adrift = @ - 1]
           n == [s EXCEPT !.seen = @ + 1]
           issue == [source[i] EXCEPT !.stamp = Now]
<1>1. /\ UNCHANGED <<progress, storeVars, ticketVars, tick, budget>>
      /\ marks[i].adrift > 0
      /\ marks' = [marks EXCEPT ![i] = n] /\ source' = [source EXCEPT ![i] = issue]
  BY DEF LandNote, IInv, Types, DataTypes
<1>2. /\ s \in MarkSet /\ s.adrift = marks[i].adrift - 1 /\ s.left = marks[i].left
      /\ s.seen = marks[i].seen
  <2>1. marks[i].adrift - 1 \in Nat
    BY <1>1, MarksOf DEF IInv
  <2> QED BY <2>1, MarksOf DEF IInv, MarkSet
<1> HIDE DEF s
<1>3. /\ n \in MarkSet /\ n.adrift = marks[i].adrift - 1 /\ n.left = marks[i].left
      /\ n.seen = marks[i].seen + 1
  BY <1>2, MarksOf DEF IInv, MarkSet
<1> HIDE DEF n
<1>4. NoMore(marks[i], n)
  BY <1>3, MarksOf DEF IInv, NoMore
<1> QED BY <1>1, <1>3, <1>4, NoteWritten

LEMMA BuryKeeps ==
  ASSUME IInv, NEW i \in Issues, Bury(i)
  PROVE  IInv'
<1> DEFINE n == [marks[i] EXCEPT !.seen = 0]
           issue == [source[i] EXCEPT !.stamp = Now]
<1>1. /\ UNCHANGED <<progress, storeVars, ticketVars, tick, budget>>
      /\ marks' = [marks EXCEPT ![i] = n] /\ source' = [source EXCEPT ![i] = issue]
  BY DEF Bury, IInv, Types, DataTypes
<1>2. /\ n \in MarkSet /\ n.adrift = marks[i].adrift /\ n.left = marks[i].left
      /\ n.seen = 0
  BY MarksOf DEF IInv, MarkSet
<1> HIDE DEF n
<1>3. NoMore(marks[i], n)
  BY <1>2, MarksOf DEF IInv, NoMore
<1> QED BY <1>1, <1>2, <1>3, NoteWritten

LEMMA LandCloseKeeps ==
  ASSUME IInv, NEW i \in Issues, LandClose(i)
  PROVE  IInv'
<1> DEFINE n == [marks[i] EXCEPT !.closing = @ - 1]
<1>1. /\ UNCHANGED <<progress, storeVars, ticketVars, tick, budget>>
      /\ marks[i].closing > 0 /\ marks' = [marks EXCEPT ![i] = n] /\ PutClosed(i)
  BY DEF LandClose, IInv, Types, DataTypes
<1>2. /\ n \in MarkSet /\ n.adrift = marks[i].adrift /\ n.left = marks[i].left
      /\ n.seen = marks[i].seen
  <2>1. marks[i].closing - 1 \in Nat
    BY <1>1, MarksOf DEF IInv
  <2> QED BY <2>1, MarksOf DEF IInv, MarkSet
<1> HIDE DEF n
<1>3. NoMore(marks[i], n)
  BY <1>2, MarksOf DEF IInv, NoMore
<1>4. MarksHold /\ marks' \in [Issues -> MarkSet]
  BY <1>1, <1>2, <1>3, MarksMove DEF IInv, MarksHold
<1>5. source' \in [Issues -> IssueSet] /\ StampsDiffer' /\ Later
  BY <1>1, CloseUpdates DEF IInv
<1>6. budget' \in [Purposes -> Nat] /\ budget'.overlap = budget.overlap /\ tick' = tick
  BY <1>1 DEF IInv, Types, DataTypes
<1>7. DataTypes' /\ CommentsStored' /\ Grown /\ progress' = progress
  BY <1>1, <1>4, <1>5, <1>6, ProviderChanges
<1> QED BY <1>4, <1>5, <1>6, <1>7, WorldKeeps

\* A ticket changes beside the ticks, in anything but its comments.
LEMMA TicketKeeps ==
  ASSUME IInv, NEW i \in Issues, NEW ticket \in TicketSet, tickets' = [tickets EXCEPT ![i] = ticket],
         ticket.comments = tickets[i].comments, closes' \in Seq(Issues),
         UNCHANGED <<source, marks, progress, storeVars, results, tick>>,
         budget' \in [Purposes -> Nat], budget'.overlap = budget.overlap
  PROVE  IInv'
<1>1. /\ tickets' \in [Issues -> TicketSet]
      /\ \A j \in Issues : tickets'[j].comments = tickets[j].comments
  BY DEF IInv, Types, DataTypes
<1>2. /\ DataTypes' /\ StampsDiffer' /\ CommentsStored' /\ Later /\ Grown
      /\ progress' = progress /\ marks' = marks
  BY <1>1, TicketsChange
<1> QED BY <1>2, WorldKeeps

LEMMA CloseTicketKeeps ==
  ASSUME IInv, NEW i \in Issues, CloseTicket(i)
  PROVE  IInv'
<1> DEFINE s == [tickets[i] EXCEPT !.state = "closed"]
           ticket == [s EXCEPT !.acked = FALSE]
<1>1. tickets[i] \in TicketSet /\ closes \in Seq(Issues) /\ tickets \in [Issues -> TicketSet]
  BY DEF IInv, Types, DataTypes
<1>2. tickets' = [tickets EXCEPT ![i] = ticket] /\ closes' = Append(closes, i)
  BY <1>1 DEF CloseTicket
<1>3. s \in TicketSet /\ s.comments = tickets[i].comments
  BY <1>1 DEF TicketSet
<1> HIDE DEF s
<1>4. ticket \in TicketSet /\ ticket.comments = tickets[i].comments
  BY <1>3 DEF TicketSet
<1> HIDE DEF ticket
<1>5. closes' \in Seq(Issues)
  BY <1>1, <1>2, AppendProperties
<1>6. budget' \in [Purposes -> Nat] /\ budget'.overlap = budget.overlap
  BY SpendTakes DEF CloseTicket, IInv, Purposes
<1> QED BY <1>2, <1>4, <1>5, <1>6, TicketKeeps DEF CloseTicket

LEMMA LabelTicketKeeps ==
  ASSUME IInv, NEW i \in Issues, LabelTicket(i)
  PROVE  IInv'
<1> DEFINE s == [tickets[i] EXCEPT !.label = TRUE]
           ticket == [s EXCEPT !.acked = FALSE]
<1>1. tickets[i] \in TicketSet /\ closes \in Seq(Issues) /\ tickets \in [Issues -> TicketSet]
  BY DEF IInv, Types, DataTypes
<1>2. tickets' = [tickets EXCEPT ![i] = ticket] /\ closes' = closes
  BY <1>1 DEF LabelTicket
<1>3. s \in TicketSet /\ s.comments = tickets[i].comments
  BY <1>1 DEF TicketSet
<1> HIDE DEF s
<1>4. ticket \in TicketSet /\ ticket.comments = tickets[i].comments
  BY <1>3 DEF TicketSet
<1> HIDE DEF ticket
<1>5. budget' \in [Purposes -> Nat] /\ budget'.overlap = budget.overlap
  BY SpendTakes DEF LabelTicket, IInv, Purposes
<1>6. UNCHANGED <<source, marks, progress, storeVars, results, tick>>
  BY DEF LabelTicket
<1> QED BY <1>1, <1>2, <1>4, <1>5, <1>6, TicketKeeps

LEMMA AcknowledgeKeeps ==
  ASSUME IInv, NEW i \in Issues, Acknowledge(i)
  PROVE  IInv'
<1> DEFINE ticket == [tickets[i] EXCEPT !.acked = TRUE]
<1>1. /\ tickets[i] \in TicketSet /\ closes \in Seq(Issues) /\ budget \in [Purposes -> Nat]
      /\ tickets \in [Issues -> TicketSet]
  BY DEF IInv, Types, DataTypes
<1>2. tickets' = [tickets EXCEPT ![i] = ticket] /\ closes' = closes /\ budget' = budget
  BY <1>1 DEF Acknowledge
<1>3. ticket \in TicketSet /\ ticket.comments = tickets[i].comments
  BY <1>1 DEF TicketSet
<1> HIDE DEF ticket
<1> QED BY <1>1, <1>2, <1>3, TicketKeeps DEF Acknowledge

-----------------------------------------------------------------------------
(* The theorems.                                                           *)

\* There is an order of the issues' first updates.
LEMMA FirstStamps ==
  /\ FirstStamp \in [Issues -> 1 .. Cardinality(Issues)] /\ IsInjective(FirstStamp)
  /\ Cardinality(Issues) \in Nat
<1>1. Cardinality(Issues) \in Nat /\ ExistsBijection(1 .. Cardinality(Issues), Issues)
  BY FS_CardinalityType, ConnectorAssumption
<1>2. ExistsBijection(Issues, 1 .. Cardinality(Issues))
  BY <1>1, Fun_ExistsBijSymmetric
<1>3. \E stamp \in [Issues -> 1 .. Cardinality(Issues)] : IsInjective(stamp)
  BY <1>2 DEF ExistsBijection, Bijection, Injection
<1> QED BY <1>1, <1>3 DEF FirstStamp

LEMMA Initially == Init => IInv
<1> SUFFICES ASSUME Init PROVE IInv
  OBVIOUS
<1> DEFINE Label(i) == i \in FirstLabels
<1>1. \A i \in Issues : /\ source[i] = [stamp |-> FirstStamp[i], label |-> Label(i), open |-> TRUE]
                        /\ FirstStamp[i] \in Nat /\ Label(i) \in BOOLEAN
  BY FirstStamps DEF Init
<1>2. source = [i \in Issues |-> source[i]]
  BY DEF Init
<1>3. source \in [Issues -> IssueSet] /\ \A i \in Issues : source[i].stamp = FirstStamp[i]
  <2>1. ASSUME NEW i \in Issues PROVE source[i] \in IssueSet /\ source[i].stamp = FirstStamp[i]
    <3> DEFINE label == Label(i)
               stamp == FirstStamp[i]
    <3>1. source[i] = [stamp |-> stamp, label |-> label, open |-> TRUE]
      BY <1>1
    <3>2. stamp \in Nat /\ label \in BOOLEAN
      BY <1>1
    <3> HIDE DEF label, stamp
    <3>3. source[i] \in IssueSet /\ source[i].stamp = stamp
      BY <3>1, <3>2 DEF IssueSet
    <3> QED BY <3>3 DEF stamp
  <2> QED BY <1>2, <2>1
<1>4. StampsDiffer
  BY <1>3, FirstStamps DEF StampsDiffer, IsInjective
<1>5. /\ marks = [i \in Issues |-> [seen |-> 0, adrift |-> 0, left |-> 0, closing |-> 0]]
      /\ observed = [i \in Issues |-> {}]
      /\ links = {} /\ receipts = {} /\ closes = <<>> /\ tick = [w \in Workers |-> Idle]
  BY DEF Init
<1>6. progress = [cursor |-> [since |-> 0, page |-> 1], events |-> 0, owner |-> NoWorker,
                  live |-> FALSE]
  BY DEF Init
<1>7. progress \in [cursor : Cursor, events : Nat, owner : Workers \union {NoWorker},
                    live : BOOLEAN]
  <2>1. [since |-> 0, page |-> 1] \in Cursor
    BY DEF Cursor
  <2> QED BY <1>6, <2>1
<1>8. /\ tickets \in [Issues -> TicketSet]
      /\ \A i \in Issues : tickets[i].comments = <<>>
  <2> DEFINE ticket == [state |-> "none", acked |-> FALSE, label |-> FALSE, comments |-> <<>>]
  <2>1. ticket \in TicketSet /\ ticket.comments = <<>>
    BY EmptySeq DEF TicketSet
  <2>2. tickets = [i \in Issues |-> ticket]
    BY DEF Init
  <2> HIDE DEF ticket
  <2> QED BY <2>1, <2>2
<1>9. budget \in [Purposes -> Nat] /\ budget.overlap = MaxOverlaps
  BY ConnectorBoundAssumption DEF Init, Purposes
<1>10. DataTypes
  <2>1. \A i \in Issues : IsFiniteSet(observed[i])
    BY <1>5, FS_EmptySet
  <2>2. closes \in Seq(Issues)
    BY <1>5, EmptySeq
  <2>3. marks \in [Issues -> MarkSet]
    <3>1. [seen |-> 0, adrift |-> 0, left |-> 0, closing |-> 0] \in MarkSet
      BY DEF MarkSet
    <3> QED BY <1>5, <3>1
  <2> QED BY <1>3, <1>5, <1>7, <1>8, <1>9, <2>1, <2>2, <2>3 DEF DataTypes
<1>11. Types /\ \A w \in Workers : tick[w] = Idle
  BY <1>5, <1>10, IdleTick DEF Types
<1>12. CommentsStored
  <2>1. ASSUME NEW i \in Issues, NEW k \in 1 .. Len(tickets[i].comments) PROVE FALSE
    BY <1>8, EmptySeq
  <2>2. \A i \in Issues : IsInjective(tickets[i].comments)
    <3>1. DOMAIN <<>> = {}
      OBVIOUS
    <3> QED BY <1>8, <3>1 DEF IsInjective
  <2> QED BY <2>1, <2>2 DEF CommentsStored
<1>13. \A w \in Workers : TickRight(w)
  <2>1. \A k \in 1 .. Len(Idle.batch) : FALSE
    BY IdleTick, EmptySeq
  <2>2. \A w \in Workers : AtWork(tick[w])
    BY <1>11, IdleTick DEF AtWork, InPage, Delivering
  <2> QED BY <1>11, <2>1, <2>2, IdleTick DEF TickRight, SeenEarlier, PageDone, Ahead
<1>14. StraysCounted
  <2>1. Strays = {}
    BY <1>11, IdleTick DEF Strays
  <2> QED BY <1>9, <2>1, FS_EmptySet, ConnectorBoundAssumption DEF StraysCounted
<1>15. MarksCounted
  <2>1. \A i \in Issues : /\ Posting(i) = {} /\ marks[i].seen = 0
                         /\ marks[i].adrift = 0 /\ marks[i].left = 0
    BY <1>5, <1>11, IdleTick DEF Posting
  <2>2. IsFiniteSet({}) /\ Cardinality({}) = 0
    BY FS_EmptySet
  <2>3. 0 <= 0 /\ 0 + 0 + 0 + MaxOverlaps <= 1 + MaxOverlaps + 0
    BY ConnectorBoundAssumption
  <2>4. \A i \in Issues : MarkRight(i)
    BY <1>9, <2>1, <2>2, <2>3 DEF MarkRight
  <2> QED BY <2>4 DEF MarksCounted
<1> QED BY <1>4, <1>11, <1>12, <1>13, <1>14, <1>15 DEF IInv

LEMMA Unmoved == IInv /\ UNCHANGED vars => IInv'
<1> SUFFICES ASSUME IInv, UNCHANGED vars PROVE IInv'
  OBVIOUS
<1>1. /\ UNCHANGED <<source, marks, progress, storeVars, ticketVars, budget>> /\ tick' = tick
  BY DEF vars, storeVars, ticketVars
<1> QED BY <1>1, DataKept, WorldKeeps

LEMMA StepKeeps ==
  ASSUME IInv, NEW w \in Workers, Step(w)
  PROVE  IInv'
<1>1. CASE Fetch(w)
  BY <1>1, FetchKeeps
<1>2. CASE Look(w)
  BY <1>2, LookKeeps
<1>3. CASE Submit(w)
  BY <1>3, SubmitKeeps
<1>4. CASE RecordIssue(w)
  BY <1>4, RecordIssueKeeps
<1>5. CASE ApplyLabel(w)
  BY <1>5, ApplyLabelKeeps
<1>6. CASE AddComment(w)
  BY <1>6, AddCommentKeeps
<1>7. CASE Observe(w)
  BY <1>7, ObserveKeeps
<1>8. CASE ReadEvents(w)
  BY <1>8, ReadEventsKeeps
<1>9. CASE CheckDelivery(w)
  BY <1>9, CheckDeliveryKeeps
<1>10. CASE ReadMarker(w)
  BY <1>10, ReadMarkerKeeps
<1>11. CASE Post(w)
  BY <1>11, PostKeeps
<1>12. CASE Put(w)
  BY <1>12, PutKeeps
<1>13. CASE RecordDelivery(w)
  BY <1>13, RecordDeliveryKeeps
<1>14. CASE Complete(w)
  BY <1>14, CompleteKeeps
<1>15. CASE Fail(w)
  BY <1>15, FailKeeps
<1> QED BY <1>1, <1>2, <1>3, <1>4, <1>5, <1>6, <1>7, <1>8, <1>9, <1>10, <1>11, <1>12, <1>13,
           <1>14, <1>15 DEF Step

LEMMA NextKeeps == IInv /\ [Next]_vars => IInv'
<1> SUFFICES ASSUME IInv, [Next]_vars PROVE IInv'
  OBVIOUS
<1>1. CASE UNCHANGED vars
  BY <1>1, Unmoved
<1>2. ASSUME NEW w \in Workers, Claim(w) PROVE IInv'
  BY <1>2, ClaimKeeps
<1>3. ASSUME NEW w \in Workers, Step(w) PROVE IInv'
  BY <1>3, StepKeeps
<1>4. ASSUME NEW w \in Workers, PostUnanswered(w) PROVE IInv'
  BY <1>4, PostUnansweredKeeps
<1>5. ASSUME NEW w \in Workers, PutUnanswered(w) PROVE IInv'
  BY <1>5, PutUnansweredKeeps
<1>6. ASSUME NEW w \in Workers, Raise(w) PROVE IInv'
  BY <1>6, RaiseKeeps
<1>7. ASSUME NEW w \in Workers, Crash(w) PROVE IInv'
  BY <1>7, CrashKeeps
<1>8. CASE Lapse
  BY <1>8, LapseKeeps
<1>9. ASSUME NEW i \in Issues, Edit(i) PROVE IInv'
  BY <1>9, EditKeeps
<1>10. ASSUME NEW i \in Issues, CloseTicket(i) PROVE IInv'
  BY <1>10, CloseTicketKeeps
<1>11. ASSUME NEW i \in Issues, LabelTicket(i) PROVE IInv'
  BY <1>11, LabelTicketKeeps
<1>12. ASSUME NEW i \in Issues, Acknowledge(i) PROVE IInv'
  BY <1>12, AcknowledgeKeeps
<1>13. ASSUME NEW i \in Issues, LandNote(i) PROVE IInv'
  BY <1>13, LandNoteKeeps
<1>14. ASSUME NEW i \in Issues, LandClose(i) PROVE IInv'
  BY <1>14, LandCloseKeeps
<1>15. ASSUME NEW i \in Issues, Bury(i) PROVE IInv'
  BY <1>15, BuryKeeps
<1> QED BY <1>1, <1>2, <1>3, <1>4, <1>5, <1>6, <1>7, <1>8, <1>9, <1>10, <1>11, <1>12, <1>13,
           <1>14, <1>15 DEF Next

\* In every reachable state of the connector, with any number of control workers that
\* claim, lose and outlive the lease (integrations/service.py, postgres.py): each tick's
\* page is as its pc says done, and the ticks without a lease are counted.
THEOREM ConnectorInvariant == Spec => []IInv
<1> QED BY Initially, NextKeeps, PTL DEF Spec

\* The rows, the provider's issues and the ticks are what their tables and records hold.
THEOREM ConnectorTypes == Spec => []TypeOK
<1>1. IInv => TypeOK
  <2> SUFFICES ASSUME IInv PROVE TypeOK
    OBVIOUS
  <2>1. \A w \in Workers : tick[w].pc \in Steps /\ tick[w].next \in Cursor
    BY DEF IInv, Types, TickSet
  <2> QED BY <2>1 DEF IInv, Types, DataTypes, TypeOK, IssueSet, MarkSet, TicketSet
<1> QED BY <1>1, ConnectorInvariant, PTL

\* The stored result of a version's key (the update command of integrations/service.py)
\* answers whoever comes with the version again: an issue's ticket has one comment for
\* each version at most, whatever ticks crash, are repeated or overlap.
THEOREM NoVersionTwice == Spec => []NoDuplicateUpdates
<1>1. IInv => NoDuplicateUpdates
  <2> SUFFICES ASSUME IInv PROVE NoDuplicateUpdates
    OBVIOUS
  <2>1. \A i \in Issues : DOMAIN tickets[i].comments = 1 .. Len(tickets[i].comments)
    BY LenProperties DEF IInv, Types, DataTypes, TicketSet
  <2> QED BY <2>1 DEF IInv, CommentsStored, NoDuplicateUpdates
<1> QED BY <1>1, ConnectorInvariant, PTL

\* The look for the marker before it is posted (connectors/gitlab/adapter.py) leaves room
\* for a second comment among those it can find only where a lease expired under a tick
\* that was between the two, or a comment was left under way that may land after it was
\* looked up as absent.
THEOREM MarksAreCounted == Spec => []OneMarkPerOwner
<1>1. IInv => OneMarkPerOwner
  <2> SUFFICES ASSUME IInv, NEW i \in Issues
               PROVE  marks[i].seen <= 1 + (MaxOverlaps - budget.overlap) + marks[i].left
    BY DEF OneMarkPerOwner
  <2>1. PICK m \in MarkSet : m = marks[i]
    BY DEF IInv, Types, DataTypes
  <2>2. /\ Cardinality(Posting(i)) \in Nat
        /\ m.seen + m.adrift + Cardinality(Posting(i)) + budget.overlap
             <= 1 + MaxOverlaps + m.left
    BY <2>1, FS_CardinalityType DEF IInv, MarksCounted, MarkRight
  <2>3. /\ m.seen \in Nat /\ m.adrift \in Nat /\ m.left \in Nat
        /\ budget.overlap \in Nat /\ MaxOverlaps \in Nat
    BY ConnectorBoundAssumption DEF IInv, Types, DataTypes, Purposes, MarkSet
  <2>4. m.seen <= 1 + (MaxOverlaps - budget.overlap) + m.left
    BY <2>2, <2>3
  <2> QED BY <2>1, <2>4
<1> QED BY <1>1, ConnectorInvariant, PTL

\* Only a completion under the lease moves the stored position, and to its own tick's.
Moved(w) ==
  /\ tick[w].pc = "complete" /\ progress.owner = w /\ progress.events <= tick[w].events
  /\ progress'.cursor = tick[w].next /\ progress'.events = tick[w].events
Stood == progress'.cursor = progress.cursor /\ progress'.events = progress.events

LEMMA OnlyCompletionMoves ==
  ASSUME IInv, Next
  PROVE  Stood \/ \E w \in Workers : Moved(w)
<1> DEFINE Rows == [cursor : Cursor, events : Nat, owner : Workers \union {NoWorker},
                    live : BOOLEAN]
<1>1. progress \in Rows
  BY DEF IInv, Types, DataTypes
<1>2. CASE progress' = progress
  BY <1>2 DEF Stood
<1>3. ASSUME NEW w \in Workers, Claim(w) PROVE Stood
  BY <1>1, <1>3 DEF Claim, Stood
<1>4. CASE Lapse
  BY <1>1, <1>4 DEF Lapse, Stood
<1>5. ASSUME NEW w \in Workers, Fail(w) PROVE Stood
  BY <1>1, <1>5 DEF Fail, Stood
<1>6. ASSUME NEW w \in Workers, Complete(w), progress' # progress PROVE Moved(w)
  <2>1. /\ tick[w].pc = "complete" /\ Holds(w) /\ progress.events <= tick[w].events
        /\ progress' = [progress EXCEPT !.cursor = tick[w].next, !.events = tick[w].events,
                                        !.owner = NoWorker, !.live = FALSE]
    BY <1>6 DEF Complete, At
  <2> QED BY <1>1, <2>1 DEF Moved, Holds
<1>7. ASSUME NEW w \in Workers, Step(w) PROVE Fail(w) \/ Complete(w) \/ progress' = progress
  BY <1>7 DEF Step, Fetch, Look, Submit, RecordIssue, ApplyLabel, AddComment, Observe,
              ReadEvents, CheckDelivery, ReadMarker, Post, Put, RecordDelivery
<1>8. ASSUME NEW w \in Workers, PostUnanswered(w) \/ PutUnanswered(w) \/ Raise(w) \/ Crash(w)
      PROVE  progress' = progress
  BY <1>8 DEF PostUnanswered, PutUnanswered, Raise, Crash
<1>9. ASSUME NEW i \in Issues,
             \/ LandNote(i) \/ LandClose(i) \/ Bury(i) \/ Edit(i)
             \/ CloseTicket(i) \/ LabelTicket(i) \/ Acknowledge(i)
      PROVE  progress' = progress
  BY <1>9 DEF LandNote, LandClose, Bury, Edit, CloseTicket, LabelTicket, Acknowledge
<1> QED BY <1>2, <1>3, <1>4, <1>5, <1>6, <1>7, <1>8, <1>9 DEF Next

\* The cursor of connector_sync_progress leaves a page only by the completion of a tick
\* that has recorded an observation of every issue on it.
THEOREM NoPageIsLeft == Spec => PagesAreFinished
<1>1. ASSUME IInv, Next, progress'.cursor # progress.cursor
      PROVE  \E w \in Workers :
               /\ At(w, "complete") /\ progress.owner = w
               /\ \A k \in DOMAIN tick[w].batch :
                    tick[w].batch[k].stamp \in observed[tick[w].batch[k].issue]
  <2>1. PICK w \in Workers : Moved(w)
    BY <1>1, OnlyCompletionMoves DEF Stood
  <2>2. DOMAIN tick[w].batch = 1 .. Len(tick[w].batch)
    BY <1>1, LenProperties DEF IInv, Types, TickSet
  <2>3. \A k \in 1 .. Len(tick[w].batch) : Finished(tick[w], k)
    BY <2>1 DEF Moved, Finished, Beyond
  <2> QED BY <1>1, <2>1, <2>2, <2>3 DEF IInv, TickRight, PageDone, Moved, At
<1>2. IInv /\ [Next]_vars =>
        [progress'.cursor # progress.cursor =>
           \E w \in Workers :
             /\ At(w, "complete") /\ progress.owner = w
             /\ \A k \in DOMAIN tick[w].batch :
                  tick[w].batch[k].stamp \in observed[tick[w].batch[k].issue]]_vars
  BY <1>1
<1> QED BY <1>2, ConnectorInvariant, PTL DEF Spec, PagesAreFinished

\* complete_tick stores a position that is not behind the one that was there, for the
\* time of the pages as for the project's events, whichever of several ticks completes.
THEOREM PositionIsKept == Spec => ProgressIsKept
<1>1. ASSUME IInv, Next
      PROVE  /\ progress'.cursor.since >= progress.cursor.since
             /\ progress'.events >= progress.events
  <2>1. progress.cursor.since \in Nat /\ progress.events \in Nat
    BY <1>1 DEF IInv, Types, DataTypes, Cursor
  <2>2. CASE Stood
    BY <2>1, <2>2 DEF Stood
  <2>3. ASSUME NEW w \in Workers, Moved(w)
        PROVE  /\ progress'.cursor.since >= progress.cursor.since
               /\ progress'.events >= progress.events
    <3>1. tick[w].next.since >= progress.cursor.since
      BY <1>1, <2>3 DEF IInv, TickRight, Ahead, Moved
    <3>2. tick[w].events \in Nat
      BY <1>1 DEF IInv, Types, TickSet
    <3> QED BY <2>1, <2>3, <3>1, <3>2 DEF Moved
  <2> QED BY <1>1, <2>2, <2>3, OnlyCompletionMoves
<1>2. IInv /\ [Next]_vars => [/\ progress'.cursor.since >= progress.cursor.since
                              /\ progress'.events >= progress.events]_vars
  BY <1>1
<1> QED BY <1>2, ConnectorInvariant, PTL DEF Spec, ProgressIsKept
=============================================================================
