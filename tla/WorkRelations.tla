---------------------------- MODULE WorkRelations ----------------------------
(***************************************************************************)
(* AddRelation of the Work component (work/_postgres_sql.py, execute_work; *)
(* work/_relations.py) for one of the relation kinds that are checked for  *)
(* cycles (parent_of, depends_on, blocks).  Each writer is a READ          *)
(* COMMITTED transaction that locks the two tickets of its relation in id  *)
(* order, compares the source's version, walks the committed relations     *)
(* from the target looking for the source, inserts, and commits.           *)
(***************************************************************************)
EXTENDS Naturals

CONSTANTS
  Writers,   \* threads that execute commands
  Tickets,   \* ticket ids
  Relations, \* pairs <<source, target>> that are asked for
  NoWriter

ASSUME TicketAssumption ==
  Tickets \subseteq Nat /\ Relations \subseteq Tickets \X Tickets /\ NoWriter \notin Writers

VARIABLES
  edges,    \* committed relations
  version,  \* [ticket -> its version]
  holder,   \* [ticket -> writer that has locked it]
  pc,       \* [writer -> "idle", "lock" or "insert"]
  asked,    \* [writer -> relation of its command]
  expected  \* [writer -> expected_version of its command]

relationVars == <<edges, version, holder, pc, asked, expected>>

RelationInit ==
  /\ edges = {}
  /\ version = [t \in Tickets |-> 1]
  /\ holder = [t \in Tickets |-> NoWriter]
  /\ pc = [w \in Writers |-> "idle"]
  /\ asked \in [Writers -> Relations]
  /\ expected = [w \in Writers |-> 0]

Source(w) == asked[w][1]
Target(w) == asked[w][2]

\* Mutant: only the ticket whose version changes is locked.
EndsOfSource(w) == {Source(w)}

Ends(w) == {Source(w), Target(w)}

\* t is in every set that holds s and whatever its members point to.
Reaches(s, t) ==
  \A S \in SUBSET Tickets :
    s \in S /\ (\A e \in edges : e[1] \in S => e[2] \in S) => t \in S

Unlock(w) == holder' = [t \in Tickets |-> IF holder[t] = w THEN NoWriter ELSE holder[t]]

Goto(w, step) == pc' = [pc EXCEPT ![w] = step]

\* A command arrives; its caller has read the source's version.
Ask(w, e) ==
  /\ pc[w] = "idle"
  /\ asked' = [asked EXCEPT ![w] = e]
  /\ expected' = [expected EXCEPT ![w] = version[e[1]]]
  /\ Goto(w, "lock")
  /\ UNCHANGED <<edges, version, holder>>

\* The tickets' durability heads and rows are locked in the same order; one lock
\* stands for both.
LockTicket(w, t) ==
  /\ pc[w] = "lock"
  /\ t \in Ends(w) /\ holder[t] = NoWriter
  /\ \A u \in Ends(w) : u < t => holder[u] = w
  /\ holder' = [holder EXCEPT ![t] = w]
  /\ UNCHANGED <<edges, version, pc, asked, expected>>

\* What the transaction refuses: a stale version, a cycle, a relation it has.
Refusable(w) ==
  \/ expected[w] # version[Source(w)]
  \/ Reaches(Target(w), Source(w))
  \/ asked[w] \in edges

CheckRelation(w) ==
  /\ pc[w] = "lock"
  /\ \A t \in Ends(w) : holder[t] = w
  /\ ~Refusable(w)
  /\ Goto(w, "insert")
  /\ UNCHANGED <<edges, version, holder, asked, expected>>

RefuseRelation(w) ==
  /\ pc[w] = "lock"
  /\ \A t \in Ends(w) : holder[t] = w
  /\ Refusable(w)
  /\ Unlock(w)
  /\ Goto(w, "idle")
  /\ UNCHANGED <<edges, version, asked, expected>>

CommitRelation(w) ==
  /\ pc[w] = "insert"
  /\ edges' = edges \cup {asked[w]}
  /\ version' = [version EXCEPT ![Source(w)] = @ + 1]
  /\ Unlock(w)
  /\ Goto(w, "idle")
  /\ UNCHANGED <<asked, expected>>

\* A cancelled statement or a lost connection; the command is executed again or
\* given up.
RollBack(w) ==
  /\ pc[w] # "idle"
  /\ Unlock(w)
  /\ Goto(w, "lock") \/ Goto(w, "idle")
  /\ UNCHANGED <<edges, version, asked, expected>>

WriterStep(w) ==
  \/ \E e \in Relations : Ask(w, e)
  \/ \E t \in Tickets : LockTicket(w, t)
  \/ CheckRelation(w) \/ RefuseRelation(w) \/ CommitRelation(w) \/ RollBack(w)

RelationNext == \E w \in Writers : WriterStep(w)

RelationSpec == RelationInit /\ [][RelationNext]_relationVars

-----------------------------------------------------------------------------
(* Properties                                                              *)

RelationTypeOK ==
  /\ edges \subseteq Relations
  /\ version \in [Tickets -> Nat]
  /\ holder \in [Tickets -> Writers \cup {NoWriter}]
  /\ pc \in [Writers -> {"idle", "lock", "insert"}]
  /\ asked \in [Writers -> Relations]
  /\ expected \in [Writers -> Nat]

\* Of the cycles, concurrent writers cannot close those through one, two or three
\* tickets: any two relations of such a cycle share a ticket and are serialized.
NoShortCycle ==
  /\ \A e \in edges : e[1] # e[2]
  /\ \A e, f \in edges : e[2] = f[1] => f[2] # e[1]
  /\ \A e, f, g \in edges : e[2] = f[1] /\ f[2] = g[1] => g[2] # e[1]

\* A relation waiting to be committed was checked against a graph that nobody
\* has changed around its two tickets since: their versions are those it saw and
\* none of their relations is new enough to close a cycle of two or three.
PendingStaysLegal ==
  \A w \in Writers : pc[w] = "insert" =>
    /\ \A t \in Ends(w) : holder[t] = w
    /\ expected[w] = version[Source(w)]
    /\ asked[w] \notin edges /\ Source(w) # Target(w)
    /\ <<Target(w), Source(w)>> \notin edges
    /\ \A e, f \in edges : ~(e[1] = Target(w) /\ e[2] = f[1] /\ f[2] = Source(w))
=============================================================================
