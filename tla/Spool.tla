-------------------------------- MODULE Spool --------------------------------
(***************************************************************************)
(* The encrypted offline spool of ctowerctl (ctowerctl/spool): a directory *)
(* tree of sealed, numbered records, a signed head and a signed recovery   *)
(* cursor, mutated by one flock-protected session at a time.  A session    *)
(* recovers the tree, then enqueues a command, drains the pending ones to  *)
(* the server in order, or applies the owner's retry, discard or           *)
(* compaction.  Every change of a command's state is a record written      *)
(* first and a file moved, or removed, afterwards; the process may die     *)
(* between any two of these steps and requests may reach the server late.  *)
(*                                                                         *)
(* A record written by rename is on disk as a whole or not at all; what a  *)
(* killed write leaves in tmp/ is kept as evidence (torn).  Hashes, keys   *)
(* and signatures are not modelled: a record is known by its sequence, and *)
(* a hash recorded elsewhere matches the record that had that sequence.    *)
(***************************************************************************)
EXTENDS Naturals, FiniteSets, Sequences, SequencesExt

CONSTANTS
  Commands,        \* client command ids
  NoCommand,       \* the command of a record that is not a command
  MaxLive,         \* SpoolConfig.max_live_commands
  ScanLimit,       \* SpoolConfig.max_scan_entries
  MaxEnqueues,     \* bound: commands that are enqueued
  MaxDispositions, \* bound: the owner's retries and discards
  MaxFaults        \* bound: sessions that die or end in an exception, replies that
                   \* are lost or temporary, and command files whose bytes rot

ASSUME SpoolAssumption ==
  /\ NoCommand \notin Commands
  /\ MaxLive \in Nat \ {0} /\ ScanLimit \in Nat /\ ScanLimit >= MaxLive
ASSUME SpoolBoundAssumption ==
  /\ MaxEnqueues \in Nat /\ MaxDispositions \in Nat /\ MaxFaults \in Nat

VARIABLES
  disk,      \* the records in pending/, accepted/, quarantine/ and anchors/
  head,      \* sequence of the control file "head"
  cursor,    \* the control file "recovery"
  torn,      \* temporary files that killed writes left, and what is kept of them
  session,   \* the session that holds the flock: [pc, rec]
  flight,    \* requests on their way to the server
  server,    \* [command -> what the server has stored under its key]
  executed,  \* sequences of the requests that executed, in that order
  budget     \* what is left of the bounds

diskVars   == <<disk, head, cursor, torn>>
serverVars == <<flight, server, executed>>
vars == <<disk, head, cursor, torn, session, flight, server, executed, budget>>

Kinds == {"command", "accepted_receipt", "quarantine_receipt", "retry", "discard",
          "corrupt_disposition", "anchor"}
Directories == {"pending", "accepted", "quarantine", "anchors"}
Record == [seq : Nat, kind : Kinds, dir : Directories, cmd : Commands \union {NoCommand},
           target : Nat, rotten : BOOLEAN]
NoRecord == [seq |-> 0, kind |-> "command", dir |-> "pending", cmd |-> NoCommand,
             target |-> 0, rotten |-> FALSE]

-----------------------------------------------------------------------------
(* What the files say. *)

LastSeq == IF disk = {} THEN 0 ELSE Max({r.seq : r \in disk})
OfKind(kinds) == {r \in disk : r.kind \in kinds}
Cmds == {r \in disk : r.kind = "command" /\ ~r.rotten}
In(directory) == {r \in Cmds : r.dir = directory}
First(R) == CHOOSE r \in R : \A q \in R : r.seq <= q.seq

\* Commands whose ciphertext does not open and that no disposition settles.
ActiveCorrupt ==
  {r \in disk : r.rotten /\ ~\E d \in OfKind({"corrupt_disposition"}) : d.target = r.seq}

\* Records in front of the last compaction anchor are to be deleted.
Covered ==
  LET anchors == OfKind({"anchor"})
  IN {r \in disk : \E a \in anchors : r.seq < a.seq /\ \A b \in anchors : b.seq <= a.seq}

\* Where a command's receipts and dispositions leave it, and from where they take it.
From == [accepted_receipt |-> "pending", quarantine_receipt |-> "pending",
         retry |-> "quarantine", discard |-> "quarantine"]
To == [accepted_receipt |-> "accepted", quarantine_receipt |-> "quarantine",
       retry |-> "pending", discard |-> "discarded"]
History(s) == {r \in disk : r.kind \in DOMAIN From /\ r.target = s}
Outcome(receipts) ==
  IF receipts = {} THEN "pending"
  ELSE To[(CHOOSE r \in receipts : \A q \in receipts : q.seq <= r.seq).kind]
StateOf(s) == Outcome(History(s))
StateBefore(s, n) == Outcome({r \in History(s) : r.seq < n})

Present(s) == \E r \in Cmds : r.seq = s
Tombstone(s) == \E r \in disk : r.kind = "discard" /\ r.target = s

\* The checks of recovery, in the order in which it makes them.  What killed writes left is
\* in quarantine/ by then, where it counts against the limit of a directory.
ScanFits ==
  /\ Cardinality({r \in disk : r.dir = "quarantine"}) + torn <= ScanLimit
  /\ \/ Cardinality(disk) <= ScanLimit
     \/ (Cardinality(disk) = ScanLimit + 1 /\ OfKind({"anchor"}) # {})
  /\ \A r, q \in disk : r.seq = q.seq => r = q

Start ==
  IF disk # {} /\ First(disk).kind = "anchor" THEN First(disk).seq ELSE 1
ChainHolds ==
  /\ \A s \in Start..LastSeq : (\E r \in disk : r.seq = s) \/ Tombstone(s)
  /\ head <= LastSeq /\ (head = 0 \/ head >= Start)
  /\ \/ cursor.seq \in {0} \union Start..LastSeq
     \/ \E a \in OfKind({"anchor"}) : a.target = cursor.seq
  /\ \A r \in disk : r.rotten =>
       \/ \E q \in disk : q.seq = r.seq + 1 /\ ~q.rotten
       \/ head = r.seq

TransitionsHold ==
  \A r \in OfKind(DOMAIN From) :
    \/ Present(r.target) /\ StateBefore(r.target, r.seq) = From[r.kind]
    \/ ~Present(r.target) /\ r.kind = "discard"
    \/ ~Present(r.target) /\ r.kind = "quarantine_receipt" /\ Tombstone(r.target)

CursorNow == [seq |-> head, dirs |-> {<<r.seq, r.dir>> : r \in Cmds}]

-----------------------------------------------------------------------------
Init ==
  /\ disk = {} /\ head = 0
  /\ cursor = [seq |-> 0, dirs |-> {}]
  /\ torn = 0
  /\ session = [pc |-> "closed", rec |-> NoRecord]
  /\ flight = {}
  /\ server = [c \in Commands |-> "none"]
  /\ executed = <<>>
  /\ budget = [enqueue |-> MaxEnqueues, dispose |-> MaxDispositions, fault |-> MaxFaults]

At(pc) == session.pc = pc
Goto(pc) == session' = [session EXCEPT !.pc = pc]
Spend(what) == budget[what] > 0 /\ budget' = [budget EXCEPT ![what] = @ - 1]

Move(s, directory) ==
  disk' = {IF r.kind = "command" /\ r.seq = s THEN [r EXCEPT !.dir = directory] ELSE r
           : r \in disk}
Delete(r) == disk' = disk \ {r}

\* Session.append up to the rename of the sealed record; WriteHead is its second half.
AppendRecord(kind, directory, cmd, target) ==
  LET rec == [seq |-> head + 1, kind |-> kind, dir |-> directory, cmd |-> cmd,
              target |-> target, rotten |-> FALSE]
  IN /\ disk' = disk \union {rec}
     /\ session' = [pc |-> "appended", rec |-> rec]
     /\ UNCHANGED <<head, cursor, torn>>

-----------------------------------------------------------------------------
(* recover_session *)

Open ==
  /\ At("closed") /\ ScanFits
  /\ disk' = {IF r.rotten THEN [r EXCEPT !.dir = "quarantine"] ELSE r : r \in disk}
  /\ Goto("scanned")
  /\ UNCHANGED <<head, cursor, torn, serverVars, budget>>

RecoverCompaction ==
  /\ (At("scanned") /\ head = LastSeq) \/ At("chained")
  /\ Covered # {}
  /\ Delete(First(Covered))
  /\ UNCHANGED <<head, cursor, torn, session, serverVars, budget>>

\* Mutant: a head that lags its records is tolerated and not written again.
RecoverHeadAsRead ==
  /\ At("scanned") /\ (head = LastSeq => Covered = {}) /\ ChainHolds
  /\ Goto("chained")
  /\ UNCHANGED <<diskVars, serverVars, budget>>

\* The head takes in a record whose writer died before it wrote the head.
RecoverHead ==
  /\ At("scanned") /\ (head = LastSeq => Covered = {}) /\ ChainHolds
  /\ head' = LastSeq
  /\ Goto("chained")
  /\ UNCHANGED <<disk, cursor, torn, serverVars, budget>>

TrustCursor ==
  /\ At("chained") /\ Covered = {} /\ cursor = CursorNow
  /\ Goto("ready")
  /\ UNCHANGED <<diskVars, serverVars, budget>>

ReplayTransitions ==
  /\ At("chained") /\ Covered = {} /\ cursor # CursorNow /\ TransitionsHold
  /\ Goto("repairing")
  /\ UNCHANGED <<diskVars, serverVars, budget>>

Misplaced == {r \in Cmds : StateOf(r.seq) # r.dir}
RepairTransition ==
  /\ At("repairing") /\ Misplaced # {}
  /\ LET r == First(Misplaced)
     IN IF StateOf(r.seq) = "discarded" THEN Delete(r) ELSE Move(r.seq, StateOf(r.seq))
  /\ UNCHANGED <<head, cursor, torn, session, serverVars, budget>>

CheckpointRecovery ==
  /\ At("repairing") /\ Misplaced = {}
  /\ cursor' = CursorNow
  /\ Goto("ready")
  /\ UNCHANGED <<disk, head, torn, serverVars, budget>>

\* The session ends with an error: the chain or the transitions do not hold.
Refuse ==
  /\ \/ At("scanned") /\ (head = LastSeq => Covered = {}) /\ ~ChainHolds
     \/ At("chained") /\ Covered = {} /\ cursor # CursorNow /\ ~TransitionsHold
  /\ Goto("closed")
  /\ UNCHANGED <<diskVars, serverVars, budget>>

-----------------------------------------------------------------------------
(* Operations of an open session *)

Live == In("pending") \union In("quarantine") \union ActiveCorrupt

Enqueue(c) ==
  /\ At("ready") /\ ActiveCorrupt = {}
  /\ \A r \in Cmds : r.cmd # c
  /\ Cardinality(Live) < MaxLive
  /\ Spend("enqueue")
  /\ AppendRecord("command", "pending", c, 0)
  /\ UNCHANGED serverVars

Retry(r) ==
  /\ At("ready") /\ ActiveCorrupt = {} /\ r.dir = "quarantine"
  /\ Spend("dispose")
  /\ AppendRecord("retry", "quarantine", NoCommand, r.seq)
  /\ UNCHANGED serverVars

Discard(r) ==
  /\ At("ready") /\ ActiveCorrupt = {} /\ r.dir = "quarantine"
  /\ Spend("dispose")
  /\ AppendRecord("discard", "quarantine", NoCommand, r.seq)
  /\ UNCHANGED serverVars

DisposeCorrupt(r) ==
  /\ At("ready")
  /\ Spend("dispose")
  /\ AppendRecord("corrupt_disposition", "quarantine", NoCommand, r.seq)
  /\ UNCHANGED serverVars

\* The receipts may or may not be older than the horizon.
CompactAccepted ==
  /\ At("ready") /\ torn = 0 /\ ActiveCorrupt = {}
  /\ Cmds = In("accepted")
  /\ OfKind({"accepted_receipt"}) # {}
  /\ disk = OfKind({"anchor", "command", "accepted_receipt"}) /\ \A r \in disk : ~r.rotten
  /\ AppendRecord("anchor", "anchors", NoCommand, LastSeq)
  /\ UNCHANGED <<serverVars, budget>>

WriteHead ==
  /\ At("appended")
  /\ head' = session.rec.seq
  /\ Goto(IF session.rec.kind \in {"command", "corrupt_disposition"} THEN "closing" ELSE "moving")
  /\ UNCHANGED <<disk, cursor, torn, serverVars, budget>>

\* What follows a durable receipt, disposition or anchor.
Settle ==
  LET rec == session.rec
  IN /\ At("moving")
     /\ \/ rec.kind = "anchor" /\ Covered # {} /\ Delete(First(Covered)) /\ UNCHANGED session
        \/ rec.kind = "anchor" /\ Covered = {} /\ UNCHANGED disk /\ Goto("ready")
        \/ /\ rec.kind = "discard"
           /\ disk' = {r \in disk : r.seq # rec.target} /\ Goto("closing")
        \/ rec.kind = "accepted_receipt" /\ Move(rec.target, "accepted") /\ Goto("draining")
        \/ /\ rec.kind \in {"quarantine_receipt", "retry"}
           /\ Move(rec.target, To[rec.kind]) /\ Goto("closing")
     /\ UNCHANGED <<head, cursor, torn, serverVars, budget>>

\* Every session writes the cursor as it ends, unless its head is unchanged.
Close ==
  /\ At("ready") \/ At("closing")
  /\ cursor' = IF cursor.seq = head THEN cursor ELSE CursorNow
  /\ session' = [pc |-> "closed", rec |-> NoRecord]
  /\ UNCHANGED <<disk, head, torn, serverVars, budget>>

-----------------------------------------------------------------------------
(* drain_session *)

\* Mutant: quarantined commands do not hold back those behind them.
StartDrainPastBarrier ==
  /\ At("ready") /\ ActiveCorrupt = {} /\ In("pending") # {}
  /\ Goto("draining")
  /\ UNCHANGED <<diskVars, serverVars, budget>>

\* Mutant: every command in front of the first pending one counts as a barrier.
StartDrainAtHead ==
  /\ At("ready") /\ ActiveCorrupt = {} /\ In("pending") # {}
  /\ \A r \in Cmds : First(In("pending")).seq <= r.seq
  /\ Goto("draining")
  /\ UNCHANGED <<diskVars, serverVars, budget>>

StartDrain ==
  /\ At("ready") /\ ActiveCorrupt = {} /\ In("pending") # {}
  /\ \A b \in In("quarantine") : First(In("pending")).seq < b.seq
  /\ Goto("draining")
  /\ UNCHANGED <<diskVars, serverVars, budget>>

\* The identity binding differs, or the command has expired: nothing is sent.
RefuseLocally ==
  /\ At("draining") /\ In("pending") # {}
  /\ AppendRecord("quarantine_receipt", "quarantine", NoCommand, First(In("pending")).seq)
  /\ UNCHANGED <<serverVars, budget>>

Send ==
  /\ At("draining") /\ In("pending") # {}
  /\ LET r == First(In("pending"))
     IN /\ flight' = flight \union {[cmd |-> r.cmd, seq |-> r.seq]}
        /\ session' = [pc |-> "sending", rec |-> r]
  /\ UNCHANGED <<diskVars, server, executed, budget>>

Drained ==
  /\ At("draining") /\ In("pending") = {}
  /\ Goto("closing")
  /\ UNCHANGED <<diskVars, serverVars, budget>>

\* A lost connection, a timeout, 408, 425, 429 or 5xx: the command stays pending.
ReplyLost ==
  /\ At("sending") /\ Spend("fault")
  /\ Goto("closing")
  /\ UNCHANGED <<diskVars, serverVars>>

Accept ==
  /\ At("accepted")
  /\ AppendRecord("accepted_receipt", "accepted", NoCommand, session.rec.seq)
  /\ UNCHANGED <<serverVars, budget>>

Quarantine ==
  /\ At("rejected")
  /\ AppendRecord("quarantine_receipt", "quarantine", NoCommand, session.rec.seq)
  /\ UNCHANGED <<serverVars, budget>>

-----------------------------------------------------------------------------
(* The server, and what it answers a client that still waits *)

Waiting(m) == At("sending") /\ session.rec.seq = m.seq
Answer(m, decision) ==
  IF Waiting(m) THEN Goto(decision) ELSE UNCHANGED session

\* Mutant: any 2xx answer archives the command.
DecisionByStatus == [accepted |-> "accepted", pending |-> "accepted", refused |-> "rejected"]

\* classify: an answer 202 durability_pending keeps the command, a refusal quarantines it.
Decision == [accepted |-> "accepted", pending |-> "closing", refused |-> "rejected"]

Handle(m) ==
  /\ flight' = flight \ {m}
  /\ IF server[m.cmd] = "none"
     THEN \/ \E state \in {"pending", "accepted"} :
               /\ server' = [server EXCEPT ![m.cmd] = state]
               /\ executed' = Append(executed, m.seq)
               /\ Answer(m, Decision[state])
          \/ /\ server' = [server EXCEPT ![m.cmd] = "refused"]
             /\ UNCHANGED executed
             /\ Answer(m, "rejected")
          \/ /\ UNCHANGED <<server, executed>>      \* refused before its key is stored
             /\ Answer(m, "rejected")
     ELSE /\ UNCHANGED <<server, executed>>
          /\ Answer(m, Decision[server[m.cmd]])
  /\ UNCHANGED <<diskVars, budget>>

BecomeDurable(c) ==
  /\ server[c] = "pending"
  /\ server' = [server EXCEPT ![c] = "accepted"]
  /\ UNCHANGED <<diskVars, session, flight, executed, budget>>

-----------------------------------------------------------------------------
(* Faults *)

Crash ==
  /\ ~At("closed") /\ Spend("fault")
  /\ session' = [pc |-> "closed", rec |-> NoRecord]
  /\ torn' \in {torn, torn + 1}
  /\ UNCHANGED <<disk, head, cursor, serverVars>>

Rot(r) ==
  /\ At("closed") /\ r.dir # "accepted" /\ Spend("fault")
  /\ disk' = (disk \ {r}) \union {[r EXCEPT !.rotten = TRUE]}
  /\ UNCHANGED <<head, cursor, torn, session, serverVars>>

-----------------------------------------------------------------------------
Recover ==
  \/ RecoverCompaction \/ RecoverHead \/ TrustCursor
  \/ ReplayTransitions \/ RepairTransition \/ CheckpointRecovery \/ Refuse
Drain ==
  \/ StartDrain \/ RefuseLocally \/ Send \/ Drained \/ Accept \/ Quarantine
Owner ==
  \/ \E c \in Commands : Enqueue(c)
  \/ \E r \in Cmds : Retry(r) \/ Discard(r)
  \/ \E r \in ActiveCorrupt : DisposeCorrupt(r)
  \/ CompactAccepted
Network ==
  \/ ReplyLost
  \/ \E m \in flight : Handle(m)
  \/ \E c \in Commands : BecomeDurable(c)

Next ==
  \/ Open \/ Recover \/ Owner \/ WriteHead \/ Settle \/ Close \/ Drain \/ Network
  \/ Crash \/ \E r \in Cmds : Rot(r)

\* A session runs to its end unless it dies, its owner drains again and again, and
\* the server answers what it was sent and makes what it executed durable.
Fairness ==
  /\ WF_vars(Open) /\ WF_vars(Recover) /\ WF_vars(WriteHead \/ Settle \/ Close)
  /\ WF_vars(Drain) /\ SF_vars(StartDrain)
  /\ WF_vars(\E m \in flight : Handle(m))
  /\ \A c \in Commands : WF_vars(BecomeDurable(c))

Spec == Init /\ [][Next]_vars
FairSpec == Spec /\ Fairness

-----------------------------------------------------------------------------
(* Properties *)

TypeOK ==
  /\ disk \subseteq Record /\ head \in Nat /\ torn \in Nat
  /\ cursor.seq \in Nat /\ cursor.dirs \subseteq Nat \X Directories
  /\ session.pc \in {"closed", "scanned", "chained", "repairing", "ready", "appended",
                      "moving", "draining", "sending", "accepted", "rejected", "closing"}
  /\ session.rec \in Record
  /\ flight \subseteq [cmd : Commands, seq : Nat]
  /\ server \in [Commands -> {"none", "pending", "accepted", "refused"}]
  /\ executed \in Seq(Nat)
  /\ budget \in [{"enqueue", "dispose", "fault"} -> Nat]

\* The queue as the durable records state it, at every moment: what recovery would
\* make of the tree if the process died now (interface.py, "Durably append a stable
\* command before any caller may send it").
Listed ==
  {r \in disk : /\ r.kind = "command" /\ r \notin Covered /\ ~Tombstone(r.seq)
                /\ r.rotten => r \in ActiveCorrupt}
Entry(r) ==
  [number |-> r.seq, cmd |-> r.cmd, state |-> IF r.rotten THEN "corrupt" ELSE StateOf(r.seq)]
Entries == {Entry(r) : r \in Listed}
Queue == INSTANCE SpoolQueue
  WITH entries <- Entries, accepted <- {c \in Commands : server[c] = "accepted"}

\* Whatever dies between two steps, the spool on disk is a queue that loses, repeats
\* and reorders nothing (interface.py, enqueue and drain; _recovery.py).
ImplementsQueue == Queue!Spec

\* The server executes commands in the order in which they were enqueued, late
\* requests included; only one the owner has dropped may come out of turn
\* (_replay.py, "Replay globally in order").
Dropped(s) ==
  \E r \in OfKind({"discard", "corrupt_disposition"}) : r.target = s
ExecutedInOrder ==
  \A i, j \in DOMAIN executed :
    i < j /\ executed[i] > executed[j] => Dropped(executed[j])

\* The recovery of the session raises: the files do not fit or do not chain, or the
\* transitions cannot be replayed (_recovery.py, "deterministic crash recovery").
Refusing ==
  \/ At("closed") /\ ~ScanFits
  \/ At("scanned") /\ (head = LastSeq => Covered = {}) /\ ~ChainHolds
  \/ At("chained") /\ Covered = {} /\ cursor # CursorNow /\ ~TransitionsHold

\* It refuses in these cases only: a command was retried and later discarded; a
\* command's file rotted after a receipt or disposition of it; neither the file behind
\* a rotten one nor the head confirms its hash; there are too many files.
RetriedAndDiscarded ==
  \E r \in OfKind({"retry"}) : Tombstone(r.target)
RottedLate ==
  \E r \in disk : r.rotten /\ ( \/ History(r.seq) # {}
                              \/ /\ head # r.seq
                                 /\ ~\E q \in disk : q.seq = r.seq + 1 /\ ~q.rotten )
OpensUnlessKnown ==
  Refusing => RetriedAndDiscarded \/ RottedLate \/ Cardinality(disk) + torn > ScanLimit

\* A pending command is settled, or the spool visibly holds it back: behind a
\* quarantined or corrupt entry, or by refusing to open.
Pending(c) == \E e \in Entries : e.cmd = c /\ e.state = "pending"
HeldBack ==
  \/ Refusing
  \/ ActiveCorrupt # {}
  \/ \E e \in Entries : e.state = "quarantine"
PendingSettles == \A c \in Commands : []<>(Pending(c) => HeldBack)
=============================================================================
