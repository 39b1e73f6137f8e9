---------------------------- MODULE Spool_proofs ----------------------------
(***************************************************************************)
(* Proofs about Spool for any number of commands, enqueues, dispositions   *)
(* and faults: the server executes commands in the order in which they     *)
(* were enqueued, the files implement SpoolQueue, and recovery opens them. *)
(*                                                                         *)
(* The invariant speaks of the records on disk, not of the steps of a      *)
(* session: whatever was ever sent is not behind a command that is still   *)
(* unsettled (SentInFront), and a request that may still execute belongs   *)
(* to one that is unsettled or dropped (OnTheWay).  A session may rely on  *)
(* the directories only after recovery has brought them in line with the   *)
(* receipts (Places).                                                      *)
(***************************************************************************)
EXTENDS Spool, FiniteSetTheorems, FunctionTheorems, SequenceTheorems, WellFoundedInduction, TLAPS

-----------------------------------------------------------------------------
(* The invariant.                                                          *)

Steps == {"closed", "scanned", "chained", "repairing", "ready", "appended", "moving",
          "draining", "sending", "accepted", "rejected", "closing"}
Decisions == {"none", "pending", "accepted", "refused"}
Receipts == {"accepted_receipt", "quarantine_receipt", "retry", "discard"}
Outcomes == {"pending", "accepted", "quarantine", "discarded"}
Purposes == {"enqueue", "dispose", "fault"}

Types ==
  /\ disk \subseteq Record /\ head \in Nat /\ torn \in Nat
  /\ cursor \in [seq : Nat, dirs : SUBSET (Nat \X Directories)]
  /\ session \in [pc : Steps, rec : Record]
  /\ flight \subseteq [cmd : Commands, seq : Nat]
  /\ server \in [Commands -> Decisions] /\ executed \in Seq(Nat)
  /\ budget \in [Purposes -> Nat]

\* What is sealed about commands, and the commands themselves.
Papers == {r \in disk : r.kind # "command"}
Letters == {r \in disk : r.kind = "command"}

\* Every record has a number of its own; only commands rot.
Numbered ==
  /\ \A r, q \in disk : r.seq = q.seq => r = q
  /\ \A r \in disk : r.rotten => r.kind = "command"
  /\ \A r \in Letters : r.cmd \in Commands

\* Receipts and dispositions are about earlier commands, and a corrupt command is
\* disposed of only when it is corrupt.
Targets ==
  \A p \in OfKind(Receipts \union {"corrupt_disposition"}) :
    /\ p.target < p.seq
    /\ \A r \in disk : r.seq = p.target =>
         r.kind = "command" /\ (p.kind = "corrupt_disposition" => r.rotten)

\* A discard is the last that is said of a command.
DiscardIsLast == \A r \in Letters : Tombstone(r.seq) => StateOf(r.seq) = "discarded"

\* In front of an anchor there are only accepted commands and their receipts.
Compacted ==
  \A a \in OfKind({"anchor"}) : \A r \in disk : r.seq < a.seq =>
    /\ r.kind \in {"anchor", "command", "accepted_receipt"}
    /\ r.kind = "command" => StateOf(r.seq) = "accepted"

\* One command at most is in quarantine, and it is in front of all that are pending.
Barrier ==
  \A q, p \in Cmds : StateOf(q.seq) = "quarantine" =>
    /\ StateOf(p.seq) = "pending" => q.seq < p.seq
    /\ StateOf(p.seq) = "quarantine" => q = p

OnDisk ==
  Numbered /\ Targets /\ DiscardIsLast /\ Compacted /\ Barrier

\* What the server has executed is what the receipts say; a request carries the
\* command of its record.
Acknowledged ==
  \A p \in OfKind({"accepted_receipt"}) : \A r \in Letters :
    r.seq = p.target => server[r.cmd] = "accepted"
Requested ==
  \A m \in flight : \A r \in disk : r.seq = m.seq => r.kind = "command" /\ r.cmd = m.cmd

Sent == {m.seq : m \in flight} \union {executed[i] : i \in DOMAIN executed}
Unsettled == {r \in Letters : ~Dropped(r.seq) /\ StateOf(r.seq) \in {"pending", "quarantine"}}

\* Nothing that was sent is behind an unsettled command ...
SentInFront == \A r \in Unsettled : \A s \in Sent : s <= r.seq
\* ... and what may still execute is an unsettled command or a dropped one.
OnTheWay ==
  \A m \in flight : server[m.cmd] = "none" /\ ~Dropped(m.seq) =>
    \E r \in Unsettled : r.seq = m.seq

AtServer == Acknowledged /\ Requested /\ SentInFront /\ OnTheWay /\ ExecutedInOrder

\* The numbers the head knows.
Chained == {"chained", "repairing", "ready", "moving", "draining", "sending", "accepted",
            "rejected", "closing"}
HeadKnown ==
  /\ \A r \in disk : r.seq <= head + 1
  /\ session.pc \in Chained => \A r \in disk : r.seq <= head
  /\ \A s \in Sent : s <= head
  /\ cursor.seq <= head

\* The record that was just appended is the last one.
AtWork == {"ready", "draining", "sending", "accepted", "rejected", "closing"}
Settling == session.pc \in {"appended", "moving"}
LastWritten ==
  /\ Settling => session.rec \in disk
  /\ At("appended") => /\ session.rec.seq = head + 1
                       /\ \A r \in disk : r # session.rec => r.seq <= head
  /\ At("moving") => /\ session.rec.seq = head
                     /\ session.rec.kind \in Receipts \union {"anchor"}

\* Commands are in the directories where their receipts say they are, after
\* recovery and but for the one that is being settled.
Placed(R) == \A r \in R : r.dir = StateOf(r.seq)
Places ==
  /\ session.pc \in AtWork => Placed(Cmds)
  /\ Settling =>
       IF session.rec.kind \in Receipts
       THEN /\ Placed({r \in Cmds : r.seq # session.rec.target})
            /\ StateOf(session.rec.target) = To[session.rec.kind]
       ELSE Placed(Cmds)

\* A cursor that knows the last record knows where the commands belong.
CursorRight ==
  (\A r \in disk : r.seq <= cursor.seq) =>
    \A r \in Cmds, d \in Directories : <<r.seq, d>> \in cursor.dirs => d = StateOf(r.seq)

\* A drain works on the first pending command, with nothing that holds it back.
Draining == {"draining", "sending", "accepted", "rejected"}
Drains ==
  /\ session.pc \in Draining \/ (Settling /\ session.rec.kind = "accepted_receipt") =>
       ActiveCorrupt = {} /\ In("quarantine") = {}
  /\ session.pc \in Draining \ {"draining"} =>
       session.rec \in In("pending") /\ \A r \in In("pending") : session.rec.seq <= r.seq
  /\ At("accepted") => server[session.rec.cmd] = "accepted"

InSession == HeadKnown /\ LastWritten /\ Places /\ CursorRight /\ Drains

\* The inductive invariant.
IInv == Types /\ OnDisk /\ AtServer /\ InSession
-----------------------------------------------------------------------------
(* Records and their numbers.                                              *)

\* A set of numbers that has a member has a least one, and one below a bound a
\* highest.
LEMMA LeastNumber ==
  ASSUME NEW S \in SUBSET Nat, S # {}
  PROVE  \E n \in S : \A m \in S : n <= m
<1>1. PICK n \in S : \A m \in S : <<m, n>> \notin OpToRel(<, Nat)
  BY NatLessThanWellFounded, WFMin
<1>2. \A m \in S : ~(m < n)
  BY <1>1 DEF OpToRel
<1> QED BY <1>2

LEMMA HighestNumber ==
  ASSUME NEW S \in SUBSET Nat, S # {}, NEW b \in Nat, \A n \in S : n <= b
  PROVE  \E n \in S : \A m \in S : m <= n
<1> DEFINE D == {b - n : n \in S}
<1>1. D \in SUBSET Nat /\ D # {}
  <2>1. \A n \in S : n \in Nat /\ n <= b
    OBVIOUS
  <2>2. \A n \in S : b - n \in Nat
    BY <2>1
  <2> QED BY <2>2
<1>2. PICK d \in D : \A e \in D : d <= e
  BY <1>1, LeastNumber
<1>3. PICK n \in S : d = b - n
  BY <1>2
<1>4. \A m \in S : b - m \in D /\ b - n <= b - m
  BY <1>2, <1>3
<1> QED BY <1>4

\* What a record is made of.
LEMMA RecordParts ==
  ASSUME NEW r \in Record
  PROVE  /\ r.seq \in Nat /\ r.kind \in Kinds /\ r.dir \in Directories
         /\ r.cmd \in Commands \union {NoCommand} /\ r.target \in Nat /\ r.rotten \in BOOLEAN
BY DEF Record

\* First is the record with the least number.
LEMMA FirstIsLeast ==
  ASSUME Types, NEW R \in SUBSET disk, R # {}
  PROVE  First(R) \in R /\ \A q \in R : First(R).seq <= q.seq
<1> DEFINE S == {r.seq : r \in R}
<1>1. S \in SUBSET Nat /\ S # {}
  BY RecordParts DEF Types
<1>2. PICK n \in S : \A m \in S : n <= m
  BY <1>1, LeastNumber
<1>3. \E r \in R : \A q \in R : r.seq <= q.seq
  BY <1>2
<1> QED BY <1>3 DEF First

-----------------------------------------------------------------------------
(* The state of a command.                                                 *)

LEMMA ReceiptKinds ==
  /\ DOMAIN From = Receipts
  /\ To["accepted_receipt"] = "accepted" /\ To["quarantine_receipt"] = "quarantine"
  /\ To["retry"] = "pending" /\ To["discard"] = "discarded"
BY DEF From, To, Receipts

\* The state is the one after the last receipt.
LEMMA LastDecides ==
  ASSUME NEW R \in SUBSET Record, \A r, q \in R : r.seq = q.seq => r = q,
         NEW p \in R, \A q \in R : q.seq <= p.seq
  PROVE  Outcome(R) = To[p.kind]
<1>1. ASSUME NEW q \in R, \A r \in R : r.seq <= q.seq PROVE q = p
  <2>1. q.seq <= p.seq /\ p.seq <= q.seq
    BY <1>1
  <2>2. q.seq \in Nat /\ p.seq \in Nat
    BY RecordParts
  <2> QED BY <2>1, <2>2
<1>2. (CHOOSE q \in R : \A r \in R : r.seq <= q.seq) = p
  BY <1>1
<1> QED BY <1>2 DEF Outcome

\* There is a last receipt, if there is one at all.
LEMMA LastReceipt ==
  ASSUME Types, HeadKnown, NEW s, History(s) # {}
  PROVE  \E p \in History(s) : \A q \in History(s) : q.seq <= p.seq
<1> DEFINE S == {p.seq : p \in History(s)}
<1>1. History(s) \subseteq disk
  BY DEF History
<1>2. S \in SUBSET Nat /\ S # {} /\ head + 1 \in Nat /\ \A n \in S : n <= head + 1
  BY <1>1, RecordParts DEF Types, HeadKnown
<1>3. PICK n \in S : \A m \in S : m <= n
  BY <1>2, HighestNumber
<1> QED BY <1>3

\* The states there are, and what has happened when a command was discarded.
LEMMA StateKnown ==
  ASSUME Types, Numbered, HeadKnown, NEW s
  PROVE  /\ StateOf(s) \in Outcomes
         /\ StateOf(s) = "discarded" => Tombstone(s)
         /\ History(s) = {} => StateOf(s) = "pending"
<1>1. CASE History(s) = {}
  BY <1>1 DEF StateOf, Outcome, Outcomes
<1>2. CASE History(s) # {}
  <2>1. PICK p \in History(s) : \A q \in History(s) : q.seq <= p.seq
    BY <1>2, LastReceipt
  <2>2. StateOf(s) = To[p.kind]
    <3>1. History(s) \subseteq disk
      BY DEF History
    <3> QED BY <2>1, <3>1, LastDecides DEF StateOf, Types, Numbered
  <2>3. p \in disk /\ p.kind \in Receipts /\ p.target = s
    BY ReceiptKinds DEF History
  <2>4. StateOf(s) \in Outcomes /\ (StateOf(s) = "discarded" => p.kind = "discard")
    BY <2>2, <2>3, ReceiptKinds DEF Outcomes, Receipts
  <2> QED BY <1>2, <2>3, <2>4 DEF Tombstone
<1> QED BY <1>1, <1>2

-----------------------------------------------------------------------------
(* Changes of the files.                                                   *)

LEMMA DiskParts ==
  ASSUME Types
  PROVE  /\ disk = Papers \union Letters /\ Papers \intersect Letters = {}
         /\ \A r \in disk : r \in Record
         /\ Cmds \subseteq Letters /\ Letters \subseteq disk
BY DEF Types, Papers, Letters, Cmds, OfKind

\* What says of a command where it is: receipts, dispositions and anchors.
LEMMA PapersDecide ==
  ASSUME NEW kinds \in SUBSET (Kinds \ {"command"})
  PROVE  /\ OfKind(kinds) = {p \in Papers : p.kind \in kinds}
         /\ OfKind(kinds)' = {p \in Papers' : p.kind \in kinds}
BY DEF OfKind, Papers, Kinds

LEMMA HistoryIsPapers ==
  ASSUME NEW s
  PROVE  /\ History(s) = {p \in Papers : p.kind \in Receipts /\ p.target = s}
         /\ History(s)' = {p \in Papers' : p.kind \in Receipts /\ p.target = s}
         /\ Tombstone(s) <=> \E p \in Papers : p.kind = "discard" /\ p.target = s
         /\ Tombstone(s)' <=> \E p \in Papers' : p.kind = "discard" /\ p.target = s
         /\ Dropped(s) <=> \E p \in Papers : p.kind \in {"discard", "corrupt_disposition"} /\ p.target = s
         /\ Dropped(s)' <=> \E p \in Papers' : p.kind \in {"discard", "corrupt_disposition"} /\ p.target = s
BY ReceiptKinds DEF History, Papers, Receipts, Tombstone, Dropped, OfKind

LEMMA SameHistory ==
  ASSUME NEW s, History(s)' = History(s)
  PROVE  StateOf(s)' = StateOf(s)
BY DEF StateOf

\* A step that writes no record: what is left of the commands is in its state,
\* and no disposition is lost.
NothingWritten ==
  /\ Papers' \subseteq Papers
  /\ \A p \in Papers : p.kind \in {"discard", "corrupt_disposition"} => p \in Papers'
  /\ \A q \in Letters' : \E r \in Letters : r.seq = q.seq /\ r.cmd = q.cmd /\ (r.rotten => q.rotten)
  /\ \A q \in Letters' : StateOf(q.seq)' = StateOf(q.seq)

LEMMA DiskKeeps ==
  ASSUME Types, Types', OnDisk, NothingWritten, Numbered'
  PROVE  OnDisk'
<1>1. ASSUME NEW s PROVE Tombstone(s)' <=> Tombstone(s)
  <2>1. Tombstone(s)' <=> \E p \in Papers' : p.kind = "discard" /\ p.target = s
    BY HistoryIsPapers
  <2>2. Tombstone(s) <=> \E p \in Papers : p.kind = "discard" /\ p.target = s
    BY HistoryIsPapers
  <2> QED BY <2>1, <2>2 DEF NothingWritten
<1>2. Targets'
  <2> SUFFICES ASSUME NEW p \in OfKind(Receipts \union {"corrupt_disposition"})'
               PROVE  /\ p.target < p.seq
                      /\ \A r \in disk' : r.seq = p.target =>
                           r.kind = "command" /\ (p.kind = "corrupt_disposition" => r.rotten)
    BY DEF Targets
  <2>1. p \in Papers /\ p \in OfKind(Receipts \union {"corrupt_disposition"})
    BY DEF NothingWritten, OfKind, Papers, Receipts
  <2>2. ASSUME NEW r \in disk', r.seq = p.target
        PROVE  r.kind = "command" /\ (p.kind = "corrupt_disposition" => r.rotten)
    <3>1. CASE r \in Papers'
      BY <2>1, <2>2, <3>1 DEF NothingWritten, Targets, OnDisk, Papers
    <3>2. CASE r \in Letters'
      <4>1. PICK q \in Letters : q.seq = r.seq /\ (q.rotten => r.rotten)
        BY <3>2 DEF NothingWritten
      <4> QED BY <2>1, <2>2, <3>2, <4>1 DEF Targets, OnDisk, Letters
    <3> QED BY <3>1, <3>2 DEF Papers, Letters
  <2> QED BY <2>1, <2>2 DEF Targets, OnDisk
<1>3. DiscardIsLast'
  <2> SUFFICES ASSUME NEW r \in Letters', Tombstone(r.seq)'
               PROVE  StateOf(r.seq)' = "discarded"
    BY DEF DiscardIsLast
  <2> QED BY <1>1 DEF NothingWritten, DiscardIsLast, OnDisk
<1>4. Compacted'
  <2> SUFFICES ASSUME NEW a \in OfKind({"anchor"})', NEW r \in disk', r.seq < a.seq
               PROVE  /\ r.kind \in {"anchor", "command", "accepted_receipt"}
                      /\ r.kind = "command" => StateOf(r.seq)' = "accepted"
    BY DEF Compacted
  <2>1. a \in OfKind({"anchor"})
    BY DEF NothingWritten, OfKind, Papers
  <2>2. CASE r \in Papers'
    BY <2>1, <2>2 DEF NothingWritten, Compacted, OnDisk, Papers
  <2>3. CASE r \in Letters'
    <3>1. PICK q \in Letters : q.seq = r.seq
      BY <2>3 DEF NothingWritten
    <3>2. StateOf(q.seq) = "accepted"
      BY <2>1, <3>1 DEF Compacted, OnDisk, Letters
    <3> QED BY <2>3, <3>1, <3>2 DEF NothingWritten, Letters
  <2> QED BY <2>2, <2>3 DEF Papers, Letters
<1>5. Barrier'
  <2> SUFFICES ASSUME NEW q \in Cmds', NEW p \in Cmds', StateOf(q.seq)' = "quarantine"
               PROVE  /\ StateOf(p.seq)' = "pending" => q.seq < p.seq
                      /\ StateOf(p.seq)' = "quarantine" => q = p
    BY DEF Barrier
  <2>1. \A r \in Cmds' : \E o \in Cmds : o.seq = r.seq /\ StateOf(r.seq)' = StateOf(o.seq)
    BY DEF NothingWritten, Cmds, Letters, OfKind
  <2>2. PICK q0 \in Cmds : q0.seq = q.seq /\ StateOf(q.seq)' = StateOf(q0.seq)
    BY <2>1
  <2>3. PICK p0 \in Cmds : p0.seq = p.seq /\ StateOf(p.seq)' = StateOf(p0.seq)
    BY <2>1
  <2>4. q \in disk' /\ p \in disk'
    BY DEF Cmds, OfKind
  <2> QED BY <2>2, <2>3, <2>4 DEF Barrier, OnDisk, Numbered
<1> QED BY <1>2, <1>3, <1>4, <1>5 DEF OnDisk

\* The same for what the server knows, when no unsettled command is lost.
LEMMA ServerKeeps ==
  ASSUME Types, Types', OnDisk, OnDisk', AtServer, NothingWritten, UNCHANGED serverVars,
         \A r \in Unsettled : \E q \in Letters' : q.seq = r.seq
  PROVE  AtServer'
<1>1. ASSUME NEW s PROVE Dropped(s)' <=> Dropped(s)
  <2> DEFINE about(p) == p.kind \in {"discard", "corrupt_disposition"} /\ p.target = s
  <2>1. Dropped(s)' <=> \E p \in Papers' : about(p)
    BY HistoryIsPapers
  <2>2. Dropped(s) <=> \E p \in Papers : about(p)
    BY HistoryIsPapers
  <2> QED BY <2>1, <2>2 DEF NothingWritten
<1>2. UNCHANGED <<flight, server, executed>> /\ Sent' = Sent
  BY DEF serverVars, Sent
<1>3. Acknowledged'
  <2> SUFFICES ASSUME NEW p \in OfKind({"accepted_receipt"})', NEW r \in Letters', r.seq = p.target
               PROVE  server[r.cmd] = "accepted"
    BY <1>2 DEF Acknowledged
  <2>1. p \in OfKind({"accepted_receipt"})
    BY DEF NothingWritten, OfKind, Papers
  <2>2. PICK q \in Letters : q.seq = r.seq /\ q.cmd = r.cmd
    BY DEF NothingWritten
  <2> QED BY <2>1, <2>2 DEF Acknowledged, AtServer
<1>4. Requested'
  <2> SUFFICES ASSUME NEW m \in flight, NEW r \in disk', r.seq = m.seq
               PROVE  r.kind = "command" /\ r.cmd = m.cmd
    BY <1>2 DEF Requested
  <2>1. CASE r \in Papers'
    BY <2>1 DEF NothingWritten, Papers, Requested, AtServer
  <2>2. CASE r \in Letters'
    <3>1. PICK q \in Letters : q.seq = r.seq /\ q.cmd = r.cmd
      BY <2>2 DEF NothingWritten
    <3> QED BY <2>2, <3>1 DEF Letters, Requested, AtServer
  <2> QED BY <2>1, <2>2 DEF Papers, Letters
<1>5. \A q \in Unsettled' : \E r \in Unsettled : r.seq = q.seq
  BY <1>1 DEF Unsettled, NothingWritten
<1>6. \A r \in Unsettled : \E q \in Unsettled' : q.seq = r.seq
  BY <1>1 DEF Unsettled, NothingWritten
<1>7. SentInFront'
  BY <1>2, <1>5 DEF SentInFront, AtServer
<1>8. OnTheWay'
  BY <1>1, <1>2, <1>6 DEF OnTheWay, AtServer
<1>9. ExecutedInOrder'
  BY <1>1, <1>2 DEF ExecutedInOrder, AtServer
<1> QED BY <1>3, <1>4, <1>7, <1>8, <1>9 DEF AtServer

\* Commands are moved, or rot, or stay as they are.
OnlyMoved ==
  /\ Papers' = Papers
  /\ \A q \in Letters' : \E r \in Letters : r.seq = q.seq /\ r.cmd = q.cmd /\ (r.rotten => q.rotten)
  /\ \A r \in Letters : \E q \in Letters' : q.seq = r.seq

LEMMA StatesKept ==
  ASSUME Papers' = Papers, NEW s
  PROVE  StateOf(s)' = StateOf(s)
<1>1. History(s)' = History(s)
  <2>1. History(s)' = {p \in Papers' : p.kind \in Receipts /\ p.target = s}
    BY HistoryIsPapers
  <2>2. History(s) = {p \in Papers : p.kind \in Receipts /\ p.target = s}
    BY HistoryIsPapers
  <2> QED BY <2>1, <2>2
<1> QED BY <1>1, SameHistory

LEMMA MovingKeeps ==
  ASSUME Types, Types', OnDisk, AtServer, OnlyMoved, Numbered', UNCHANGED serverVars
  PROVE  NothingWritten /\ OnDisk' /\ AtServer'
<1>1. NothingWritten
  BY StatesKept DEF OnlyMoved, NothingWritten
<1>2. OnDisk'
  BY <1>1, DiskKeeps
<1>3. \A r \in Unsettled : \E q \in Letters' : q.seq = r.seq
  BY DEF Unsettled, OnlyMoved
<1> QED BY <1>1, <1>2, <1>3, ServerKeeps

LEMMA SameFiles ==
  ASSUME Types, Types', OnDisk, AtServer, UNCHANGED disk
  PROVE  /\ NothingWritten /\ OnDisk' /\ (UNCHANGED serverVars => AtServer')
         /\ Cmds' = Cmds /\ \A s : StateOf(s)' = StateOf(s)
<1>1. Papers' = Papers /\ Letters' = Letters
  BY DEF Papers, Letters
<1>2. OnlyMoved
  BY <1>1 DEF OnlyMoved
<1>3. Numbered'
  BY <1>1 DEF Numbered, OnDisk
<1>4. NothingWritten
  BY <1>2, StatesKept DEF OnlyMoved, NothingWritten
<1>5. OnDisk'
  BY <1>3, <1>4, DiskKeeps
<1>6. Cmds' = Cmds
  BY DEF Cmds, OfKind
<1>7. \A s : StateOf(s)' = StateOf(s)
  BY <1>1, StatesKept
<1> QED BY <1>2, <1>3, <1>4, <1>5, <1>6, <1>7, MovingKeeps

\* A record is removed.
LEMMA DeletionKeeps ==
  ASSUME Types, Types', OnDisk, AtServer, NEW x \in disk, Delete(x), UNCHANGED serverVars,
         x.kind \notin {"discard", "corrupt_disposition"}, x \notin Unsettled,
         \A r \in Letters : r.seq = x.target => x.kind \notin Receipts
  PROVE  NothingWritten /\ OnDisk' /\ AtServer'
<1>1. Papers' = Papers \ {x} /\ Letters' = Letters \ {x}
  BY DEF Delete, Papers, Letters
<1>2. \A q \in Letters' : StateOf(q.seq)' = StateOf(q.seq)
  <2> SUFFICES ASSUME NEW q \in Letters' PROVE History(q.seq)' = History(q.seq)
    BY SameHistory
  <2> DEFINE s == q.seq
  <2>1. ~(x.kind \in Receipts /\ x.target = s)
    BY <1>1
  <2> HIDE DEF s
  <2>2. History(s)' = {p \in Papers' : p.kind \in Receipts /\ p.target = s}
    BY HistoryIsPapers
  <2>3. History(s) = {p \in Papers : p.kind \in Receipts /\ p.target = s}
    BY HistoryIsPapers
  <2>4. History(s)' = History(s)
    BY <1>1, <2>1, <2>2, <2>3
  <2> QED BY <2>4 DEF s
<1>3. NothingWritten
  BY <1>1, <1>2 DEF NothingWritten
<1>4. Numbered'
  BY <1>1 DEF Delete, Numbered, OnDisk
<1>5. OnDisk'
  BY <1>3, <1>4, DiskKeeps
<1>6. \A r \in Unsettled : \E q \in Letters' : q.seq = r.seq
  BY <1>1 DEF Unsettled
<1> QED BY <1>3, <1>5, <1>6, ServerKeeps

\* What a compaction removes says nothing of a command that is still there.
LEMMA CoveredKeeps ==
  ASSUME Types, Types', OnDisk, AtServer, Covered # {}, Delete(First(Covered)), UNCHANGED serverVars
  PROVE  /\ NothingWritten /\ OnDisk' /\ AtServer'
         /\ disk' \subseteq disk /\ \A r \in disk : \E q \in disk' : r.seq <= q.seq
         /\ \E a \in OfKind({"anchor"}) : a \in disk' /\ First(Covered).seq < a.seq
<1> DEFINE x == First(Covered)
<1>1. Covered \subseteq disk
  BY DEF Covered
<1>2. x \in Covered /\ \A q \in Covered : x.seq <= q.seq
  BY <1>1, FirstIsLeast
<1> HIDE DEF x
<1>3. PICK a \in OfKind({"anchor"}) : x.seq < a.seq /\ \A b \in OfKind({"anchor"}) : b.seq <= a.seq
  BY <1>2 DEF Covered
<1>4. \A r \in disk : r.seq < a.seq => r \in Covered
  BY <1>3 DEF Covered
<1>5. x \in disk /\ a \in disk /\ a.kind = "anchor" /\ \A r \in disk : r.seq \in Nat
  BY <1>1, <1>2, <1>3, RecordParts DEF OfKind, Types
<1>6. /\ x.kind \in {"anchor", "command", "accepted_receipt"}
      /\ x.kind = "command" => StateOf(x.seq) = "accepted"
  BY <1>3, <1>5 DEF Compacted, OnDisk
<1>7. x \notin Unsettled
  BY <1>6 DEF Unsettled, Letters
<1>8. ASSUME NEW r \in Letters, r.seq = x.target PROVE x.kind \notin Receipts
  <2>1. SUFFICES ASSUME x.kind \in Receipts PROVE FALSE
    OBVIOUS
  <2>2. x.target < x.seq
    BY <1>5, <2>1 DEF Targets, OnDisk, OfKind
  <2>3. r \in disk /\ r.seq < x.seq
    BY <1>8, <2>2 DEF Letters
  <2>4. r.seq < a.seq
    BY <1>3, <1>5, <2>3
  <2>5. x.seq <= r.seq
    BY <1>2, <1>4, <2>3, <2>4
  <2> QED BY <1>5, <2>3, <2>5
<1>9. Delete(x)
  BY DEF x
<1>10. NothingWritten /\ OnDisk' /\ AtServer'
  BY <1>5, <1>6, <1>7, <1>8, <1>9, DeletionKeeps
<1>11. disk' = disk \ {x} /\ a # x
  BY <1>3, <1>5, <1>9 DEF Delete
<1>12. ASSUME NEW r \in disk PROVE \E q \in disk' : r.seq <= q.seq
  <2>1. CASE r = x
    <3>1. a \in disk' /\ r.seq <= a.seq
      BY <1>3, <1>5, <1>11, <2>1
    <3> QED BY <3>1
  <2>2. CASE r # x
    BY <1>5, <1>11, <2>2
  <2> QED BY <2>1, <2>2
<1>13. First(Covered).seq < a.seq /\ a \in disk'
  BY <1>3, <1>5, <1>11 DEF x
<1> QED BY <1>3, <1>10, <1>11, <1>12, <1>13

\* The cursor stays right when the last record stays.
LEMMA CursorKeeps ==
  ASSUME Types, Types', CursorRight, NothingWritten, UNCHANGED cursor,
         \A r \in disk : \E q \in disk' : r.seq <= q.seq
  PROVE  CursorRight'
<1> SUFFICES ASSUME \A q \in disk' : q.seq <= cursor.seq,
                    NEW q \in Cmds', NEW d \in Directories, <<q.seq, d>> \in cursor.dirs
             PROVE  d = StateOf(q.seq)'
  BY DEF CursorRight
<1>1. \A r \in disk : r.seq \in Nat
  BY RecordParts DEF Types
<1>2. \A r \in disk' : r.seq \in Nat
  BY RecordParts DEF Types
<1>3. cursor.seq \in Nat
  BY DEF Types
<1>4. \A r \in disk : r.seq <= cursor.seq
  BY <1>1, <1>2, <1>3
<1>5. q \in Letters' /\ ~q.rotten
  BY DEF Cmds, OfKind, Letters
<1>6. PICK r \in Letters : r.seq = q.seq /\ (r.rotten => q.rotten)
  BY <1>5 DEF NothingWritten
<1>7. r \in Cmds
  BY <1>5, <1>6 DEF Letters, Cmds, OfKind
<1>8. d = StateOf(r.seq)
  BY <1>4, <1>6, <1>7 DEF CursorRight
<1> QED BY <1>5, <1>6, <1>8 DEF NothingWritten

-----------------------------------------------------------------------------
(* Steps of a session that leave the files alone.                          *)

LEMMA GotoMoves ==
  ASSUME Types, NEW pc \in Steps, Goto(pc)
  PROVE  /\ session' \in [pc : Steps, rec : Record]
         /\ session'.pc = pc /\ session'.rec = session.rec
BY DEF Types, Goto

LEMMA SpendTakes ==
  ASSUME Types, NEW what \in Purposes, Spend(what)
  PROVE  budget' \in [Purposes -> Nat]
<1>1. budget[what] \in Nat /\ budget[what] > 0
  BY DEF Types, Spend
<1> QED BY <1>1 DEF Types, Spend

LEMMA NoRecordTyped == NoRecord \in Record
BY DEF NoRecord, Record, Kinds, Directories

\* What a step has to show that leaves the files alone.
LEMMA FilesRest ==
  ASSUME IInv, Types', UNCHANGED <<disk, head, cursor>>, AtServer', \A s \in Sent' : s <= head,
         session.pc \in Chained \/ session'.pc \notin Chained,
         LastWritten', Places', Drains'
  PROVE  IInv'
<1>1. OnDisk' /\ NothingWritten
  BY SameFiles DEF IInv
<1>2. HeadKnown'
  BY DEF HeadKnown, IInv, InSession
<1>3. ASSUME NEW r \in disk PROVE \E q \in disk' : r.seq <= q.seq
  <2>1. r \in disk' /\ r.seq \in Nat
    BY RecordParts DEF IInv, Types
  <2> QED BY <2>1
<1>4. CursorRight'
  BY <1>1, <1>3, CursorKeeps DEF IInv, InSession
<1> QED BY <1>1, <1>2, <1>4 DEF IInv, InSession

LEMMA SessionKeeps ==
  ASSUME IInv, Types', UNCHANGED <<disk, head, cursor, serverVars>>,
         session.pc \in Chained \/ session'.pc \notin Chained,
         LastWritten', Places', Drains'
  PROVE  IInv'
<1>1. AtServer'
  BY SameFiles DEF IInv
<1>2. \A s \in Sent' : s <= head
  BY DEF Sent, serverVars, HeadKnown, IInv, InSession
<1> QED BY <1>1, <1>2, FilesRest

\* A step to a place where nothing is known of the files needs no more.
LEMMA LeavingKeeps ==
  ASSUME IInv, UNCHANGED <<disk, head, cursor, serverVars>>, torn' \in Nat,
         budget' \in [Purposes -> Nat],
         session' \in [pc : {"closed"}, rec : Record]
  PROVE  IInv'
<1>1. Types'
  BY DEF IInv, Types, serverVars, Steps
<1>2. session'.pc = "closed"
  OBVIOUS
<1>3. LastWritten' /\ Places' /\ Drains' /\ session'.pc \notin Chained
  BY <1>2 DEF LastWritten, Places, Drains, Settling, AtWork, Draining, At, Chained
<1> QED BY <1>1, <1>3, SessionKeeps

LEMMA SameCommands ==
  ASSUME Types, Types', OnDisk, AtServer, UNCHANGED disk
  PROVE  /\ Placed(Cmds) => Placed(Cmds)'
         /\ ActiveCorrupt' = ActiveCorrupt /\ \A d : In(d)' = In(d)
<1>1. Cmds' = Cmds /\ \A s : StateOf(s)' = StateOf(s)
  BY SameFiles
<1> QED BY <1>1 DEF Placed, ActiveCorrupt, In, OfKind

LEMMA TrustCursorKeeps ==
  ASSUME IInv, TrustCursor
  PROVE  IInv'
<1>1. session'.pc = "ready" /\ session' \in [pc : Steps, rec : Record]
  BY GotoMoves DEF TrustCursor, IInv, Steps
<1>2. UNCHANGED <<disk, head, cursor, torn, serverVars, budget>>
  BY DEF TrustCursor, diskVars
<1>3. Types'
  BY <1>1, <1>2 DEF IInv, Types, serverVars
<1>4. Placed(Cmds)
  <2> SUFFICES ASSUME NEW r \in Cmds PROVE r.dir = StateOf(r.seq)
    BY DEF Placed
  <2>1. session.pc \in Chained /\ cursor.seq = head /\ <<r.seq, r.dir>> \in cursor.dirs
    BY DEF TrustCursor, CursorNow, At, Chained
  <2>2. r.dir \in Directories
    BY RecordParts, DiskParts DEF IInv, Types
  <2> QED BY <2>1, <2>2 DEF IInv, InSession, HeadKnown, CursorRight
<1>5. Placed(Cmds)'
  BY <1>2, <1>3, <1>4, SameCommands DEF IInv
<1>6. LastWritten' /\ Places' /\ Drains' /\ session.pc \in Chained
  BY <1>1, <1>5 DEF LastWritten, Places, Drains, Settling, Draining, At, Chained, TrustCursor
<1> QED BY <1>2, <1>3, <1>6, SessionKeeps

LEMMA ReplayTransitionsKeeps ==
  ASSUME IInv, ReplayTransitions
  PROVE  IInv'
<1>1. session'.pc = "repairing" /\ session' \in [pc : Steps, rec : Record]
  BY GotoMoves DEF ReplayTransitions, IInv, Steps
<1>2. UNCHANGED <<disk, head, cursor, torn, serverVars, budget>>
  BY DEF ReplayTransitions, diskVars
<1>3. Types'
  BY <1>1, <1>2 DEF IInv, Types, serverVars
<1>4. LastWritten' /\ Places' /\ Drains' /\ session.pc \in Chained
  BY <1>1 DEF LastWritten, Places, Drains, Settling, AtWork, Draining, At, Chained,
              ReplayTransitions
<1> QED BY <1>2, <1>3, <1>4, SessionKeeps

LEMMA RefuseKeeps ==
  ASSUME IInv, Refuse
  PROVE  IInv'
<1>1. session' \in [pc : {"closed"}, rec : Record]
  BY GotoMoves DEF Refuse, IInv, Steps
<1>2. UNCHANGED <<disk, head, cursor, torn, serverVars, budget>>
  BY DEF Refuse, diskVars
<1> QED BY <1>1, <1>2, LeavingKeeps DEF IInv, Types

LEMMA CrashKeeps ==
  ASSUME IInv, Crash
  PROVE  IInv'
<1>1. session' \in [pc : {"closed"}, rec : Record]
  BY NoRecordTyped DEF Crash
<1>2. budget' \in [Purposes -> Nat]
  BY SpendTakes DEF Crash, IInv, Purposes
<1>3. UNCHANGED <<disk, head, cursor, serverVars>> /\ torn' \in Nat
  BY DEF Crash, IInv, Types
<1> QED BY <1>1, <1>2, <1>3, LeavingKeeps

\* The barrier holds a drain back until nothing is in quarantine.
LEMMA StartDrainKeeps ==
  ASSUME IInv, StartDrain
  PROVE  IInv'
<1>1. session'.pc = "draining" /\ session' \in [pc : Steps, rec : Record]
  BY GotoMoves DEF StartDrain, IInv, Steps
<1>2. UNCHANGED <<disk, head, cursor, torn, serverVars, budget>>
  BY DEF StartDrain, diskVars
<1>3. Types'
  BY <1>1, <1>2 DEF IInv, Types, serverVars
<1>4. Placed(Cmds)
  BY DEF StartDrain, At, IInv, InSession, Places, AtWork
<1>5. In("quarantine") = {}
  <2> SUFFICES ASSUME NEW b \in In("quarantine") PROVE FALSE
    OBVIOUS
  <2> DEFINE p == First(In("pending"))
  <2>1. In("pending") # {} /\ p.seq < b.seq
    BY DEF StartDrain
  <2>2. In("pending") \subseteq disk
    BY DEF In, Cmds, OfKind
  <2>3. p \in In("pending")
    BY <2>1, <2>2, FirstIsLeast DEF IInv
  <2> HIDE DEF p
  <2>4. p \in Cmds /\ b \in Cmds /\ StateOf(p.seq) = "pending" /\ StateOf(b.seq) = "quarantine"
    BY <1>4, <2>3 DEF In, Placed
  <2>5. b.seq < p.seq
    BY <2>4 DEF IInv, OnDisk, Barrier
  <2>6. p.seq \in Nat /\ b.seq \in Nat
    BY <2>4, RecordParts, DiskParts DEF IInv
  <2> QED BY <2>1, <2>5, <2>6
<1>6. Placed(Cmds)' /\ ActiveCorrupt' = {} /\ In("quarantine")' = {}
  BY <1>2, <1>3, <1>4, <1>5, SameCommands DEF IInv, StartDrain
<1>7. LastWritten' /\ Places' /\ Drains' /\ session.pc \in Chained
  BY <1>1, <1>6 DEF LastWritten, Places, Drains, Settling, Draining, At, Chained, StartDrain
<1> QED BY <1>2, <1>3, <1>7, SessionKeeps

\* A drain ends.
LEMMA ClosingKeeps ==
  ASSUME IInv, session.pc \in AtWork, Goto("closing"), budget' \in [Purposes -> Nat],
         UNCHANGED <<diskVars, serverVars>>
  PROVE  IInv'
<1>1. session'.pc = "closing" /\ session' \in [pc : Steps, rec : Record]
  BY GotoMoves DEF IInv, Steps
<1>2. UNCHANGED <<disk, head, cursor, torn, serverVars>>
  BY DEF diskVars
<1>3. Types'
  BY <1>1, <1>2 DEF IInv, Types, serverVars
<1>4. Placed(Cmds)'
  BY <1>2, <1>3, SameCommands DEF IInv, InSession, Places
<1>5. LastWritten' /\ Places' /\ Drains' /\ session.pc \in Chained
  BY <1>1, <1>4 DEF LastWritten, Places, Drains, Settling, Draining, At, Chained, AtWork
<1> QED BY <1>2, <1>3, <1>5, SessionKeeps

LEMMA DrainedKeeps == IInv /\ Drained => IInv'
<1> SUFFICES ASSUME IInv, Drained PROVE IInv'
  OBVIOUS
<1>1. session.pc \in AtWork /\ Goto("closing") /\ UNCHANGED <<diskVars, serverVars, budget>>
  BY DEF Drained, At, AtWork
<1> QED BY <1>1, ClosingKeeps DEF IInv, Types

LEMMA ReplyLostKeeps == IInv /\ ReplyLost => IInv'
<1> SUFFICES ASSUME IInv, ReplyLost PROVE IInv'
  OBVIOUS
<1>1. session.pc \in AtWork /\ Goto("closing") /\ UNCHANGED <<diskVars, serverVars>>
  BY DEF ReplyLost, At, AtWork
<1>2. budget' \in [Purposes -> Nat]
  BY SpendTakes DEF ReplyLost, IInv, Purposes
<1> QED BY <1>1, <1>2, ClosingKeeps

-----------------------------------------------------------------------------
(* Requests.                                                               *)

LEMMA Decisions3 ==
  Decision["accepted"] = "accepted" /\ Decision["pending"] = "closing" /\ Decision["refused"] = "rejected"
BY DEF Decision

\* The server's memory grows, and a command it has accepted stays accepted.
ServerGrows ==
  /\ flight' \subseteq flight
  /\ server' \in [Commands -> Decisions]
  /\ \A c \in Commands : /\ server[c] = "accepted" => server'[c] = "accepted"
                         /\ server'[c] = "none" => server[c] = "none"

LEMMA GrowingKeeps ==
  ASSUME IInv, Types', UNCHANGED disk, ServerGrows, Sent' \subseteq Sent, ExecutedInOrder'
  PROVE  AtServer'
<1>1. /\ Papers' = Papers /\ Letters' = Letters
      /\ \A s : StateOf(s)' = StateOf(s)
  BY StatesKept DEF Papers, Letters
<1>2. \A s : Dropped(s)' <=> Dropped(s)
  BY DEF Dropped, OfKind
<1>3. Unsettled' = Unsettled
  BY <1>1, <1>2 DEF Unsettled
<1>4. Acknowledged'
  BY <1>1 DEF Acknowledged, AtServer, IInv, OnDisk, Numbered, ServerGrows, OfKind
<1>5. Requested'
  BY DEF Requested, AtServer, IInv, ServerGrows
<1>6. SentInFront'
  BY <1>3 DEF SentInFront, AtServer, IInv
<1>7. OnTheWay'
  <2> SUFFICES ASSUME NEW m \in flight', server'[m.cmd] = "none", ~Dropped(m.seq)'
               PROVE  \E r \in Unsettled' : r.seq = m.seq
    BY DEF OnTheWay
  <2>1. m \in flight /\ m.cmd \in Commands
    BY DEF ServerGrows, IInv, Types
  <2>2. server[m.cmd] = "none" /\ ~Dropped(m.seq)
    BY <1>2, <2>1 DEF ServerGrows
  <2> QED BY <1>3, <2>1, <2>2 DEF OnTheWay, AtServer, IInv
<1> QED BY <1>4, <1>5, <1>6, <1>7 DEF AtServer

\* A request executes only while its command is unsettled, with nothing behind it
\* executed, or when it was dropped.
LEMMA ExecutionInOrder ==
  ASSUME IInv, UNCHANGED disk, NEW m \in flight, server[m.cmd] = "none",
         executed' = Append(executed, m.seq)
  PROVE  ExecutedInOrder'
<1> SUFFICES ASSUME NEW i \in DOMAIN executed', NEW j \in DOMAIN executed',
                    i < j, executed'[i] > executed'[j]
             PROVE  \E d \in OfKind({"discard", "corrupt_disposition"}) : d.target = executed'[j]
  BY DEF ExecutedInOrder, Dropped, OfKind
<1>1. \A s : Dropped(s) => \E d \in OfKind({"discard", "corrupt_disposition"}) : d.target = s
  BY DEF Dropped
<1>2. executed \in Seq(Nat) /\ m.seq \in Nat
  BY DEF IInv, Types
<1>3. /\ Len(executed) \in Nat /\ DOMAIN executed = 1 .. Len(executed)
      /\ DOMAIN executed' = 1 .. Len(executed) + 1
      /\ \A k \in 1 .. Len(executed) : executed'[k] = executed[k]
      /\ executed'[Len(executed) + 1] = m.seq
  BY <1>2
<1>4. CASE j \in 1 .. Len(executed)
  <2>1. i \in DOMAIN executed /\ j \in DOMAIN executed
    BY <1>3, <1>4
  <2>2. Dropped(executed[j])
    BY <1>3, <1>4, <2>1 DEF ExecutedInOrder, AtServer, IInv
  <2> QED BY <1>1, <1>3, <1>4, <2>2
<1>5. CASE j = Len(executed) + 1
  <2>1. i \in 1 .. Len(executed) /\ executed[i] > m.seq
    BY <1>3, <1>5
  <2>2. executed[i] \in Sent /\ executed[i] \in Nat
    BY <1>2, <1>3, <2>1 DEF Sent
  <2>3. Dropped(m.seq)
    <3> SUFFICES ASSUME ~Dropped(m.seq) PROVE FALSE
      OBVIOUS
    <3>1. PICK r \in Unsettled : r.seq = m.seq
      BY DEF OnTheWay, AtServer, IInv
    <3>2. executed[i] <= m.seq
      BY <2>2, <3>1 DEF SentInFront, AtServer, IInv
    <3> QED BY <1>2, <2>1, <2>2, <3>2
  <2> QED BY <1>1, <1>3, <1>5, <2>3
<1> QED BY <1>3, <1>4, <1>5

\* What the handling of a request does to the server and to the session.
LEMMA HandleDoes ==
  ASSUME IInv, NEW m \in flight, Handle(m)
  PROVE  /\ ServerGrows /\ Sent' \subseteq Sent /\ executed' \in Seq(Nat) /\ ExecutedInOrder'
         /\ \E d \in {"accepted", "closing", "rejected"} :
              Answer(m, d) /\ (d = "accepted" => server'[m.cmd] = "accepted")
<1>1. m.cmd \in Commands /\ m.seq \in Nat /\ executed \in Seq(Nat)
      /\ server \in [Commands -> Decisions]
  BY DEF IInv, Types
<1>2. flight' = flight \ {m} /\ UNCHANGED disk
  BY DEF Handle, diskVars
<1>3. CASE UNCHANGED <<server, executed>>
  <2>1. ServerGrows /\ Sent' \subseteq Sent /\ executed' \in Seq(Nat)
    BY <1>1, <1>2, <1>3 DEF ServerGrows, Sent
  <2>2. ExecutedInOrder'
    BY <1>2, <1>3 DEF ExecutedInOrder, Dropped, OfKind, IInv, AtServer
  <2>3. \E d \in {"accepted", "closing", "rejected"} :
          Answer(m, d) /\ (d = "accepted" => server'[m.cmd] = "accepted")
    <3>1. CASE server[m.cmd] = "none"
      <4>1. server'[m.cmd] = "none"
        BY <1>3, <3>1
      <4>2. Answer(m, "rejected")
        <5>1. ASSUME NEW state \in {"pending", "accepted", "refused"},
                     server' = [server EXCEPT ![m.cmd] = state]
              PROVE  FALSE
          BY <1>1, <4>1, <5>1
        <5> QED BY <3>1, <5>1 DEF Handle
      <4> QED BY <4>2
    <3>2. CASE server[m.cmd] # "none"
      <4>1. Answer(m, Decision[server[m.cmd]])
        BY <3>2 DEF Handle
      <4>2. server[m.cmd] \in {"pending", "accepted", "refused"}
        BY <1>1, <3>2 DEF Decisions
      <4> QED BY <1>3, <4>1, <4>2, Decisions3
    <3> QED BY <3>1, <3>2
  <2> QED BY <2>1, <2>2, <2>3
<1>4. ASSUME NEW state \in {"pending", "accepted"}, server[m.cmd] = "none",
             server' = [server EXCEPT ![m.cmd] = state],
             executed' = Append(executed, m.seq), Answer(m, Decision[state])
      PROVE  /\ ServerGrows /\ Sent' \subseteq Sent /\ executed' \in Seq(Nat) /\ ExecutedInOrder'
             /\ \E d \in {"accepted", "closing", "rejected"} :
                  Answer(m, d) /\ (d = "accepted" => server'[m.cmd] = "accepted")
  <2>1. ServerGrows
    BY <1>1, <1>2, <1>4 DEF ServerGrows, Decisions
  <2>2. executed' \in Seq(Nat)
    BY <1>1, <1>4
  <2>3. Sent' \subseteq Sent
    <3>1. /\ DOMAIN executed' = 1 .. Len(executed) + 1 /\ Len(executed) \in Nat
          /\ DOMAIN executed = 1 .. Len(executed)
          /\ \A k \in 1 .. Len(executed) : executed'[k] = executed[k]
          /\ executed'[Len(executed) + 1] = m.seq
      BY <1>1, <1>4
    <3>2. \A i \in DOMAIN executed' : executed'[i] = m.seq \/ \E k \in DOMAIN executed : executed'[i] = executed[k]
      BY <3>1
    <3> QED BY <1>2, <3>2 DEF Sent
  <2>4. ExecutedInOrder'
    BY <1>2, <1>4, ExecutionInOrder
  <2>5. server'[m.cmd] = state
    BY <1>1, <1>4
  <2>6. Decision[state] \in {"accepted", "closing"} /\ (Decision[state] = "accepted" => state = "accepted")
    BY Decisions3
  <2> QED BY <1>4, <2>1, <2>2, <2>3, <2>4, <2>5, <2>6
<1>5. ASSUME server[m.cmd] = "none", server' = [server EXCEPT ![m.cmd] = "refused"],
             UNCHANGED executed, Answer(m, "rejected")
      PROVE  /\ ServerGrows /\ Sent' \subseteq Sent /\ executed' \in Seq(Nat) /\ ExecutedInOrder'
             /\ \E d \in {"accepted", "closing", "rejected"} :
                  Answer(m, d) /\ (d = "accepted" => server'[m.cmd] = "accepted")
  <2>1. ServerGrows
    BY <1>1, <1>2, <1>5 DEF ServerGrows, Decisions
  <2>2. ExecutedInOrder'
    BY <1>2, <1>5 DEF ExecutedInOrder, Dropped, OfKind, IInv, AtServer
  <2>3. executed' \in Seq(Nat) /\ Sent' \subseteq Sent
    BY <1>1, <1>2, <1>5 DEF Sent
  <2> QED BY <1>5, <2>1, <2>2, <2>3
<1> QED BY <1>3, <1>4, <1>5 DEF Handle

LEMMA HandleKeeps ==
  ASSUME IInv, NEW m \in flight, Handle(m)
  PROVE  IInv'
<1>1. ServerGrows /\ Sent' \subseteq Sent /\ executed' \in Seq(Nat) /\ ExecutedInOrder'
  BY HandleDoes
<1>2. PICK d \in {"accepted", "closing", "rejected"} :
        Answer(m, d) /\ (d = "accepted" => server'[m.cmd] = "accepted")
  BY HandleDoes
<1>3. UNCHANGED <<disk, head, cursor, torn, budget>>
  BY DEF Handle, diskVars
<1>4. d \in Steps
  BY DEF Steps
<1>5. IF Waiting(m) THEN session'.pc = d /\ session'.rec = session.rec /\ session.pc = "sending"
                    ELSE session' = session
  BY <1>2, <1>4, GotoMoves DEF Answer, Waiting, At, IInv
<1>6. session' \in [pc : Steps, rec : Record]
  BY <1>2, <1>4, GotoMoves DEF Answer, IInv, Types
<1>7. Types'
  BY <1>1, <1>3, <1>6 DEF IInv, Types, ServerGrows
<1>8. AtServer'
  BY <1>1, <1>3, <1>7, GrowingKeeps
<1>9. \A s \in Sent' : s <= head
  BY <1>1 DEF IInv, InSession, HeadKnown
<1>10. /\ Cmds' = Cmds /\ \A s : StateOf(s)' = StateOf(s)
       /\ ActiveCorrupt' = ActiveCorrupt /\ \A dir : In(dir)' = In(dir)
       /\ Placed(Cmds) => Placed(Cmds)'
  BY <1>3, <1>7, SameFiles, SameCommands DEF IInv
<1>11. CASE ~Waiting(m)
  <2>1. session' = session
    BY <1>5, <1>11
  <2>2. LastWritten'
    BY <1>3, <2>1 DEF LastWritten, Settling, At, IInv, InSession
  <2>3. Places'
    BY <1>10, <2>1 DEF Places, Placed, Settling, IInv, InSession
  <2>4. Drains'
    <3>1. At("accepted") => server'[session.rec.cmd] = "accepted"
      <4> SUFFICES ASSUME At("accepted") PROVE server'[session.rec.cmd] = "accepted"
        OBVIOUS
      <4>1. session.rec \in In("pending") /\ server[session.rec.cmd] = "accepted"
        BY DEF IInv, InSession, Drains, Draining, At
      <4>2. session.rec.cmd \in Commands
        BY <4>1 DEF In, Cmds, OfKind, IInv, OnDisk, Numbered, Letters
      <4> QED BY <1>1, <4>1, <4>2 DEF ServerGrows
    <3> QED BY <1>10, <2>1, <3>1 DEF Drains, Settling, At, IInv, InSession
  <2> QED BY <1>3, <1>7, <1>8, <1>9, <2>1, <2>2, <2>3, <2>4, FilesRest
<1>12. CASE Waiting(m)
  <2>1. session'.pc = d /\ session'.rec = session.rec /\ session.pc = "sending"
    BY <1>5, <1>12
  <2>2. /\ session.rec \in In("pending") /\ \A r \in In("pending") : session.rec.seq <= r.seq
        /\ ActiveCorrupt = {} /\ In("quarantine") = {} /\ Placed(Cmds)
    BY <2>1 DEF IInv, InSession, Drains, Draining, Places, AtWork
  <2>3. session.rec \in disk /\ session.rec.seq = m.seq
    BY <1>12, <2>2 DEF Waiting, In, Cmds, OfKind
  <2>4. session.rec.cmd = m.cmd
    BY <2>3 DEF IInv, AtServer, Requested
  <2>5. LastWritten' /\ Places' /\ Drains' /\ session.pc \in Chained
    BY <1>2, <1>10, <2>1, <2>2, <2>4
       DEF LastWritten, Places, Drains, Settling, At, Chained, Draining, AtWork
  <2> QED BY <1>3, <1>7, <1>8, <1>9, <2>5, FilesRest
<1> QED BY <1>11, <1>12

LEMMA BecomeDurableKeeps ==
  ASSUME IInv, NEW c \in Commands, BecomeDurable(c)
  PROVE  IInv'
<1>1. UNCHANGED <<disk, head, cursor, torn, session, flight, executed, budget>>
  BY DEF BecomeDurable, diskVars
<1>2. ServerGrows
  BY DEF BecomeDurable, ServerGrows, IInv, Types, Decisions
<1>3. Types'
  BY <1>1, <1>2 DEF IInv, Types, ServerGrows
<1>4. Sent' = Sent /\ \A s \in Sent' : s <= head
  BY <1>1 DEF Sent, IInv, InSession, HeadKnown
<1>5. ExecutedInOrder'
  BY <1>1 DEF ExecutedInOrder, Dropped, OfKind, IInv, AtServer
<1>6. AtServer'
  BY <1>1, <1>2, <1>3, <1>4, <1>5, GrowingKeeps
<1>7. /\ Cmds' = Cmds /\ \A s : StateOf(s)' = StateOf(s)
      /\ ActiveCorrupt' = ActiveCorrupt /\ \A dir : In(dir)' = In(dir)
      /\ Placed(Cmds) => Placed(Cmds)'
  BY <1>1, <1>3, SameFiles, SameCommands DEF IInv
<1>8. LastWritten'
  BY <1>1 DEF LastWritten, Settling, At, IInv, InSession
<1>9. Places'
  BY <1>1, <1>7 DEF Places, Placed, Settling, IInv, InSession
<1>10. At("accepted") => server'[session.rec.cmd] = "accepted"
  <2> SUFFICES ASSUME At("accepted") PROVE server'[session.rec.cmd] = "accepted"
    OBVIOUS
  <2>1. session.rec \in In("pending") /\ server[session.rec.cmd] = "accepted"
    BY DEF IInv, InSession, Drains, Draining, At
  <2>2. session.rec.cmd \in Commands
    BY <2>1 DEF In, Cmds, OfKind, IInv, OnDisk, Numbered, Letters
  <2> QED BY <1>2, <2>1, <2>2 DEF ServerGrows
<1>11. Drains'
  BY <1>1, <1>7, <1>10 DEF Drains, Settling, At, IInv, InSession
<1> QED BY <1>1, <1>3, <1>4, <1>6, <1>8, <1>9, <1>11, FilesRest

\* The first pending command is in front of everything unsettled: it may be sent.
LEMMA SendKeeps ==
  ASSUME IInv, Send
  PROVE  IInv'
<1> DEFINE r == First(In("pending"))
           m == [cmd |-> r.cmd, seq |-> r.seq]
<1>1. In("pending") # {} /\ In("pending") \subseteq disk /\ session.pc = "draining"
  BY DEF Send, In, Cmds, OfKind, At
<1>2. r \in In("pending") /\ \A q \in In("pending") : r.seq <= q.seq
  BY <1>1, FirstIsLeast DEF IInv
<1>3. flight' = flight \union {m} /\ session' = [pc |-> "sending", rec |-> r]
  BY DEF Send
<1> HIDE DEF r
<1>4. UNCHANGED <<disk, head, cursor, torn, server, executed, budget>>
  BY DEF Send, diskVars
<1>5. r \in disk /\ r \in Cmds /\ r \in Letters /\ r.dir = "pending" /\ r \in Record
      /\ r.cmd \in Commands /\ r.seq \in Nat
  BY <1>1, <1>2, RecordParts DEF In, Cmds, OfKind, Letters, IInv, Types, OnDisk, Numbered
<1>6. Types'
  BY <1>3, <1>4, <1>5 DEF IInv, Types, Steps
<1>7. /\ ActiveCorrupt = {} /\ In("quarantine") = {} /\ Placed(Cmds)
  BY <1>1 DEF IInv, InSession, Drains, Draining, Places, AtWork
<1>8. \A u \in Unsettled : r.seq <= u.seq
  <2> SUFFICES ASSUME NEW u \in Unsettled PROVE r.seq <= u.seq
    OBVIOUS
  <2>1. u \in disk /\ u.kind = "command" /\ ~Dropped(u.seq) /\ StateOf(u.seq) \in {"pending", "quarantine"}
    BY DEF Unsettled, Letters
  <2>2. ~u.rotten
    <3> SUFFICES ASSUME u.rotten PROVE FALSE
      OBVIOUS
    <3>1. \E d \in OfKind({"corrupt_disposition"}) : d.target = u.seq
      BY <1>7, <2>1 DEF ActiveCorrupt
    <3> QED BY <2>1, <3>1 DEF Dropped, OfKind
  <2>3. u \in Cmds
    BY <2>1, <2>2 DEF Cmds, OfKind
  <2>4. u.dir \in {"pending", "quarantine"}
    BY <1>7, <2>1, <2>3 DEF Placed
  <2>5. u \in In("pending")
    BY <1>7, <2>3, <2>4 DEF In
  <2> QED BY <1>2, <2>5
<1>9. m.seq = r.seq /\ m.cmd = r.cmd
  OBVIOUS
<1> HIDE DEF m
<1>10. /\ Papers' = Papers /\ Letters' = Letters
       /\ \A s : StateOf(s)' = StateOf(s)
  BY <1>4, StatesKept DEF Papers, Letters
<1>11. \A s : Dropped(s)' <=> Dropped(s)
  BY <1>4 DEF Dropped, OfKind
<1>12. Unsettled' = Unsettled
  BY <1>10, <1>11 DEF Unsettled
<1>13. \A s \in Sent' : s \in Sent \/ s = r.seq
  BY <1>3, <1>4, <1>9 DEF Sent
<1>14. AtServer'
  <2>1. Acknowledged'
    BY <1>4, <1>10 DEF Acknowledged, OfKind, IInv, AtServer
  <2>2. Requested'
    <3> SUFFICES ASSUME NEW n \in flight', NEW q \in disk, q.seq = n.seq
                 PROVE  q.kind = "command" /\ q.cmd = n.cmd
      BY <1>4 DEF Requested
    <3>1. CASE n \in flight
      BY <3>1 DEF Requested, IInv, AtServer
    <3>2. CASE n = m
      <4>1. q = r
        BY <1>5, <1>9, <3>2 DEF IInv, OnDisk, Numbered
      <4> QED BY <1>5, <1>9, <3>2, <4>1 DEF Letters
    <3> QED BY <1>3, <3>1, <3>2
  <2>3. SentInFront'
    BY <1>8, <1>12, <1>13 DEF SentInFront, IInv, AtServer
  <2>4. OnTheWay'
    <3> SUFFICES ASSUME NEW n \in flight', server[n.cmd] = "none", ~Dropped(n.seq)
                 PROVE  \E u \in Unsettled : u.seq = n.seq
      BY <1>4, <1>11, <1>12 DEF OnTheWay
    <3>1. CASE n \in flight
      BY <3>1 DEF OnTheWay, IInv, AtServer
    <3>2. CASE n = m
      <4>1. StateOf(r.seq) = "pending"
        BY <1>5, <1>7 DEF Placed
      <4>2. r \in Unsettled
        BY <1>5, <1>9, <3>2, <4>1 DEF Unsettled
      <4> QED BY <1>9, <3>2, <4>2
    <3> QED BY <1>3, <3>1, <3>2
  <2>5. ExecutedInOrder'
    BY <1>4, <1>11 DEF ExecutedInOrder, IInv, AtServer
  <2> QED BY <2>1, <2>2, <2>3, <2>4, <2>5 DEF AtServer
<1>15. \A s \in Sent' : s <= head
  BY <1>1, <1>5, <1>13 DEF IInv, InSession, HeadKnown, Chained
<1>16. /\ ActiveCorrupt' = ActiveCorrupt /\ \A dir : In(dir)' = In(dir)
       /\ Placed(Cmds)'
  BY <1>4, <1>6, <1>7, SameCommands DEF IInv
<1>17. session'.pc = "sending" /\ session'.rec = r
  BY <1>3
<1>18. LastWritten' /\ Places' /\ Drains' /\ session.pc \in Chained
  BY <1>1, <1>2, <1>7, <1>16, <1>17
     DEF LastWritten, Places, Drains, Settling, Draining, At, Chained
<1> QED BY <1>4, <1>6, <1>14, <1>15, <1>18, FilesRest

-----------------------------------------------------------------------------
(* The control files.                                                      *)

LEMMA LastSeqIsLast ==
  ASSUME Types, HeadKnown
  PROVE  /\ LastSeq \in Nat /\ \A r \in disk : r.seq <= LastSeq
         /\ disk = {} => LastSeq = 0
         /\ disk # {} => \E r \in disk : r.seq = LastSeq
<1> DEFINE S == {r.seq : r \in disk}
<1>1. S \in SUBSET Nat /\ head + 1 \in Nat /\ \A n \in S : n <= head + 1
  BY RecordParts DEF Types, HeadKnown
<1>2. CASE disk = {}
  BY <1>2 DEF LastSeq
<1>3. CASE disk # {}
  <2>1. \E n \in S : \A k \in S : k <= n
    BY <1>1, <1>3, HighestNumber
  <2>2. \E n \in S : \A k \in S : n >= k
    BY <1>1, <2>1
  <2>3. Max(S) \in S /\ \A k \in S : Max(S) >= k
    BY <2>2 DEF Max
  <2>4. LastSeq = Max(S)
    BY <1>3 DEF LastSeq
  <2> HIDE DEF S
  <2>5. LastSeq \in Nat /\ LastSeq \in S /\ \A k \in S : k <= LastSeq
    BY <1>1, <2>3, <2>4
  <2> QED BY <1>3, <2>5 DEF S
<1> QED BY <1>2, <1>3

LEMMA RecoverHeadKeeps ==
  ASSUME IInv, RecoverHead
  PROVE  IInv'
<1>1. session'.pc = "chained" /\ session' \in [pc : Steps, rec : Record]
  BY GotoMoves DEF RecoverHead, IInv, Steps
<1>2. UNCHANGED <<disk, cursor, torn, serverVars, budget>> /\ head' = LastSeq
  BY DEF RecoverHead
<1>3. LastSeq \in Nat /\ (\A r \in disk : r.seq <= LastSeq) /\ head <= LastSeq
  BY LastSeqIsLast DEF RecoverHead, ChainHolds, IInv, InSession
<1>4. Types'
  BY <1>1, <1>2, <1>3 DEF IInv, Types, serverVars
<1>5. OnDisk' /\ AtServer' /\ NothingWritten
  BY <1>2, <1>4, SameFiles DEF IInv
<1>6. \A r \in disk : r.seq \in Nat /\ r \in disk'
  BY <1>2, RecordParts DEF IInv, Types
<1>7. HeadKnown'
  <2>1. Sent' = Sent /\ (\A s \in Sent : s \in Nat)
    BY <1>2 DEF Sent, serverVars, IInv, Types
  <2>2. cursor.seq \in Nat /\ head \in Nat
    BY DEF IInv, Types
  <2> QED BY <1>2, <1>3, <1>6, <2>1, <2>2 DEF HeadKnown, IInv, InSession
<1>8. \A r \in disk : \E q \in disk' : r.seq <= q.seq
  BY <1>6
<1>9. CursorRight'
  BY <1>2, <1>4, <1>5, <1>8, CursorKeeps DEF IInv, InSession
<1>10. LastWritten' /\ Places' /\ Drains'
  BY <1>1 DEF LastWritten, Places, Drains, Settling, AtWork, Draining, At
<1> QED BY <1>4, <1>5, <1>7, <1>9, <1>10 DEF IInv, InSession

LEMMA WriteHeadKeeps ==
  ASSUME IInv, WriteHead
  PROVE  IInv'
<1> DEFINE rec == session.rec
<1>1. session.pc = "appended" /\ rec \in disk /\ rec.seq = head + 1 /\ head \in Nat
      /\ \A r \in disk : r # rec => r.seq <= head
  BY DEF WriteHead, At, IInv, Types, InSession, LastWritten, Settling
<1>2. UNCHANGED <<disk, cursor, torn, serverVars, budget>> /\ head' = rec.seq
  BY DEF WriteHead
<1>3. /\ session'.pc = IF rec.kind \in {"command", "corrupt_disposition"} THEN "closing" ELSE "moving"
      /\ session'.rec = rec /\ session' \in [pc : Steps, rec : Record]
  BY GotoMoves DEF WriteHead, IInv, Steps
<1>4. Types'
  BY <1>1, <1>2, <1>3 DEF IInv, Types, serverVars
<1>5. OnDisk' /\ AtServer' /\ NothingWritten
  BY <1>2, <1>4, SameFiles DEF IInv
<1>6. \A r \in disk : r.seq \in Nat /\ r \in disk'
  BY <1>2, RecordParts DEF IInv, Types
<1>7. HeadKnown'
  <2>1. Sent' = Sent /\ (\A s \in Sent : s \in Nat)
    BY <1>2 DEF Sent, serverVars, IInv, Types
  <2>2. cursor.seq \in Nat
    BY DEF IInv, Types
  <2>3. \A r \in disk : r.seq <= head'
    BY <1>1, <1>2, <1>6
  <2>4. \A s \in Sent : s <= head'
    BY <1>1, <1>2, <2>1 DEF HeadKnown, IInv, InSession
  <2>5. cursor.seq <= head'
    BY <1>1, <1>2, <2>2 DEF HeadKnown, IInv, InSession
  <2>6. head' \in Nat
    BY <1>4 DEF Types
  <2> QED BY <1>2, <1>6, <2>1, <2>3, <2>4, <2>5, <2>6 DEF HeadKnown
<1>8. \A r \in disk : \E q \in disk' : r.seq <= q.seq
  BY <1>6
<1>9. CursorRight'
  BY <1>2, <1>4, <1>5, <1>8, CursorKeeps DEF IInv, InSession
<1>10. /\ Cmds' = Cmds /\ \A s : StateOf(s)' = StateOf(s)
       /\ ActiveCorrupt' = ActiveCorrupt /\ \A dir : In(dir)' = In(dir)
  BY <1>2, <1>4, SameFiles, SameCommands DEF IInv
<1>11. LastWritten'
  <2>1. rec.kind \in Kinds
    BY <1>1, RecordParts DEF IInv, Types
  <2> QED BY <1>1, <1>2, <1>3, <2>1 DEF LastWritten, Settling, At, Kinds, Receipts
<1>12. Places'
  BY <1>1, <1>3, <1>10 DEF Places, Placed, Settling, Receipts, AtWork, IInv, InSession
<1>13. Drains'
  BY <1>1, <1>3, <1>10 DEF Drains, Settling, Draining, At, IInv, InSession
<1> QED BY <1>4, <1>5, <1>7, <1>9, <1>11, <1>12, <1>13 DEF IInv, InSession

\* A cursor that is written when all commands are in their places is right.
LEMMA CursorNowRight ==
  ASSUME IInv, Types', UNCHANGED <<disk, head, serverVars>>, cursor' = CursorNow, Placed(Cmds),
         session.pc \in Chained
  PROVE  OnDisk' /\ AtServer' /\ HeadKnown' /\ CursorRight' /\ Placed(Cmds)'
<1>1. OnDisk' /\ AtServer'
  BY SameFiles DEF IInv
<1>2. Cmds' = Cmds /\ \A s : StateOf(s)' = StateOf(s)
  BY SameFiles DEF IInv
<1>3. cursor'.seq = head /\ cursor'.dirs = {<<r.seq, r.dir>> : r \in Cmds}
  BY DEF CursorNow
<1>4. Sent' = Sent
  BY DEF Sent, serverVars
<1>5. HeadKnown'
  BY <1>3, <1>4 DEF HeadKnown, IInv, InSession, Types
<1>6. CursorRight'
  <2> SUFFICES ASSUME NEW r \in Cmds, NEW d \in Directories, <<r.seq, d>> \in cursor'.dirs
               PROVE  d = StateOf(r.seq)
    BY <1>2 DEF CursorRight
  <2>1. PICK q \in Cmds : q.seq = r.seq /\ q.dir = d
    BY <1>3
  <2>2. q = r
    BY <2>1, DiskParts DEF IInv, OnDisk, Numbered
  <2> QED BY <2>1, <2>2 DEF Placed
<1> QED BY <1>1, <1>2, <1>5, <1>6 DEF Placed

LEMMA CursorNowTyped ==
  ASSUME IInv
  PROVE  CursorNow \in [seq : Nat, dirs : SUBSET (Nat \X Directories)]
<1>1. \A r \in Cmds : r.seq \in Nat /\ r.dir \in Directories
  BY RecordParts, DiskParts DEF IInv
<1> QED BY <1>1 DEF CursorNow, IInv, Types

LEMMA CheckpointRecoveryKeeps ==
  ASSUME IInv, CheckpointRecovery
  PROVE  IInv'
<1>1. session'.pc = "ready" /\ session' \in [pc : Steps, rec : Record] /\ session.pc \in Chained
  BY GotoMoves DEF CheckpointRecovery, IInv, Steps, Chained, At
<1>2. UNCHANGED <<disk, head, torn, serverVars, budget>> /\ cursor' = CursorNow
  BY DEF CheckpointRecovery
<1>3. Types'
  BY <1>1, <1>2, CursorNowTyped DEF IInv, Types, serverVars
<1>4. Placed(Cmds)
  BY DEF CheckpointRecovery, Misplaced, Placed
<1>5. OnDisk' /\ AtServer' /\ HeadKnown' /\ CursorRight' /\ Placed(Cmds)'
  BY <1>1, <1>2, <1>3, <1>4, CursorNowRight
<1>6. LastWritten' /\ Places' /\ Drains'
  BY <1>1, <1>5 DEF LastWritten, Places, Drains, Settling, Draining, At
<1> QED BY <1>3, <1>5, <1>6 DEF IInv, InSession

LEMMA CloseKeeps ==
  ASSUME IInv, Close
  PROVE  IInv'
<1>1. session' = [pc |-> "closed", rec |-> NoRecord] /\ session.pc \in {"ready", "closing"}
      /\ UNCHANGED <<disk, head, torn, serverVars, budget>>
  BY DEF Close, At
<1>2. session' \in [pc : Steps, rec : Record] /\ session'.pc = "closed"
  BY <1>1, NoRecordTyped DEF Steps
<1>3. LastWritten' /\ Places' /\ Drains'
  BY <1>2 DEF LastWritten, Places, Drains, Settling, AtWork, Draining, At
<1>4. CASE cursor' = cursor
  <2>1. Types'
    BY <1>1, <1>2, <1>4 DEF IInv, Types, serverVars
  <2> QED BY <1>1, <1>2, <1>3, <1>4, <2>1, SessionKeeps DEF Chained
<1>5. CASE cursor' = CursorNow
  <2>1. Types'
    BY <1>1, <1>2, <1>5, CursorNowTyped DEF IInv, Types, serverVars
  <2>2. Placed(Cmds)
    BY <1>1 DEF IInv, InSession, Places, AtWork
  <2>3. OnDisk' /\ AtServer' /\ HeadKnown' /\ CursorRight'
    BY <1>1, <1>5, <2>1, <2>2, CursorNowRight DEF Chained
  <2> QED BY <1>3, <2>1, <2>3 DEF IInv, InSession
<1> QED BY <1>4, <1>5 DEF Close

-----------------------------------------------------------------------------
(* Files are moved and removed.                                            *)

\* The record is the same, in another directory.
InPlaceOf(q, r) ==
  /\ q \in Record /\ q.seq = r.seq /\ q.kind = r.kind /\ q.cmd = r.cmd /\ q.target = r.target
  /\ q.rotten = r.rotten /\ (r.kind # "command" => q = r)

Relocated ==
  /\ \A q \in disk' : \E r \in disk : InPlaceOf(q, r)
  /\ \A r \in disk : \E q \in disk' : InPlaceOf(q, r)
  /\ \A q, p \in disk' : q.seq = p.seq => q = p

LEMMA RelocationKeeps ==
  ASSUME Types, OnDisk, Relocated
  PROVE  disk' \subseteq Record /\ OnlyMoved /\ Numbered'
         /\ \A r \in disk : \E q \in disk' : r.seq <= q.seq
<1>1. disk' \subseteq Record
  BY DEF Relocated, InPlaceOf
<1>2. Papers' = Papers
  BY DEF Relocated, InPlaceOf, Papers
<1>3. \A q \in Letters' : \E r \in Letters : r.seq = q.seq /\ r.cmd = q.cmd /\ (r.rotten => q.rotten)
  BY DEF Relocated, InPlaceOf, Letters
<1>4. \A r \in Letters : \E q \in Letters' : q.seq = r.seq
  BY DEF Relocated, InPlaceOf, Letters
<1>5. Numbered'
  <2>1. \A q, p \in disk' : q.seq = p.seq => q = p
    BY DEF Relocated
  <2>2. \A q \in disk' : q.rotten => q.kind = "command"
    BY DEF Relocated, InPlaceOf, OnDisk, Numbered
  <2>3. \A q \in Letters' : q.cmd \in Commands
    BY <1>3 DEF OnDisk, Numbered
  <2> QED BY <2>1, <2>2, <2>3 DEF Numbered
<1>6. ASSUME NEW r \in disk PROVE \E q \in disk' : r.seq <= q.seq
  <2>1. PICK q \in disk' : q.seq = r.seq
    BY DEF Relocated, InPlaceOf
  <2>2. r.seq \in Nat
    BY RecordParts DEF Types
  <2> QED BY <2>1, <2>2
<1> QED BY <1>1, <1>2, <1>3, <1>4, <1>5, <1>6 DEF OnlyMoved

LEMMA Redirected ==
  ASSUME NEW r \in Record, NEW d \in Directories, r.kind = "command"
  PROVE  InPlaceOf([r EXCEPT !.dir = d], r) /\ [r EXCEPT !.dir = d].dir = d
BY DEF Record, InPlaceOf

LEMMA Unredirected ==
  ASSUME NEW r \in Record
  PROVE  InPlaceOf(r, r)
BY DEF InPlaceOf

\* A command is moved to a directory.
LEMMA MoveRelocates ==
  ASSUME Types, OnDisk, NEW s, NEW d \in Directories, Move(s, d)
  PROVE  /\ Relocated
         /\ \A q \in disk' : q.kind = "command" =>
              IF q.seq = s THEN q.dir = d ELSE q \in disk
<1> DEFINE Image(r) == IF r.kind = "command" /\ r.seq = s THEN [r EXCEPT !.dir = d] ELSE r
<1>1. disk' = {Image(r) : r \in disk}
  BY DEF Move
<1>2. ASSUME NEW r \in disk
      PROVE  /\ InPlaceOf(Image(r), r)
             /\ Image(r).kind = "command" => IF Image(r).seq = s THEN Image(r).dir = d ELSE Image(r) \in disk
  <2>1. r \in Record
    BY DEF Types
  <2>2. CASE r.kind = "command" /\ r.seq = s
    <3>1. InPlaceOf(Image(r), r) /\ Image(r).dir = d
      BY <2>1, <2>2, Redirected
    <3> QED BY <2>2, <3>1 DEF InPlaceOf
  <2>3. CASE ~(r.kind = "command" /\ r.seq = s)
    <3>1. Image(r) = r
      BY <2>3
    <3> QED BY <2>1, <2>3, <3>1, Unredirected
  <2> QED BY <2>2, <2>3
<1> HIDE DEF Image
<1>3. ASSUME NEW q \in disk', NEW p \in disk', q.seq = p.seq PROVE q = p
  <2>1. PICK r \in disk : q = Image(r)
    BY <1>1
  <2>2. PICK t \in disk : p = Image(t)
    BY <1>1
  <2>3. r.seq = t.seq
    BY <1>2, <1>3, <2>1, <2>2 DEF InPlaceOf
  <2> QED BY <2>1, <2>2, <2>3 DEF OnDisk, Numbered
<1> QED BY <1>1, <1>2, <1>3 DEF Relocated

LEMMA OpenRelocates ==
  ASSUME IInv, Open
  PROVE  Relocated
<1> DEFINE Image(r) == IF r.rotten THEN [r EXCEPT !.dir = "quarantine"] ELSE r
<1>1. disk' = {Image(r) : r \in disk}
  BY DEF Open
<1>2. ASSUME NEW r \in disk PROVE InPlaceOf(Image(r), r)
  <2>1. r \in Record
    BY DEF IInv, Types
  <2>2. CASE r.rotten
    BY <2>1, <2>2, Redirected DEF IInv, OnDisk, Numbered, Directories
  <2>3. CASE ~r.rotten
    BY <2>1, <2>3, Unredirected
  <2> QED BY <2>2, <2>3
<1> HIDE DEF Image
<1>3. ASSUME NEW q \in disk', NEW p \in disk', q.seq = p.seq PROVE q = p
  <2>1. PICK r \in disk : q = Image(r)
    BY <1>1
  <2>2. PICK t \in disk : p = Image(t)
    BY <1>1
  <2>3. r.seq = t.seq
    BY <1>2, <1>3, <2>1, <2>2 DEF InPlaceOf
  <2> QED BY <2>1, <2>2, <2>3 DEF IInv, OnDisk, Numbered
<1> QED BY <1>1, <1>2, <1>3 DEF Relocated

LEMMA OpenKeeps ==
  ASSUME IInv, Open
  PROVE  IInv'
<1>4. Relocated
  BY OpenRelocates
<1>5. disk' \subseteq Record /\ OnlyMoved /\ Numbered' /\ \A r \in disk : \E q \in disk' : r.seq <= q.seq
  BY <1>4, RelocationKeeps DEF IInv
<1>6. session'.pc = "scanned" /\ session' \in [pc : Steps, rec : Record]
  BY GotoMoves DEF Open, IInv, Steps
<1>7. UNCHANGED <<head, cursor, torn, serverVars, budget>>
  BY DEF Open
<1>8. Types'
  BY <1>5, <1>6, <1>7 DEF IInv, Types, serverVars
<1>9. NothingWritten /\ OnDisk' /\ AtServer'
  BY <1>5, <1>7, <1>8, MovingKeeps DEF IInv
<1>10. CursorRight'
  BY <1>5, <1>7, <1>8, <1>9, CursorKeeps DEF IInv, InSession
<1>11. HeadKnown'
  <2>1. \A q \in disk' : q.seq <= head + 1
    BY <1>4 DEF Relocated, InPlaceOf, IInv, InSession, HeadKnown
  <2> QED BY <1>6, <1>7, <2>1 DEF HeadKnown, Chained, Sent, serverVars, IInv, InSession
<1>12. LastWritten' /\ Places' /\ Drains'
  BY <1>6 DEF LastWritten, Places, Drains, Settling, AtWork, Draining, At
<1> QED BY <1>8, <1>9, <1>10, <1>11, <1>12 DEF IInv, InSession

\* Bytes of a command's file rot.
LEMMA RotKeeps ==
  ASSUME IInv, NEW r \in Cmds, Rot(r)
  PROVE  IInv' /\ OnlyMoved
<1> DEFINE x == [r EXCEPT !.rotten = TRUE]
<1>1. r \in disk /\ r.kind = "command" /\ r \in Record
  BY DEF Cmds, OfKind, IInv, Types
<1>2. /\ x \in Record /\ x.seq = r.seq /\ x.kind = "command" /\ x.cmd = r.cmd /\ x.rotten
  BY <1>1 DEF Record
<1>3. disk' = (disk \ {r}) \union {x}
  BY DEF Rot
<1> HIDE DEF x
<1>4. Papers' = Papers
  BY <1>1, <1>2, <1>3 DEF Papers
<1>5. OnlyMoved
  BY <1>1, <1>2, <1>3, <1>4 DEF OnlyMoved, Letters
<1>6. Numbered'
  <2>1. \A q, p \in disk' : q.seq = p.seq => q = p
    BY <1>1, <1>2, <1>3 DEF IInv, OnDisk, Numbered
  <2>2. \A q \in disk' : q.rotten => q.kind = "command"
    BY <1>1, <1>2, <1>3 DEF IInv, OnDisk, Numbered
  <2>3. \A q \in Letters' : q.cmd \in Commands
    BY <1>5 DEF OnlyMoved, IInv, OnDisk, Numbered
  <2> QED BY <2>1, <2>2, <2>3 DEF Numbered
<1>7. UNCHANGED <<head, cursor, torn, session, serverVars>> /\ session.pc = "closed"
      /\ budget' \in [Purposes -> Nat]
  BY SpendTakes DEF Rot, At, IInv, Purposes
<1>8. Types'
  BY <1>2, <1>3, <1>7 DEF IInv, Types, serverVars
<1>9. NothingWritten /\ OnDisk' /\ AtServer'
  BY <1>5, <1>6, <1>7, <1>8, MovingKeeps DEF IInv
<1>10. ASSUME NEW o \in disk PROVE \E q \in disk' : o.seq <= q.seq
  <2>1. o.seq \in Nat
    BY RecordParts DEF IInv, Types
  <2>2. \E q \in disk' : q.seq = o.seq
    BY <1>2, <1>3
  <2> QED BY <2>1, <2>2
<1>11. CursorRight'
  BY <1>7, <1>8, <1>9, <1>10, CursorKeeps DEF IInv, InSession
<1>12. HeadKnown'
  <2>1. \A q \in disk' : q.seq <= head + 1
    BY <1>1, <1>2, <1>3 DEF IInv, InSession, HeadKnown
  <2> QED BY <1>7, <2>1 DEF HeadKnown, Chained, Sent, serverVars, IInv, InSession
<1>13. LastWritten' /\ Places' /\ Drains'
  BY <1>7 DEF LastWritten, Places, Drains, Settling, AtWork, Draining, At
<1> QED BY <1>5, <1>8, <1>9, <1>11, <1>12, <1>13 DEF IInv, InSession

\* Steps that shrink the files while the session knows them.
LEMMA ShrinkingKeeps ==
  ASSUME IInv, Types', NothingWritten, OnDisk', AtServer', UNCHANGED <<head, cursor, serverVars>>,
         \A q \in disk' : \E r \in disk : r.seq = q.seq,
         \A r \in disk : \E q \in disk' : r.seq <= q.seq,
         session.pc \in Chained \/ session'.pc \notin Chained,
         LastWritten', Places', Drains'
  PROVE  IInv'
<1>1. CursorRight'
  BY CursorKeeps DEF IInv, InSession
<1>2. HeadKnown'
  BY DEF HeadKnown, Sent, serverVars, IInv, InSession
<1> QED BY <1>1, <1>2 DEF IInv, InSession

LEMMA RecoverCompactionKeeps ==
  ASSUME IInv, RecoverCompaction
  PROVE  IInv'
<1>1. Covered # {} /\ Delete(First(Covered)) /\ session.pc \in {"scanned", "chained"}
      /\ UNCHANGED <<head, cursor, torn, session, serverVars, budget>>
  BY DEF RecoverCompaction, At
<1>2. disk' \subseteq disk
  BY <1>1 DEF Delete
<1>3. Types'
  BY <1>1, <1>2 DEF IInv, Types, serverVars
<1>4. NothingWritten /\ OnDisk' /\ AtServer' /\ \A r \in disk : \E q \in disk' : r.seq <= q.seq
  BY <1>1, <1>3, CoveredKeeps DEF IInv
<1>5. LastWritten' /\ Places' /\ Drains'
  BY <1>1 DEF LastWritten, Places, Drains, Settling, AtWork, Draining, At
<1> QED BY <1>1, <1>2, <1>3, <1>4, <1>5, ShrinkingKeeps

\* A discarded command is removed by the recovery, or by the discard itself.
LEMMA DiscardedKeeps ==
  ASSUME IInv, Types', NEW x \in Letters, Tombstone(x.seq), Delete(x),
         UNCHANGED <<head, cursor, serverVars>>
  PROVE  NothingWritten /\ OnDisk' /\ AtServer' /\ disk' \subseteq disk
         /\ \A r \in disk : \E q \in disk' : r.seq <= q.seq
<1>1. PICK d \in disk : d.kind = "discard" /\ d.target = x.seq
  BY DEF Tombstone
<1>2. d.target < d.seq
  BY <1>1 DEF IInv, OnDisk, Targets, OfKind, Receipts
<1>3. x \notin Unsettled
  BY <1>1 DEF Unsettled, Dropped, OfKind
<1>4. x \in disk /\ x.kind = "command"
  BY DEF Letters
<1>5. NothingWritten /\ OnDisk' /\ AtServer'
  BY <1>3, <1>4, DeletionKeeps DEF IInv, Receipts
<1>6. disk' = disk \ {x} /\ d # x
  BY <1>1, <1>4 DEF Delete
<1>7. ASSUME NEW r \in disk PROVE \E q \in disk' : r.seq <= q.seq
  <2>1. r.seq \in Nat /\ x.seq \in Nat /\ d.seq \in Nat
    BY <1>1, <1>4, RecordParts DEF IInv, Types
  <2>2. CASE r = x
    <3>1. d \in disk' /\ r.seq <= d.seq
      BY <1>1, <1>2, <1>6, <2>1, <2>2
    <3> QED BY <3>1
  <2>3. CASE r # x
    BY <1>6, <2>1, <2>3
  <2> QED BY <2>2, <2>3
<1> QED BY <1>5, <1>6, <1>7

LEMMA RepairTransitionKeeps ==
  ASSUME IInv, RepairTransition
  PROVE  IInv'
<1> DEFINE r == First(Misplaced)
<1>1. Misplaced # {} /\ Misplaced \subseteq disk /\ session.pc = "repairing"
      /\ UNCHANGED <<head, cursor, torn, session, serverVars, budget>>
  BY DEF RepairTransition, Misplaced, Cmds, OfKind, At
<1>2. r \in Misplaced
  BY <1>1, FirstIsLeast DEF IInv
<1>3. IF StateOf(r.seq) = "discarded" THEN Delete(r) ELSE Move(r.seq, StateOf(r.seq))
  BY DEF RepairTransition
<1> HIDE DEF r
<1>4. r \in Letters
  BY <1>2 DEF Misplaced, Cmds, OfKind, Letters
<1>5. LastWritten' /\ Places' /\ Drains' /\ session.pc \in Chained
  BY <1>1 DEF LastWritten, Places, Drains, Settling, AtWork, Draining, At, Chained
<1>6. CASE StateOf(r.seq) = "discarded"
  <2>1. Delete(r) /\ disk' \subseteq disk
    BY <1>3, <1>6 DEF Delete
  <2>2. Types'
    BY <1>1, <2>1 DEF IInv, Types, serverVars
  <2>3. Tombstone(r.seq)
    BY <1>6, StateKnown DEF IInv, OnDisk, InSession
  <2>4. NothingWritten /\ OnDisk' /\ AtServer' /\ \A o \in disk : \E q \in disk' : o.seq <= q.seq
    BY <1>1, <1>4, <2>1, <2>2, <2>3, DiscardedKeeps
  <2> QED BY <1>1, <1>5, <2>1, <2>2, <2>4, ShrinkingKeeps
<1>7. CASE StateOf(r.seq) # "discarded"
  <2>1. Move(r.seq, StateOf(r.seq)) /\ StateOf(r.seq) \in Directories
    BY <1>3, <1>7, StateKnown DEF Outcomes, Directories, IInv, OnDisk, InSession
  <2>2. Relocated
    BY <2>1, MoveRelocates DEF IInv
  <2>3. disk' \subseteq Record /\ OnlyMoved /\ Numbered' /\ \A o \in disk : \E q \in disk' : o.seq <= q.seq
    BY <2>2, RelocationKeeps DEF IInv
  <2>4. Types'
    BY <1>1, <2>3 DEF IInv, Types, serverVars
  <2>5. NothingWritten /\ OnDisk' /\ AtServer'
    BY <1>1, <2>3, <2>4, MovingKeeps DEF IInv
  <2>6. \A q \in disk' : \E o \in disk : o.seq = q.seq
    BY <2>2 DEF Relocated, InPlaceOf
  <2> QED BY <1>1, <1>5, <2>3, <2>4, <2>5, <2>6, ShrinkingKeeps
<1> QED BY <1>6, <1>7

LEMMA SettleKeeps ==
  ASSUME IInv, Settle
  PROVE  IInv'
<1> DEFINE rec == session.rec
<1>1. session.pc = "moving" /\ UNCHANGED <<head, cursor, torn, serverVars, budget>>
  BY DEF Settle, At
<1>2. /\ rec \in disk /\ rec.seq = head /\ \A r \in disk : r.seq <= head
      /\ rec.kind \in Receipts \union {"anchor"} /\ session.pc \in Chained
  BY <1>1 DEF At, IInv, InSession, LastWritten, HeadKnown, Settling, Chained
<1>3. /\ rec.kind \notin Receipts => Placed(Cmds)
      /\ rec.kind \in Receipts => /\ Placed({r \in Cmds : r.seq # rec.target})
                                  /\ StateOf(rec.target) = To[rec.kind]
      /\ rec.kind = "accepted_receipt" => ActiveCorrupt = {} /\ In("quarantine") = {}
  BY <1>1 DEF At, IInv, InSession, Places, Drains, Settling
<1>4. CASE rec.kind = "anchor" /\ Covered # {} /\ Delete(First(Covered)) /\ UNCHANGED session
  <2>1. disk' \subseteq disk
    BY <1>4 DEF Delete
  <2>2. Types'
    BY <1>1, <1>4, <2>1 DEF IInv, Types, serverVars
  <2>3. NothingWritten /\ OnDisk' /\ AtServer' /\ \A r \in disk : \E q \in disk' : r.seq <= q.seq
    BY <1>1, <1>4, <2>2, CoveredKeeps DEF IInv
  <2>4. rec \in disk'
    <3>1. PICK a \in OfKind({"anchor"}) : First(Covered).seq < a.seq
      BY <1>1, <1>4, <2>2, CoveredKeeps DEF IInv
    <3>2. a \in disk /\ a.seq \in Nat /\ head \in Nat
      BY <3>1, RecordParts DEF OfKind, IInv, Types
    <3>3. Covered \subseteq disk
      BY DEF Covered
    <3>4. First(Covered) \in disk
      BY <1>4, <3>3, FirstIsLeast DEF IInv
    <3>5. First(Covered).seq \in Nat
      BY <3>4, RecordParts DEF IInv, Types
    <3>6. First(Covered) # rec
      BY <1>2, <3>1, <3>2, <3>5
    <3> QED BY <1>2, <1>4, <3>6 DEF Delete
  <2>5. Placed(Cmds)'
    <3>1. \A q \in Cmds' : q \in Cmds /\ StateOf(q.seq)' = StateOf(q.seq)
      BY <2>1, <2>3 DEF Cmds, OfKind, Letters, NothingWritten
    <3> QED BY <1>3, <1>4, <3>1 DEF Placed, Receipts
  <2>6. LastWritten' /\ Places' /\ Drains'
    BY <1>1, <1>2, <1>4, <2>4, <2>5
       DEF LastWritten, Places, Drains, Settling, AtWork, Draining, At, Receipts
  <2> QED BY <1>1, <1>2, <2>1, <2>2, <2>3, <2>6, ShrinkingKeeps
<1>5. CASE rec.kind = "anchor" /\ Covered = {} /\ UNCHANGED disk /\ Goto("ready")
  <2>1. session'.pc = "ready" /\ session' \in [pc : Steps, rec : Record]
    BY <1>5, GotoMoves DEF IInv, Steps
  <2>2. Types'
    BY <1>1, <1>5, <2>1 DEF IInv, Types, serverVars
  <2>3. Placed(Cmds)'
    BY <1>3, <1>5, <2>2, SameCommands DEF IInv, Receipts
  <2>4. LastWritten' /\ Places' /\ Drains'
    BY <2>1, <2>3 DEF LastWritten, Places, Drains, Settling, Draining, At
  <2> QED BY <1>1, <1>2, <1>5, <2>2, <2>4, SessionKeeps
<1>6. CASE rec.kind = "discard" /\ disk' = {r \in disk : r.seq # rec.target} /\ Goto("closing")
  <2>1. session'.pc = "closing" /\ session' \in [pc : Steps, rec : Record]
    BY <1>6, GotoMoves DEF IInv, Steps
  <2>2. Types'
    BY <1>1, <1>6, <2>1 DEF IInv, Types, serverVars
  <2>3. /\ NothingWritten /\ OnDisk' /\ AtServer' /\ disk' \subseteq disk
        /\ \A r \in disk : \E q \in disk' : r.seq <= q.seq
    <3>1. CASE \E x \in disk : x.seq = rec.target
      <4>1. PICK x \in disk : x.seq = rec.target
        BY <3>1
      <4>2. disk' = disk \ {x}
        BY <1>6, <4>1 DEF IInv, OnDisk, Numbered
      <4>3. x \in Letters
        BY <1>2, <1>6, <4>1 DEF IInv, OnDisk, Targets, OfKind, Receipts, Letters
      <4>4. Tombstone(x.seq)
        BY <1>2, <1>6, <4>1 DEF Tombstone
      <4> QED BY <1>1, <2>2, <4>2, <4>3, <4>4, DiscardedKeeps DEF Delete
    <3>2. CASE ~\E x \in disk : x.seq = rec.target
      <4>1. disk' = disk
        BY <1>6, <3>2
      <4>2. NothingWritten /\ OnDisk' /\ AtServer'
        BY <1>1, <2>2, <4>1, SameFiles DEF IInv
      <4>3. \A r \in disk : r.seq \in Nat
        BY RecordParts DEF IInv, Types
      <4>4. \A r \in disk : \E q \in disk' : r.seq <= q.seq
        BY <4>1, <4>3
      <4> QED BY <4>1, <4>2, <4>4
    <3> QED BY <3>1, <3>2
  <2>4. Placed(Cmds)'
    <3>1. \A q \in Cmds' : q \in Cmds /\ q.seq # rec.target /\ StateOf(q.seq)' = StateOf(q.seq)
      BY <1>6, <2>3 DEF Cmds, OfKind, Letters, NothingWritten
    <3> QED BY <1>3, <1>6, <3>1 DEF Placed, Receipts
  <2>5. LastWritten' /\ Places' /\ Drains'
    BY <2>1, <2>4 DEF LastWritten, Places, Drains, Settling, Draining, At
  <2> QED BY <1>1, <1>2, <2>2, <2>3, <2>5, ShrinkingKeeps
<1>7. ASSUME NEW d \in Directories, NEW pc \in {"draining", "closing"},
             rec.kind \in Receipts, d = To[rec.kind], Move(rec.target, d), Goto(pc),
             pc = "draining" => rec.kind = "accepted_receipt"
      PROVE  IInv'
  <2>1. session'.pc = pc /\ session' \in [pc : Steps, rec : Record]
    BY <1>7, GotoMoves DEF IInv, Steps
  <2>2. /\ Relocated
        /\ \A q \in disk' : q.kind = "command" => IF q.seq = rec.target THEN q.dir = d ELSE q \in disk
    BY <1>7, MoveRelocates DEF IInv
  <2>3. disk' \subseteq Record /\ OnlyMoved /\ Numbered' /\ \A r \in disk : \E q \in disk' : r.seq <= q.seq
    BY <2>2, RelocationKeeps DEF IInv
  <2>4. Types'
    BY <1>1, <2>1, <2>3 DEF IInv, Types, serverVars
  <2>5. NothingWritten /\ OnDisk' /\ AtServer'
    BY <1>1, <2>3, <2>4, MovingKeeps DEF IInv
  <2>6. \A q \in disk' : \E r \in disk : r.seq = q.seq
    BY <2>2 DEF Relocated, InPlaceOf
  <2>7. \A s : StateOf(s)' = StateOf(s)
    BY <2>3, StatesKept DEF OnlyMoved
  <2>8. \A q \in Cmds' : IF q.seq = rec.target THEN q.dir = d ELSE q \in Cmds
    BY <2>2 DEF Cmds, OfKind
  <2>9. Placed(Cmds)'
    BY <1>3, <1>7, <2>7, <2>8 DEF Placed
  <2>10. pc = "draining" => ActiveCorrupt' = {} /\ In("quarantine")' = {}
    <3> SUFFICES ASSUME pc = "draining" PROVE ActiveCorrupt' = {} /\ In("quarantine")' = {}
      OBVIOUS
    <3>1. d = "accepted"
      BY <1>7, ReceiptKinds
    <3>2. In("quarantine")' = {}
      BY <1>3, <1>7, <2>8, <3>1 DEF In
    <3>3. OfKind({"corrupt_disposition"})' = OfKind({"corrupt_disposition"})
      BY <2>3 DEF OnlyMoved, Papers, OfKind
    <3>4. \A r \in disk : r.rotten => \E e \in OfKind({"corrupt_disposition"}) : e.target = r.seq
      BY <1>3, <1>7 DEF ActiveCorrupt
    <3>5. \A q \in disk' : q.rotten => \E e \in OfKind({"corrupt_disposition"}) : e.target = q.seq
      BY <2>2, <3>4 DEF Relocated, InPlaceOf
    <3>6. ActiveCorrupt' = {}
      BY <3>3, <3>5 DEF ActiveCorrupt
    <3> QED BY <3>2, <3>6
  <2>11. LastWritten' /\ Places' /\ Drains'
    BY <2>1, <2>9, <2>10 DEF LastWritten, Places, Drains, Settling, Draining, At
  <2> QED BY <1>1, <1>2, <2>3, <2>4, <2>5, <2>6, <2>11, ShrinkingKeeps
<1>8. CASE rec.kind = "accepted_receipt" /\ Move(rec.target, "accepted") /\ Goto("draining")
  BY <1>7, <1>8, ReceiptKinds DEF Receipts, Directories
<1>9. CASE rec.kind \in {"quarantine_receipt", "retry"} /\ Move(rec.target, To[rec.kind]) /\ Goto("closing")
  <2>1. To[rec.kind] \in Directories
    BY <1>9, ReceiptKinds DEF Directories
  <2> QED BY <1>7, <1>9, <2>1 DEF Receipts
<1> QED BY <1>4, <1>5, <1>6, <1>8, <1>9 DEF Settle

-----------------------------------------------------------------------------
(* Records are written.                                                    *)

\* What the operations have established before they write a record.
Legal(kind, directory, cmd, target) ==
  /\ kind \in Kinds /\ directory \in Directories /\ cmd \in Commands \union {NoCommand}
  /\ target \in Nat
  /\ kind = "command" => cmd \in Commands /\ directory = "pending"
  /\ kind \in Receipts => \E t \in Cmds : t.seq = target /\ StateOf(target) = From[kind]
  /\ kind = "quarantine_receipt" =>
       \A p \in Cmds : /\ StateOf(p.seq) # "quarantine"
                       /\ StateOf(p.seq) = "pending" => target <= p.seq
  /\ kind = "accepted_receipt" =>
       /\ ActiveCorrupt = {} /\ In("quarantine") = {}
       /\ \A r \in Letters : r.seq = target => server[r.cmd] = "accepted"
  /\ kind = "corrupt_disposition" => \E t \in ActiveCorrupt : t.seq = target
  /\ kind = "anchor" =>
       \A r \in disk : /\ r.kind \in {"anchor", "command", "accepted_receipt"}
                       /\ r.kind = "command" => StateOf(r.seq) = "accepted"

LEMMA ReceiptStarts ==
  /\ From["accepted_receipt"] = "pending" /\ From["quarantine_receipt"] = "pending"
  /\ From["retry"] = "quarantine" /\ From["discard"] = "quarantine"
BY DEF From

\* A receipt decides the state of its command and of no other.
LEMMA StatesWritten ==
  ASSUME Types, Types', Numbered', NEW x \in Record, disk' = disk \union {x},
         \A r \in disk : r.seq \in Nat /\ r.seq <= head /\ r.seq # x.seq, x.seq = head + 1
  PROVE  /\ \A s : ~(x.kind \in Receipts /\ s = x.target) => StateOf(s)' = StateOf(s)
         /\ x.kind \in Receipts => StateOf(x.target)' = To[x.kind]
<1>1. Papers' = (IF x.kind = "command" THEN Papers ELSE Papers \union {x})
  BY DEF Papers
<1>2. ASSUME NEW s, ~(x.kind \in Receipts /\ s = x.target) PROVE StateOf(s)' = StateOf(s)
  <2>1. History(s)' = {p \in Papers' : p.kind \in Receipts /\ p.target = s}
    BY HistoryIsPapers
  <2>2. History(s) = {p \in Papers : p.kind \in Receipts /\ p.target = s}
    BY HistoryIsPapers
  <2>3. History(s)' = History(s)
    BY <1>1, <1>2, <2>1, <2>2
  <2> QED BY <2>3, SameHistory
<1>3. ASSUME x.kind \in Receipts PROVE StateOf(x.target)' = To[x.kind]
  <2> DEFINE H == {p \in Papers' : p.kind \in Receipts /\ p.target = x.target}
  <2>1. History(x.target)' = H
    BY HistoryIsPapers
  <2>2. \A p \in Papers' : p \in disk'
    BY DEF Papers
  <2>3. H \in SUBSET Record /\ \A r, q \in H : r.seq = q.seq => r = q
    BY <2>2 DEF Types, Numbered
  <2>4. x \in H
    BY <1>1, <1>3 DEF Receipts
  <2>5. \A q \in H : q.seq <= x.seq
    <3>1. head \in Nat
      BY DEF Types
    <3> QED BY <2>2, <3>1
  <2> HIDE DEF H
  <2>6. Outcome(H) = To[x.kind]
    BY <2>3, <2>4, <2>5, LastDecides
  <2> QED BY <2>1, <2>6 DEF StateOf
<1> QED BY <1>2, <1>3

LEMMA AppendKeeps ==
  ASSUME IInv, session.pc \in AtWork, NEW kind, NEW directory, NEW cmd, NEW target,
         Legal(kind, directory, cmd, target), AppendRecord(kind, directory, cmd, target),
         UNCHANGED serverVars, budget' \in [Purposes -> Nat]
  PROVE  IInv'
<1> DEFINE X == [seq |-> head + 1, kind |-> kind, dir |-> directory, cmd |-> cmd,
                 target |-> target, rotten |-> FALSE]
<1>0. /\ X \in Record /\ X.seq = head + 1 /\ X.kind = kind /\ X.dir = directory /\ X.cmd = cmd
      /\ X.target = target /\ X.rotten = FALSE /\ head \in Nat
      /\ disk' = disk \union {X} /\ session' = [pc |-> "appended", rec |-> X]
      /\ UNCHANGED <<head, cursor, torn>>
  BY DEF IInv, Types, Legal, Record, AppendRecord
<1> HIDE DEF X
<1>1. PICK x : /\ disk' = disk \union {x} /\ session' = [pc |-> "appended", rec |-> x]
               /\ UNCHANGED <<head, cursor, torn>>
               /\ x = X
  BY <1>0
<1>2. /\ x \in Record /\ x.seq = head + 1 /\ x.kind = kind /\ x.dir = directory /\ x.cmd = cmd
      /\ x.target = target /\ x.rotten = FALSE /\ head \in Nat
  BY <1>0, <1>1
<1>3. \A r \in disk : r.seq \in Nat /\ r.seq <= head /\ r.seq # x.seq
  <2>1. \A r \in disk : r.seq \in Nat /\ r.seq <= head
    BY RecordParts DEF IInv, Types, InSession, HeadKnown, AtWork, Chained
  <2> QED BY <1>2, <2>1
<1>4. session'.pc = "appended" /\ session'.rec = x /\ session' \in [pc : Steps, rec : Record]
  BY <1>1, <1>2 DEF Steps
<1>5. Types'
  BY <1>1, <1>2, <1>4 DEF IInv, Types, serverVars
<1>6. UNCHANGED <<flight, server, executed>> /\ Sent' = Sent /\ \A s \in Sent : s \in Nat /\ s <= head
  BY DEF serverVars, Sent, IInv, Types, InSession, HeadKnown
<1>7. Placed(Cmds)
  BY DEF IInv, InSession, Places, AtWork
<1>8. Papers' = (IF kind = "command" THEN Papers ELSE Papers \union {x})
      /\ Letters' = (IF kind = "command" THEN Letters \union {x} ELSE Letters)
      /\ Cmds' = (IF kind = "command" THEN Cmds \union {x} ELSE Cmds)
  BY <1>1, <1>2 DEF Papers, Letters, Cmds, OfKind
<1>9. Numbered'
  BY <1>1, <1>2, <1>3, <1>8 DEF IInv, OnDisk, Numbered, Legal
<1>10. HeadKnown' /\ LastWritten'
  BY <1>1, <1>2, <1>3, <1>4, <1>6 DEF HeadKnown, LastWritten, Settling, At, Chained, IInv, InSession, Types
<1>11. CursorRight'
  <2>1. cursor.seq \in Nat /\ cursor.seq <= head
    BY DEF IInv, Types, InSession, HeadKnown
  <2>2. x \in disk' /\ ~(x.seq <= cursor.seq)
    BY <1>1, <1>2, <2>1
  <2> QED BY <1>1, <2>2 DEF CursorRight
\* The new record is about an earlier command, whose state it takes on.
<1>12. kind \in Receipts \union {"corrupt_disposition"} =>
         \E t \in Letters : t.seq = target /\ (kind = "corrupt_disposition" => t.rotten)
  BY DEF Legal, Cmds, OfKind, Letters, ActiveCorrupt, IInv, OnDisk, Numbered
<1>13. Targets'
  <2> SUFFICES ASSUME NEW p \in disk', p.kind \in Receipts \union {"corrupt_disposition"}
               PROVE  /\ p.target < p.seq
                      /\ \A r \in disk' : r.seq = p.target =>
                           r.kind = "command" /\ (p.kind = "corrupt_disposition" => r.rotten)
    BY DEF Targets, OfKind
  <2>1. CASE p \in disk
    <3>1. /\ p.target < p.seq
          /\ \A r \in disk : r.seq = p.target =>
               r.kind = "command" /\ (p.kind = "corrupt_disposition" => r.rotten)
      BY <2>1 DEF IInv, OnDisk, Targets, OfKind
    <3>2. p.target \in Nat
      BY <2>1, RecordParts DEF IInv, Types
    <3>3. x.seq # p.target
      BY <1>2, <1>3, <2>1, <3>1, <3>2
    <3> QED BY <1>1, <3>1, <3>3
  <2>2. CASE p = x
    <3>1. PICK t \in Letters : t.seq = target /\ (kind = "corrupt_disposition" => t.rotten)
      BY <1>2, <1>12, <2>2
    <3>2. t \in disk /\ t.kind = "command"
      BY DEF Letters
    <3>3. target < head + 1 /\ target # head + 1
      BY <1>2, <1>3, <3>1, <3>2
    <3>4. \A r \in disk : r.seq = target => r = t
      BY <3>1, <3>2 DEF IInv, OnDisk, Numbered
    <3> QED BY <1>1, <1>2, <2>2, <3>1, <3>2, <3>3, <3>4
  <2> QED BY <1>1, <2>1, <2>2
<1>14. ASSUME NEW s, ~(kind \in Receipts /\ s = target) PROVE StateOf(s)' = StateOf(s)
  BY <1>1, <1>2, <1>3, <1>5, <1>9, <1>14, StatesWritten DEF IInv
<1>15. kind \in Receipts => StateOf(target)' = To[kind]
  BY <1>1, <1>2, <1>3, <1>5, <1>9, StatesWritten DEF IInv
<1>16. kind \in Receipts => /\ StateOf(target) = From[kind] /\ From[kind] \in {"pending", "quarantine"}
                            /\ ~Tombstone(target)
  <2> SUFFICES ASSUME kind \in Receipts
               PROVE  /\ StateOf(target) = From[kind] /\ From[kind] \in {"pending", "quarantine"}
                      /\ ~Tombstone(target)
    OBVIOUS
  <2>1. PICK t \in Cmds : t.seq = target /\ StateOf(target) = From[kind]
    BY DEF Legal
  <2>2. From[kind] \in {"pending", "quarantine"}
    BY ReceiptStarts DEF Receipts
  <2>3. t \in Letters
    BY DEF Cmds, OfKind, Letters
  <2> QED BY <2>1, <2>2, <2>3 DEF IInv, OnDisk, DiscardIsLast
<1>17. kind = "command" => /\ StateOf(x.seq)' = "pending" /\ StateOf(x.seq) = "pending"
                           /\ ~Tombstone(x.seq)'
  <2> SUFFICES ASSUME kind = "command"
               PROVE  /\ StateOf(x.seq)' = "pending" /\ StateOf(x.seq) = "pending"
                      /\ ~Tombstone(x.seq)'
    OBVIOUS
  <2>1. \A p \in disk : p.kind \in Receipts => p.target # x.seq
    <3> SUFFICES ASSUME NEW p \in disk, p.kind \in Receipts PROVE p.target # x.seq
      OBVIOUS
    <3>1. p.target < p.seq /\ p.target \in Nat
      BY RecordParts DEF IInv, Types, OnDisk, Targets, OfKind
    <3> QED BY <1>2, <1>3, <3>1
  <2>2. History(x.seq) = {}
    BY <2>1, ReceiptKinds DEF History
  <2>3. StateOf(x.seq) = "pending"
    BY <2>2 DEF StateOf, Outcome
  <2>4. StateOf(x.seq)' = StateOf(x.seq)
    <3>1. "command" \notin Receipts
      BY DEF Receipts
    <3> QED BY <1>14, <3>1
  <2>5. ~Tombstone(x.seq)'
    BY <1>1, <1>2, <2>1 DEF Tombstone, Receipts
  <2> QED BY <2>3, <2>4, <2>5
<1>18. DiscardIsLast'
  <2> SUFFICES ASSUME NEW r \in Letters', Tombstone(r.seq)'
               PROVE  StateOf(r.seq)' = "discarded"
    BY DEF DiscardIsLast
  <2>1. r \in Letters
    BY <1>8, <1>17
  <2>2. CASE Tombstone(r.seq)
    <3>1. StateOf(r.seq) = "discarded"
      BY <2>1, <2>2 DEF IInv, OnDisk, DiscardIsLast
    <3>2. ~(kind \in Receipts /\ r.seq = target)
      BY <1>16, <2>2
    <3> QED BY <1>14, <3>1, <3>2
  <2>3. CASE ~Tombstone(r.seq)
    <3>1. kind = "discard" /\ target = r.seq
      BY <1>1, <1>2, <2>3 DEF Tombstone
    <3> QED BY <1>15, <3>1, ReceiptKinds DEF Receipts
  <2> QED BY <2>2, <2>3
<1>19. Compacted'
  <2> SUFFICES ASSUME NEW a \in disk', a.kind = "anchor", NEW r \in disk', r.seq < a.seq
               PROVE  /\ r.kind \in {"anchor", "command", "accepted_receipt"}
                      /\ r.kind = "command" => StateOf(r.seq)' = "accepted"
    BY DEF Compacted, OfKind
  <2>1. r \in disk
    BY <1>1, <1>2, <1>3
  <2>2. /\ r.kind \in {"anchor", "command", "accepted_receipt"}
        /\ r.kind = "command" => StateOf(r.seq) = "accepted"
    <3>1. CASE a \in disk
      BY <2>1, <3>1 DEF IInv, OnDisk, Compacted, OfKind
    <3>2. CASE a = x
      BY <1>2, <2>1, <3>2 DEF Legal
    <3> QED BY <1>1, <3>1, <3>2
  <2>3. r.kind = "command" => StateOf(r.seq)' = StateOf(r.seq)
    BY <1>14, <1>16, <2>2
  <2> QED BY <2>2, <2>3
<1>20. Barrier'
  <2> SUFFICES ASSUME NEW q \in Cmds', NEW p \in Cmds', StateOf(q.seq)' = "quarantine"
               PROVE  /\ StateOf(p.seq)' = "pending" => q.seq < p.seq
                      /\ StateOf(p.seq)' = "quarantine" => q = p
    BY DEF Barrier
  <2>1. \A r \in Cmds : r \in disk /\ r.seq \in Nat
    BY <1>3 DEF Cmds, OfKind
  <2>2. q \in Cmds
    BY <1>8, <1>17
  <2>3. CASE kind = "quarantine_receipt" /\ q.seq = target
    <3>1. p \in Cmds
      BY <1>8, <2>3
    <3>2. CASE p.seq = target
      BY <1>15, <2>1, <2>2, <2>3, <3>1, <3>2, ReceiptKinds DEF Receipts, IInv, OnDisk, Numbered
    <3>3. CASE p.seq # target
      <4>1. StateOf(p.seq)' = StateOf(p.seq)
        BY <1>14, <3>3
      <4>2. StateOf(p.seq) # "quarantine" /\ (StateOf(p.seq) = "pending" => target <= p.seq)
        BY <2>3, <3>1 DEF Legal
      <4>3. target \in Nat /\ p.seq \in Nat
        BY <2>1, <2>2, <2>3, <3>1
      <4> QED BY <2>3, <3>3, <4>1, <4>2, <4>3
    <3> QED BY <3>2, <3>3
  <2>4. CASE ~(kind = "quarantine_receipt" /\ q.seq = target)
    <3>1. ~(kind \in Receipts /\ q.seq = target)
      BY <1>15, <2>4, ReceiptKinds DEF Receipts
    <3>2. StateOf(q.seq) = "quarantine"
      BY <1>14, <3>1
    <3>3. CASE p = x /\ kind = "command"
      <4>1. q.seq <= head /\ q.seq \in Nat
        BY <1>3, <2>1, <2>2
      <4> QED BY <1>2, <1>17, <3>3, <4>1
    <3>4. CASE p \in Cmds
      <4>1. CASE kind \in Receipts /\ p.seq = target
        <5>1. StateOf(p.seq) = From[kind]
          BY <1>16, <4>1
        <5>2. kind # "quarantine_receipt"
          BY <2>2, <3>2 DEF Legal
        <5>3. p # q
          BY <3>1, <4>1
        <5>4. StateOf(p.seq) # "quarantine"
          BY <2>2, <3>2, <3>4, <5>3 DEF IInv, OnDisk, Barrier
        <5>5. kind = "accepted_receipt"
          BY <4>1, <5>1, <5>2, <5>4, ReceiptStarts DEF Receipts
        <5> QED BY <1>15, <4>1, <5>5, ReceiptKinds
      <4>2. CASE ~(kind \in Receipts /\ p.seq = target)
        <5>1. StateOf(p.seq)' = StateOf(p.seq)
          BY <1>14, <4>2
        <5> QED BY <2>2, <3>2, <3>4, <5>1 DEF IInv, OnDisk, Barrier
      <4> QED BY <4>1, <4>2
    <3> QED BY <1>8, <3>3, <3>4
  <2> QED BY <2>3, <2>4
<1>21. OnDisk'
  BY <1>9, <1>13, <1>18, <1>19, <1>20 DEF OnDisk
<1>22. Acknowledged'
  <2> SUFFICES ASSUME NEW p \in disk', p.kind = "accepted_receipt", NEW r \in Letters', r.seq = p.target
               PROVE  server[r.cmd] = "accepted"
    BY <1>6 DEF Acknowledged, OfKind
  <2>1. r \in disk' /\ r.kind = "command"
    BY DEF Letters
  <2>2. CASE p = x
    BY <1>2, <1>8, <2>1, <2>2 DEF Legal
  <2>3. CASE p \in disk
    <3>1. p.target < p.seq /\ p.target \in Nat
      BY <2>3, RecordParts DEF IInv, Types, OnDisk, Targets, OfKind, Receipts
    <3>2. r # x
      BY <1>2, <1>3, <2>3, <3>1
    <3>3. r \in Letters
      BY <1>8, <3>2
    <3> QED BY <2>3, <3>3 DEF IInv, AtServer, Acknowledged, OfKind
  <2> QED BY <1>1, <2>2, <2>3
<1>23. Requested'
  <2> SUFFICES ASSUME NEW m \in flight, NEW r \in disk', r.seq = m.seq
               PROVE  r.kind = "command" /\ r.cmd = m.cmd
    BY <1>6 DEF Requested
  <2>1. m.seq \in Sent
    BY DEF Sent
  <2>2. r # x
    BY <1>2, <1>6, <2>1
  <2> QED BY <1>1, <2>2 DEF IInv, AtServer, Requested
<1>24. \A s : Dropped(s) => Dropped(s)'
  BY <1>1 DEF Dropped, OfKind
<1>25. SentInFront'
  <2> SUFFICES ASSUME NEW u \in Unsettled', NEW s \in Sent PROVE s <= u.seq
    BY <1>6 DEF SentInFront
  <2>1. CASE u = x
    BY <1>2, <1>6, <2>1
  <2>2. CASE u # x
    <3>1. u \in Letters /\ ~Dropped(u.seq) /\ StateOf(u.seq)' \in {"pending", "quarantine"}
      BY <1>8, <1>24, <2>2 DEF Unsettled
    <3>2. StateOf(u.seq) \in {"pending", "quarantine"}
      BY <1>14, <1>16, <3>1
    <3> QED BY <3>1, <3>2 DEF Unsettled, SentInFront, IInv, AtServer
  <2> QED BY <2>1, <2>2
<1>26. OnTheWay'
  <2> SUFFICES ASSUME NEW m \in flight, server[m.cmd] = "none", ~Dropped(m.seq)'
               PROVE  \E u \in Unsettled' : u.seq = m.seq
    BY <1>6 DEF OnTheWay
  <2>1. PICK u \in Unsettled : u.seq = m.seq
    BY <1>24 DEF OnTheWay, IInv, AtServer
  <2>2. u \in Letters /\ u \in Letters' /\ StateOf(u.seq) \in {"pending", "quarantine"}
    BY <1>8 DEF Unsettled
  <2>3. StateOf(u.seq)' \in {"pending", "quarantine"}
    <3>1. CASE ~(kind \in Receipts /\ u.seq = target)
      BY <1>14, <2>2, <3>1
    <3>2. CASE kind \in Receipts /\ u.seq = target
      <4>1. kind # "accepted_receipt"
        <5> SUFFICES ASSUME kind = "accepted_receipt" PROVE FALSE
          OBVIOUS
        <5>1. server[u.cmd] = "accepted"
          BY <2>2, <3>2 DEF Legal
        <5>2. u.cmd = m.cmd
          BY <2>1, <2>2 DEF IInv, AtServer, Requested, Letters
        <5> QED BY <5>1, <5>2
      <4>2. kind # "discard"
        <5> SUFFICES ASSUME kind = "discard" PROVE FALSE
          OBVIOUS
        <5>1. x \in OfKind({"discard", "corrupt_disposition"})' /\ x.target = m.seq
          BY <1>1, <1>2, <2>1, <3>2 DEF OfKind
        <5> QED BY <5>1 DEF Dropped
      <4>3. StateOf(u.seq)' = To[kind]
        BY <1>15, <3>2
      <4> QED BY <3>2, <4>1, <4>2, <4>3, ReceiptKinds DEF Receipts
    <3> QED BY <3>1, <3>2
  <2>4. ~Dropped(u.seq)'
    BY <2>1
  <2>5. u \in Unsettled'
    BY <2>2, <2>3, <2>4 DEF Unsettled
  <2> QED BY <2>1, <2>5
<1>27. ExecutedInOrder'
  BY <1>6, <1>24 DEF ExecutedInOrder, IInv, AtServer
<1>28. AtServer'
  BY <1>22, <1>23, <1>25, <1>26, <1>27 DEF AtServer
<1>29. Places'
  <2>1. CASE kind \in Receipts
    <3>1. Cmds' = Cmds
      BY <1>8, <2>1 DEF Receipts
    <3>2. \A r \in Cmds' : r.seq # target => r.dir = StateOf(r.seq)'
      BY <1>7, <1>14, <3>1 DEF Placed
    <3> QED BY <1>2, <1>4, <1>15, <2>1, <3>2 DEF Places, Placed, Settling, AtWork
  <2>2. CASE kind \notin Receipts
    <3>1. \A r \in Cmds' : r.dir = StateOf(r.seq)'
      <4> SUFFICES ASSUME NEW r \in Cmds' PROVE r.dir = StateOf(r.seq)'
        OBVIOUS
      <4>1. CASE r \in Cmds
        BY <1>7, <1>14, <2>2, <4>1 DEF Placed
      <4>2. CASE r \notin Cmds
        <5>1. r = x /\ kind = "command"
          BY <1>8, <4>2
        <5> QED BY <1>2, <1>17, <5>1 DEF Legal
      <4> QED BY <4>1, <4>2
    <3> QED BY <1>2, <1>4, <2>2, <3>1 DEF Places, Placed, Settling, AtWork
  <2> QED BY <2>1, <2>2
<1>30. Drains'
  <2>1. kind = "accepted_receipt" => ActiveCorrupt' = {} /\ In("quarantine")' = {}
    <3> SUFFICES ASSUME kind = "accepted_receipt"
                 PROVE  ActiveCorrupt' = {} /\ In("quarantine")' = {}
      OBVIOUS
    <3>1. ActiveCorrupt = {} /\ In("quarantine") = {} /\ Cmds' = Cmds
      BY <1>8 DEF Legal
    <3>2. In("quarantine")' = {}
      BY <3>1 DEF In
    <3>3. \A r \in disk : r.rotten => \E d \in OfKind({"corrupt_disposition"}) : d.target = r.seq
      BY <3>1 DEF ActiveCorrupt
    <3>4. \A r \in disk' : r.rotten => \E d \in OfKind({"corrupt_disposition"})' : d.target = r.seq
      BY <1>1, <1>2, <3>3 DEF OfKind
    <3> QED BY <3>2, <3>4 DEF ActiveCorrupt
  <2> QED BY <1>2, <1>4, <2>1 DEF Drains, Settling, Draining, At
<1> QED BY <1>5, <1>10, <1>11, <1>21, <1>28, <1>29, <1>30 DEF IInv, InSession


\* What each operation that writes a record does.
Writes(kind, directory, cmd, target) ==
  /\ session.pc \in AtWork /\ Legal(kind, directory, cmd, target)
  /\ AppendRecord(kind, directory, cmd, target)
  /\ UNCHANGED serverVars /\ budget' \in [Purposes -> Nat]

LEMMA WritingKeeps ==
  ASSUME IInv, NEW kind, NEW directory, NEW cmd, NEW target, Writes(kind, directory, cmd, target)
  PROVE  IInv'
BY AppendKeeps DEF Writes

LEMMA EnqueueWrites ==
  ASSUME IInv, NEW c \in Commands, Enqueue(c)
  PROVE  Writes("command", "pending", c, 0)
<1>1. budget' \in [Purposes -> Nat]
  BY SpendTakes DEF Enqueue, IInv, Purposes
<1>2. Legal("command", "pending", c, 0)
  BY DEF Legal, Kinds, Directories, Receipts
<1> QED BY <1>1, <1>2 DEF Enqueue, Writes, At, AtWork

LEMMA DispositionsWrite ==
  ASSUME IInv, NEW r \in Cmds, Retry(r) \/ Discard(r)
  PROVE  \E kind \in {"retry", "discard"} :
           /\ Writes(kind, "quarantine", NoCommand, r.seq)
           /\ StateOf(r.seq) = "quarantine" /\ ActiveCorrupt = {}
<1>1. PICK kind \in {"retry", "discard"} :
        /\ AppendRecord(kind, "quarantine", NoCommand, r.seq) /\ session.pc = "ready"
        /\ ActiveCorrupt = {} /\ r.dir = "quarantine" /\ Spend("dispose") /\ UNCHANGED serverVars
  BY DEF Retry, Discard, At
<1>2. budget' \in [Purposes -> Nat]
  BY <1>1, SpendTakes DEF IInv, Purposes
<1>3. StateOf(r.seq) = "quarantine"
  BY <1>1 DEF IInv, InSession, Places, Placed, AtWork
<1>4. r.seq \in Nat
  BY RecordParts DEF Cmds, OfKind, IInv, Types
<1>5. Legal(kind, "quarantine", NoCommand, r.seq)
  <2>1. kind \in {"retry", "discard"} /\ From[kind] = "quarantine"
    BY ReceiptStarts
  <2> QED BY <1>3, <1>4, <2>1 DEF Legal, Kinds, Directories
<1> QED BY <1>1, <1>2, <1>3, <1>5 DEF Writes, AtWork

LEMMA DisposeCorruptWrites ==
  ASSUME IInv, NEW r \in ActiveCorrupt, DisposeCorrupt(r)
  PROVE  Writes("corrupt_disposition", "quarantine", NoCommand, r.seq)
<1>1. budget' \in [Purposes -> Nat]
  BY SpendTakes DEF DisposeCorrupt, IInv, Purposes
<1>2. r.seq \in Nat
  BY RecordParts DEF ActiveCorrupt, IInv, Types
<1>3. Legal("corrupt_disposition", "quarantine", NoCommand, r.seq)
  BY <1>2 DEF Legal, Kinds, Directories, Receipts
<1> QED BY <1>1, <1>3 DEF DisposeCorrupt, Writes, At, AtWork

LEMMA CompactAcceptedWrites ==
  ASSUME IInv, CompactAccepted
  PROVE  /\ Writes("anchor", "anchors", NoCommand, LastSeq)
         /\ \A r \in disk : ~r.rotten
<1>1. /\ session.pc = "ready" /\ Cmds = In("accepted") /\ \A r \in disk : ~r.rotten
      /\ disk = OfKind({"anchor", "command", "accepted_receipt"})
      /\ AppendRecord("anchor", "anchors", NoCommand, LastSeq)
      /\ UNCHANGED <<serverVars, budget>>
  BY DEF CompactAccepted, At
<1>2. ASSUME NEW r \in disk
      PROVE  /\ r.kind \in {"anchor", "command", "accepted_receipt"}
             /\ r.kind = "command" => StateOf(r.seq) = "accepted"
  <2>1. r.kind = "command" => r \in In("accepted")
    BY <1>1, <1>2 DEF Cmds, OfKind
  <2>2. r \in OfKind({"anchor", "command", "accepted_receipt"})
    BY <1>1, <1>2
  <2> QED BY <1>1, <2>1, <2>2 DEF OfKind, In, IInv, InSession, Places, Placed, AtWork
<1>3. LastSeq \in Nat
  BY LastSeqIsLast DEF IInv, InSession
<1>4. Legal("anchor", "anchors", NoCommand, LastSeq)
  BY <1>2, <1>3 DEF Legal, Kinds, Directories, Receipts
<1> QED BY <1>1, <1>4 DEF Writes, AtWork, IInv, Types

\* A command that a drain takes out of pending is the first one, and nothing is in
\* quarantine.
FirstInLine(r) ==
  /\ r \in Cmds /\ r.seq \in Nat /\ StateOf(r.seq) = "pending" /\ ActiveCorrupt = {}
  /\ \A p \in Cmds : /\ StateOf(p.seq) # "quarantine"
                     /\ StateOf(p.seq) = "pending" => r.seq <= p.seq

LEMMA FirstPending ==
  ASSUME IInv, session.pc \in Draining, NEW r \in In("pending"),
         \A q \in In("pending") : r.seq <= q.seq
  PROVE  FirstInLine(r)
<1>1. Placed(Cmds) /\ In("quarantine") = {} /\ ActiveCorrupt = {}
  BY DEF IInv, InSession, Places, Drains, AtWork, Draining
<1>2. r \in Cmds /\ r.seq \in Nat
  BY RecordParts DEF In, Cmds, OfKind, IInv, Types
<1> QED BY <1>1, <1>2 DEF FirstInLine, Placed, In

LEMMA RefuseLocallyWrites ==
  ASSUME IInv, RefuseLocally
  PROVE  \E r : FirstInLine(r) /\ Writes("quarantine_receipt", "quarantine", NoCommand, r.seq)
<1> DEFINE r == First(In("pending"))
<1>1. /\ session.pc = "draining" /\ In("pending") # {} /\ UNCHANGED <<serverVars, budget>>
      /\ AppendRecord("quarantine_receipt", "quarantine", NoCommand, r.seq)
  BY DEF RefuseLocally, At
<1>2. r \in In("pending") /\ \A q \in In("pending") : r.seq <= q.seq
  <2>1. In("pending") \subseteq disk
    BY DEF In, Cmds, OfKind
  <2> QED BY <1>1, <2>1, FirstIsLeast DEF IInv
<1> HIDE DEF r
<1>3. FirstInLine(r)
  BY <1>1, <1>2, FirstPending DEF Draining
<1>4. Legal("quarantine_receipt", "quarantine", NoCommand, r.seq)
  BY <1>3, ReceiptStarts DEF FirstInLine, Legal, Kinds, Directories
<1> QED BY <1>1, <1>3, <1>4 DEF Writes, AtWork, IInv, Types

LEMMA QuarantineWrites ==
  ASSUME IInv, Quarantine
  PROVE  \E r : FirstInLine(r) /\ Writes("quarantine_receipt", "quarantine", NoCommand, r.seq)
<1> DEFINE r == session.rec
<1>1. /\ session.pc = "rejected" /\ UNCHANGED <<serverVars, budget>>
      /\ AppendRecord("quarantine_receipt", "quarantine", NoCommand, r.seq)
  BY DEF Quarantine, At
<1>2. r \in In("pending") /\ \A q \in In("pending") : r.seq <= q.seq
  BY <1>1 DEF IInv, InSession, Drains, Draining
<1> HIDE DEF r
<1>3. FirstInLine(r)
  BY <1>1, <1>2, FirstPending DEF Draining
<1>4. Legal("quarantine_receipt", "quarantine", NoCommand, r.seq)
  BY <1>3, ReceiptStarts DEF FirstInLine, Legal, Kinds, Directories
<1> QED BY <1>1, <1>3, <1>4 DEF Writes, AtWork, IInv, Types

LEMMA AcceptWrites ==
  ASSUME IInv, Accept
  PROVE  \E r : /\ FirstInLine(r) /\ server[r.cmd] = "accepted"
                /\ Writes("accepted_receipt", "accepted", NoCommand, r.seq)
<1> DEFINE r == session.rec
<1>1. /\ session.pc = "accepted" /\ UNCHANGED <<serverVars, budget>>
      /\ AppendRecord("accepted_receipt", "accepted", NoCommand, r.seq)
  BY DEF Accept, At
<1>2. r \in In("pending") /\ \A q \in In("pending") : r.seq <= q.seq
  BY <1>1 DEF IInv, InSession, Drains, Draining
<1>3. server[r.cmd] = "accepted" /\ In("quarantine") = {}
  BY <1>1 DEF IInv, InSession, Drains, Draining, At
<1> HIDE DEF r
<1>4. FirstInLine(r)
  BY <1>1, <1>2, FirstPending DEF Draining
<1>5. \A q \in Letters : q.seq = r.seq => server[q.cmd] = "accepted"
  BY <1>3, <1>4 DEF FirstInLine, Letters, Cmds, OfKind, IInv, OnDisk, Numbered
<1>6. Legal("accepted_receipt", "accepted", NoCommand, r.seq)
  BY <1>3, <1>4, <1>5, ReceiptStarts DEF FirstInLine, Legal, Kinds, Directories
<1> QED BY <1>1, <1>3, <1>4, <1>6 DEF Writes, AtWork, IInv, Types


-----------------------------------------------------------------------------
(* The files implement SpoolQueue.                                         *)

QueueStep == [Queue!Next]_(Queue!vars)

\* q says of its command what r says.
Alike(q, r) == q.seq = r.seq /\ q.cmd = r.cmd /\ (q.rotten <=> r.rotten)
Struck(s) == \E d \in disk : d.kind = "corrupt_disposition" /\ d.target = s

LEMMA ListedAre ==
  ASSUME NEW r
  PROVE  /\ r \in Listed <=> /\ r \in Letters /\ r \notin Covered /\ ~Tombstone(r.seq)
                             /\ r.rotten => ~Struck(r.seq)
         /\ r \in Listed' <=> /\ r \in Letters' /\ r \notin Covered' /\ ~Tombstone(r.seq)'
                              /\ r.rotten => ~Struck(r.seq)'
BY DEF Listed, Letters, ActiveCorrupt, OfKind, Struck

\* A command that is listed is unsettled, accepted or corrupt.
LEMMA ListedStates ==
  ASSUME IInv, NEW r \in Listed
  PROVE  /\ r \in Letters /\ r \in disk /\ r.seq \in Nat /\ r.cmd \in Commands
         /\ StateOf(r.seq) \in {"pending", "accepted", "quarantine"}
         /\ r.rotten => r \in ActiveCorrupt
         /\ ~r.rotten => r \in Cmds
<1>1. r \in Letters /\ r \in disk /\ ~Tombstone(r.seq) /\ (r.rotten => r \in ActiveCorrupt)
  BY DEF Listed, Letters
<1>2. r.seq \in Nat /\ r.cmd \in Commands
  BY <1>1, RecordParts DEF IInv, Types, OnDisk, Numbered
<1>3. StateOf(r.seq) \in {"pending", "accepted", "quarantine"}
  BY <1>1, StateKnown DEF IInv, OnDisk, InSession, Outcomes
<1> QED BY <1>1, <1>2, <1>3 DEF Letters, Cmds, OfKind

\* A readable command that is pending or in quarantine is listed.
LEMMA UnsettledAreListed ==
  ASSUME IInv, NEW r \in Cmds, StateOf(r.seq) \in {"pending", "quarantine"}
  PROVE  r \in Listed
<1>1. r \in Letters /\ r \in disk /\ r.kind = "command" /\ ~r.rotten
  BY DEF Cmds, OfKind, Letters
<1>2. r \notin Covered
  BY <1>1 DEF Covered, IInv, OnDisk, Compacted
<1>3. ~Tombstone(r.seq)
  BY <1>1 DEF IInv, OnDisk, DiscardIsLast
<1> QED BY <1>1, <1>2, <1>3, ListedAre

-----------------------------------------------------------------------------
(* Steps that leave the entries alone.                                     *)

LEMMA EntriesStay ==
  ASSUME \A r \in Listed : \E q \in Listed' : Alike(q, r) /\ StateOf(r.seq)' = StateOf(r.seq),
         \A q \in Listed' : \E r \in Listed : Alike(q, r) /\ StateOf(r.seq)' = StateOf(r.seq)
  PROVE  Entries' = Entries
<1>1. ASSUME NEW q, NEW r, Alike(q, r), StateOf(r.seq)' = StateOf(r.seq)
      PROVE  Entry(q)' = Entry(r)
  BY <1>1 DEF Alike, Entry
<1>2. \A e \in Entries : e \in Entries'
  BY <1>1 DEF Entries
<1>3. \A e \in Entries' : e \in Entries
  BY <1>1 DEF Entries
<1> QED BY <1>2, <1>3

\* As long as the papers stay, a command's listing is decided by itself.
LEMMA PapersStay ==
  ASSUME Papers' = Papers, NEW q \in Letters', NEW r \in Letters, q.seq = r.seq
  PROVE  /\ q \in Covered' <=> r \in Covered
         /\ Tombstone(q.seq)' <=> Tombstone(r.seq)
         /\ Struck(q.seq)' <=> Struck(r.seq)
<1>1. OfKind({"anchor"})' = OfKind({"anchor"})
  BY PapersDecide DEF Kinds
<1>2. q \in Covered' <=> r \in Covered
  <2>1. q \in disk' /\ r \in disk
    BY DEF Letters
  <2> QED BY <1>1, <2>1 DEF Covered
<1>3. Tombstone(q.seq)' <=> Tombstone(r.seq)
  <2>1. Tombstone(q.seq)' <=> \E p \in Papers' : p.kind = "discard" /\ p.target = q.seq
    BY HistoryIsPapers
  <2>2. Tombstone(r.seq) <=> \E p \in Papers : p.kind = "discard" /\ p.target = r.seq
    BY HistoryIsPapers
  <2> QED BY <2>1, <2>2
<1>4. Struck(q.seq)' <=> Struck(r.seq)
  <2>1. Struck(q.seq)' <=> \E p \in Papers' : p.kind = "corrupt_disposition" /\ p.target = q.seq
    BY DEF Struck, Papers
  <2>2. Struck(r.seq) <=> \E p \in Papers : p.kind = "corrupt_disposition" /\ p.target = r.seq
    BY DEF Struck, Papers
  <2> QED BY <2>1, <2>2
<1> QED BY <1>2, <1>3, <1>4

LEMMA PapersDecideListing ==
  ASSUME Papers' = Papers, NEW q \in Letters', NEW r \in Letters, Alike(q, r)
  PROVE  q \in Listed' <=> r \in Listed
BY PapersStay, ListedAre DEF Alike

LEMMA RelocationRests ==
  ASSUME Types, OnDisk, Relocated
  PROVE  Entries' = Entries
<1>1. Papers' = Papers
  BY RelocationKeeps DEF OnlyMoved
<1>2. \A s : StateOf(s)' = StateOf(s)
  BY <1>1, StatesKept
<1>3. ASSUME NEW q \in disk', NEW r \in disk, InPlaceOf(q, r), r.kind = "command"
      PROVE  q \in Letters' /\ r \in Letters /\ Alike(q, r) /\ (q \in Listed' <=> r \in Listed)
  <2>1. q \in Letters' /\ r \in Letters /\ Alike(q, r)
    BY <1>3 DEF InPlaceOf, Letters, Alike
  <2> QED BY <1>1, <2>1, PapersDecideListing
<1>4. \A r \in Listed : \E q \in Listed' : Alike(q, r)
  <2> SUFFICES ASSUME NEW r \in Listed PROVE \E q \in Listed' : Alike(q, r)
    OBVIOUS
  <2>1. r \in disk /\ r.kind = "command"
    BY DEF Listed
  <2>2. PICK q \in disk' : InPlaceOf(q, r)
    BY <2>1 DEF Relocated
  <2> QED BY <1>3, <2>1, <2>2
<1>5. \A q \in Listed' : \E r \in Listed : Alike(q, r)
  <2> SUFFICES ASSUME NEW q \in Listed' PROVE \E r \in Listed : Alike(q, r)
    OBVIOUS
  <2>1. q \in disk' /\ q.kind = "command"
    BY DEF Listed
  <2>2. PICK r \in disk : InPlaceOf(q, r)
    BY <2>1 DEF Relocated
  <2>3. r.kind = "command"
    BY <2>1, <2>2 DEF InPlaceOf
  <2> QED BY <1>3, <2>1, <2>2, <2>3
<1> QED BY <1>2, <1>4, <1>5, EntriesStay

LEMMA UntouchedRests ==
  ASSUME Types, OnDisk, UNCHANGED disk
  PROVE  Entries' = Entries
<1>1. Relocated
  BY Unredirected DEF Relocated, Types, OnDisk, Numbered
<1> QED BY <1>1, RelocationRests

\* A record in front of the last anchor is deleted.
LEMMA CoveredRests ==
  ASSUME Types, Types', OnDisk, AtServer, Covered # {}, Delete(First(Covered)), UNCHANGED serverVars
  PROVE  Entries' = Entries
<1> DEFINE x == First(Covered)
<1>1. Covered \subseteq disk
  BY DEF Covered
<1>2. x \in Covered
  BY <1>1, FirstIsLeast
<1>3. disk' = disk \ {x}
  BY DEF Delete
<1> HIDE DEF x
<1>4. NothingWritten
  BY CoveredKeeps
<1>5. PICK a \in OfKind({"anchor"}) : x.seq < a.seq /\ \A b \in OfKind({"anchor"}) : b.seq <= a.seq
  BY <1>2 DEF Covered
<1>6. x \in disk /\ x.seq \in Nat /\ a \in disk /\ a.seq \in Nat
  BY <1>1, <1>2, RecordParts DEF OfKind, Types
<1>7. a \in OfKind({"anchor"})'
  BY <1>3, <1>5, <1>6 DEF OfKind
<1>8. ASSUME NEW r \in disk' PROVE r \in Covered' <=> r \in Covered
  <2>1. OfKind({"anchor"})' \subseteq OfKind({"anchor"})
    BY <1>3 DEF OfKind
  <2>2. r \in disk
    BY <1>3
  <2>3. \A b \in OfKind({"anchor"}) : b.seq \in Nat
    BY RecordParts DEF OfKind, Types
  <2>4. r.seq \in Nat
    BY <2>2, RecordParts DEF Types
  <2>5. r \in Covered <=> r.seq < a.seq
    <3>1. \A b \in OfKind({"anchor"}) : (\A c \in OfKind({"anchor"}) : c.seq <= b.seq) => b.seq = a.seq
      BY <1>5, <1>6, <2>3
    <3> QED BY <1>5, <2>2, <3>1 DEF Covered
  <2>6. r \in Covered' <=> r.seq < a.seq
    <3>1. \A b \in OfKind({"anchor"})' : (\A c \in OfKind({"anchor"})' : c.seq <= b.seq) => b.seq = a.seq
      BY <1>5, <1>6, <1>7, <2>1, <2>3
    <3>2. \A b \in OfKind({"anchor"})' : b.seq <= a.seq
      BY <1>5, <2>1
    <3> QED BY <1>7, <3>1, <3>2 DEF Covered
  <2> QED BY <2>5, <2>6
<1>9. x.kind \notin {"discard", "corrupt_disposition"}
  BY <1>5, <1>6 DEF OnDisk, Compacted
<1>10. \A s : (Tombstone(s)' <=> Tombstone(s)) /\ (Struck(s)' <=> Struck(s))
  BY <1>3, <1>9 DEF Tombstone, Struck
<1>11. \A r \in Letters' : r \in Letters /\ r # x
  BY <1>3 DEF Letters
<1>12. \A r : r \in Listed' <=> r \in Listed
  <2> SUFFICES ASSUME NEW r PROVE r \in Listed' <=> r \in Listed
    OBVIOUS
  <2>1. CASE r \in Letters'
    <3>1. r \in disk' /\ r \in Letters
      BY <1>11, <2>1 DEF Letters
    <3> QED BY <1>8, <1>10, <2>1, <3>1, ListedAre
  <2>2. CASE r \notin Letters'
    <3>1. r \in Letters => r = x
      BY <1>3, <2>2 DEF Letters
    <3> QED BY <1>2, <2>2, <3>1, ListedAre
  <2> QED BY <2>1, <2>2
<1>13. \A r \in Listed' : StateOf(r.seq)' = StateOf(r.seq)
  BY <1>4, ListedAre DEF NothingWritten
<1>14. \A r : Alike(r, r)
  BY DEF Alike
<1> QED BY <1>12, <1>13, <1>14, EntriesStay

\* A command that was discarded is removed.
LEMMA DiscardedRests ==
  ASSUME NEW x \in Letters, Tombstone(x.seq), Delete(x)
  PROVE  Entries' = Entries
<1>1. disk' = disk \ {x}
  BY DEF Delete
<1>2. Papers' = Papers /\ Letters' = Letters \ {x}
  BY <1>1 DEF Papers, Letters
<1>3. \A s : StateOf(s)' = StateOf(s)
  BY <1>2, StatesKept
<1>4. \A r : Alike(r, r)
  BY DEF Alike
<1>5. \A r \in Letters' : r \in Listed' <=> r \in Listed
  BY <1>2, <1>4, PapersDecideListing
<1>6. x \notin Listed
  BY ListedAre
<1>7. \A r : (r \in Listed => r \in Letters) /\ (r \in Listed' => r \in Letters')
  BY ListedAre
<1>8. \A r : r \in Listed' <=> r \in Listed
  BY <1>2, <1>5, <1>6, <1>7
<1> QED BY <1>3, <1>4, <1>8, EntriesStay

-----------------------------------------------------------------------------
(* Steps that change an entry.                                             *)

\* One entry takes another state, all the others stay.
LEMMA EntryTurns ==
  ASSUME Numbered, NEW t \in Listed, NEW u \in Listed', u.seq = t.seq, u.cmd = t.cmd,
         \A r \in Listed : r.seq # t.seq =>
           \E q \in Listed' : Alike(q, r) /\ StateOf(r.seq)' = StateOf(r.seq),
         \A q \in Listed' : q = u \/ (/\ q.seq # t.seq
                                      /\ \E r \in Listed : Alike(q, r) /\ StateOf(r.seq)' = StateOf(r.seq))
  PROVE  Entries' = (Entries \ {Entry(t)}) \union {[Entry(t) EXCEPT !.state = Entry(u)'.state]}
<1>1. ASSUME NEW q, NEW r, Alike(q, r), StateOf(r.seq)' = StateOf(r.seq)
      PROVE  Entry(q)' = Entry(r)
  BY <1>1 DEF Alike, Entry
<1>2. Entry(u)' = [Entry(t) EXCEPT !.state = Entry(u)'.state]
  BY DEF Entry
<1>3. \A r : Entry(r).number = r.seq
  BY DEF Entry
<1>4. \A e \in Entries' : e = Entry(u)' \/ (e \in Entries /\ e # Entry(t))
  <2> SUFFICES ASSUME NEW e \in Entries' PROVE e = Entry(u)' \/ (e \in Entries /\ e # Entry(t))
    OBVIOUS
  <2>1. PICK q \in Listed' : e = Entry(q)'
    BY DEF Entries
  <2>2. CASE q = u
    BY <2>1, <2>2
  <2>3. CASE q # u
    <3>1. PICK r \in Listed : Alike(q, r) /\ StateOf(r.seq)' = StateOf(r.seq)
      BY <2>3
    <3>2. e = Entry(r) /\ r.seq # t.seq
      BY <1>1, <2>1, <2>3, <3>1 DEF Alike
    <3> QED BY <1>3, <3>2 DEF Entries
  <2> QED BY <2>2, <2>3
<1>5. Entry(u)' \in Entries'
  BY DEF Entries
<1>6. \A e \in Entries : e # Entry(t) => e \in Entries'
  <2> SUFFICES ASSUME NEW e \in Entries, e # Entry(t) PROVE e \in Entries'
    OBVIOUS
  <2>1. PICK r \in Listed : e = Entry(r)
    BY DEF Entries
  <2>2. r.seq # t.seq
    BY <2>1 DEF Numbered, Listed
  <2>3. PICK q \in Listed' : Alike(q, r) /\ StateOf(r.seq)' = StateOf(r.seq)
    BY <2>2
  <2> QED BY <1>1, <2>1, <2>3 DEF Entries
<1> QED BY <1>2, <1>4, <1>5, <1>6

\* What a written paper does to the listing.
LEMMA PaperListed ==
  ASSUME IInv, IInv', NEW kind, NEW directory, NEW cmd, NEW target,
         Writes(kind, directory, cmd, target), kind \notin {"command", "anchor"}
  PROVE  /\ \A r : r \in Listed' <=> /\ r \in Listed
                                     /\ r.seq = target =>
                                          kind # "discard" /\ (kind = "corrupt_disposition" => ~r.rotten)
         /\ \A s : ~(kind \in Receipts /\ s = target) => StateOf(s)' = StateOf(s)
         /\ kind \in Receipts => StateOf(target)' = To[kind]
<1> DEFINE X == [seq |-> head + 1, kind |-> kind, dir |-> directory, cmd |-> cmd,
                 target |-> target, rotten |-> FALSE]
<1>1. X.seq = head + 1 /\ X.kind = kind /\ X.target = target /\ disk' = disk \union {X} /\ X \in Record
  BY DEF Writes, AppendRecord, Record, Legal, IInv, Types
<1> HIDE DEF X
<1>2. PICK x \in Record : x.seq = head + 1 /\ x.kind = kind /\ x.target = target /\ disk' = disk \union {x}
  BY <1>1
<1>3. head \in Nat /\ \A r \in disk : r.seq \in Nat /\ r.seq <= head
  BY RecordParts DEF IInv, Types, InSession, HeadKnown, Writes, AtWork, Chained
<1>4. \A r \in disk : r.seq \in Nat /\ r.seq <= head /\ r.seq # x.seq
  BY <1>2, <1>3
<1>5. /\ \A s : ~(x.kind \in Receipts /\ s = x.target) => StateOf(s)' = StateOf(s)
      /\ x.kind \in Receipts => StateOf(x.target)' = To[x.kind]
  BY <1>2, <1>4, StatesWritten DEF IInv, OnDisk
<1>6. Letters' = Letters
  BY <1>2 DEF Letters
<1>7. OfKind({"anchor"})' = OfKind({"anchor"})
  BY <1>2 DEF OfKind
<1>8. \A r \in Letters : r \in Covered' <=> r \in Covered
  BY <1>2, <1>7 DEF Covered, Letters
<1>9. ASSUME NEW s
      PROVE /\ Tombstone(s)' <=> Tombstone(s) \/ (kind = "discard" /\ s = target)
            /\ Struck(s)' <=> Struck(s) \/ (kind = "corrupt_disposition" /\ s = target)
  BY <1>2 DEF Tombstone, Struck
<1>10. ASSUME NEW r
       PROVE  r \in Listed' <=> /\ r \in Listed
                                /\ r.seq = target =>
                                     kind # "discard" /\ (kind = "corrupt_disposition" => ~r.rotten)
  BY <1>6, <1>8, <1>9, ListedAre
<1> QED BY <1>2, <1>5, <1>10

\* A receipt turns the entry of its command.
LEMMA ReceiptTurns ==
  ASSUME IInv, IInv', NEW kind \in {"accepted_receipt", "quarantine_receipt", "retry"},
         NEW directory, NEW cmd, NEW t \in Cmds, StateOf(t.seq) \in {"pending", "quarantine"},
         Writes(kind, directory, cmd, t.seq)
  PROVE  /\ Entry(t) \in Entries /\ Entry(t).state = StateOf(t.seq)
         /\ Entries' = (Entries \ {Entry(t)}) \union {[Entry(t) EXCEPT !.state = To[kind]]}
<1>1. t \in Listed /\ ~t.rotten
  BY UnsettledAreListed DEF Cmds
<1>2. kind \in Receipts /\ kind \notin {"command", "anchor", "discard", "corrupt_disposition"}
  BY DEF Receipts
<1>3. Listed' = Listed /\ StateOf(t.seq)' = To[kind]
      /\ \A r \in Listed : r.seq # t.seq => StateOf(r.seq)' = StateOf(r.seq)
  <2>1. /\ \A r : r \in Listed' <=> r \in Listed
        /\ \A s : s # t.seq => StateOf(s)' = StateOf(s)
        /\ StateOf(t.seq)' = To[kind]
    BY <1>2, PaperListed
  <2> QED BY <2>1
<1>4. \A r : Alike(r, r)
  BY DEF Alike
<1>5. \A r \in Listed : r.seq = t.seq => r = t
  BY <1>1 DEF Listed, IInv, OnDisk, Numbered
<1>6. Entries' = (Entries \ {Entry(t)}) \union {[Entry(t) EXCEPT !.state = Entry(t)'.state]}
  <2>1. \A r \in Listed : r.seq # t.seq =>
          \E q \in Listed' : Alike(q, r) /\ StateOf(r.seq)' = StateOf(r.seq)
    BY <1>3, <1>4
  <2>2. \A q \in Listed' : q = t \/ (/\ q.seq # t.seq
                                      /\ \E r \in Listed : Alike(q, r) /\ StateOf(r.seq)' = StateOf(r.seq))
    BY <1>3, <1>4, <1>5
  <2> QED BY <1>1, <1>3, <2>1, <2>2, EntryTurns DEF IInv, OnDisk
<1>7. Entry(t)'.state = To[kind] /\ Entry(t).state = StateOf(t.seq)
  BY <1>1, <1>3 DEF Entry
<1> QED BY <1>1, <1>6, <1>7 DEF Entries

\* What stands in front of the first command in line is accepted.
LEMMA FirstIsAtFront ==
  ASSUME IInv, NEW t, FirstInLine(t)
  PROVE  Queue!AtFront(Entry(t))
<1> SUFFICES ASSUME NEW r \in Listed, Entry(r).number < Entry(t).number
             PROVE  Entry(r).state = "accepted"
  BY DEF Queue!AtFront, Entries
<1>1. r.seq < t.seq /\ r.seq \in Nat /\ t.seq \in Nat
  BY ListedStates DEF Entry, FirstInLine
<1>2. ~r.rotten /\ r \in Cmds /\ StateOf(r.seq) \in {"pending", "accepted", "quarantine"}
  BY ListedStates DEF FirstInLine
<1>3. StateOf(r.seq) = "accepted"
  BY <1>1, <1>2 DEF FirstInLine
<1> QED BY <1>2, <1>3 DEF Entry

\* One entry leaves, all the others stay.
LEMMA EntryLeaves ==
  ASSUME Numbered, NEW t \in Listed,
         \A r : r \in Listed' <=> r \in Listed /\ r.seq # t.seq,
         \A r \in Listed : r.seq # t.seq => StateOf(r.seq)' = StateOf(r.seq)
  PROVE  Entries' = Entries \ {Entry(t)}
<1>1. \A r \in Listed' : Entry(r)' = Entry(r)
  BY DEF Entry
<1>2. \A r : Entry(r).number = r.seq
  BY DEF Entry
<1>3. \A e \in Entries' : e \in Entries /\ e # Entry(t)
  BY <1>1, <1>2 DEF Entries
<1>4. \A e \in Entries : e # Entry(t) => e \in Entries'
  <2> SUFFICES ASSUME NEW e \in Entries, e # Entry(t) PROVE e \in Entries'
    OBVIOUS
  <2>1. PICK r \in Listed : e = Entry(r)
    BY DEF Entries
  <2>2. r.seq # t.seq
    BY <2>1 DEF Numbered, Listed
  <2> QED BY <1>1, <2>1, <2>2 DEF Entries
<1> QED BY <1>3, <1>4

-----------------------------------------------------------------------------
(* Every step is one of the queue, or none.                                *)

QueueMoves ==
  \/ \E c \in Commands : Queue!ServerAccepts(c) \/ Queue!Enqueue(c)
  \/ \E e \in Entries :
       Queue!Archive(e) \/ Queue!Quarantine(e) \/ Queue!Retry(e) \/ Queue!Rot(e) \/ Queue!Discard(e)
  \/ Queue!Compact

LEMMA MovesAreSteps ==
  ASSUME QueueMoves
  PROVE  QueueStep
BY DEF QueueMoves, QueueStep, Queue!Next

LEMMA RestIsAStep ==
  ASSUME Entries' = Entries, UNCHANGED server
  PROVE  QueueStep
BY DEF QueueStep, Queue!vars

LEMMA AcceptanceIsAStep ==
  ASSUME Entries' = Entries, server \in [Commands -> Decisions], NEW c \in Commands,
         server[c] # "accepted", server' = [server EXCEPT ![c] = "accepted"]
  PROVE  QueueStep
<1>1. {d \in Commands : server[d] = "accepted"}' = {d \in Commands : server[d] = "accepted"} \union {c}
  OBVIOUS
<1>2. Queue!ServerAccepts(c)
  BY <1>1 DEF Queue!ServerAccepts
<1> QED BY <1>2, MovesAreSteps DEF QueueMoves

LEMMA WritesLeaveServer ==
  ASSUME NEW kind, NEW directory, NEW cmd, NEW target, Writes(kind, directory, cmd, target)
  PROVE  UNCHANGED server
BY DEF Writes, serverVars

LEMMA RecordWritten ==
  ASSUME NEW kind, NEW directory, NEW cmd, NEW target, Writes(kind, directory, cmd, target)
  PROVE  \E x : /\ disk' = disk \union {x} /\ x.seq = head + 1 /\ x.kind = kind
                /\ x.cmd = cmd /\ x.target = target /\ x.rotten = FALSE
<1> DEFINE X == [seq |-> head + 1, kind |-> kind, dir |-> directory, cmd |-> cmd,
                 target |-> target, rotten |-> FALSE]
<1>1. /\ X.seq = head + 1 /\ X.kind = kind /\ X.cmd = cmd /\ X.target = target /\ X.rotten = FALSE
      /\ disk' = disk \union {X}
  BY DEF Writes, AppendRecord
<1> HIDE DEF X
<1> QED BY <1>1

LEMMA AcceptArchives ==
  ASSUME IInv, IInv', Accept
  PROVE  QueueStep
<1>1. PICK t : /\ FirstInLine(t) /\ server[t.cmd] = "accepted"
               /\ Writes("accepted_receipt", "accepted", NoCommand, t.seq)
  BY AcceptWrites
<1>2. t \in Cmds /\ StateOf(t.seq) = "pending"
  BY <1>1 DEF FirstInLine
<1>3. /\ Entry(t) \in Entries /\ Entry(t).state = "pending"
      /\ Entries' = (Entries \ {Entry(t)}) \union {[Entry(t) EXCEPT !.state = "accepted"]}
  BY <1>1, <1>2, ReceiptTurns, ReceiptKinds
<1>4. Queue!AtFront(Entry(t))
  BY <1>1, FirstIsAtFront
<1>5. Entry(t).cmd \in {c \in Commands : server[c] = "accepted"}
  <2>1. t.cmd \in Commands
    BY <1>2, UnsettledAreListed, ListedStates
  <2> QED BY <1>1, <2>1 DEF Entry
<1>6. UNCHANGED server
  BY <1>1, WritesLeaveServer
<1>7. Queue!Archive(Entry(t))
  BY <1>3, <1>4, <1>5, <1>6 DEF Queue!Archive, Queue!Turn
<1> QED BY <1>3, <1>7, MovesAreSteps DEF QueueMoves

LEMMA RefusalQuarantines ==
  ASSUME IInv, IInv', RefuseLocally \/ Quarantine
  PROVE  QueueStep
<1>1. PICK t : FirstInLine(t) /\ Writes("quarantine_receipt", "quarantine", NoCommand, t.seq)
  BY RefuseLocallyWrites, QuarantineWrites
<1>2. t \in Cmds /\ StateOf(t.seq) = "pending"
  BY <1>1 DEF FirstInLine
<1>3. /\ Entry(t) \in Entries /\ Entry(t).state = "pending"
      /\ Entries' = (Entries \ {Entry(t)}) \union {[Entry(t) EXCEPT !.state = "quarantine"]}
  BY <1>1, <1>2, ReceiptTurns, ReceiptKinds
<1>4. Queue!AtFront(Entry(t)) /\ UNCHANGED server
  BY <1>1, FirstIsAtFront, WritesLeaveServer
<1>5. Queue!Quarantine(Entry(t))
  BY <1>3, <1>4 DEF Queue!Quarantine, Queue!Turn
<1> QED BY <1>3, <1>5, MovesAreSteps DEF QueueMoves

LEMMA DispositionsTurn ==
  ASSUME IInv, IInv', NEW r \in Cmds, Retry(r) \/ Discard(r)
  PROVE  QueueStep
<1>1. PICK kind \in {"retry", "discard"} :
        /\ Writes(kind, "quarantine", NoCommand, r.seq) /\ StateOf(r.seq) = "quarantine"
  BY DispositionsWrite
<1>2. UNCHANGED server
  BY <1>1, WritesLeaveServer
<1>3. CASE kind = "retry"
  <2>1. /\ Entry(r) \in Entries /\ Entry(r).state = "quarantine"
        /\ Entries' = (Entries \ {Entry(r)}) \union {[Entry(r) EXCEPT !.state = "pending"]}
    BY <1>1, <1>3, ReceiptTurns, ReceiptKinds
  <2>2. Queue!Retry(Entry(r))
    BY <1>2, <2>1 DEF Queue!Retry, Queue!Turn
  <2> QED BY <2>1, <2>2, MovesAreSteps DEF QueueMoves
<1>4. CASE kind = "discard"
  <2>1. r \in Listed /\ ~r.rotten
    BY <1>1, UnsettledAreListed DEF Cmds
  <2>2. /\ \A q : q \in Listed' <=> q \in Listed /\ q.seq # r.seq
        /\ \A q \in Listed : q.seq # r.seq => StateOf(q.seq)' = StateOf(q.seq)
    BY <1>1, <1>4, PaperListed
  <2>3. Entries' = Entries \ {Entry(r)}
    BY <2>1, <2>2, EntryLeaves DEF IInv, OnDisk
  <2>4. Entry(r) \in Entries /\ Entry(r).state = "quarantine"
    BY <1>1, <2>1 DEF Entries, Entry
  <2>5. Queue!Discard(Entry(r))
    BY <1>2, <2>3, <2>4 DEF Queue!Discard
  <2> QED BY <2>4, <2>5, MovesAreSteps DEF QueueMoves
<1> QED BY <1>1, <1>3, <1>4

LEMMA CorruptDispositionDrops ==
  ASSUME IInv, IInv', NEW t \in ActiveCorrupt, DisposeCorrupt(t)
  PROVE  QueueStep
<1>1. Writes("corrupt_disposition", "quarantine", NoCommand, t.seq)
  BY DisposeCorruptWrites
<1>2. UNCHANGED server
  BY <1>1, WritesLeaveServer
<1>3. t \in disk /\ t.rotten
  BY DEF ActiveCorrupt
<1>4. \A r \in Listed : r.seq = t.seq => r = t
  BY <1>3 DEF Listed, IInv, OnDisk, Numbered
<1>5. /\ \A r : r \in Listed' <=> r \in Listed /\ r.seq # t.seq
      /\ \A s : StateOf(s)' = StateOf(s)
  <2>1. /\ \A r : r \in Listed' <=> r \in Listed /\ (r.seq = t.seq => ~r.rotten)
        /\ \A s : StateOf(s)' = StateOf(s)
    BY <1>1, PaperListed DEF Receipts
  <2> QED BY <1>3, <1>4, <2>1
<1>6. CASE t \in Listed
  <2>1. Entries' = Entries \ {Entry(t)}
    BY <1>5, <1>6, EntryLeaves DEF IInv, OnDisk
  <2>2. Entry(t) \in Entries /\ Entry(t).state = "corrupt"
    BY <1>3, <1>6 DEF Entries, Entry
  <2>3. Queue!Discard(Entry(t))
    BY <1>2, <2>1, <2>2 DEF Queue!Discard
  <2> QED BY <2>2, <2>3, MovesAreSteps DEF QueueMoves
<1>7. CASE t \notin Listed
  <2>1. \A r : r \in Listed' <=> r \in Listed
    BY <1>4, <1>5, <1>7
  <2>2. \A r : Alike(r, r)
    BY DEF Alike
  <2>3. Entries' = Entries
    BY <1>5, <2>1, <2>2, EntriesStay
  <2> QED BY <1>2, <2>3, RestIsAStep
<1> QED BY <1>6, <1>7

LEMMA CompactionEmpties ==
  ASSUME IInv, CompactAccepted
  PROVE  QueueStep
<1>1. Writes("anchor", "anchors", NoCommand, LastSeq) /\ \A r \in disk : ~r.rotten
  BY CompactAcceptedWrites
<1>2. UNCHANGED server
  BY <1>1, WritesLeaveServer
<1>3. \A r \in Listed : StateOf(r.seq) = "accepted" /\ ~r.rotten
  BY <1>1 DEF Listed, Writes, Legal
<1>4. \A e \in Entries : e.state = "accepted"
  BY <1>3 DEF Entries, Entry
<1>5. PICK x : disk' = disk \union {x} /\ x.seq = head + 1 /\ x.kind = "anchor"
  <2> DEFINE X == [seq |-> head + 1, kind |-> "anchor", dir |-> "anchors", cmd |-> NoCommand,
                   target |-> LastSeq, rotten |-> FALSE]
  <2>1. X.seq = head + 1 /\ X.kind = "anchor"
    OBVIOUS
  <2>2. disk' = disk \union {X}
    BY <1>1 DEF Writes, AppendRecord
  <2> HIDE DEF X
  <2> QED BY <2>1, <2>2
<1>6. \A r \in disk : r.seq \in Nat /\ r.seq < x.seq
  BY <1>1, <1>5, RecordParts DEF IInv, Types, InSession, HeadKnown, Writes, AtWork, Chained
<1>7. \A r \in Letters' : r \in Covered'
  <2>1. x \in OfKind({"anchor"})'
    BY <1>5 DEF OfKind
  <2>2. head + 1 \in Nat
    BY DEF IInv, Types
  <2>3. \A b \in OfKind({"anchor"})' : b.seq <= x.seq
    BY <1>5, <1>6, <2>2 DEF OfKind
  <2>4. \A r \in Letters' : r \in disk' /\ r.seq < x.seq
    BY <1>5, <1>6 DEF Letters
  <2> QED BY <2>1, <2>3, <2>4 DEF Covered
<1>8. Entries' = {}
  BY <1>7, ListedAre DEF Entries
<1>9. Queue!Compact
  BY <1>2, <1>4, <1>8 DEF Queue!Compact
<1> QED BY <1>9, MovesAreSteps DEF QueueMoves

LEMMA EnqueueEnters ==
  ASSUME IInv, IInv', NEW c \in Commands, Enqueue(c)
  PROVE  QueueStep
<1>1. Writes("command", "pending", c, 0)
  BY EnqueueWrites
<1>2. UNCHANGED server
  BY <1>1, WritesLeaveServer
<1>3. PICK x : /\ disk' = disk \union {x} /\ x.seq = head + 1 /\ x.kind = "command"
               /\ x.cmd = c /\ x.rotten = FALSE
  <2> DEFINE X == [seq |-> head + 1, kind |-> "command", dir |-> "pending", cmd |-> c,
                   target |-> 0, rotten |-> FALSE]
  <2>1. X.seq = head + 1 /\ X.kind = "command" /\ X.cmd = c /\ X.rotten = FALSE
    OBVIOUS
  <2>2. disk' = disk \union {X}
    BY <1>1 DEF Writes, AppendRecord
  <2> HIDE DEF X
  <2> QED BY <2>1, <2>2
<1>4. \A r \in disk : r.seq \in Nat /\ r.seq <= head /\ head \in Nat /\ r.seq # x.seq
  BY <1>1, <1>3, RecordParts DEF IInv, Types, InSession, HeadKnown, Writes, AtWork, Chained
<1>5. Papers' = Papers /\ Letters' = Letters \union {x}
  BY <1>3 DEF Papers, Letters
<1>6. \A s : StateOf(s)' = StateOf(s)
  BY <1>5, StatesKept
<1>7. \A p \in disk : p.kind \in Receipts \union {"corrupt_disposition"} => p.target # x.seq
  <2> SUFFICES ASSUME NEW p \in disk, p.kind \in Receipts \union {"corrupt_disposition"}
               PROVE  p.target # x.seq
    OBVIOUS
  <2>1. p.target < p.seq /\ p.target \in Nat
    BY RecordParts DEF IInv, Types, OnDisk, Targets, OfKind
  <2> QED BY <1>3, <1>4, <2>1
<1>8. StateOf(x.seq)' = "pending"
  <2>1. History(x.seq) = {}
    BY <1>7, ReceiptKinds DEF History
  <2>2. StateOf(x.seq) = "pending"
    BY <2>1 DEF StateOf, Outcome
  <2> QED BY <1>6, <2>2
<1>9. x \in Listed'
  <2>1. ~Tombstone(x.seq)'
    BY <1>3, <1>7 DEF Tombstone, Receipts
  <2>2. x \notin Covered'
    <3>1. \A a \in disk' : a.kind = "anchor" => a \in disk /\ ~(x.seq < a.seq)
      BY <1>3, <1>4
    <3> QED BY <3>1 DEF Covered, OfKind
  <2> QED BY <1>3, <1>5, <2>1, <2>2, ListedAre
<1>10. \A r : Alike(r, r)
  BY DEF Alike
<1>11. ASSUME NEW r, r # x PROVE r \in Listed' <=> r \in Listed
  <2>1. r \in Letters' <=> r \in Letters
    BY <1>5, <1>11
  <2>2. r \in Letters => (r \in Listed' <=> r \in Listed)
    BY <1>5, <1>10, <2>1, PapersDecideListing
  <2> QED BY <2>1, <2>2, ListedAre
<1>12. x \notin Listed
  BY <1>4 DEF Listed
<1>13. \A r \in Listed : Entry(r)' = Entry(r)
  BY <1>6 DEF Entry
<1>14. Entries' = Entries \union {Entry(x)'}
  BY <1>9, <1>11, <1>12, <1>13 DEF Entries
<1>15. Entry(x)'.cmd = c /\ Entry(x)'.state = "pending" /\ Entry(x)'.number = head + 1
  BY <1>3, <1>8 DEF Entry
<1>16. \A f \in Entries : f.number < head + 1
  BY <1>4 DEF Entries, Entry, Listed
<1>17. \A e \in Entries : e.cmd = c => e.state = "corrupt"
  <2> SUFFICES ASSUME NEW r \in Listed, r.cmd = c, ~r.rotten PROVE FALSE
    BY DEF Entries, Entry
  <2>1. r \in Cmds
    BY ListedStates
  <2> QED BY <2>1 DEF Enqueue
<1>18. Queue!Enqueue(c)
  BY <1>2, <1>14, <1>15, <1>16, <1>17 DEF Queue!Enqueue
<1> QED BY <1>18, MovesAreSteps DEF QueueMoves

LEMMA RotTurns ==
  ASSUME IInv, IInv', NEW r \in Cmds, Rot(r)
  PROVE  QueueStep
<1> DEFINE X == [r EXCEPT !.rotten = TRUE]
<1>1. r \in disk /\ r.kind = "command" /\ r \in Record /\ ~r.rotten
  BY DEF Cmds, OfKind, IInv, Types
<1>2. X.seq = r.seq /\ X.kind = "command" /\ X.cmd = r.cmd /\ X.rotten /\ disk' = (disk \ {r}) \union {X}
  BY <1>1 DEF Record, Rot
<1>3. PICK x : /\ x.seq = r.seq /\ x.kind = "command" /\ x.cmd = r.cmd /\ x.rotten
               /\ disk' = (disk \ {r}) \union {x}
  BY <1>2
<1> HIDE DEF X
<1>4. UNCHANGED server
  BY DEF Rot, serverVars
<1>5. Papers' = Papers /\ Letters' = (Letters \ {r}) \union {x} /\ r \in Letters
  BY <1>1, <1>3 DEF Papers, Letters
<1>6. \A s : StateOf(s)' = StateOf(s)
  BY <1>5, StatesKept
<1>7. ~Struck(r.seq)
  BY <1>1 DEF Struck, IInv, OnDisk, Targets, OfKind
<1>8. x \in Listed' <=> r \in Listed
  BY <1>1, <1>3, <1>5, <1>7, PapersStay, ListedAre
<1>9. \A q : Alike(q, q)
  BY DEF Alike
<1>10. ASSUME NEW q, q # x, q # r PROVE q \in Listed' <=> q \in Listed
  <2>1. q \in Letters' <=> q \in Letters
    BY <1>5, <1>10
  <2>2. q \in Letters => (q \in Listed' <=> q \in Listed)
    BY <1>5, <1>9, <2>1, PapersDecideListing
  <2> QED BY <2>1, <2>2, ListedAre
<1>11. r \notin disk' /\ x \notin disk
  <2>1. r # x
    BY <1>1, <1>3
  <2> QED BY <1>1, <1>3, <2>1 DEF IInv, OnDisk, Numbered
<1>12. r \notin Listed' /\ x \notin Listed
  BY <1>11 DEF Listed
<1>13. \A q \in disk : q # r => q.seq # r.seq
  BY <1>1 DEF IInv, OnDisk, Numbered
<1>14. CASE r \in Listed
  <2>1. \A q \in Listed : q.seq # r.seq => q \in Listed'
    BY <1>10, <1>12
  <2>2. \A q \in Listed' : q = x \/ (q.seq # r.seq /\ q \in Listed)
    BY <1>10, <1>12, <1>13 DEF Listed
  <2>3. Entries' = (Entries \ {Entry(r)}) \union {[Entry(r) EXCEPT !.state = Entry(x)'.state]}
    BY <1>3, <1>6, <1>8, <1>9, <1>14, <2>1, <2>2, EntryTurns DEF IInv, OnDisk
  <2>4. Entry(x)'.state = "corrupt" /\ Entry(r).state = StateOf(r.seq) /\ Entry(r) \in Entries
    BY <1>1, <1>3, <1>14 DEF Entry, Entries
  <2>5. StateOf(r.seq) \in Queue!States \ {"corrupt"}
    BY <1>14, ListedStates DEF Queue!States
  <2>6. Queue!Rot(Entry(r))
    BY <1>4, <2>3, <2>4, <2>5 DEF Queue!Rot, Queue!Turn
  <2> QED BY <2>4, <2>6, MovesAreSteps DEF QueueMoves
<1>15. CASE r \notin Listed
  <2>1. \A q : q \in Listed' <=> q \in Listed
    BY <1>8, <1>10, <1>12, <1>15
  <2>2. Entries' = Entries
    BY <1>6, <1>9, <2>1, EntriesStay
  <2> QED BY <1>4, <2>2, RestIsAStep
<1> QED BY <1>14, <1>15

\* Settling a receipt, and what recovery does, moves files only.
LEMMA SettleRests ==
  ASSUME IInv, IInv', Settle
  PROVE  QueueStep
<1> DEFINE rec == session.rec
<1>1. /\ session.pc = "moving" /\ UNCHANGED <<head, cursor, torn, serverVars, budget>>
      /\ \/ rec.kind = "anchor" /\ Covered # {} /\ Delete(First(Covered))
         \/ UNCHANGED disk
         \/ rec.kind = "discard" /\ disk' = {r \in disk : r.seq # rec.target}
         \/ rec.kind \in {"accepted_receipt", "quarantine_receipt", "retry"} /\ Move(rec.target, To[rec.kind])
  BY ReceiptKinds DEF Settle, At
<1>2. rec \in disk
  BY <1>1 DEF At, IInv, InSession, LastWritten, Settling
<1>3. UNCHANGED server /\ Types /\ Types' /\ OnDisk /\ AtServer
  BY <1>1 DEF serverVars, IInv
<1>4. CASE Covered # {} /\ Delete(First(Covered))
  BY <1>1, <1>3, <1>4, CoveredRests, RestIsAStep
<1>5. CASE UNCHANGED disk
  BY <1>3, <1>5, UntouchedRests, RestIsAStep
<1>6. CASE rec.kind = "discard" /\ disk' = {r \in disk : r.seq # rec.target}
  <2>1. CASE \E x \in disk : x.seq = rec.target
    <3>1. PICK x \in disk : x.seq = rec.target
      BY <2>1
    <3>2. Delete(x)
      BY <1>6, <3>1 DEF IInv, OnDisk, Numbered, Delete
    <3>3. x \in Letters
      BY <1>2, <1>6, <3>1 DEF IInv, OnDisk, Targets, OfKind, Receipts, Letters
    <3>4. Tombstone(x.seq)
      BY <1>2, <1>6, <3>1 DEF Tombstone
    <3> QED BY <1>3, <3>2, <3>3, <3>4, DiscardedRests, RestIsAStep
  <2>2. CASE ~\E x \in disk : x.seq = rec.target
    <3>1. UNCHANGED disk
      BY <1>6, <2>2
    <3> QED BY <1>3, <3>1, UntouchedRests, RestIsAStep
  <2> QED BY <2>1, <2>2
<1>7. CASE rec.kind \in {"accepted_receipt", "quarantine_receipt", "retry"} /\ Move(rec.target, To[rec.kind])
  <2>1. To[rec.kind] \in Directories
    BY <1>7, ReceiptKinds DEF Directories
  <2>2. Relocated
    BY <1>3, <1>7, <2>1, MoveRelocates
  <2> QED BY <1>3, <2>2, RelocationRests, RestIsAStep
<1> QED BY <1>1, <1>4, <1>5, <1>6, <1>7

LEMMA RepairRests ==
  ASSUME IInv, IInv', RepairTransition
  PROVE  QueueStep
<1> DEFINE r == First(Misplaced)
<1>1. Misplaced # {} /\ Misplaced \subseteq disk /\ UNCHANGED server
  BY DEF RepairTransition, Misplaced, Cmds, OfKind, serverVars
<1>2. r \in Misplaced
  BY <1>1, FirstIsLeast DEF IInv
<1>3. IF StateOf(r.seq) = "discarded" THEN Delete(r) ELSE Move(r.seq, StateOf(r.seq))
  BY DEF RepairTransition
<1> HIDE DEF r
<1>4. r \in Letters
  BY <1>2 DEF Misplaced, Cmds, OfKind, Letters
<1>5. CASE StateOf(r.seq) = "discarded"
  <2>1. Tombstone(r.seq)
    BY <1>5, StateKnown DEF IInv, OnDisk, InSession
  <2> QED BY <1>1, <1>3, <1>4, <1>5, <2>1, DiscardedRests, RestIsAStep
<1>6. CASE StateOf(r.seq) # "discarded"
  <2>1. Move(r.seq, StateOf(r.seq)) /\ StateOf(r.seq) \in Directories
    BY <1>3, <1>6, StateKnown DEF Outcomes, Directories, IInv, OnDisk, InSession
  <2>2. Relocated
    BY <2>1, MoveRelocates DEF IInv
  <2> QED BY <1>1, <2>2, RelocationRests, RestIsAStep DEF IInv
<1> QED BY <1>5, <1>6

LEMMA OpenRests ==
  ASSUME IInv, Open
  PROVE  QueueStep
<1>1. Relocated
  BY OpenRelocates
<1>2. UNCHANGED server
  BY DEF Open, serverVars
<1> QED BY <1>1, <1>2, RelocationRests, RestIsAStep DEF IInv

\* The server executes a request, or answers from its memory.
LEMMA HandleAccepts ==
  ASSUME IInv, NEW m \in flight, Handle(m)
  PROVE  QueueStep
<1>1. UNCHANGED disk
  BY DEF Handle, diskVars
<1>2. Entries' = Entries
  BY <1>1, UntouchedRests DEF IInv
<1>3. m.cmd \in Commands /\ server \in [Commands -> Decisions]
  BY DEF IInv, Types
<1>4. \/ UNCHANGED server
      \/ server[m.cmd] = "none" /\ \E d \in {"pending", "refused"} : server' = [server EXCEPT ![m.cmd] = d]
      \/ server[m.cmd] = "none" /\ server' = [server EXCEPT ![m.cmd] = "accepted"]
  BY DEF Handle
<1>5. CASE UNCHANGED server
  BY <1>2, <1>5, RestIsAStep
<1>6. CASE server[m.cmd] = "none" /\ \E d \in {"pending", "refused"} : server' = [server EXCEPT ![m.cmd] = d]
  <2>1. \A c \in Commands : server'[c] = "accepted" <=> server[c] = "accepted"
    BY <1>3, <1>6
  <2>2. {c \in Commands : server[c] = "accepted"}' = {c \in Commands : server[c] = "accepted"}
    BY <2>1
  <2> QED BY <1>2, <2>2 DEF QueueStep, Queue!vars
<1>7. CASE server[m.cmd] = "none" /\ server' = [server EXCEPT ![m.cmd] = "accepted"]
  BY <1>2, <1>3, <1>7, AcceptanceIsAStep
<1> QED BY <1>4, <1>5, <1>6, <1>7

LEMMA StepIsQueueStep ==
  ASSUME IInv, IInv', [Next]_vars
  PROVE  QueueStep
<1>1. CASE Open
  BY <1>1, OpenRests
<1>2. CASE UNCHANGED <<disk, server>>
  BY <1>2, UntouchedRests, RestIsAStep DEF IInv
<1>3. CASE Recover
  <2>1. CASE RecoverCompaction
    BY <2>1, CoveredRests, RestIsAStep DEF RecoverCompaction, IInv, serverVars
  <2>2. CASE RepairTransition
    BY <2>2, RepairRests
  <2>3. CASE RecoverHead \/ TrustCursor \/ ReplayTransitions \/ CheckpointRecovery \/ Refuse
    BY <1>2, <2>3 DEF RecoverHead, TrustCursor, ReplayTransitions, CheckpointRecovery, Refuse,
                      diskVars, serverVars
  <2> QED BY <1>3, <2>1, <2>2, <2>3 DEF Recover
<1>4. CASE Owner
  BY <1>4, EnqueueEnters, DispositionsTurn, CorruptDispositionDrops, CompactionEmpties DEF Owner
<1>5. CASE WriteHead \/ Close
  BY <1>2, <1>5 DEF WriteHead, Close, serverVars
<1>6. CASE Settle
  BY <1>6, SettleRests
<1>7. CASE Drain
  <2>1. CASE StartDrain \/ Send \/ Drained
    BY <1>2, <2>1 DEF StartDrain, Send, Drained, diskVars, serverVars
  <2> QED BY <1>7, <2>1, AcceptArchives, RefusalQuarantines DEF Drain
<1>8. CASE Network
  <2>1. CASE ReplyLost
    BY <1>2, <2>1 DEF ReplyLost, diskVars, serverVars
  <2>2. ASSUME NEW c \in Commands, BecomeDurable(c) PROVE QueueStep
    <3>1. UNCHANGED disk /\ server[c] # "accepted" /\ server' = [server EXCEPT ![c] = "accepted"]
      BY <2>2 DEF BecomeDurable, diskVars
    <3>2. Entries' = Entries
      BY <3>1, UntouchedRests DEF IInv
    <3> QED BY <3>1, <3>2, AcceptanceIsAStep DEF IInv, Types
  <2> QED BY <1>8, <2>1, <2>2, HandleAccepts DEF Network
<1>9. CASE Crash
  BY <1>2, <1>9 DEF Crash, serverVars
<1>10. CASE \E r \in Cmds : Rot(r)
  BY <1>10, RotTurns
<1>11. CASE UNCHANGED vars
  BY <1>2, <1>11 DEF vars
<1> QED BY <1>1, <1>3, <1>4, <1>5, <1>6, <1>7, <1>8, <1>9, <1>10, <1>11 DEF Next
-----------------------------------------------------------------------------
(* What recovery finds: why it need not refuse.                            *)

Anchors == {p \in Papers : p.kind = "anchor"}
Replies == {p \in Papers : p.kind \in Receipts}

\* Every number up to the head is a record, or of a command that was discarded, or in
\* front of an anchor; and the head's own record, or a later one, is there.
NoNumberMissing ==
  \A s \in 1..head : \/ \E r \in disk : r.seq = s
                     \/ Tombstone(s)
                     \/ \E a \in Anchors : s < a.seq /\ a.seq <= head
HeadWritten == head # 0 => \E r \in disk : head <= r.seq

\* Nothing is written before a compaction is finished, and recovery finishes it before
\* it replays.
PastCompaction ==
  \/ session.pc \in AtWork \union {"repairing"}
  \/ session.pc = "moving" /\ session.rec.kind # "anchor"
  \/ \E r \in disk : ~(r.seq <= head)
FrontCleared ==
  PastCompaction => \A a \in Anchors : a.seq <= head => \A r \in disk : a.seq <= r.seq

\* The cursor is not in front of an anchor, unless it is what the anchor names.
CursorKnown ==
  /\ \A a \in Anchors : a.target = cursor.seq \/ a.seq <= cursor.seq
  /\ session.pc = "ready" =>
       cursor.seq = head \/ \A p \in Replies : p.kind # "accepted_receipt"

\* Receipts can be replayed in their order: each takes its command from the state in
\* which the one before it left the command.
Final ==
  \A p, q \in Replies :
    p.kind \in {"accepted_receipt", "discard"} /\ q.target = p.target => q.seq <= p.seq
FollowsState == \A p \in Replies : StateBefore(p.target, p.seq) = From[p.kind]
NewEra == \A a \in Anchors, p \in Replies : a.seq < p.seq => a.seq < p.target
TargetsThere ==
  \A p \in Replies :
    \/ \E r \in Letters : r.seq = p.target
    \/ Tombstone(p.target)
    \/ \E a \in Anchors : p.seq < a.seq
Replayable == Final /\ FollowsState /\ NewEra /\ TargetsThere

OInv == NoNumberMissing /\ HeadWritten /\ FrontCleared /\ CursorKnown /\ Replayable

-----------------------------------------------------------------------------
(* Files that stay, move or are deleted.                                   *)

\* A step that takes nothing away that the chain or the replay would miss.
NothingMissed ==
  /\ Replayable' /\ Anchors' \subseteq Anchors /\ Replies' \subseteq Replies
  /\ \A q \in disk' : \E r \in disk : r.seq = q.seq
  /\ \A r \in disk : \/ \E q \in disk' : q.seq = r.seq
                     \/ Tombstone(r.seq)
                     \/ \E a \in Anchors' : r.seq < a.seq /\ a.seq <= head
  /\ \A s : Tombstone(s) => Tombstone(s)'
  /\ \A a \in Anchors : a.seq <= head => \E b \in Anchors' : a.seq <= b.seq /\ b.seq <= head

\* Papers that stay as they are say the same.
LEMMA SamePapersReplay ==
  ASSUME Papers' = Papers, NEW s, NEW n
  PROVE  /\ History(s)' = History(s) /\ StateBefore(s, n)' = StateBefore(s, n)
         /\ Tombstone(s)' <=> Tombstone(s)
<1>1. History(s)' = History(s)
  <2>1. History(s)' = {p \in Papers' : p.kind \in Receipts /\ p.target = s}
    BY HistoryIsPapers
  <2>2. History(s) = {p \in Papers : p.kind \in Receipts /\ p.target = s}
    BY HistoryIsPapers
  <2> QED BY <2>1, <2>2
<1>2. Tombstone(s)' <=> Tombstone(s)
  <2>1. Tombstone(s)' <=> \E p \in Papers' : p.kind = "discard" /\ p.target = s
    BY HistoryIsPapers
  <2>2. Tombstone(s) <=> \E p \in Papers : p.kind = "discard" /\ p.target = s
    BY HistoryIsPapers
  <2> QED BY <2>1, <2>2
<1> QED BY <1>1, <1>2 DEF StateBefore

\* Commands are moved, rot, or are deleted after their discard.
LEMMA LettersLeave ==
  ASSUME Types, Types', Replayable, Papers' = Papers,
         \A q \in Letters' : \E r \in Letters : r.seq = q.seq,
         \A r \in Letters : (\E q \in Letters' : q.seq = r.seq) \/ Tombstone(r.seq)
  PROVE  NothingMissed
<1>1. Anchors' = Anchors /\ Replies' = Replies
  BY DEF Anchors, Replies
<1>2. ASSUME NEW s PROVE Tombstone(s)' <=> Tombstone(s)
  BY SamePapersReplay
<1>3. Final' /\ NewEra'
  BY <1>1 DEF Replayable, Final, NewEra
<1>4. FollowsState'
  <2> SUFFICES ASSUME NEW p \in Replies' PROVE StateBefore(p.target, p.seq)' = From[p.kind]
    BY DEF FollowsState
  <2>1. p \in Replies
    BY <1>1
  <2>2. StateBefore(p.target, p.seq)' = StateBefore(p.target, p.seq)
    BY SamePapersReplay
  <2> QED BY <2>1, <2>2 DEF Replayable, FollowsState
<1>5. TargetsThere'
  <2> SUFFICES ASSUME NEW p \in Replies'
               PROVE  \/ \E r \in Letters' : r.seq = p.target
                      \/ Tombstone(p.target)'
                      \/ \E a \in Anchors' : p.seq < a.seq
    BY DEF TargetsThere
  <2>1. \/ \E r \in Letters : r.seq = p.target
        \/ Tombstone(p.target)
        \/ \E a \in Anchors : p.seq < a.seq
    BY <1>1 DEF Replayable, TargetsThere
  <2> QED BY <1>1, <1>2, <2>1
<1>6. ASSUME NEW q \in disk' PROVE \E r \in disk : r.seq = q.seq
  <2>1. q \in Papers' \/ q \in Letters'
    BY DEF Papers, Letters
  <2> QED BY <2>1 DEF Papers, Letters
<1>7. ASSUME NEW r \in disk PROVE (\E q \in disk' : q.seq = r.seq) \/ Tombstone(r.seq)
  <2>1. CASE r \in Papers
    BY <2>1 DEF Papers
  <2>2. CASE r \in Letters
    BY <2>2 DEF Letters
  <2> QED BY <2>1, <2>2 DEF Papers, Letters
<1>8. \A a \in Anchors : a.seq <= a.seq
  <2>1. \A a \in Anchors : a.seq \in Nat
    BY RecordParts DEF Anchors, Papers, Types
  <2> QED BY <2>1
<1> QED BY <1>1, <1>2, <1>3, <1>4, <1>5, <1>6, <1>7, <1>8 DEF NothingMissed, Replayable

LEMMA MovesMissNothing ==
  ASSUME Types, Types', OnDisk, Replayable, Relocated
  PROVE  NothingMissed
BY RelocationKeeps, LettersLeave DEF OnlyMoved

LEMMA SameFilesMissNothing ==
  ASSUME Types, Types', Replayable, UNCHANGED disk
  PROVE  NothingMissed
<1>1. Papers' = Papers /\ Letters' = Letters
  BY DEF Papers, Letters
<1> QED BY <1>1, LettersLeave

LEMMA DiscardMissesNothing ==
  ASSUME Types, Types', Replayable, NEW x \in Letters, Tombstone(x.seq), Delete(x)
  PROVE  NothingMissed
<1>1. Papers' = Papers /\ Letters' = Letters \ {x}
  BY DEF Delete, Papers, Letters
<1> QED BY <1>1, LettersLeave

\* What a compaction deletes is in front of an anchor that stays, and so is all that is
\* said of it.
LEMMA CompactionMissesNothing ==
  ASSUME Types, Types', OnDisk, Replayable, Covered # {}, Delete(First(Covered)),
         \A a \in Anchors : a.seq <= head
  PROVE  NothingMissed
<1> DEFINE x == First(Covered)
<1>1. Covered \subseteq disk
  BY DEF Covered
<1>2. x \in Covered /\ x \in disk /\ disk' = disk \ {x}
  BY <1>1, FirstIsLeast DEF Delete
<1> HIDE DEF x
<1>3. PICK a \in Anchors : x.seq < a.seq
  BY <1>2 DEF Covered, OfKind, Anchors, Papers
<1>4. \A r \in disk : r.seq \in Nat
  BY RecordParts DEF Types
<1>5. Anchors \subseteq disk /\ Replies \subseteq disk /\ Letters \subseteq disk
  BY DEF Anchors, Replies, Papers, Letters
<1>6. a # x
  BY <1>3, <1>4, <1>5
<1>7. x.kind \in {"anchor", "command", "accepted_receipt"}
  BY <1>2, <1>3 DEF OnDisk, Compacted, OfKind, Anchors, Papers
<1>8. /\ Anchors' = Anchors \ {x} /\ Replies' = Replies \ {x} /\ Letters' = Letters \ {x}
      /\ Papers' = Papers \ {x}
  BY <1>2 DEF Anchors, Replies, Papers, Letters
<1>9. a \in Anchors' /\ a.seq <= head
  BY <1>3, <1>6, <1>8
<1>10. ASSUME NEW s, Tombstone(s) PROVE Tombstone(s)'
  <2>1. PICK d \in disk : d.kind = "discard" /\ d.target = s
    BY <1>10 DEF Tombstone
  <2> QED BY <1>2, <1>7, <2>1 DEF Tombstone
<1>11. Final' /\ NewEra'
  BY <1>8 DEF Replayable, Final, NewEra
<1>12. FollowsState'
  <2> SUFFICES ASSUME NEW p \in Replies' PROVE StateBefore(p.target, p.seq)' = From[p.kind]
    BY DEF FollowsState
  <2>1. p \in Replies
    BY <1>8
  <2>2. {r \in History(p.target)' : r.seq < p.seq} = {r \in History(p.target) : r.seq < p.seq}
    <3>1. History(p.target)' = History(p.target) \ {x}
      <4>1. History(p.target)' = {q \in Papers' : q.kind \in Receipts /\ q.target = p.target}
        BY HistoryIsPapers
      <4>2. History(p.target) = {q \in Papers : q.kind \in Receipts /\ q.target = p.target}
        BY HistoryIsPapers
      <4> QED BY <1>8, <4>1, <4>2
    <3>2. x \in History(p.target) => ~(x.seq < p.seq)
      <4> SUFFICES ASSUME x \in History(p.target) PROVE ~(x.seq < p.seq)
        OBVIOUS
      <4>1. x \in Replies /\ x.target = p.target
        BY HistoryIsPapers DEF Replies
      <4>2. x.kind = "accepted_receipt"
        BY <1>7, <4>1 DEF Replies, Receipts
      <4>3. p.seq <= x.seq
        BY <2>1, <4>1, <4>2 DEF Replayable, Final
      <4> QED BY <1>4, <1>5, <2>1, <4>1, <4>3
    <3> QED BY <3>1, <3>2
  <2>3. StateBefore(p.target, p.seq)' = StateBefore(p.target, p.seq)
    BY <2>2 DEF StateBefore
  <2> QED BY <2>1, <2>3 DEF Replayable, FollowsState
<1>13. TargetsThere'
  <2> SUFFICES ASSUME NEW p \in Replies'
               PROVE  \/ \E r \in Letters' : r.seq = p.target
                      \/ Tombstone(p.target)'
                      \/ \E b \in Anchors' : p.seq < b.seq
    BY DEF TargetsThere
  <2>1. p \in Replies /\ p \in disk
    BY <1>5, <1>8
  <2>2. CASE Tombstone(p.target)
    BY <1>10, <2>2
  <2>3. CASE \E b \in Anchors : p.seq < b.seq
    <3>1. PICK b \in Anchors : p.seq < b.seq
      BY <2>3
    <3>2. CASE b = x
      <4>1. p.seq < a.seq
        BY <1>3, <1>4, <1>5, <2>1, <3>1, <3>2
      <4> QED BY <1>9, <4>1
    <3> QED BY <1>8, <3>1, <3>2
  <2>4. CASE \E r \in Letters : r.seq = p.target
    <3>1. PICK r \in Letters : r.seq = p.target
      BY <2>4
    <3>2. CASE r = x
      <4>1. ~(a.seq < p.seq)
        <5>1. ~(a.seq < x.seq)
          BY <1>2, <1>3, <1>4, <1>5
        <5> QED BY <2>1, <3>1, <3>2, <5>1 DEF Replayable, NewEra
      <4>2. a.seq # p.seq
        BY <1>5, <2>1 DEF OnDisk, Numbered, Anchors, Replies, Receipts
      <4> QED BY <1>4, <1>5, <1>9, <2>1, <4>1, <4>2
    <3> QED BY <1>8, <3>1, <3>2
  <2> QED BY <2>1, <2>2, <2>3, <2>4 DEF Replayable, TargetsThere
<1>14. ASSUME NEW b \in Anchors, b.seq <= head
       PROVE  \E c \in Anchors' : b.seq <= c.seq /\ c.seq <= head
  <2>1. CASE b = x
    BY <1>3, <1>4, <1>5, <1>9, <2>1
  <2>2. CASE b # x
    BY <1>4, <1>5, <1>8, <1>14, <2>2
  <2> QED BY <2>1, <2>2
<1>15. \A r \in disk : \/ \E q \in disk' : q.seq = r.seq
                       \/ \E b \in Anchors' : r.seq < b.seq /\ b.seq <= head
  BY <1>2, <1>3, <1>9
<1>16. \A q \in disk' : \E r \in disk : r.seq = q.seq
  BY <1>2
<1> QED BY <1>8, <1>10, <1>11, <1>12, <1>13, <1>14, <1>15, <1>16 DEF NothingMissed, Replayable

\* What a step has to show that writes no record and leaves the control files alone.
LEMMA MissingKeeps ==
  ASSUME Types, Types', OnDisk', OInv, NothingMissed, UNCHANGED <<head, cursor>>,
         session'.pc \in AtWork \union {"repairing"} \/ (session'.pc = "moving" /\ session'.rec.kind # "anchor")
           => PastCompaction \/ \A a \in Anchors, r \in disk : a.seq <= r.seq,
         session'.pc = "ready" => \/ session.pc = "ready" \/ cursor.seq = head
                                  \/ \A p \in Replies : p.kind # "accepted_receipt"
  PROVE  OInv'
<1>1. \A r \in disk : r.seq \in Nat
  BY RecordParts DEF Types
<1>2. \A q \in disk' : q.seq \in Nat
  BY RecordParts DEF Types
<1>3. Anchors \subseteq disk /\ Anchors' \subseteq disk' /\ head \in Nat
  BY DEF Anchors, Papers, Types
<1>4. NoNumberMissing'
  <2> SUFFICES ASSUME NEW s \in 1..head
               PROVE  \/ \E r \in disk' : r.seq = s
                      \/ Tombstone(s)'
                      \/ \E a \in Anchors' : s < a.seq /\ a.seq <= head
    BY DEF NoNumberMissing
  <2>1. CASE \E r \in disk : r.seq = s
    BY <2>1 DEF NothingMissed
  <2>2. CASE Tombstone(s)
    BY <2>2 DEF NothingMissed
  <2>3. CASE \E a \in Anchors : s < a.seq /\ a.seq <= head
    <3>1. PICK a \in Anchors : s < a.seq /\ a.seq <= head
      BY <2>3
    <3>2. PICK b \in Anchors' : a.seq <= b.seq /\ b.seq <= head
      BY <3>1 DEF NothingMissed
    <3>3. s < b.seq
      BY <1>1, <1>2, <1>3, <3>1, <3>2
    <3> QED BY <3>2, <3>3
  <2> QED BY <2>1, <2>2, <2>3 DEF OInv, NoNumberMissing
<1>5. HeadWritten'
  <2> SUFFICES ASSUME head # 0 PROVE \E r \in disk' : head <= r.seq
    BY DEF HeadWritten
  <2>1. PICK r \in disk : head <= r.seq
    BY DEF OInv, HeadWritten
  <2>2. CASE \E q \in disk' : q.seq = r.seq
    BY <2>1, <2>2
  <2>3. CASE Tombstone(r.seq)
    <3>1. PICK d \in disk' : d.kind = "discard" /\ d.target = r.seq
      BY <2>3 DEF NothingMissed, Tombstone
    <3>2. r.seq < d.seq
      BY <3>1 DEF OnDisk, Targets, OfKind, Receipts
    <3> QED BY <1>1, <1>2, <1>3, <2>1, <3>1, <3>2
  <2>4. CASE \E a \in Anchors' : r.seq < a.seq /\ a.seq <= head
    BY <1>1, <1>2, <1>3, <2>1, <2>4
  <2> QED BY <2>2, <2>3, <2>4 DEF NothingMissed
<1>6. FrontCleared'
  <2> SUFFICES ASSUME PastCompaction', NEW a \in Anchors', a.seq <= head, NEW q \in disk'
               PROVE  a.seq <= q.seq
    BY DEF FrontCleared
  <2>1. PICK r \in disk : r.seq = q.seq
    BY DEF NothingMissed
  <2>2. a \in Anchors
    BY DEF NothingMissed
  <2>3. PastCompaction \/ \A b \in Anchors, o \in disk : b.seq <= o.seq
    <3>1. CASE \E o \in disk' : ~(o.seq <= head)
      BY <3>1 DEF NothingMissed, PastCompaction
    <3>2. CASE ~\E o \in disk' : ~(o.seq <= head)
      BY <3>2 DEF PastCompaction
    <3> QED BY <3>1, <3>2
  <2> QED BY <2>1, <2>2, <2>3 DEF OInv, FrontCleared
<1>7. CursorKnown'
  BY DEF OInv, CursorKnown, NothingMissed
<1> QED BY <1>4, <1>5, <1>6, <1>7 DEF OInv, NothingMissed

\* What a record is, and where it stands, when it has been written.
LEMMA RecordAppended ==
  ASSUME IInv, NEW kind, NEW directory, NEW cmd, NEW target, Writes(kind, directory, cmd, target)
  PROVE  \E x \in Record :
           /\ disk' = disk \union {x} /\ x.seq = head + 1 /\ x.kind = kind /\ x.target = target
           /\ session'.pc = "appended" /\ UNCHANGED <<head, cursor>>
<1> DEFINE X == [seq |-> head + 1, kind |-> kind, dir |-> directory, cmd |-> cmd,
                 target |-> target, rotten |-> FALSE]
<1>1. /\ X \in Record /\ X.seq = head + 1 /\ X.kind = kind /\ X.target = target
      /\ disk' = disk \union {X} /\ session'.pc = "appended" /\ UNCHANGED <<head, cursor>>
  BY DEF Writes, Legal, AppendRecord, Record, IInv, Types
<1> HIDE DEF X
<1> QED BY <1>1

\* A record that is written keeps the chain and can be replayed behind all others.
LEMMA WritingOpens ==
  ASSUME IInv, IInv', OInv, NEW kind, NEW directory, NEW cmd, NEW target,
         Writes(kind, directory, cmd, target), kind = "anchor" => target = cursor.seq
  PROVE  OInv'
<1>1. PICK x \in Record :
        /\ disk' = disk \union {x} /\ x.seq = head + 1 /\ x.kind = kind /\ x.target = target
        /\ session'.pc = "appended" /\ UNCHANGED <<head, cursor>>
  BY RecordAppended
<1>2. session.pc \in AtWork /\ Legal(kind, directory, cmd, target)
  BY DEF Writes
<1>3. \A r \in disk : r.seq \in Nat /\ r.seq <= head
  BY <1>2, RecordParts DEF IInv, Types, InSession, HeadKnown, AtWork, Chained
<1>4. head \in Nat /\ x.seq \in Nat
  BY <1>1 DEF IInv, Types
<1>5. /\ Papers' = (IF kind = "command" THEN Papers ELSE Papers \union {x})
      /\ Anchors' = (IF kind = "anchor" THEN Anchors \union {x} ELSE Anchors)
      /\ Replies' = (IF kind \in Receipts THEN Replies \union {x} ELSE Replies)
      /\ Letters \subseteq Letters'
  BY <1>1 DEF Papers, Anchors, Replies, Letters, Receipts
<1>6. Anchors \subseteq disk /\ Replies \subseteq disk /\ Replies \subseteq Papers
  BY DEF Anchors, Replies, Papers
<1>7. ASSUME kind \in Receipts
      PROVE  \E t \in Letters : t.seq = target /\ StateOf(target) = From[kind]
  BY <1>2, <1>7 DEF Legal, Cmds, OfKind, Letters
<1>8. kind \in Receipts => From[kind] \in {"pending", "quarantine"}
  BY ReceiptStarts DEF Receipts
<1>9. ASSUME NEW s, Tombstone(s) PROVE Tombstone(s)'
  BY <1>1, <1>9 DEF Tombstone
<1>10. Final'
  <2> SUFFICES ASSUME NEW p \in Replies', NEW q \in Replies',
                      p.kind \in {"accepted_receipt", "discard"}, q.target = p.target
               PROVE  q.seq <= p.seq
    BY DEF Final
  <2>1. p = x => q.seq <= p.seq
    BY <1>1, <1>3, <1>4, <1>5, <1>6
  <2>2. CASE p \in Replies /\ q \in Replies
    BY <2>2 DEF OInv, Replayable, Final
  <2>3. CASE p \in Replies /\ q = x /\ kind \in Receipts
    <3> DEFINE H == {o \in Papers : o.kind \in Receipts /\ o.target = target}
    <3>1. H = History(target)
      BY HistoryIsPapers
    <3>2. H \in SUBSET Record /\ \A r, o \in H : r.seq = o.seq => r = o
      BY DEF IInv, Types, OnDisk, Numbered, Papers
    <3>3. p \in H
      BY <1>1, <2>3 DEF Replies
    <3>4. \A o \in H : o.seq <= p.seq
      BY <1>1, <2>3 DEF Replies, OInv, Replayable, Final
    <3> HIDE DEF H
    <3>5. Outcome(H) = To[p.kind]
      BY <3>2, <3>3, <3>4, LastDecides
    <3>6. StateOf(target) \in {"accepted", "discarded"}
      BY <3>1, <3>5, ReceiptKinds DEF StateOf
    <3> QED BY <1>7, <1>8, <2>3, <3>6
  <2> QED BY <1>5, <2>1, <2>2, <2>3
<1>11. FollowsState'
  <2> SUFFICES ASSUME NEW p \in Replies' PROVE StateBefore(p.target, p.seq)' = From[p.kind]
    BY DEF FollowsState
  <2> DEFINE H(P) == {o \in P : o.kind \in Receipts /\ o.target = p.target}
  <2>1. History(p.target)' = H(Papers') /\ History(p.target) = H(Papers)
    BY HistoryIsPapers
  <2>2. \A o \in Papers : o.seq \in Nat /\ o.seq <= head
    BY <1>3 DEF Papers
  <2>3. CASE p \in Replies
    <3>1. p.seq \in Nat /\ p.seq <= head
      BY <1>3, <1>6, <2>3
    <3>2. {o \in H(Papers') : o.seq < p.seq} = {o \in H(Papers) : o.seq < p.seq}
      BY <1>1, <1>4, <1>5, <2>2, <3>1
    <3>3. StateBefore(p.target, p.seq)' = StateBefore(p.target, p.seq)
      BY <2>1, <3>2 DEF StateBefore
    <3> QED BY <2>3, <3>3 DEF OInv, Replayable, FollowsState
  <2>4. CASE p = x /\ kind \in Receipts
    <3>1. Papers' = Papers \union {x}
      BY <1>5, <2>4 DEF Receipts
    <3>2. {o \in H(Papers') : o.seq < p.seq} = H(Papers)
      BY <1>1, <1>4, <2>2, <2>4, <3>1
    <3>3. StateBefore(p.target, p.seq)' = StateOf(p.target)
      BY <2>1, <3>2 DEF StateBefore, StateOf
    <3> QED BY <1>1, <1>7, <2>4, <3>3
  <2> QED BY <1>5, <2>3, <2>4
<1>12. NewEra'
  <2> SUFFICES ASSUME NEW a \in Anchors', NEW p \in Replies', a.seq < p.seq
               PROVE  a.seq < p.target
    BY DEF NewEra
  <2>1. a \in Anchors
    <3>1. p.seq \in Nat /\ p.seq <= head + 1
      BY <1>1, <1>3, <1>4, <1>5, <1>6
    <3>2. a # x
      BY <1>1, <1>4, <3>1
    <3> QED BY <1>5, <3>2
  <2>2. CASE p \in Replies
    BY <2>1, <2>2 DEF OInv, Replayable, NewEra
  <2>3. CASE p = x /\ kind \in Receipts
    <3>1. PICK t \in Letters : t.seq = target /\ StateOf(target) = From[kind]
      BY <1>7, <2>3
    <3>2. t \in disk /\ t.kind = "command" /\ a \in disk /\ a.kind = "anchor"
      BY <2>1 DEF Letters, Anchors, Papers
    <3>3. t.seq # a.seq
      BY <3>2 DEF IInv, OnDisk, Numbered
    <3>4. ~(t.seq < a.seq)
      BY <1>8, <2>3, <3>1, <3>2 DEF IInv, OnDisk, Compacted, OfKind
    <3>5. t.seq \in Nat /\ a.seq \in Nat
      BY <1>3, <3>2
    <3>6. a.seq < t.seq
      BY <3>3, <3>4, <3>5
    <3> QED BY <1>1, <2>3, <3>1, <3>6
  <2> QED BY <1>5, <2>2, <2>3
<1>13. TargetsThere'
  <2> SUFFICES ASSUME NEW p \in Replies'
               PROVE  \/ \E r \in Letters' : r.seq = p.target
                      \/ Tombstone(p.target)'
                      \/ \E a \in Anchors' : p.seq < a.seq
    BY DEF TargetsThere
  <2>1. CASE p \in Replies
    <3>1. \/ \E r \in Letters : r.seq = p.target
          \/ Tombstone(p.target)
          \/ \E a \in Anchors : p.seq < a.seq
      BY <2>1 DEF OInv, Replayable, TargetsThere
    <3> QED BY <1>5, <1>9, <3>1
  <2>2. CASE p = x /\ kind \in Receipts
    BY <1>1, <1>5, <1>7, <2>2
  <2> QED BY <1>5, <2>1, <2>2
<1>14. NoNumberMissing'
  <2> SUFFICES ASSUME NEW s \in 1..head
               PROVE  \/ \E r \in disk' : r.seq = s
                      \/ Tombstone(s)'
                      \/ \E a \in Anchors' : s < a.seq /\ a.seq <= head
    BY <1>1 DEF NoNumberMissing
  <2>1. \/ \E r \in disk : r.seq = s
        \/ Tombstone(s)
        \/ \E a \in Anchors : s < a.seq /\ a.seq <= head
    BY DEF OInv, NoNumberMissing
  <2> QED BY <1>1, <1>5, <1>9, <2>1
<1>15. HeadWritten'
  BY <1>1, <1>4 DEF HeadWritten
<1>16. FrontCleared'
  <2> SUFFICES ASSUME NEW a \in Anchors', a.seq <= head, NEW r \in disk' PROVE a.seq <= r.seq
    BY <1>1 DEF FrontCleared
  <2>1. a \in Anchors
    BY <1>1, <1>4, <1>5
  <2>2. \A o \in disk : a.seq <= o.seq
    BY <1>2, <2>1 DEF OInv, FrontCleared, PastCompaction
  <2>3. a.seq \in Nat
    BY <1>3, <1>6, <2>1
  <2> QED BY <1>1, <1>4, <2>2, <2>3
<1>17. CursorKnown'
  BY <1>1, <1>5 DEF OInv, CursorKnown
<1> QED BY <1>10, <1>11, <1>12, <1>13, <1>14, <1>15, <1>16, <1>17 DEF OInv, Replayable

\* The anchor of a compaction names the record the cursor knows.
LEMMA CompactAcceptedOpens ==
  ASSUME IInv, IInv', OInv, CompactAccepted
  PROVE  OInv'
<1>1. Writes("anchor", "anchors", NoCommand, LastSeq)
  BY CompactAcceptedWrites
<1>2. session.pc = "ready" /\ OfKind({"accepted_receipt"}) # {}
  BY DEF CompactAccepted, At
<1>3. PICK p \in disk : p.kind = "accepted_receipt"
  BY <1>2 DEF OfKind
<1>4. p \in Replies
  BY <1>3 DEF Replies, Papers, Receipts
<1>5. cursor.seq = head
  BY <1>2, <1>3, <1>4 DEF OInv, CursorKnown
<1>6. LastSeq = head
  <2>1. \A r \in disk : r.seq \in Nat /\ r.seq <= head
    BY <1>2, RecordParts DEF IInv, Types, InSession, HeadKnown, Chained
  <2>2. LastSeq \in Nat /\ \A r \in disk : r.seq <= LastSeq
    BY LastSeqIsLast DEF IInv, InSession
  <2>3. \E r \in disk : r.seq = LastSeq
    BY <1>3, LastSeqIsLast DEF IInv, InSession
  <2>4. p.target < p.seq /\ p.target \in Nat
    BY <1>3, RecordParts DEF IInv, Types, OnDisk, Targets, OfKind, Receipts
  <2>5. head \in Nat /\ head # 0
    BY <1>3, <2>1, <2>4 DEF IInv, Types
  <2>6. PICK r \in disk : head <= r.seq
    BY <2>5 DEF OInv, HeadWritten
  <2> QED BY <2>1, <2>2, <2>3, <2>5, <2>6
<1>7. PICK t : t = LastSeq
  OBVIOUS
<1>8. Writes("anchor", "anchors", NoCommand, t)
  BY <1>1, <1>7
<1> QED BY <1>5, <1>6, <1>7, <1>8, WritingOpens

-----------------------------------------------------------------------------
(* The control files, and the steps of a session.                          *)

\* When nothing is covered, every anchor is in front.
LEMMA NothingCovered ==
  ASSUME Types, HeadKnown, Covered = {}
  PROVE  \A a \in Anchors, r \in disk : a.seq <= r.seq
<1> SUFFICES ASSUME NEW a \in Anchors, NEW r \in disk, ~(a.seq <= r.seq) PROVE FALSE
  OBVIOUS
<1> DEFINE S == {b.seq : b \in Anchors}
<1>1. Anchors \subseteq disk /\ OfKind({"anchor"}) = Anchors
  BY DEF Anchors, Papers, OfKind
<1>2. \A o \in disk : o.seq \in Nat /\ o.seq <= head + 1
  BY RecordParts DEF Types, HeadKnown
<1>3. S \in SUBSET Nat /\ S # {} /\ head + 1 \in Nat /\ \A n \in S : n <= head + 1
  BY <1>1, <1>2 DEF Types
<1>4. PICK n \in S : \A m \in S : m <= n
  BY <1>3, HighestNumber
<1>5. PICK b \in Anchors : b.seq = n /\ \A c \in Anchors : c.seq <= b.seq
  BY <1>4
<1>6. a.seq <= b.seq /\ a.seq \in Nat /\ b.seq \in Nat /\ r.seq \in Nat
  BY <1>1, <1>2, <1>5
<1>7. r.seq < b.seq
  BY <1>6
<1>8. r \in Covered
  BY <1>1, <1>5, <1>7 DEF Covered
<1> QED BY <1>8

\* A step that only goes to where nothing is asked of the files.
LEMMA QuietOpens ==
  ASSUME IInv, IInv', OInv, UNCHANGED <<disk, head, cursor>>,
         session'.pc \in AtWork \union {"repairing"} => PastCompaction,
         session'.pc # "moving", session'.pc = "ready" => session.pc = "ready"
  PROVE  OInv'
<1>1. NothingMissed
  BY SameFilesMissNothing DEF IInv, OInv
<1> QED BY <1>1, MissingKeeps DEF IInv

LEMMA OpenOpens ==
  ASSUME IInv, IInv', OInv, Open
  PROVE  OInv'
<1>1. NothingMissed
  BY OpenRelocates, MovesMissNothing DEF IInv, OInv
<1>2. session'.pc = "scanned" /\ UNCHANGED <<head, cursor>>
  BY GotoMoves DEF Open, IInv, Steps
<1> QED BY <1>1, <1>2, MissingKeeps DEF IInv, AtWork

LEMMA RotOpens ==
  ASSUME IInv, IInv', OInv, NEW r \in Cmds, Rot(r)
  PROVE  OInv'
<1> DEFINE X == [r EXCEPT !.rotten = TRUE]
<1>1. r \in disk /\ r.kind = "command" /\ r \in Record
  BY DEF Cmds, OfKind, IInv, Types
<1>2. X.seq = r.seq /\ X.kind = "command" /\ disk' = (disk \ {r}) \union {X}
  BY <1>1 DEF Record, Rot
<1>3. PICK x : x.seq = r.seq /\ x.kind = "command" /\ disk' = (disk \ {r}) \union {x}
  BY <1>2
<1> HIDE DEF X
<1>4. Papers' = Papers /\ Letters' = (Letters \ {r}) \union {x} /\ r \in Letters
  BY <1>1, <1>3 DEF Papers, Letters
<1>5. NothingMissed
  BY <1>3, <1>4, LettersLeave DEF IInv, OInv
<1>6. UNCHANGED <<head, cursor, session>> /\ session.pc = "closed"
  BY DEF Rot, At
<1> QED BY <1>5, <1>6, MissingKeeps DEF IInv, AtWork

LEMMA RecoverCompactionOpens ==
  ASSUME IInv, IInv', OInv, RecoverCompaction
  PROVE  OInv'
<1>1. /\ Covered # {} /\ Delete(First(Covered)) /\ UNCHANGED <<head, cursor, session>>
      /\ (session.pc = "scanned" /\ head = LastSeq) \/ session.pc = "chained"
  BY DEF RecoverCompaction, At
<1>2. \A a \in Anchors : a.seq <= head
  BY <1>1, LastSeqIsLast DEF Anchors, Papers, IInv, InSession, HeadKnown, Chained
<1>3. NothingMissed
  BY <1>1, <1>2, CompactionMissesNothing DEF IInv, OInv
<1> QED BY <1>1, <1>3, MissingKeeps DEF IInv, AtWork

LEMMA RecoverHeadOpens ==
  ASSUME IInv, IInv', OInv, RecoverHead
  PROVE  OInv'
<1>1. session'.pc = "chained"
  BY GotoMoves DEF RecoverHead, IInv, Steps
<1>2. UNCHANGED <<disk, cursor>> /\ head' = LastSeq /\ head <= LastSeq
  BY DEF RecoverHead, ChainHolds
<1>3. PICK n : n = LastSeq
  OBVIOUS
<1>4. /\ n \in Nat /\ head \in Nat /\ (\A r \in disk : r.seq \in Nat /\ r.seq <= n /\ r.seq <= head + 1)
      /\ disk = {} => n = 0
      /\ disk # {} => \E r \in disk : r.seq = n
  <2>1. Types /\ HeadKnown
    BY DEF IInv, InSession
  <2>2. /\ n \in Nat /\ \A r \in disk : r.seq <= n
        /\ disk = {} => n = 0
        /\ disk # {} => \E r \in disk : r.seq = n
    BY <1>3, <2>1, LastSeqIsLast
  <2>3. head \in Nat /\ \A r \in disk : r.seq \in Nat /\ r.seq <= head + 1
    BY <2>1, RecordParts DEF Types, HeadKnown
  <2> QED BY <2>2, <2>3
<1>5. head' = n /\ head <= n /\ n <= head + 1
  BY <1>2, <1>3, <1>4
<1>6. Anchors' = Anchors /\ Replies' = Replies /\ Letters' = Letters /\ Anchors \subseteq disk
  BY <1>2 DEF Anchors, Replies, Papers, Letters
<1>7. NothingMissed
  BY <1>2, SameFilesMissNothing DEF IInv, OInv
<1>8. NoNumberMissing'
  <2> SUFFICES ASSUME NEW s \in 1..n
               PROVE  \/ \E r \in disk' : r.seq = s
                      \/ Tombstone(s)'
                      \/ \E a \in Anchors' : s < a.seq /\ a.seq <= n
    BY <1>5 DEF NoNumberMissing
  <2>1. CASE s = n
    BY <1>2, <1>4, <2>1
  <2>2. CASE s # n
    <3>1. s \in 1..head
      BY <1>4, <1>5, <2>2
    <3>2. \/ \E r \in disk : r.seq = s
          \/ Tombstone(s)
          \/ \E a \in Anchors : s < a.seq /\ a.seq <= head
      BY <3>1 DEF OInv, NoNumberMissing
    <3>3. \A a \in Anchors : a.seq <= n
      BY <1>4, <1>6
    <3> QED BY <1>2, <1>6, <1>7, <3>2, <3>3 DEF NothingMissed
  <2> QED BY <2>1, <2>2
<1>9. HeadWritten'
  BY <1>2, <1>4, <1>5 DEF HeadWritten
<1>10. FrontCleared'
  BY <1>1, <1>2, <1>4, <1>5 DEF FrontCleared, PastCompaction, AtWork
<1>11. CursorKnown'
  BY <1>1, <1>2, <1>6 DEF CursorKnown, OInv
<1> QED BY <1>7, <1>8, <1>9, <1>10, <1>11 DEF OInv, NothingMissed

LEMMA WriteHeadOpens ==
  ASSUME IInv, IInv', OInv, WriteHead
  PROVE  OInv'
<1> DEFINE rec == session.rec
<1>1. session.pc = "appended" /\ rec \in disk /\ rec.seq = head + 1 /\ head \in Nat
      /\ \A r \in disk : r # rec => r.seq <= head
  BY DEF WriteHead, At, IInv, Types, InSession, LastWritten, Settling
<1>2. UNCHANGED <<disk, cursor>> /\ head' = head + 1
  BY <1>1 DEF WriteHead
<1>3. /\ session'.pc = IF rec.kind \in {"command", "corrupt_disposition"} THEN "closing" ELSE "moving"
      /\ session'.rec = rec
  BY GotoMoves DEF WriteHead, IInv, Steps
<1>4. \A r \in disk : r.seq \in Nat
  BY RecordParts DEF IInv, Types
<1>5. Anchors' = Anchors /\ Replies' = Replies /\ Letters' = Letters /\ Anchors \subseteq disk
  BY <1>2 DEF Anchors, Replies, Papers, Letters
<1>6. NothingMissed
  BY <1>2, SameFilesMissNothing DEF IInv, OInv
<1>7. NoNumberMissing'
  <2> SUFFICES ASSUME NEW s \in 1..(head + 1)
               PROVE  \/ \E r \in disk' : r.seq = s
                      \/ Tombstone(s)'
                      \/ \E a \in Anchors' : s < a.seq /\ a.seq <= head + 1
    BY <1>2 DEF NoNumberMissing
  <2>1. CASE s = head + 1
    BY <1>1, <1>2, <2>1
  <2>2. CASE s # head + 1
    <3>1. s \in 1..head
      BY <1>1, <2>2
    <3>2. \/ \E r \in disk : r.seq = s
          \/ Tombstone(s)
          \/ \E a \in Anchors : s < a.seq /\ a.seq <= head
      BY <3>1 DEF OInv, NoNumberMissing
    <3>3. \A a \in Anchors : a.seq <= head => a.seq <= head + 1
      BY <1>1, <1>4, <1>5
    <3> QED BY <1>2, <1>5, <1>6, <3>2, <3>3 DEF NothingMissed
  <2> QED BY <2>1, <2>2
<1>8. HeadWritten'
  BY <1>1, <1>2 DEF HeadWritten
<1>9. FrontCleared'
  <2> SUFFICES ASSUME PastCompaction', NEW a \in Anchors', NEW r \in disk' PROVE a.seq <= r.seq
    BY DEF FrontCleared
  <2>1. a \in Anchors /\ a \in disk /\ r \in disk /\ a.kind = "anchor"
    BY <1>2, <1>5 DEF Anchors
  <2>2. PastCompaction
    BY <1>1 DEF PastCompaction
  <2>3. rec.kind # "anchor"
    <3>1. \A o \in disk' : o.seq <= head'
      BY <1>1, <1>2, <1>4
    <3> QED BY <1>3, <3>1 DEF PastCompaction, AtWork
  <2>4. a.seq <= head
    BY <1>1, <2>1, <2>3
  <2> QED BY <2>1, <2>2, <2>4 DEF OInv, FrontCleared
<1>10. CursorKnown'
  BY <1>2, <1>3, <1>5 DEF CursorKnown, OInv
<1> QED BY <1>6, <1>7, <1>8, <1>9, <1>10 DEF OInv, NothingMissed

\* The cursor is written from the head, behind all anchors.
LEMMA CursorWrittenOpens ==
  ASSUME IInv, IInv', OInv, UNCHANGED <<disk, head>>, cursor'.seq = head, session.pc \in Chained,
         PastCompaction, session'.pc # "moving"
  PROVE  OInv'
<1>1. Anchors' = Anchors /\ Replies' = Replies /\ \A a \in Anchors : a.seq <= head
  BY DEF Anchors, Replies, Papers, IInv, InSession, HeadKnown
<1>2. NothingMissed
  BY SameFilesMissNothing DEF IInv, OInv
<1>3. NoNumberMissing'
  <2>1. \A s : Tombstone(s) => Tombstone(s)'
    BY <1>2 DEF NothingMissed
  <2> QED BY <1>1, <2>1 DEF OInv, NoNumberMissing
<1>4. HeadWritten' /\ FrontCleared'
  BY <1>1 DEF OInv, HeadWritten, FrontCleared
<1>5. CursorKnown'
  BY <1>1 DEF CursorKnown
<1> QED BY <1>2, <1>3, <1>4, <1>5 DEF OInv, NothingMissed

LEMMA CheckpointRecoveryOpens ==
  ASSUME IInv, IInv', OInv, CheckpointRecovery
  PROVE  OInv'
<1>1. session'.pc = "ready" /\ session.pc = "repairing"
  BY GotoMoves DEF CheckpointRecovery, IInv, Steps, At
<1>2. UNCHANGED <<disk, head>> /\ cursor'.seq = head
  BY DEF CheckpointRecovery, CursorNow
<1> QED BY <1>1, <1>2, CursorWrittenOpens DEF PastCompaction, Chained

LEMMA CloseOpens ==
  ASSUME IInv, IInv', OInv, Close
  PROVE  OInv'
<1>1. session'.pc = "closed" /\ session.pc \in {"ready", "closing"} /\ UNCHANGED <<disk, head>>
  BY DEF Close, At
<1>2. cursor'.seq = head
  BY DEF Close, CursorNow
<1> QED BY <1>1, <1>2, CursorWrittenOpens DEF PastCompaction, Chained, AtWork

LEMMA TrustCursorOpens ==
  ASSUME IInv, IInv', OInv, TrustCursor
  PROVE  OInv'
<1>1. session'.pc = "ready" /\ Covered = {} /\ cursor.seq = head /\ UNCHANGED <<disk, head, cursor>>
  BY GotoMoves DEF TrustCursor, IInv, Steps, At, CursorNow, diskVars
<1>2. \A a \in Anchors, r \in disk : a.seq <= r.seq
  BY <1>1, NothingCovered DEF IInv, InSession
<1>3. NothingMissed
  BY <1>1, SameFilesMissNothing DEF IInv, OInv
<1> QED BY <1>1, <1>2, <1>3, MissingKeeps DEF IInv

LEMMA ReplayTransitionsOpens ==
  ASSUME IInv, IInv', OInv, ReplayTransitions
  PROVE  OInv'
<1>1. session'.pc = "repairing" /\ Covered = {} /\ UNCHANGED <<disk, head, cursor>>
  BY GotoMoves DEF ReplayTransitions, IInv, Steps, At, diskVars
<1>2. \A a \in Anchors, r \in disk : a.seq <= r.seq
  BY <1>1, NothingCovered DEF IInv, InSession
<1>3. NothingMissed
  BY <1>1, SameFilesMissNothing DEF IInv, OInv
<1> QED BY <1>1, <1>2, <1>3, MissingKeeps DEF IInv

LEMMA RepairTransitionOpens ==
  ASSUME IInv, IInv', OInv, RepairTransition
  PROVE  OInv'
<1> DEFINE r == First(Misplaced)
<1>1. Misplaced # {} /\ Misplaced \subseteq disk /\ session.pc = "repairing"
      /\ UNCHANGED <<head, cursor, session>>
  BY DEF RepairTransition, Misplaced, Cmds, OfKind, At
<1>2. r \in Misplaced
  BY <1>1, FirstIsLeast DEF IInv
<1>3. IF StateOf(r.seq) = "discarded" THEN Delete(r) ELSE Move(r.seq, StateOf(r.seq))
  BY DEF RepairTransition
<1> HIDE DEF r
<1>4. r \in Letters
  BY <1>2 DEF Misplaced, Cmds, OfKind, Letters
<1>5. NothingMissed
  <2>1. CASE StateOf(r.seq) = "discarded"
    <3>1. Tombstone(r.seq)
      BY <2>1, StateKnown DEF IInv, OnDisk, InSession
    <3> QED BY <1>3, <1>4, <2>1, <3>1, DiscardMissesNothing DEF IInv, OInv
  <2>2. CASE StateOf(r.seq) # "discarded"
    <3>1. Move(r.seq, StateOf(r.seq)) /\ StateOf(r.seq) \in Directories
      BY <1>3, <2>2, StateKnown DEF Outcomes, Directories, IInv, OnDisk, InSession
    <3>2. Relocated
      BY <3>1, MoveRelocates DEF IInv
    <3> QED BY <3>2, MovesMissNothing DEF IInv, OInv
  <2> QED BY <2>1, <2>2
<1>6. PastCompaction
  BY <1>1 DEF PastCompaction
<1> QED BY <1>1, <1>5, <1>6, MissingKeeps DEF IInv

LEMMA SettleOpens ==
  ASSUME IInv, IInv', OInv, Settle
  PROVE  OInv'
<1> DEFINE rec == session.rec
<1>1. session.pc = "moving" /\ UNCHANGED <<head, cursor>>
  BY DEF Settle, At
<1>2. /\ rec \in disk /\ rec.seq = head /\ \A r \in disk : r.seq \in Nat /\ r.seq <= head
  BY <1>1, RecordParts DEF At, IInv, Types, InSession, LastWritten, HeadKnown, Settling, Chained
<1>3. CASE rec.kind = "anchor" /\ Covered # {} /\ Delete(First(Covered)) /\ UNCHANGED session
  <2>1. \A a \in Anchors : a.seq <= head
    BY <1>2 DEF Anchors, Papers
  <2>2. NothingMissed
    BY <1>3, <2>1, CompactionMissesNothing DEF IInv, OInv
  <2> QED BY <1>1, <1>3, <2>2, MissingKeeps DEF IInv, AtWork
<1>4. CASE rec.kind = "anchor" /\ Covered = {} /\ UNCHANGED disk /\ Goto("ready")
  <2>1. \A a \in Anchors, r \in disk : a.seq <= r.seq
    BY <1>4, NothingCovered DEF IInv, InSession
  <2>2. rec \in Anchors
    BY <1>2, <1>4 DEF Anchors, Papers
  <2>3. ASSUME NEW p \in Replies PROVE p.kind # "accepted_receipt"
    <3>1. p \in disk /\ p.seq <= head /\ head <= p.seq /\ p.seq \in Nat
      BY <1>2, <2>1, <2>2 DEF Replies, Papers
    <3>2. p = rec
      BY <1>2, <3>1 DEF IInv, OnDisk, Numbered
    <3> QED BY <1>4, <3>2
  <2>4. NothingMissed
    BY <1>4, SameFilesMissNothing DEF IInv, OInv
  <2>5. session'.pc = "ready"
    BY <1>4, GotoMoves DEF IInv, Steps
  <2> QED BY <1>1, <2>1, <2>3, <2>4, <2>5, MissingKeeps DEF IInv
<1>5. rec.kind # "anchor" => PastCompaction
  BY <1>1 DEF PastCompaction
<1>6. CASE rec.kind = "discard" /\ disk' = {r \in disk : r.seq # rec.target} /\ Goto("closing")
  <2>1. NothingMissed
    <3>1. CASE \E x \in disk : x.seq = rec.target
      <4>1. PICK x \in disk : x.seq = rec.target
        BY <3>1
      <4>2. Delete(x)
        BY <1>6, <4>1 DEF IInv, OnDisk, Numbered, Delete
      <4>3. x \in Letters
        BY <1>2, <1>6, <4>1 DEF IInv, OnDisk, Targets, OfKind, Receipts, Letters
      <4>4. Tombstone(x.seq)
        BY <1>2, <1>6, <4>1 DEF Tombstone
      <4> QED BY <4>2, <4>3, <4>4, DiscardMissesNothing DEF IInv, OInv
    <3>2. CASE ~\E x \in disk : x.seq = rec.target
      <4>1. UNCHANGED disk
        BY <1>6, <3>2
      <4> QED BY <4>1, SameFilesMissNothing DEF IInv, OInv
    <3> QED BY <3>1, <3>2
  <2>2. session'.pc = "closing"
    BY <1>6, GotoMoves DEF IInv, Steps
  <2> QED BY <1>1, <1>5, <1>6, <2>1, <2>2, MissingKeeps DEF IInv
<1>7. CASE /\ rec.kind \in {"accepted_receipt", "quarantine_receipt", "retry"}
           /\ Move(rec.target, To[rec.kind]) /\ (Goto("draining") \/ Goto("closing"))
  <2>1. To[rec.kind] \in Directories
    BY <1>7, ReceiptKinds DEF Directories
  <2>2. Relocated
    BY <1>7, <2>1, MoveRelocates DEF IInv
  <2>3. NothingMissed
    BY <2>2, MovesMissNothing DEF IInv, OInv
  <2>4. session'.pc \in {"draining", "closing"}
    BY <1>7, GotoMoves DEF IInv, Steps
  <2> QED BY <1>1, <1>5, <1>7, <2>3, <2>4, MissingKeeps DEF IInv
<1>8. \/ rec.kind = "anchor" /\ Covered # {} /\ Delete(First(Covered)) /\ UNCHANGED session
      \/ rec.kind = "anchor" /\ Covered = {} /\ UNCHANGED disk /\ Goto("ready")
      \/ rec.kind = "discard" /\ disk' = {r \in disk : r.seq # rec.target} /\ Goto("closing")
      \/ /\ rec.kind \in {"accepted_receipt", "quarantine_receipt", "retry"}
         /\ Move(rec.target, To[rec.kind]) /\ (Goto("draining") \/ Goto("closing"))
  BY ReceiptKinds DEF Settle
<1> QED BY <1>3, <1>4, <1>6, <1>7, <1>8

-----------------------------------------------------------------------------
(* Recovery refuses in the known cases only.                               *)

LEMMA StepOpens ==
  ASSUME IInv, IInv', OInv, [Next]_vars
  PROVE  OInv'
<1>1. CASE Open
  BY <1>1, OpenOpens
<1>2. CASE Recover
  <2>1. CASE Refuse
    <3>1. session'.pc = "closed" /\ UNCHANGED <<disk, head, cursor>>
      BY <2>1, GotoMoves DEF Refuse, IInv, Steps, diskVars
    <3> QED BY <3>1, QuietOpens DEF AtWork
  <2> QED BY <1>2, <2>1, RecoverCompactionOpens, RecoverHeadOpens, TrustCursorOpens,
             ReplayTransitionsOpens, RepairTransitionOpens, CheckpointRecoveryOpens DEF Recover
<1>3. CASE Owner
  <2>1. CASE \E c \in Commands : Enqueue(c)
    BY <2>1, EnqueueWrites, WritingOpens
  <2>2. CASE \E r \in Cmds : Retry(r) \/ Discard(r)
    <3>1. PICK r \in Cmds : Retry(r) \/ Discard(r)
      BY <2>2
    <3>2. PICK kind \in {"retry", "discard"} : Writes(kind, "quarantine", NoCommand, r.seq)
      BY <3>1, DispositionsWrite
    <3> QED BY <3>2, WritingOpens
  <2>3. CASE \E r \in ActiveCorrupt : DisposeCorrupt(r)
    BY <2>3, DisposeCorruptWrites, WritingOpens
  <2>4. CASE CompactAccepted
    BY <2>4, CompactAcceptedOpens
  <2> QED BY <1>3, <2>1, <2>2, <2>3, <2>4 DEF Owner
<1>4. CASE WriteHead
  BY <1>4, WriteHeadOpens
<1>5. CASE Settle
  BY <1>5, SettleOpens
<1>6. CASE Close
  BY <1>6, CloseOpens
<1>7. CASE Drain
  <2>1. CASE StartDrain \/ Drained
    <3>1. /\ session.pc \in AtWork /\ session'.pc \in {"draining", "closing"}
          /\ UNCHANGED <<disk, head, cursor>>
      BY <2>1, GotoMoves DEF StartDrain, Drained, IInv, Steps, At, AtWork, diskVars
    <3> QED BY <3>1, QuietOpens DEF PastCompaction
  <2>2. CASE Send
    <3>1. session.pc = "draining" /\ session'.pc = "sending" /\ UNCHANGED <<disk, head, cursor>>
      BY <2>2 DEF Send, At, diskVars
    <3> QED BY <3>1, QuietOpens DEF PastCompaction, AtWork
  <2>3. CASE RefuseLocally
    BY <2>3, RefuseLocallyWrites, WritingOpens
  <2>4. CASE Accept
    BY <2>4, AcceptWrites, WritingOpens
  <2>5. CASE Quarantine
    BY <2>5, QuarantineWrites, WritingOpens
  <2> QED BY <1>7, <2>1, <2>2, <2>3, <2>4, <2>5 DEF Drain
<1>8. CASE Network
  <2>1. CASE ReplyLost
    <3>1. session.pc = "sending" /\ session'.pc = "closing" /\ UNCHANGED <<disk, head, cursor>>
      BY <2>1, GotoMoves DEF ReplyLost, IInv, Steps, At, diskVars
    <3> QED BY <3>1, QuietOpens DEF PastCompaction, AtWork
  <2>2. CASE \E m \in flight : Handle(m)
    <3>1. PICK m \in flight : Handle(m)
      BY <2>2
    <3>2. UNCHANGED <<disk, head, cursor>>
      BY <3>1 DEF Handle, diskVars
    <3>3. \/ UNCHANGED session
          \/ session.pc = "sending" /\ session'.pc \in {"accepted", "rejected", "closing"}
      <4>1. UNCHANGED session \/ \E d \in {"accepted", "closing", "rejected"} : Waiting(m) /\ Goto(d)
        BY <3>1, HandleDoes DEF Answer
      <4> QED BY <4>1, GotoMoves DEF Waiting, At, IInv, Steps
    <3>4. CASE UNCHANGED session
      BY <3>2, <3>4, SameFilesMissNothing, MissingKeeps DEF IInv, OInv, PastCompaction
    <3> QED BY <3>2, <3>3, <3>4, QuietOpens DEF PastCompaction, AtWork
  <2>3. CASE \E c \in Commands : BecomeDurable(c)
    <3>1. UNCHANGED <<disk, head, cursor, session>>
      BY <2>3 DEF BecomeDurable, diskVars
    <3> QED BY <3>1, SameFilesMissNothing, MissingKeeps DEF IInv, OInv, PastCompaction
  <2> QED BY <1>8, <2>1, <2>2, <2>3 DEF Network
<1>9. CASE Crash
  <2>1. session'.pc = "closed" /\ UNCHANGED <<disk, head, cursor>>
    BY <1>9 DEF Crash
  <2> QED BY <2>1, QuietOpens DEF AtWork
<1>10. CASE \E r \in Cmds : Rot(r)
  BY <1>10, RotOpens
<1>11. CASE UNCHANGED vars
  <2>1. UNCHANGED <<disk, head, cursor, session>>
    BY <1>11 DEF vars
  <2> QED BY <2>1, SameFilesMissNothing, MissingKeeps DEF IInv, OInv, PastCompaction
<1> QED BY <1>1, <1>2, <1>3, <1>4, <1>5, <1>6, <1>7, <1>8, <1>9, <1>10, <1>11 DEF Next

LEMMA InitiallyOpens == Init => OInv
<1> SUFFICES ASSUME Init PROVE OInv
  OBVIOUS
<1>1. disk = {} /\ head = 0 /\ cursor.seq = 0 /\ session.pc = "closed"
  BY DEF Init
<1>2. Anchors = {} /\ Replies = {}
  BY <1>1 DEF Anchors, Replies, Papers
<1> QED BY <1>1, <1>2 DEF OInv, NoNumberMissing, HeadWritten, FrontCleared, CursorKnown,
                          Replayable, Final, FollowsState, NewEra, TargetsThere

\* Files have numbers of their own up to the one behind the head.
LEMMA FilesAreFinite ==
  ASSUME Types, Numbered, HeadKnown
  PROVE  IsFiniteSet(disk) /\ Cardinality(disk) \in Nat
<1> DEFINE f == [r \in disk |-> r.seq]
<1>1. head \in Nat /\ \A r \in disk : r.seq \in 0..(head + 1)
  BY RecordParts DEF Types, HeadKnown
<1>2. f \in Injection(disk, 0..(head + 1))
  BY <1>1 DEF Numbered, Injection, IsInjective
<1>3. IsFiniteSet(0..(head + 1))
  BY <1>1, FS_Interval
<1>4. IsFiniteSet(disk)
  BY <1>2, <1>3, FS_Injection
<1> QED BY <1>4, FS_CardinalityType

\* Before a compaction has deleted anything, and after it, the chain starts at the
\* anchor or with the first record.
LEMMA ChainIsThere ==
  ASSUME IInv, OInv, session.pc = "scanned", head = LastSeq => Covered = {},
         \A r \in disk : r.rotten =>
           (\E q \in disk : q.seq = r.seq + 1 /\ ~q.rotten) \/ head = r.seq
  PROVE  ChainHolds
<1>1. PICK n : n = LastSeq
  OBVIOUS
<1>2. Types /\ HeadKnown /\ Numbered /\ Targets
  BY DEF IInv, InSession, OnDisk
<1>3. /\ n \in Nat /\ (\A r \in disk : r.seq <= n)
      /\ disk = {} => n = 0
      /\ disk # {} => \E r \in disk : r.seq = n
  BY <1>1, <1>2, LastSeqIsLast
<1>4. head \in Nat /\ cursor.seq \in Nat /\ cursor.seq <= head
      /\ \A r \in disk : r.seq \in Nat /\ r.seq <= head + 1
  BY <1>2, RecordParts DEF Types, HeadKnown
<1>5. Anchors \subseteq disk
  BY DEF Anchors, Papers
<1>6. head <= n
  BY <1>3, <1>4 DEF OInv, HeadWritten
<1>7. \A a \in Anchors : a.seq <= head => \A r \in disk : a.seq <= r.seq
  <2>1. CASE \E r \in disk : ~(r.seq <= head)
    BY <2>1 DEF OInv, FrontCleared, PastCompaction
  <2>2. CASE ~\E r \in disk : ~(r.seq <= head)
    <3>1. head = LastSeq
      BY <1>1, <1>3, <1>4, <1>6, <2>2
    <3> QED BY <1>2, <3>1, NothingCovered
  <2> QED BY <2>1, <2>2
\* Where the chain starts.
<1>8. PICK start : start = Start
  OBVIOUS
<1>9. /\ start \in Nat
      /\ \/ start = 1
         \/ \E a \in Anchors : start = a.seq /\ \A r \in disk : a.seq <= r.seq
  <2>1. CASE disk # {} /\ First(disk).kind = "anchor"
    <3>1. First(disk) \in disk /\ \A r \in disk : First(disk).seq <= r.seq
      BY <1>2, <2>1, FirstIsLeast
    <3>2. First(disk) \in Anchors
      BY <2>1, <3>1 DEF Anchors, Papers
    <3> QED BY <1>4, <1>8, <2>1, <3>1, <3>2 DEF Start
  <2>2. CASE ~(disk # {} /\ First(disk).kind = "anchor")
    BY <1>8, <2>2 DEF Start
  <2> QED BY <2>1, <2>2
<1>10. ASSUME NEW a \in Anchors, a.seq <= head
       PROVE  start = a.seq
  <2>1. \A r \in disk : a.seq <= r.seq
    BY <1>7, <1>10
  <2>2. First(disk) \in disk /\ \A r \in disk : First(disk).seq <= r.seq
    BY <1>2, <1>5, FirstIsLeast
  <2>3. First(disk).seq = a.seq
    BY <1>4, <1>5, <2>1, <2>2
  <2>4. First(disk) = a
    BY <1>2, <1>5, <2>2, <2>3 DEF Numbered
  <2> QED BY <1>5, <1>8, <2>4 DEF Start, Anchors
<1>11. ASSUME NEW s \in start..n
       PROVE  (\E r \in disk : r.seq = s) \/ Tombstone(s)
  <2>1. CASE s = n
    <3>1. disk # {}
      <4> SUFFICES ASSUME disk = {} PROVE FALSE
        OBVIOUS
      <4> QED BY <1>3, <1>5, <1>9, <1>11
    <3> QED BY <1>3, <2>1, <3>1
  <2>2. CASE s # n
    <3>1. s \in Nat /\ s < n /\ n <= head + 1
      BY <1>3, <1>4, <1>9, <1>11, <2>2
    <3>2. s = 0 \/ s \in 1..head
      BY <1>3, <1>4, <3>1
    <3>3. CASE s = 0
      <4>1. PICK a \in Anchors : a.seq = s
        BY <1>9, <1>11, <3>3
      <4> QED BY <1>5, <4>1
    <3>4. CASE \E a \in Anchors : s < a.seq /\ a.seq <= head
      <4>1. PICK a \in Anchors : s < a.seq /\ a.seq <= head
        BY <3>4
      <4>2. start = a.seq
        BY <1>10, <4>1
      <4> QED BY <1>9, <1>11, <3>1, <4>1, <4>2
    <3> QED BY <3>2, <3>3, <3>4 DEF OInv, NoNumberMissing
  <2> QED BY <2>1, <2>2
<1>12. head = 0 \/ head >= start
  <2> SUFFICES ASSUME head # 0, ~(head >= start) PROVE FALSE
    OBVIOUS
  <2>1. PICK a \in Anchors : start = a.seq /\ \A r \in disk : a.seq <= r.seq
    BY <1>4, <1>9
  <2>2. head < a.seq /\ a.seq = head + 1
    BY <1>4, <1>5, <2>1
  <2>3. head \in 1..head
    BY <1>4
  <2>4. CASE \E r \in disk : r.seq = head
    BY <1>4, <1>5, <2>1, <2>2, <2>4
  <2>5. CASE Tombstone(head)
    <3>1. PICK d \in disk : d.kind = "discard" /\ d.target = head
      BY <2>5 DEF Tombstone
    <3>2. d.seq = a.seq
      <4>1. head < d.seq
        BY <1>2, <3>1 DEF Targets, OfKind, Receipts
      <4> QED BY <1>4, <2>2, <4>1
    <3> QED BY <1>2, <1>5, <3>1, <3>2 DEF Numbered, Anchors
  <2>6. CASE \E b \in Anchors : head < b.seq /\ b.seq <= head
    BY <1>4, <1>5, <2>6
  <2> QED BY <2>3, <2>4, <2>5, <2>6 DEF OInv, NoNumberMissing
<1>13. \/ cursor.seq \in {0} \union start..n
       \/ \E a \in OfKind({"anchor"}) : a.target = cursor.seq
  <2>1. cursor.seq <= n
    BY <1>3, <1>4, <1>6
  <2>2. CASE start = 1
    BY <1>3, <1>4, <2>1, <2>2
  <2>3. CASE \E a \in Anchors : start = a.seq
    <3>1. PICK a \in Anchors : start = a.seq
      BY <2>3
    <3>2. a.target = cursor.seq \/ a.seq <= cursor.seq
      BY DEF OInv, CursorKnown
    <3>3. a \in OfKind({"anchor"})
      BY DEF Anchors, Papers, OfKind
    <3> QED BY <1>3, <1>4, <1>9, <2>1, <3>1, <3>2, <3>3
  <2> QED BY <1>9, <2>2, <2>3
<1> QED BY <1>1, <1>6, <1>8, <1>11, <1>12, <1>13 DEF ChainHolds

\* What every receipt says can be replayed, when its command is there or gone with it.
LEMMA TransitionsAreLegal ==
  ASSUME IInv, OInv, Covered = {}, ~RetriedAndDiscarded,
         \A r \in disk : r.rotten => History(r.seq) = {}
  PROVE  TransitionsHold
<1> SUFFICES ASSUME NEW p \in OfKind(Receipts)
             PROVE  \/ Present(p.target) /\ StateBefore(p.target, p.seq) = From[p.kind]
                    \/ ~Present(p.target) /\ p.kind = "discard"
                    \/ ~Present(p.target) /\ p.kind = "quarantine_receipt" /\ Tombstone(p.target)
  BY ReceiptKinds DEF TransitionsHold
<1>1. p \in Replies /\ p \in disk /\ p.kind \in Receipts
  BY DEF OfKind, Replies, Papers, Receipts
<1>2. StateBefore(p.target, p.seq) = From[p.kind]
  BY <1>1 DEF OInv, Replayable, FollowsState
<1>3. p \in History(p.target)
  BY <1>1, ReceiptKinds DEF History
<1>4. CASE \E r \in Letters : r.seq = p.target
  <2>1. PICK r \in Letters : r.seq = p.target
    BY <1>4
  <2>2. r \in Cmds
    BY <1>3, <2>1 DEF Letters, Cmds, OfKind
  <2> QED BY <1>2, <2>1, <2>2 DEF Present
<1>5. CASE Tombstone(p.target)
  <2>1. p.kind # "retry"
    BY <1>1, <1>5 DEF RetriedAndDiscarded, OfKind
  <2>2. p.kind # "accepted_receipt"
    <3>1. PICK d \in disk : d.kind = "discard" /\ d.target = p.target
      BY <1>5 DEF Tombstone
    <3>2. d \in Replies
      BY <3>1 DEF Replies, Papers, Receipts
    <3>3. p.kind = "accepted_receipt" => p.seq <= d.seq /\ d.seq <= p.seq
      BY <1>1, <3>1, <3>2 DEF OInv, Replayable, Final
    <3>4. p.seq \in Nat /\ d.seq \in Nat
      BY <1>1, RecordParts DEF IInv, Types
    <3> QED BY <1>1, <3>1, <3>3, <3>4 DEF IInv, OnDisk, Numbered
  <2> QED BY <1>1, <1>2, <1>5, <2>1, <2>2 DEF Receipts
<1>6. ~\E a \in Anchors : p.seq < a.seq
  <2>1. \A a \in Anchors : a.seq <= p.seq
    BY <1>1, NothingCovered DEF IInv, InSession
  <2>2. \A a \in Anchors : a.seq \in Nat
    BY RecordParts DEF Anchors, Papers, IInv, Types
  <2>3. p.seq \in Nat
    BY <1>1, RecordParts DEF IInv, Types
  <2> QED BY <2>1, <2>2, <2>3
<1> QED BY <1>1, <1>4, <1>5, <1>6 DEF OInv, Replayable, TargetsThere

LEMMA RefusesOnlyKnown ==
  ASSUME IInv, OInv
  PROVE  OpensUnlessKnown
<1> SUFFICES ASSUME ~RetriedAndDiscarded, ~RottedLate, ~(Cardinality(disk) + torn > ScanLimit)
             PROVE  ~Refusing
  BY DEF OpensUnlessKnown
<1>1. /\ Cardinality(disk) <= ScanLimit
      /\ Cardinality({r \in disk : r.dir = "quarantine"}) + torn <= ScanLimit
  <2>1. {r \in disk : r.dir = "quarantine"} \subseteq disk
    OBVIOUS
  <2>2. IsFiniteSet(disk)
    BY FilesAreFinite DEF IInv, OnDisk, InSession
  <2>3. /\ Cardinality(disk) \in Nat
        /\ Cardinality({r \in disk : r.dir = "quarantine"}) \in Nat
        /\ Cardinality({r \in disk : r.dir = "quarantine"}) <= Cardinality(disk)
    BY <2>1, <2>2, FS_Subset, FS_CardinalityType
  <2>4. torn \in Nat /\ ScanLimit \in Nat
    BY SpoolAssumption DEF IInv, Types
  <2> QED BY <2>3, <2>4
<1>2. \A r \in disk : r.rotten => /\ History(r.seq) = {}
                                  /\ \/ \E q \in disk : q.seq = r.seq + 1 /\ ~q.rotten
                                     \/ head = r.seq
  BY DEF RottedLate
<1>3. ScanFits
  BY <1>1 DEF ScanFits, IInv, OnDisk, Numbered
<1>4. ~(At("scanned") /\ (head = LastSeq => Covered = {}) /\ ~ChainHolds)
  BY <1>2, ChainIsThere DEF At
<1>5. ~(At("chained") /\ Covered = {} /\ ~TransitionsHold)
  BY <1>2, TransitionsAreLegal
<1> QED BY <1>3, <1>4, <1>5 DEF Refusing

-----------------------------------------------------------------------------
(* The theorems.                                                           *)

\* An empty spool.
LEMMA Initially == Init => IInv
<1> SUFFICES ASSUME Init PROVE IInv
  OBVIOUS
<1>1. /\ disk = {} /\ head = 0 /\ cursor = [seq |-> 0, dirs |-> {}] /\ torn = 0
      /\ session = [pc |-> "closed", rec |-> NoRecord] /\ flight = {}
      /\ server = [c \in Commands |-> "none"] /\ executed = <<>>
      /\ budget = [enqueue |-> MaxEnqueues, dispose |-> MaxDispositions, fault |-> MaxFaults]
  BY DEF Init
<1>2. budget \in [Purposes -> Nat]
  <2>1. budget = [p \in Purposes |-> IF p = "enqueue" THEN MaxEnqueues
                                     ELSE IF p = "dispose" THEN MaxDispositions ELSE MaxFaults]
    BY <1>1 DEF Purposes
  <2> QED BY <2>1, SpoolBoundAssumption
<1>3. Types
  <2>1. session \in [pc : Steps, rec : Record]
    BY <1>1, NoRecordTyped DEF Steps
  <2>2. cursor \in [seq : Nat, dirs : SUBSET (Nat \X Directories)]
    BY <1>1
  <2>3. server \in [Commands -> Decisions] /\ executed \in Seq(Nat)
    BY <1>1, EmptySeq DEF Decisions
  <2>4. disk \subseteq Record /\ head \in Nat /\ torn \in Nat
        /\ flight \subseteq [cmd : Commands, seq : Nat]
    BY <1>1
  <2> QED BY <1>2, <2>1, <2>2, <2>3, <2>4 DEF Types
<1>4. OnDisk
  BY <1>1 DEF OnDisk, Numbered, Targets, DiscardIsLast, Compacted, Barrier, Letters, OfKind, Cmds
<1>5. AtServer
  <2>1. Acknowledged /\ Requested /\ OnTheWay
    BY <1>1 DEF Acknowledged, Requested, OnTheWay, OfKind
  <2>2. SentInFront /\ ExecutedInOrder
    BY <1>1 DEF SentInFront, ExecutedInOrder, Unsettled, Letters
  <2> QED BY <2>1, <2>2 DEF AtServer
<1>6. InSession
  <2>1. HeadKnown /\ LastWritten /\ Drains
    BY <1>1 DEF HeadKnown, LastWritten, Drains, Sent, At, Settling, Draining, Chained
  <2>2. Places /\ CursorRight
    BY <1>1 DEF Places, CursorRight, Settling, AtWork, Cmds, OfKind
  <2> QED BY <2>1, <2>2 DEF InSession
<1> QED BY <1>3, <1>4, <1>5, <1>6 DEF IInv

LEMMA StutterKeeps ==
  ASSUME IInv, UNCHANGED vars
  PROVE  IInv'
<1>1. UNCHANGED <<disk, head, cursor, torn, session, flight, server, executed, budget>>
  BY DEF vars
<1>2. Types'
  BY <1>1 DEF IInv, Types
<1>3. LastWritten'
  BY <1>1 DEF LastWritten, Settling, At, IInv, InSession
<1>4. Cmds' = Cmds /\ \A s : StateOf(s)' = StateOf(s)
  BY <1>1, <1>2, SameFiles DEF IInv
<1>5. Places'
  BY <1>1, <1>4 DEF Places, Placed, Settling, IInv, InSession
<1>6. ActiveCorrupt' = ActiveCorrupt /\ \A d : In(d)' = In(d)
  BY <1>1, <1>2, SameCommands DEF IInv
<1>7. Drains'
  BY <1>1, <1>6 DEF Drains, Settling, At, IInv, InSession
<1> QED BY <1>1, <1>2, <1>3, <1>5, <1>7, SessionKeeps DEF serverVars

\* One case per action; those that write a record are all WritingKeeps.
LEMMA StepKeeps == IInv /\ [Next]_vars => IInv'
<1> SUFFICES ASSUME IInv, [Next]_vars PROVE IInv'
  OBVIOUS
<1>1. CASE Open
  BY <1>1, OpenKeeps
<1>2. CASE Recover
  BY <1>2, RecoverCompactionKeeps, RecoverHeadKeeps, TrustCursorKeeps, ReplayTransitionsKeeps,
     RepairTransitionKeeps, CheckpointRecoveryKeeps, RefuseKeeps DEF Recover
<1>3. CASE Owner
  <2>1. CASE \E c \in Commands : Enqueue(c)
    BY <2>1, EnqueueWrites, WritingKeeps
  <2>2. CASE \E r \in Cmds : Retry(r) \/ Discard(r)
    BY <2>2, DispositionsWrite, WritingKeeps
  <2>3. CASE \E r \in ActiveCorrupt : DisposeCorrupt(r)
    BY <2>3, DisposeCorruptWrites, WritingKeeps
  <2>4. CASE CompactAccepted
    BY <2>4, CompactAcceptedWrites, WritingKeeps
  <2> QED BY <1>3, <2>1, <2>2, <2>3, <2>4 DEF Owner
<1>4. CASE WriteHead
  BY <1>4, WriteHeadKeeps
<1>5. CASE Settle
  BY <1>5, SettleKeeps
<1>6. CASE Close
  BY <1>6, CloseKeeps
<1>7. CASE Drain
  <2>1. CASE StartDrain
    BY <2>1, StartDrainKeeps
  <2>2. CASE RefuseLocally
    BY <2>2, RefuseLocallyWrites, WritingKeeps
  <2>3. CASE Send
    BY <2>3, SendKeeps
  <2>4. CASE Drained
    BY <2>4, DrainedKeeps
  <2>5. CASE Accept
    BY <2>5, AcceptWrites, WritingKeeps
  <2>6. CASE Quarantine
    BY <2>6, QuarantineWrites, WritingKeeps
  <2> QED BY <1>7, <2>1, <2>2, <2>3, <2>4, <2>5, <2>6 DEF Drain
<1>8. CASE Network
  BY <1>8, ReplyLostKeeps, HandleKeeps, BecomeDurableKeeps DEF Network
<1>9. CASE Crash
  BY <1>9, CrashKeeps
<1>10. CASE \E r \in Cmds : Rot(r)
  BY <1>10, RotKeeps
<1>11. CASE UNCHANGED vars
  BY <1>11, StutterKeeps
<1> QED BY <1>1, <1>2, <1>3, <1>4, <1>5, <1>6, <1>7, <1>8, <1>9, <1>10, <1>11 DEF Next

\* What the records, the server and the session that holds the spool know of each
\* other holds through every file operation, request, crash and recovery.
THEOREM SpoolInvariant == Spec => []IInv
<1>1. Init => IInv
  BY Initially
<1>2. IInv /\ [Next]_vars => IInv'
  BY StepKeeps
<1> QED BY <1>1, <1>2, PTL DEF Spec

\* The server executes commands in the order in which they were enqueued, whatever
\* replies are lost, requests arrive late or sessions are killed: drain sends a command
\* only when no earlier one is unsettled, and recovery restores that order from the
\* receipts.
THEOREM ServerKeepsOrder == Spec => []ExecutedInOrder
<1>1. IInv => ExecutedInOrder
  BY DEF IInv, AtServer
<1> QED BY <1>1, SpoolInvariant, PTL

\* The sealed records, the two control files, the session and the server keep their
\* types through everything the spool's commands write.
THEOREM SpoolTypes == Spec => []TypeOK
<1>1. IInv => TypeOK
  BY DEF IInv, Types, TypeOK, Steps, Decisions, Purposes
<1> QED BY <1>1, SpoolInvariant, PTL

\* The files implement the queue their owner relies on: what is listed as pending,
\* accepted or quarantined changes only by an enqueue, a disposition, a compaction or
\* an answer of the server, and never because of a crash, a recovery or the order in
\* which a record, the head and the directories were written.
THEOREM SpoolImplementsQueue == Spec => ImplementsQueue
<1>1. Init => Queue!Init
  <2> SUFFICES ASSUME Init PROVE Queue!Init
    OBVIOUS
  <2>1. disk = {} /\ server = [c \in Commands |-> "none"]
    BY DEF Init
  <2>2. Entries = {}
    BY <2>1 DEF Entries, Listed
  <2>3. {c \in Commands : server[c] = "accepted"} = {}
    BY <2>1
  <2> QED BY <2>2, <2>3 DEF Queue!Init
<1>2. IInv /\ IInv' /\ [Next]_vars => [Queue!Next]_(Queue!vars)
  BY StepIsQueueStep DEF QueueStep
<1> QED BY <1>1, <1>2, SpoolInvariant, PTL DEF Spec, ImplementsQueue, Queue!Spec

\* Recovery opens the spool after every crash, unless a retried command was discarded,
\* a command's file rotted after something was said of it or where neither a readable
\* successor nor the head confirms it, or there are more files than a scan takes in.
THEOREM SpoolOpens == Spec => []OpensUnlessKnown
<1>1. Init => OInv
  BY InitiallyOpens
<1>2. IInv /\ IInv' /\ OInv /\ [Next]_vars => OInv'
  BY StepOpens
<1>3. IInv /\ OInv => OpensUnlessKnown
  BY RefusesOnlyKnown
<1> QED BY <1>1, <1>2, <1>3, SpoolInvariant, PTL DEF Spec
=============================================================================
