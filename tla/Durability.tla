----------------------------- MODULE Durability -----------------------------
(***************************************************************************)
(* The off-host acceptance protocol of the Record component:               *)
(* record/_durability_sql.py, _durability_confirmation_sql.py and          *)
(* _durability_finalizer_sql.py, over one PostgreSQL primary and its named *)
(* synchronous standby.                                                    *)
(*                                                                         *)
(* A committed command is accepted in three durable rows: an               *)
(* acknowledgement (which draws the acceptance position from an identity   *)
(* column), a finalization that repeats it, and a confirmation that the    *)
(* primary keeps for itself once the finalization has been read back from  *)
(* the standby.  API request threads and the finalizer of the worker       *)
(* (development_runtime.py) all run reconcile_durability, at the same time *)
(* and on the same commands.                                               *)
(*                                                                         *)
(* A row is known by the position of its commit record in the primary's    *)
(* WAL (0 = not written).  The standby holds exactly the rows at or below  *)
(* `applied`.  A remote-apply commit is in the WAL before other sessions   *)
(* of the primary see it: it becomes visible when the standby has applied  *)
(* it or when the commit watchdog cancels the wait.                        *)
(***************************************************************************)
EXTENDS Naturals

CONSTANTS
  Commands,       \* commands whose result has been or will be recorded
  NoCommand,      \* what a reconciler at rest works on
  Reconcilers,    \* API request threads and the worker
  Finalizer,      \* the worker, a member of Reconcilers
  MaxOutages,     \* bound: how often the standby becomes unreachable
  Promotable      \* whether the primary may be lost and the standby promoted

ASSUME ReconcilerAssumption == Finalizer \in Reconcilers /\ NoCommand \notin Commands
ASSUME BoundAssumption == MaxOutages \in Nat /\ Promotable \in BOOLEAN

Kinds == {"result", "ack", "final", "conf"}

Steps == {"idle", "read", "prove", "ack", "ackWait", "receipt", "final",
          "finalWait", "readFinal", "confirmRead", "confirm"}

VARIABLES
  lsn,        \* [kind -> [command -> WAL position of the row, 0 = none]]
  visible,    \* [kind -> commands whose row the sessions of the primary see]
  walEnd,     \* end of the primary's WAL
  ackPos,     \* acceptance_position in the acknowledgement, 0 = none
  finPos,     \* acceptance_position in the finalization, 0 = none
  nextPos,    \* next value of the identity column
  applied,    \* last WAL position the standby has applied
  reachable,  \* whether a session on the standby can be opened
  outages,    \* outages so far
  promoted,   \* whether the named standby has become the primary
  pc,         \* where each reconciler is in reconcile_durability
  cmd,        \* the command each reconciler works on
  seen,       \* acceptance_position of the receipt it read back, 0 = none
  accepted    \* [command -> positions the callers were told]

walVars   == <<lsn, visible, walEnd, ackPos, finPos, nextPos>>
nodeVars  == <<applied, reachable, outages, promoted>>
localVars == <<pc, cmd, seen>>
vars == <<lsn, visible, walEnd, ackPos, finPos, nextPos, applied, reachable,
          outages, promoted, pc, cmd, seen, accepted>>

-----------------------------------------------------------------------------
Init ==
  /\ lsn = [k \in Kinds |-> [c \in Commands |-> 0]]
  /\ visible = [k \in Kinds |-> {}]
  /\ walEnd = 0
  /\ ackPos = [c \in Commands |-> 0]
  /\ finPos = [c \in Commands |-> 0]
  /\ nextPos = 1
  /\ applied = 0
  /\ reachable = TRUE
  /\ outages = 0
  /\ promoted = FALSE
  /\ pc = [p \in Reconcilers |-> "idle"]
  /\ cmd = [p \in Reconcilers |-> NoCommand]
  /\ seen = [p \in Reconcilers |-> 0]
  /\ accepted = [c \in Commands |-> {}]

Written(k, c)   == lsn[k][c] # 0
OnStandby(k, c) == Written(k, c) /\ lsn[k][c] <= applied

\* Write the commit record of row (k, c); when it shows is up to the caller.
LogRow(k, c) ==
  /\ lsn' = [lsn EXCEPT ![k][c] = walEnd + 1]
  /\ walEnd' = walEnd + 1

Show(k, c) == visible' = [visible EXCEPT ![k] = @ \cup {c}]

Goto(p, step) == pc' = [pc EXCEPT ![p] = step] /\ UNCHANGED <<cmd, accepted>>

Rest(p) ==
  /\ pc' = [pc EXCEPT ![p] = "idle"]
  /\ cmd' = [cmd EXCEPT ![p] = NoCommand]
  /\ seen' = [seen EXCEPT ![p] = 0]

\* The caller gets DurabilityState.ACCEPTED with the finalized position.
Accept(p) ==
  /\ Rest(p)
  /\ accepted' = [accepted EXCEPT ![cmd[p]] = @ \cup {finPos[cmd[p]]}]

\* The caller gets DurabilityState.PENDING and may come back with the same key.
Pending(p) == Rest(p) /\ UNCHANGED accepted

-----------------------------------------------------------------------------
(* The commands, the WAL and the two servers                               *)

\* A mutation commits its command_results, events and outbox rows.
CommitCommand(c) ==
  /\ ~Written("result", c)
  /\ LogRow("result", c)
  /\ UNCHANGED <<visible, ackPos, finPos, nextPos, nodeVars, localVars, accepted>>

\* Its remote-apply wait ends: the standby has it, or the watchdog fired.
CommandVisible(c) ==
  /\ Written("result", c)
  /\ c \notin visible["result"]
  /\ Show("result", c)
  /\ UNCHANGED <<lsn, walEnd, ackPos, finPos, nextPos, nodeVars, localVars, accepted>>

\* The standby replays one more WAL record.
Replay ==
  /\ ~promoted
  /\ applied < walEnd
  /\ applied' = applied + 1
  /\ UNCHANGED <<walVars, reachable, outages, promoted, localVars, accepted>>

LoseStandby ==
  /\ reachable
  /\ outages < MaxOutages
  /\ reachable' = FALSE
  /\ outages' = outages + 1
  /\ UNCHANGED <<walVars, applied, promoted, localVars, accepted>>

RestoreStandby ==
  /\ ~reachable /\ ~promoted
  /\ reachable' = TRUE
  /\ UNCHANGED <<walVars, applied, outages, promoted, localVars, accepted>>

\* The primary is lost and the named standby becomes the authority.  Rows it
\* had not applied are gone, every reconcile in flight dies with its
\* connection, and no standby is configured behind the new primary: nothing is
\* acknowledged there, so the identity column plays no part any more.
Promote ==
  /\ Promotable /\ ~promoted
  /\ promoted' = TRUE
  /\ reachable' = FALSE
  /\ lsn' = [k \in Kinds |-> [c \in Commands |->
                                IF OnStandby(k, c) THEN lsn[k][c] ELSE 0]]
  /\ visible' = [k \in Kinds |-> {c \in Commands : OnStandby(k, c)}]
  /\ ackPos' = [c \in Commands |-> IF OnStandby("ack", c) THEN ackPos[c] ELSE 0]
  /\ finPos' = [c \in Commands |-> IF OnStandby("final", c) THEN finPos[c] ELSE 0]
  /\ walEnd' = applied
  /\ pc' = [p \in Reconcilers |-> "idle"]
  /\ cmd' = [p \in Reconcilers |-> NoCommand]
  /\ seen' = [p \in Reconcilers |-> 0]
  /\ UNCHANGED <<nextPos, applied, outages, accepted>>

-----------------------------------------------------------------------------
(* reconcile_durability, one database access per action                    *)

\* Mutant: the finalizer drops a command once it has a finalization.
SelectsUnfinalized(p, c) == p = Finalizer => c \notin visible["final"]

\* A request thread reconciles the command it serves (again, on a replay of
\* the same key); the finalizer selects any command without a confirmation.
Selects(p, c) == p = Finalizer => c \notin visible["conf"]

Start(p, c) ==
  /\ pc[p] = "idle"
  /\ c \in visible["result"]
  /\ Selects(p, c)
  /\ pc' = [pc EXCEPT ![p] = "read"]
  /\ cmd' = [cmd EXCEPT ![p] = c]
  /\ UNCHANGED <<walVars, nodeVars, seen, accepted>>

\* Mutant: a promoted standby is not recognised as the named copy.
KnownAcceptedByRow(c) ==
  c \in visible["final"] /\ finPos[c] = ackPos[c] /\ c \in visible["conf"]

\* The finalization matches its receipt, and either the confirmation equals it
\* or this server is the promoted named standby itself.
KnownAccepted(c) ==
  /\ c \in visible["final"]
  /\ finPos[c] = ackPos[c]
  /\ c \in visible["conf"] \/ promoted

ReadPrimary(p) ==
  LET c == cmd[p] IN
  /\ pc[p] = "read"
  /\ \/ KnownAccepted(c) /\ Accept(p)
     \/ ~KnownAccepted(c) /\ c \in visible["final"]
        /\ Goto(p, "confirmRead") /\ UNCHANGED seen
     \/ c \notin visible["final"] /\ Goto(p, "prove") /\ UNCHANGED seen
  /\ UNCHANGED <<walVars, nodeVars>>

\* The command and its root must be replay-visible on the named standby.
ProveCopy(p) ==
  LET proved == reachable /\ OnStandby("result", cmd[p]) IN
  /\ pc[p] = "prove"
  /\ \/ proved /\ Goto(p, "ack") /\ UNCHANGED seen
     \/ ~proved /\ Pending(p)
  /\ UNCHANGED <<walVars, nodeVars>>

\* Mutant: the position is read, not drawn from the identity column.
ReadPosition(c) == ackPos' = [ackPos EXCEPT ![c] = nextPos] /\ UNCHANGED nextPos

DrawPosition(c) ==
  /\ ackPos' = [ackPos EXCEPT ![c] = nextPos]
  /\ nextPos' = nextPos + 1

\* INSERT ... ON CONFLICT DO NOTHING: it waits while another session's row is
\* undecided.  A discarded insert burns a position, which only leaves a gap.
InsertAck(p) ==
  LET c == cmd[p] IN
  /\ pc[p] = "ack"
  /\ \/ /\ ~Written("ack", c)
        /\ LogRow("ack", c)
        /\ DrawPosition(c)
        /\ Goto(p, "ackWait")
     \/ /\ c \in visible["ack"]
        /\ Goto(p, "receipt")
        /\ UNCHANGED <<lsn, walEnd, ackPos, nextPos>>
  /\ UNCHANGED <<visible, finPos, nodeVars, seen>>

\* Mutant: the error is swallowed, as it is for the finalization.
InsertAckFailsSilently(p) ==
  /\ pc[p] = "ack"
  /\ Goto(p, "final")
  /\ UNCHANGED <<walVars, nodeVars, seen>>

\* Statement timeout or a lost connection before the commit record exists.
InsertAckFails(p) ==
  /\ pc[p] = "ack"
  /\ Pending(p)
  /\ UNCHANGED <<walVars, nodeVars>>

\* The remote-apply wait ends.  Cancelled early it may look like a success (a
\* server warning) or a failure; either way the row is locally committed.
AckCommitted(p) ==
  LET c == cmd[p] IN
  /\ pc[p] = "ackWait"
  /\ Show("ack", c)
  /\ \/ Goto(p, "receipt") /\ UNCHANGED seen
     \/ ~OnStandby("ack", c) /\ Pending(p)
  /\ UNCHANGED <<lsn, walEnd, ackPos, finPos, nextPos, nodeVars>>

\* The receipt must be replay-visible on the same standby.
ReadReceipt(p) ==
  LET c == cmd[p]
      replayed == reachable /\ OnStandby("ack", c)
  IN
  /\ pc[p] = "receipt"
  /\ \/ replayed /\ Goto(p, "final") /\ seen' = [seen EXCEPT ![p] = ackPos[c]]
     \/ ~replayed /\ Pending(p)
  /\ UNCHANGED <<walVars, nodeVars>>

\* The finalization repeats the receipt that was read back.
InsertFinalization(p) ==
  LET c == cmd[p] IN
  /\ pc[p] = "final"
  /\ \/ /\ ~Written("final", c)
        /\ LogRow("final", c)
        /\ finPos' = [finPos EXCEPT ![c] = seen[p]]
        /\ Goto(p, "finalWait")
     \/ /\ c \in visible["final"]
        /\ Goto(p, "readFinal")
        /\ UNCHANGED <<lsn, walEnd, finPos>>
  /\ UNCHANGED <<visible, ackPos, nextPos, nodeVars, seen>>

\* _commit_finalization swallows its errors: what the standby shows decides.
InsertFinalizationFails(p) ==
  /\ pc[p] = "final"
  /\ Goto(p, "readFinal")
  /\ UNCHANGED <<walVars, nodeVars, seen>>

FinalizationCommitted(p) ==
  /\ pc[p] = "finalWait"
  /\ Show("final", cmd[p])
  /\ Goto(p, "readFinal")
  /\ UNCHANGED <<lsn, walEnd, ackPos, finPos, nextPos, nodeVars, seen>>

\* Mutant: the finalization is read back from the primary.
FinalizationRecorded(p) ==
  /\ reachable /\ OnStandby("ack", cmd[p])
  /\ finPos[cmd[p]] = ackPos[cmd[p]]

\* The exact finalization is read back from the standby, by the reconcile that
\* appended it ("readFinal") or by one that found it on the primary.
ReplayedFinalization(p) ==
  /\ reachable /\ OnStandby("ack", cmd[p]) /\ OnStandby("final", cmd[p])
  /\ finPos[cmd[p]] = ackPos[cmd[p]]
  /\ pc[p] = "readFinal" => finPos[cmd[p]] = seen[p]

ReadFinalization(p) ==
  /\ pc[p] \in {"readFinal", "confirmRead"}
  /\ \/ ReplayedFinalization(p) /\ Goto(p, "confirm") /\ UNCHANGED seen
     \/ ~ReplayedFinalization(p) /\ Pending(p)
  /\ UNCHANGED <<walVars, nodeVars>>

\* A local commit on the primary, then the stored row is read back; its
\* foreign key needs a finalization that the session can see.
StoreConfirmation(p) ==
  LET c == cmd[p] IN
  /\ pc[p] = "confirm"
  /\ c \in visible["final"]
  /\ \/ ~Written("conf", c) /\ LogRow("conf", c) /\ Show("conf", c)
     \/ Written("conf", c) /\ UNCHANGED <<lsn, walEnd, visible>>
  /\ Accept(p)
  /\ UNCHANGED <<ackPos, finPos, nextPos, nodeVars>>

\* The insert fails, or it commits and the read-back fails.
StoreConfirmationFails(p) ==
  LET c == cmd[p] IN
  /\ pc[p] = "confirm"
  /\ \/ UNCHANGED <<lsn, walEnd, visible>>
     \/ /\ c \in visible["final"] /\ ~Written("conf", c)
        /\ LogRow("conf", c) /\ Show("conf", c)
  /\ Pending(p)
  /\ UNCHANGED <<ackPos, finPos, nextPos, nodeVars>>

-----------------------------------------------------------------------------
ReconcileStep(p) ==
  \/ ReadPrimary(p) \/ ProveCopy(p)
  \/ InsertAck(p) \/ InsertAckFails(p) \/ AckCommitted(p) \/ ReadReceipt(p)
  \/ InsertFinalization(p) \/ InsertFinalizationFails(p)
  \/ FinalizationCommitted(p) \/ ReadFinalization(p)
  \/ StoreConfirmation(p) \/ StoreConfirmationFails(p)

Next ==
  \/ \E c \in Commands : CommitCommand(c) \/ CommandVisible(c)
  \/ Replay \/ LoseStandby \/ RestoreStandby \/ Promote
  \/ \E p \in Reconcilers, c \in Commands : Start(p, c)
  \/ \E p \in Reconcilers : ReconcileStep(p)

Spec == Init /\ [][Next]_vars

\* What the deployment's scheduling gives: the servers and the connections make
\* progress, the worker keeps scanning (its rotating cursor comes back to every
\* unconfirmed command) and its statements do not fail for ever.
Fairness ==
  /\ WF_vars(Replay) /\ WF_vars(RestoreStandby)
  /\ \A c \in Commands : WF_vars(CommandVisible(c)) /\ SF_vars(Start(Finalizer, c))
  /\ \A p \in Reconcilers : WF_vars(ReconcileStep(p))
  /\ SF_vars(InsertAck(Finalizer))
  /\ SF_vars(InsertFinalization(Finalizer))
  /\ SF_vars(StoreConfirmation(Finalizer))

FairSpec == Spec /\ Fairness

-----------------------------------------------------------------------------
(* Properties                                                              *)

TypeOK ==
  /\ lsn \in [Kinds -> [Commands -> Nat]]
  /\ visible \in [Kinds -> SUBSET Commands]
  /\ walEnd \in Nat /\ applied \in Nat /\ outages \in Nat /\ nextPos \in Nat \ {0}
  /\ ackPos \in [Commands -> Nat] /\ finPos \in [Commands -> Nat]
  /\ reachable \in BOOLEAN /\ promoted \in BOOLEAN
  /\ pc \in [Reconcilers -> Steps]
  /\ cmd \in [Reconcilers -> Commands \cup {NoCommand}]
  /\ seen \in [Reconcilers -> Nat]
  /\ accepted \in [Commands -> SUBSET Nat]

\* Losing the primary at any moment loses nothing that was accepted: whatever a
\* caller was told is accepted, and whatever the projections may already show
\* (they read confirmations), is held by the standby with all its evidence.
AcceptedSurvivesPrimaryLoss ==
  \A c \in Commands :
    accepted[c] # {} \/ c \in visible["conf"] =>
      OnStandby("result", c) /\ OnStandby("ack", c) /\ OnStandby("final", c)

\* Once a command was answered accepted, the next reconcile answers accepted at
\* that same position, from the primary alone, whatever has become of the
\* standby and also after a promotion.
AcceptedIsStable ==
  \A c \in Commands :
    accepted[c] # {} => KnownAccepted(c) /\ accepted[c] = {finPos[c]}

\* Concurrent reconciles never let a callers' answer run ahead of the evidence:
\* each row of the chain was in the WAL before the row that rests on it.
EvidenceInOrder ==
  \A c \in Commands :
    /\ Written("ack", c) => Written("result", c) /\ lsn["result"][c] < lsn["ack"][c]
    /\ Written("final", c) => Written("ack", c) /\ lsn["ack"][c] < lsn["final"][c]
    /\ Written("conf", c) => Written("final", c) /\ lsn["final"][c] < lsn["conf"][c]

\* With the finalizer running, every recorded command is accepted in the end,
\* through standby outages, cancelled commits and failed statements.
EventuallyConfirmed ==
  \A c \in Commands : c \in visible["result"] ~> c \in visible["conf"]

\* The protocol implements the promise: the answers given are those of the
\* abstract acceptance authority.
Authority == INSTANCE AcceptanceAuthority WITH told <- accepted
ImplementsAuthority == Authority!Spec
=============================================================================
