--------------------------- MODULE AcceptedBoard ---------------------------
(***************************************************************************)
(* Durability and OutboxConsumer together, as control_worker.py and the    *)
(* API run them: the reconcilers write confirmations and the projection    *)
(* consumer reads them.  The consumer's acceptance position is the one of  *)
(* the finalization, and a command is readable from its confirmation on;   *)
(* the two components share nothing else.                                  *)
(***************************************************************************)
EXTENDS Durability, FiniteSets, Sequences

CONSTANTS EventCount, Creates, CardOf, NoEvent, TerminalAttempts,
          MaxFailures, MaxInvalid, MaxDispositions, MaxRebuilds

VARIABLES cursor, health, blocked, generation, attempts, outcome, taken, board,
          resetting, poisonItems, dispositions, invalid, failures

Consumer == INSTANCE OutboxConsumer WITH
              position <- finPos, confirmed <- visible["conf"],
              overtaken <- {c \in visible["conf"] : \E d \in visible["conf"] :
                              lsn["conf"][d] < lsn["conf"][c] /\ finPos[d] > finPos[c]}

ASSUME BoardAssumption ==
  EventCount \in [Commands -> Nat \ {0}] /\ NoEvent \notin Consumer!Events

boardVars == <<cursor, health, blocked, generation, attempts, outcome, taken, board,
               resetting, poisonItems, dispositions, invalid, failures>>
systemVars == <<lsn, visible, walEnd, ackPos, finPos, nextPos, applied, reachable,
                outages, promoted, pc, cmd, seen, accepted, cursor, health, blocked,
                generation, attempts, outcome, taken, board, resetting, poisonItems,
                dispositions, invalid, failures>>

SystemInit == Init /\ Consumer!ConsumerInit

AcceptanceStep == Next /\ UNCHANGED boardVars
ConsumerStep   == UNCHANGED vars /\ Consumer!ConsumeOne
OperatorStep   == UNCHANGED vars /\ Consumer!OperatorStep

SystemNext == AcceptanceStep \/ ConsumerStep \/ OperatorStep

SystemSpec == SystemInit /\ [][SystemNext]_systemVars

\* The worker's tick runs the finalizer and then the consumer, for ever.
SystemFairSpec == SystemSpec /\ Fairness /\ WF_systemVars(ConsumerStep)

-----------------------------------------------------------------------------
\* INV-28: a projection gap is never shown as current.  A Board that reads
\* CURRENT has settled every event of every confirmed command.
CurrentHasNoGap == Consumer!CurrentHasNoGap

\* The Board never shows an event that losing the primary could take back: what
\* it has folded comes from commands the standby holds with all their evidence.
BoardShowsOnlyDurable ==
  \A i \in DOMAIN board :
    LET c == board[i].event[1] IN
    OnStandby("result", c) /\ OnStandby("ack", c) /\ OnStandby("final", c)

\* End to end: every event of a recorded command is folded or tombstoned in the
\* end, through outages, cancelled commits, failing folds and rebuilds, unless the stream
\* is held by a poisoned event that is visible as such.
RecordedReachesBoard ==
  \A c \in Commands : c \in visible["result"] ~>
    \/ blocked # NoEvent
    \/ \A e \in Consumer!Events : e[1] = c => outcome[e] \in Consumer!Settled
=============================================================================
