--------------------------- MODULE OutboxConsumer ---------------------------
(***************************************************************************)
(* The accepted-outbox consumer of the Projections component               *)
(* (projections/_consumer_sql.py, _postgres_sql.py, and the board read of  *)
(* _board_sql.py): one worker folds the events of accepted commands, in    *)
(* order of acceptance position, into the disposable Board, keeps a cursor *)
(* and a health verdict, retries a failing fold, poisons a message it      *)
(* cannot fold, and waits for an operator's accepted disposition.          *)
(*                                                                         *)
(* consume_one is one transaction that holds the cursor row, under READ    *)
(* COMMITTED: the statement that takes a message and those that settle it  *)
(* see different moments, so they are two actions.  So are the two halves  *)
(* of reset_projection: it deletes the rows first and takes the cursor row *)
(* last, so a fold under way meets deleted rows, and its own may survive.  *)
(* An accepted command is one that has a confirmation row; its events      *)
(* share the command's acceptance position.                                *)
(***************************************************************************)
EXTENDS Naturals, FiniteSets, Sequences, SequencesExt

CONSTANTS
  Commands,        \* commands with events on topic record.events
  EventCount,      \* [command -> number of its events]
  Creates,         \* events that create a card (ticket.created)
  CardOf,          \* [event -> the card whose row it writes]
  NoEvent,         \* no blocked event
  TerminalAttempts, \* _TERMINAL_ATTEMPTS
  MaxFailures,     \* bound: database errors and crashes of the consumer
  MaxInvalid,      \* bound: events that fail validation until repaired
  MaxDispositions, \* bound: dispositions recorded
  MaxRebuilds      \* bound: rebuilds an operator may ask for

Events == UNION {{c} \X (1..EventCount[c]) : c \in Commands}

ASSUME CommandAssumption ==
  /\ EventCount \in [Commands -> Nat \ {0}]
  /\ Creates \subseteq Events /\ NoEvent \notin Events
  /\ IsFiniteSet(Creates) /\ DOMAIN CardOf = Events
  /\ \A e, f \in Creates : CardOf[e] = CardOf[f] => e = f
ASSUME ConsumerBoundAssumption ==
  /\ TerminalAttempts \in Nat \ {0}
  /\ MaxFailures \in Nat /\ MaxInvalid \in Nat
  /\ MaxDispositions \in Nat /\ MaxRebuilds \in Nat

VARIABLES
  position,     \* [command -> acceptance position, 0 = not acknowledged]
  nextPos,      \* next acceptance position
  confirmed,    \* commands with a confirmation row
  overtaken,    \* those confirmed after a command of a higher position
  cursor,       \* outbox_consumer_cursors.acceptance_position
  health,       \* its health
  blocked,      \* its blocked_outbox_id
  generation,   \* its generation
  attempts,     \* [event -> delivery attempts in this generation]
  outcome,      \* [event -> outcome of the last of them]
  taken,        \* what the open consume_one transaction works on, if any
  board,        \* folds whose rows are there, in fold order
  resetting,    \* <<the folds whose rows the open reset deleted>>, if one is open
  poisonItems,  \* events with an outbox_poison row and a critical finding
  dispositions, \* [event -> dispositions in order of recording]
  invalid,      \* events that this build of the consumer cannot fold
  failures      \* database errors so far

sourceVars   == <<position, nextPos, confirmed, overtaken>>
cursorVars   == <<cursor, health, blocked>>
attemptVars  == <<attempts, outcome>>
recoveryVars == <<poisonItems, dispositions, invalid>>
consumerVars == <<cursor, health, blocked, generation, attempts, outcome, taken,
                  board, resetting, poisonItems, dispositions, invalid, failures>>
vars == <<position, nextPos, confirmed, overtaken, cursor, health, blocked,
          generation, attempts, outcome, taken, board, resetting, poisonItems, dispositions,
          invalid, failures>>

Outcomes == {"none", "delivered", "retryable_failure", "poisoned", "tombstoned"}
Settled  == {"delivered", "tombstoned"}
Folds    == [event : Events, gen : Nat, overlap : BOOLEAN]

-----------------------------------------------------------------------------
ConsumerInit ==
  /\ cursor = 0
  /\ health = "STATE_UNKNOWN"
  /\ blocked = NoEvent
  /\ generation = 1
  /\ attempts = [e \in Events |-> 0]
  /\ outcome = [e \in Events |-> "none"]
  /\ taken = <<>>
  /\ board = <<>>
  /\ resetting = <<>>
  /\ poisonItems = {}
  /\ dispositions = [e \in Events |-> <<>>]
  /\ invalid \in {S \in SUBSET Events : Cardinality(S) <= MaxInvalid}
  /\ failures = 0

Init ==
  /\ position = [c \in Commands |-> 0]
  /\ nextPos = 1
  /\ confirmed = {}
  /\ overtaken = {}
  /\ ConsumerInit

Position(e) == position[e[1]]

\* Events of accepted commands, ordered by acceptance and record position.
Accepted == {e \in Events : e[1] \in confirmed}
Before(e, f) == Position(e) < Position(f) \/ (e[1] = f[1] /\ e[2] < f[2])

SourceWatermark ==
  IF confirmed = {} THEN 0
  ELSE CHOOSE n \in {position[c] : c \in confirmed} :
         \A c \in confirmed : position[c] <= n

\* Mutant: what this generation has settled is taken again.
CandidatesAgain(settledNow) ==
  {e \in Accepted : Position(e) > cursor /\ e \notin settledNow}

\* _next_message: accepted, beyond the cursor, not settled in this generation.
Candidates(settledNow) ==
  {e \in Accepted : /\ Position(e) > cursor
                    /\ outcome[e] \notin Settled
                    /\ e \notin settledNow}

NextMessage ==
  IF Candidates({}) = {} THEN NoEvent
  ELSE CHOOSE e \in Candidates({}) : \A f \in Candidates({}) \ {e} : Before(e, f)

\* _accepted_recovery: the last recorded disposition whose command is accepted.
Recovery(e) ==
  LET settled == SelectSeq(dispositions[e], LAMBDA d : d.accepted) IN
  IF settled = <<>> THEN {} ELSE {Last(settled)}

TombstoneDue(e) == \E d \in Recovery(e) : d.action = "tombstone"

\* Mutant: the blocked event does not hold the stream.
RecoverNothing == NextMessage

\* A blocked event is taken up again on an accepted tombstone, or on an accepted
\* retry recorded after its last attempt.
RecoverOrNext ==
  IF blocked = NoEvent THEN NextMessage
  ELSE IF \E d \in Recovery(blocked) : d.action = "tombstone" \/ d.fresh
       THEN blocked ELSE NoEvent

Working(e) == taken # <<>> /\ taken[1].event = e

\* A delivery attempt on e ends the transaction.  It bears the transaction's
\* time: the dispositions recorded before the message was taken are old now.
Attempt(e, result) ==
  /\ attempts' = [attempts EXCEPT ![e] = @ + 1]
  /\ outcome' = [outcome EXCEPT ![e] = result]
  /\ dispositions' = [dispositions EXCEPT ![e] =
       [i \in DOMAIN @ |-> [@[i] EXCEPT !.fresh = @ /\ i > taken[1].known]]]
  /\ taken' = <<>>

Advance(n) ==
  /\ cursor' = n
  /\ health' = IF n = SourceWatermark THEN "CURRENT" ELSE "STATE_UNKNOWN"
  /\ blocked' = NoEvent

\* Mutant: one event of the position is enough.
AdvanceAtOnce(e) == Advance(Position(e))

\* The cursor passes e's position only when no event of the next message's
\* position is left; until then the batch is still draining.
AdvanceIfPositionDrained(e) ==
  LET rest == Candidates({e})
      first == CHOOSE f \in rest : \A g \in rest \ {f} : Before(f, g)
  IN
  IF rest # {} /\ Position(first) = Position(e)
  THEN /\ cursor' = cursor
       /\ health' = "STATE_UNKNOWN"
       /\ blocked' = NoEvent
  ELSE Advance(Position(e))

-----------------------------------------------------------------------------
(* Acceptance, seen from the consumer                                      *)

\* The acknowledgement draws the position ...
Acknowledge(c) ==
  /\ position[c] = 0
  /\ position' = [position EXCEPT ![c] = nextPos]
  /\ nextPos' = nextPos + 1
  /\ UNCHANGED <<confirmed, overtaken, consumerVars>>

\* ... and the confirmation, later, makes the command readable.
Confirm(c) ==
  /\ position[c] # 0 /\ c \notin confirmed
  /\ confirmed' = confirmed \cup {c}
  /\ overtaken' = IF SourceWatermark > position[c] THEN overtaken \cup {c} ELSE overtaken
  /\ UNCHANGED <<position, nextPos, consumerVars>>

-----------------------------------------------------------------------------
(* consume_one                                                             *)

\* The cursor row is locked and the message to work on is read.
TakeMessage ==
  LET e == RecoverOrNext IN
  /\ taken = <<>>
  /\ e = NoEvent => blocked = NoEvent
  /\ taken' = <<[event |-> e,
                 known |-> IF e = NoEvent THEN 0 ELSE Len(dispositions[e]),
                 tombstone |-> e # NoEvent /\ e = blocked /\ TombstoneDue(e)]>>
  /\ UNCHANGED <<sourceVars, cursorVars, generation, attemptVars, board,
                 resetting, recoveryVars, failures>>

\* There was none: the cursor is judged against the source again.
NothingToFold ==
  /\ Working(NoEvent)
  /\ Advance(cursor)
  /\ taken' = <<>>
  /\ UNCHANGED <<sourceVars, generation, attemptVars, board, resetting,
                 recoveryVars, failures>>

\* The disposition is read once with a blocked message and once before the fold.
Tombstoning(e) == Working(e) /\ (taken[1].tombstone \/ TombstoneDue(e))
Folding(e)     == Working(e) /\ ~taken[1].tombstone /\ ~TombstoneDue(e)

\* An accepted tombstone settles the event without folding it.
Tombstone(e) ==
  /\ Tombstoning(e)
  /\ Attempt(e, "tombstoned")
  /\ AdvanceIfPositionDrained(e)
  /\ UNCHANGED <<sourceVars, generation, board, resetting, poisonItems, invalid, failures>>

\* The open reset has deleted the row of e's card and not committed: a fold of e
\* waits for it, and the reset waits for the cursor row that the fold holds.
Locked(e) ==
  /\ resetting # <<>>
  /\ \E i \in 1..resetting[1] :
       board[i].event \in Creates /\ CardOf[board[i].event] = CardOf[e]

Deliver(e) ==
  /\ Folding(e) /\ e \notin invalid
  /\ ~Locked(e)
  /\ board' = Append(board, [event |-> e, gen |-> generation, overlap |-> resetting # <<>>])
  /\ Attempt(e, "delivered")
  /\ AdvanceIfPositionDrained(e)
  /\ UNCHANGED <<sourceVars, generation, resetting, poisonItems, invalid, failures>>

\* The fold meets a database error: it is the victim of its deadlock with the
\* open reset, or something else fails.
FoldFails(e) ==
  /\ Folding(e) /\ e \notin invalid
  /\ IF Locked(e) THEN UNCHANGED failures
     ELSE failures < MaxFailures /\ failures' = failures + 1

\* A database error rolls the fold back; it may be tried again.
RetryableFailure(e) ==
  /\ FoldFails(e)
  /\ attempts[e] + 1 < TerminalAttempts
  /\ Attempt(e, "retryable_failure")
  /\ health' = "STATE_UNKNOWN"
  /\ blocked' = NoEvent
  /\ UNCHANGED <<sourceVars, cursor, generation, board, resetting, poisonItems, invalid>>

\* Validation fails, or the last allowed attempt hits a database error.
Poison(e) ==
  /\ \/ Folding(e) /\ e \in invalid /\ UNCHANGED failures
     \/ FoldFails(e) /\ attempts[e] + 1 >= TerminalAttempts
  /\ Attempt(e, "poisoned")
  /\ health' = "STATE_UNKNOWN"
  /\ blocked' = e
  /\ poisonItems' = poisonItems \cup {e}
  /\ UNCHANGED <<sourceVars, cursor, generation, board, resetting, invalid>>

\* The worker dies or loses its connection: the transaction rolls back.
Abandon ==
  /\ taken # <<>>
  /\ failures < MaxFailures
  /\ failures' = failures + 1
  /\ taken' = <<>>
  /\ UNCHANGED <<sourceVars, cursorVars, generation, attemptVars, board, resetting,
                 recoveryVars>>

ConsumeOne ==
  \/ TakeMessage \/ NothingToFold \/ Abandon
  \/ \E e \in Events : Tombstone(e) \/ Deliver(e) \/ RetryableFailure(e) \/ Poison(e)

-----------------------------------------------------------------------------
(* Operators                                                               *)

\* A disposition is a command of its own: recorded first, accepted later.  Its
\* target is an event that was poisoned, in this generation or an earlier one.
RecordDisposition(e, action) ==
  /\ e \in poisonItems
  /\ Cardinality(UNION {{f} \X DOMAIN dispositions[f] : f \in Events}) < MaxDispositions
  /\ dispositions' = [dispositions EXCEPT ![e] =
       Append(@, [action |-> action, accepted |-> FALSE, fresh |-> TRUE])]
  /\ UNCHANGED <<sourceVars, cursorVars, generation, attemptVars, taken, board,
                 resetting, poisonItems, invalid, failures>>

AcceptDisposition(e, i) ==
  /\ i \in DOMAIN dispositions[e]
  /\ ~dispositions[e][i].accepted
  /\ dispositions' = [dispositions EXCEPT ![e][i].accepted = TRUE]
  /\ UNCHANGED <<sourceVars, cursorVars, generation, attemptVars, taken, board,
                 resetting, poisonItems, invalid, failures>>

\* A build that can fold the event is deployed.
Repair(e) ==
  /\ e \in invalid
  /\ invalid' = invalid \ {e}
  /\ UNCHANGED <<sourceVars, cursorVars, generation, attemptVars, taken, board,
                 resetting, poisonItems, dispositions, failures>>

\* rebuild: reset_projection first deletes the rows it sees, without waiting for
\* the cursor row.  Readers see them until the reset commits.
ClearRows ==
  /\ resetting = <<>>
  /\ generation <= MaxRebuilds
  /\ resetting' = <<Len(board)>>
  /\ UNCHANGED <<sourceVars, cursorVars, generation, attemptVars, taken, board,
                 recoveryVars, failures>>

\* It has waited for the cursor row: the next generation begins at the start, and
\* the deletes commit with it.  What was folded since them is still there.  The
\* catch_up that follows is ConsumeOne again.
StartOver ==
  /\ resetting # <<>> /\ taken = <<>>
  /\ resetting' = <<>>
  /\ board' = SubSeq(board, resetting[1] + 1, Len(board))
  /\ generation' = generation + 1
  /\ cursor' = 0
  /\ health' = "STATE_UNKNOWN"
  /\ blocked' = NoEvent
  /\ attempts' = [e \in Events |-> 0]
  /\ outcome' = [e \in Events |-> "none"]
  /\ UNCHANGED <<sourceVars, taken, recoveryVars, failures>>

\* The reset is rolled back: it is the victim of the deadlock with a fold, or its
\* session ends.
AbandonReset ==
  /\ resetting # <<>>
  /\ resetting' = <<>>
  /\ UNCHANGED <<sourceVars, cursorVars, generation, attemptVars, taken, board,
                 recoveryVars, failures>>

\* catch_up asked for a watermark other than the source's.
MarkRequestedUnknown ==
  /\ taken = <<>>
  /\ health = "CURRENT"
  /\ health' = "STATE_UNKNOWN"
  /\ UNCHANGED <<sourceVars, cursor, blocked, generation, attemptVars, taken, board,
                 resetting, recoveryVars, failures>>

OperatorStep ==
  \/ \E e \in Events, a \in {"retry", "tombstone"} : RecordDisposition(e, a)
  \/ \E e \in Events, i \in 1..MaxDispositions : AcceptDisposition(e, i)
  \/ \E e \in Events : Repair(e)
  \/ ClearRows \/ StartOver \/ AbandonReset
  \/ MarkRequestedUnknown

Next ==
  \/ \E c \in Commands : Acknowledge(c) \/ Confirm(c)
  \/ ConsumeOne
  \/ OperatorStep

Spec == Init /\ [][Next]_vars

\* The worker ticks for ever (control_worker.py); nobody else is obliged to act.
FairSpec == Spec /\ WF_vars(ConsumeOne)

-----------------------------------------------------------------------------
(* Properties                                                              *)

\* The events that are folded into the rows of the Board.
Shown == {board[i].event : i \in DOMAIN board}

\* Mutant: the cards are not counted.
ReadsCurrentUncounted ==
  health = "CURRENT" /\ blocked = NoEvent /\ cursor = SourceWatermark

\* What the Board says of itself (_is_current over the whole portfolio): every
\* accepted creation is a card of its own.
BoardReadsCurrent ==
  /\ health = "CURRENT" /\ blocked = NoEvent
  /\ cursor = SourceWatermark
  /\ Cardinality(Creates \cap Shown) = Cardinality(Creates \cap Accepted)

TypeOK ==
  /\ position \in [Commands -> 0..Cardinality(Commands)]
  /\ confirmed \subseteq Commands /\ overtaken \subseteq confirmed
  /\ cursor \in Nat /\ generation \in 1..(MaxRebuilds + 1)
  /\ health \in {"CURRENT", "STATE_UNKNOWN"}
  /\ blocked \in Events \cup {NoEvent}
  /\ attempts \in [Events -> Nat] /\ outcome \in [Events -> Outcomes]
  /\ taken = <<>> \/ Working(NoEvent) \/ \E e \in Events : Working(e)
  /\ board \in Seq(Folds)
  /\ resetting = <<>> \/ resetting[1] \in 0..Len(board)
  /\ \A e \in Events : dispositions[e] \in
       Seq([action : {"retry", "tombstone"}, accepted : BOOLEAN, fresh : BOOLEAN])
  /\ poisonItems \subseteq Events /\ invalid \subseteq Events
  /\ failures \in 0..MaxFailures

\* Retries, poison recovery and deadlocks with a reset never fold an event twice
\* into the same generation of the Board, which holds what its attempt log calls
\* delivered.  Of an earlier generation nothing is left but what was folded into
\* the last one while the reset that ended it was under way.
FoldedOnce ==
  /\ \A i, j \in DOMAIN board :
       board[i].event = board[j].event /\ board[i].gen = board[j].gen => i = j
  /\ {e \in Events : outcome[e] = "delivered"} =
       {board[i].event : i \in {k \in DOMAIN board : board[k].gen = generation}}
  /\ \A i \in DOMAIN board :
       board[i].gen # generation => board[i].gen + 1 = generation /\ board[i].overlap

\* A poisoned event holds the stream: the cursor stays below it and the Board
\* does not read CURRENT until it is delivered or tombstoned.
PoisonHoldsStream ==
  \A e \in Events : outcome[e] = "poisoned" =>
    cursor < Position(e) /\ ~BoardReadsCurrent /\ blocked = e

\* The cursor never passes an accepted event that is neither folded nor
\* tombstoned, also within a command of several events, unless a confirmation
\* came late at or below its position.  A Board that reads CURRENT is then what a
\* rebuild would give.
OnlyLateIsPassedOver ==
  \A e \in Accepted : Position(e) <= cursor =>
    outcome[e] \in Settled \/ \E c \in overtaken : position[c] <= Position(e)

\* A Board that reads CURRENT has no gap: no accepted event was passed over.
CurrentHasNoGap ==
  BoardReadsCurrent => \A e \in Accepted : outcome[e] \in Settled

\* Counting is enough for the cards: a Board that reads CURRENT shows each accepted
\* ticket, also one whose creation was confirmed late or tombstoned in between, or
\* whose row a reset has deleted or left behind.
CurrentShowsEveryCard ==
  BoardReadsCurrent => Creates \cap Accepted \subseteq Shown

\* Every accepted event is folded or tombstoned in the end, unless the stream is
\* held by a poisoned event that is visible as such.
EveryAcceptedEventSettles ==
  \A e \in Events : e \in Accepted ~> (outcome[e] \in Settled \/ blocked # NoEvent)
=============================================================================
