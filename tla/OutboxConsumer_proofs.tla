------------------------ MODULE OutboxConsumer_proofs ------------------------
(***************************************************************************)
(* Proofs about OutboxConsumer for every set of commands and every number  *)
(* of events, failures, dispositions and rebuilds: the Board folds every   *)
(* event at most once, a poisoned event holds the stream, and the cursor   *)
(* passes over an event only behind a late confirmation.                   *)
(*                                                                         *)
(* The three hold together.  What makes them inductive is what is known of *)
(* the event in hand, the one that is taken or blocked, while other        *)
(* commands are confirmed: it is accepted, beyond the cursor and not       *)
(* settled, and whatever has come before it since is overtaken (InHand).   *)
(***************************************************************************)
EXTENDS OutboxConsumer, TLAPS, WellFoundedInduction, FiniteSetTheorems

-----------------------------------------------------------------------------
(* The invariant.                                                          *)

\* Positions are drawn from one column; a confirmation has one, and among the
\* confirmed commands one has the highest.
Sources ==
  /\ position \in [Commands -> Nat] /\ nextPos \in Nat \ {0}
  /\ confirmed \subseteq Commands /\ overtaken \subseteq confirmed
  /\ \A c \in Commands : position[c] < nextPos
  /\ \A c \in confirmed : position[c] # 0
  /\ \A c, d \in Commands : position[c] = position[d] /\ position[c] # 0 => c = d
  /\ confirmed # {} => \E c \in confirmed : \A d \in confirmed : position[d] <= position[c]

\* The cursor rests at the position of a confirmed command, unless at the start.
CursorIsReached == cursor # 0 => \E c \in confirmed : position[c] = cursor

\* The types of what the consumer stores, as far as the proof needs them.
Registers ==
  /\ cursor \in Nat /\ blocked \in Events \cup {NoEvent}
  /\ outcome \in [Events -> Outcomes] /\ board \in Seq(Folds) /\ generation \in Nat
  /\ taken # <<>> => taken[1].event \in Events \cup {NoEvent}

\* The event can be settled next: what is now in front of it came too late.
InHand(e) ==
  /\ e \in Accepted /\ Position(e) > cursor /\ outcome[e] \notin Settled
  /\ \A f \in Candidates({}) : Position(f) < Position(e) => f[1] \in overtaken

\* The transaction works on the blocked event, if there is one.
TakenIsInHand ==
  taken # <<>> =>
    /\ blocked # NoEvent => taken[1].event = blocked
    /\ taken[1].event # NoEvent => InHand(taken[1].event)

\* The stream is blocked by the poisoned event, and there is no other.
BlockedIsPoisoned ==
  /\ blocked # NoEvent => InHand(blocked) /\ outcome[blocked] = "poisoned"
  /\ \A e \in Events : outcome[e] = "poisoned" => blocked = e

Stream ==
  /\ Sources /\ Registers /\ CursorIsReached
  /\ TakenIsInHand /\ BlockedIsPoisoned /\ OnlyLateIsPassedOver

\* What is folded while a reset is under way stands behind the rows that the reset
\* has deleted, and belongs to the generation it is about to end.
Survivors ==
  resetting # <<>> =>
    /\ resetting[1] \in 0..Len(board)
    /\ \A i \in DOMAIN board :
         i > resetting[1] => board[i].gen = generation /\ board[i].overlap

\* Nothing is shown that was not accepted.
ShownIsAccepted == \A i \in DOMAIN board : board[i].event \in Accepted

\* What stands on the Board.
Rows == FoldedOnce /\ Survivors /\ ShownIsAccepted

\* The inductive invariant.
IInv == Stream /\ Rows

-----------------------------------------------------------------------------
(* Events and their order.                                                 *)

\* An event is a command with a number.
LEMMA EventParts ==
  ASSUME NEW e \in Events
  PROVE  /\ e[1] \in Commands /\ e[2] \in 1..EventCount[e[1]] /\ e = <<e[1], e[2]>>
         /\ EventCount[e[1]] \in Nat /\ e[2] \in Nat
<1>1. PICK c \in Commands : e \in {c} \X (1..EventCount[c])
  BY DEF Events
<1>2. e[1] = c /\ e[2] \in 1..EventCount[c] /\ e = <<e[1], e[2]>>
  BY <1>1
<1>3. EventCount[c] \in Nat
  BY CommandAssumption
<1> QED BY <1>2, <1>3

\* A set of numbers that has a member has a least one.
LEMMA LeastNumber ==
  ASSUME NEW S \in SUBSET Nat, S # {}
  PROVE  \E n \in S : \A m \in S : n <= m
<1>1. PICK n \in S : \A m \in S : <<m, n>> \notin OpToRel(<, Nat)
  BY NatLessThanWellFounded, WFMin
<1>2. \A m \in S : ~(m < n)
  BY <1>1 DEF OpToRel
<1> QED BY <1>2

\* Of accepted events, one comes before all others (ORDER BY ... LIMIT 1).
LEMMA FirstEvent ==
  ASSUME Sources, NEW S \in SUBSET Accepted, S # {}
  PROVE  \E e \in S : \A f \in S \ {e} : Before(e, f)
<1>1. \A e \in S : /\ e[1] \in Commands /\ e[2] \in Nat /\ e = <<e[1], e[2]>>
                   /\ Position(e) \in Nat \ {0}
  BY EventParts DEF Accepted, Position, Sources
<1>2. PICK n \in {Position(e) : e \in S} : \A m \in {Position(e) : e \in S} : n <= m
  <2>1. {Position(e) : e \in S} \in SUBSET Nat /\ {Position(e) : e \in S} # {}
    BY <1>1
  <2> QED BY <2>1, LeastNumber
<1>3. DEFINE T == {e \in S : Position(e) = n}
<1>4. PICK k \in {e[2] : e \in T} : \A m \in {e[2] : e \in T} : k <= m
  <2>1. {e[2] : e \in T} \in SUBSET Nat /\ {e[2] : e \in T} # {}
    BY <1>1, <1>2
  <2> QED BY <2>1, LeastNumber
<1>5. PICK e \in T : e[2] = k
  BY <1>4
<1>6. ASSUME NEW f \in S \ {e}
      PROVE  Before(e, f)
  <2>1. Position(e) <= Position(f)
    BY <1>2, <1>5
  <2>2. CASE Position(f) = Position(e)
    <3>1. f[1] = e[1]
      BY <1>1, <2>2 DEF Position, Sources
    <3>2. e[2] <= f[2]
      BY <1>4, <1>5, <2>2
    <3>3. e[2] # f[2]
      BY <1>1, <3>1
    <3> QED BY <1>1, <3>1, <3>2, <3>3 DEF Before
  <2>3. CASE Position(f) # Position(e)
    BY <1>1, <2>1, <2>3 DEF Before
  <2> QED BY <2>2, <2>3
<1> QED BY <1>5, <1>6

\* _next_message finds an accepted event with no lower position in front of it.
LEMMA NextIsFirst ==
  ASSUME Sources, NextMessage # NoEvent
  PROVE  /\ NextMessage \in Candidates({})
         /\ \A f \in Candidates({}) : Position(NextMessage) <= Position(f)
<1>1. Candidates({}) # {} /\ Candidates({}) \in SUBSET Accepted
  BY DEF NextMessage, Candidates
<1>2. \E e \in Candidates({}) : \A f \in Candidates({}) \ {e} : Before(e, f)
  BY <1>1, FirstEvent
<1>3. NextMessage \in Candidates({}) /\ \A f \in Candidates({}) \ {NextMessage} : Before(NextMessage, f)
  BY <1>1, <1>2 DEF NextMessage
<1>4. \A f \in Candidates({}) : Position(f) \in Nat
  BY <1>1, EventParts DEF Accepted, Position, Sources
<1>5. \A f \in Candidates({}) : f[1] = NextMessage[1] => Position(f) = Position(NextMessage)
  BY DEF Position
<1> QED BY <1>3, <1>4, <1>5 DEF Before

\* The source watermark is the highest position of a confirmed command.
LEMMA WatermarkBounds ==
  ASSUME Sources, NEW c \in confirmed
  PROVE  position[c] <= SourceWatermark /\ SourceWatermark \in Nat
<1>1. PICK d \in confirmed : \A x \in confirmed : position[x] <= position[d]
  BY DEF Sources
<1>2. \E n \in {position[x] : x \in confirmed} : \A x \in confirmed : position[x] <= n
  BY <1>1
<1>3. /\ SourceWatermark \in {position[x] : x \in confirmed}
      /\ \A x \in confirmed : position[x] <= SourceWatermark
  BY <1>2 DEF SourceWatermark
<1> QED BY <1>3 DEF Sources

-----------------------------------------------------------------------------
(* The steps.                                                              *)

\* Nothing is accepted, taken or folded at first.
LEMMA Initially == Init => IInv
<1> SUFFICES ASSUME Init PROVE IInv
  OBVIOUS
<1>1. Sources
  BY DEF Init, Sources
<1>2. /\ outcome = [e \in Events |-> "none"] /\ board = <<>> /\ taken = <<>>
      /\ blocked = NoEvent /\ cursor = 0 /\ confirmed = {}
      /\ resetting = <<>> /\ generation = 1
  BY DEF Init, ConsumerInit
<1>3. Registers
  BY <1>2 DEF Registers, Outcomes
<1>4. CursorIsReached /\ TakenIsInHand /\ BlockedIsPoisoned /\ OnlyLateIsPassedOver
  BY <1>2 DEF CursorIsReached, TakenIsInHand, BlockedIsPoisoned, OnlyLateIsPassedOver, Accepted
<1>5. Rows
  BY <1>2 DEF Rows, FoldedOnce, Survivors, ShownIsAccepted
<1> QED BY <1>1, <1>3, <1>4, <1>5 DEF IInv, Stream

\* An acknowledgement draws the highest position there is, for a command that is
\* not confirmed: nothing that is accepted moves.
LEMMA AcknowledgeKeeps ==
  ASSUME IInv, NEW c \in Commands, Acknowledge(c)
  PROVE  IInv'
<1> USE DEF IInv, Stream, Rows
<1>1. /\ position[c] = 0 /\ position' = [position EXCEPT ![c] = nextPos]
      /\ nextPos' = nextPos + 1 /\ confirmed' = confirmed /\ overtaken' = overtaken
      /\ UNCHANGED consumerVars
  BY DEF Acknowledge
<1>2. \A d \in confirmed : d \in Commands /\ d # c /\ position'[d] = position[d]
  BY <1>1 DEF Sources
<1>3. Sources'
  <2>1. /\ position' \in [Commands -> Nat] /\ nextPos' \in Nat \ {0}
        /\ \A d \in Commands : position'[d] < nextPos'
    BY <1>1 DEF Sources
  <2>2. \A d \in confirmed' : position'[d] # 0
    BY <1>1, <1>2 DEF Sources
  <2>3. \A d, x \in Commands : position'[d] = position'[x] /\ position'[d] # 0 => d = x
    BY <1>1 DEF Sources
  <2>4. confirmed' # {} => \E d \in confirmed' : \A x \in confirmed' : position'[x] <= position'[d]
    BY <1>1, <1>2 DEF Sources
  <2> QED BY <1>1, <2>1, <2>2, <2>3, <2>4 DEF Sources
<1>4. /\ Accepted' = Accepted
      /\ \A e \in Accepted : Position(e)' = Position(e)
  BY <1>1, <1>2 DEF Accepted, Position
<1>5. Candidates({})' = Candidates({})
  BY <1>1, <1>4 DEF Candidates, consumerVars
<1>6. Candidates({}) \subseteq Accepted
  BY DEF Candidates
<1>7. \A e : InHand(e) => InHand(e)'
  BY <1>1, <1>4, <1>5, <1>6 DEF InHand, consumerVars
<1>8. TakenIsInHand' /\ BlockedIsPoisoned' /\ Registers' /\ Rows'
  <2>1. TakenIsInHand' /\ BlockedIsPoisoned' /\ Registers'
    BY <1>1, <1>7 DEF TakenIsInHand, BlockedIsPoisoned, Registers, consumerVars
  <2>2. FoldedOnce' /\ Survivors'
    BY <1>1 DEF FoldedOnce, Survivors, consumerVars
  <2>3. ShownIsAccepted'
    BY <1>1, <1>4 DEF ShownIsAccepted, consumerVars
  <2> QED BY <2>1, <2>2, <2>3
<1>9. OnlyLateIsPassedOver'
  <2>1. \A d \in overtaken : position'[d] = position[d]
    BY <1>2 DEF Sources
  <2> QED BY <1>1, <1>4, <2>1 DEF OnlyLateIsPassedOver, consumerVars
<1>10. CursorIsReached'
  BY <1>1, <1>2 DEF CursorIsReached, consumerVars
<1> QED BY <1>3, <1>8, <1>9, <1>10

\* A command that is confirmed behind the event in hand, or behind the cursor, is
\* overtaken: some confirmed command has a higher position.
LEMMA ConfirmKeeps ==
  ASSUME IInv, NEW c \in Commands, Confirm(c)
  PROVE  IInv'
<1> USE DEF IInv, Stream, Rows
<1>1. /\ position[c] # 0 /\ c \notin confirmed /\ confirmed' = confirmed \cup {c}
      /\ overtaken' = IF SourceWatermark > position[c] THEN overtaken \cup {c} ELSE overtaken
      /\ position' = position /\ nextPos' = nextPos /\ UNCHANGED consumerVars
  BY DEF Confirm
<1>2. \A d \in confirmed : position[d] > position[c] => c \in overtaken'
  BY <1>1, WatermarkBounds DEF Sources
<1>3. Sources'
  <2>1. \E d \in confirmed' : \A x \in confirmed' : position[x] <= position[d]
    <3>1. CASE confirmed = {}
      BY <1>1, <3>1 DEF Sources
    <3>2. CASE confirmed # {}
      <4>1. PICK d \in confirmed : \A x \in confirmed : position[x] <= position[d]
        BY <3>2 DEF Sources
      <4>2. position[c] \in Nat /\ position[d] \in Nat /\ \A x \in confirmed : position[x] \in Nat
        BY DEF Sources
      <4>3. CASE position[c] <= position[d]
        BY <1>1, <4>1, <4>3
      <4>4. CASE ~(position[c] <= position[d])
        BY <1>1, <4>1, <4>2, <4>4
      <4> QED BY <4>3, <4>4
    <3> QED BY <3>1, <3>2
  <2>2. confirmed' \subseteq Commands /\ overtaken' \subseteq confirmed'
        /\ \A d \in confirmed' : position[d] # 0
    BY <1>1 DEF Sources
  <2> QED BY <1>1, <2>1, <2>2 DEF Sources
<1>4. /\ Accepted' = Accepted \cup {e \in Events : e[1] = c}
      /\ \A e : Position(e)' = Position(e)
  BY <1>1 DEF Accepted, Position
<1>5. \A f \in Candidates({})' : f \in Candidates({}) \/ f[1] = c
  BY <1>1, <1>4 DEF Candidates, consumerVars
<1>6. \A e : InHand(e) => InHand(e)'
  <2> SUFFICES ASSUME NEW e, InHand(e)
               PROVE  InHand(e)'
    OBVIOUS
  <2>1. /\ e \in Accepted' /\ Position(e)' > cursor' /\ outcome'[e] \notin Settled
        /\ e[1] \in confirmed
    BY <1>1, <1>4 DEF InHand, consumerVars, Accepted
  <2>2. ASSUME NEW f \in Candidates({})', Position(f)' < Position(e)'
        PROVE  f[1] \in overtaken'
    <3>1. CASE f \in Candidates({})
      BY <1>1, <1>4, <2>2, <3>1 DEF InHand
    <3>2. CASE f[1] = c
      BY <1>1, <1>2, <2>1, <2>2, <3>2 DEF Position, Sources
    <3> QED BY <1>5, <3>1, <3>2
  <2> QED BY <2>1, <2>2 DEF InHand
<1>7. TakenIsInHand' /\ BlockedIsPoisoned' /\ Registers' /\ Rows'
  <2>1. TakenIsInHand' /\ BlockedIsPoisoned' /\ Registers'
    BY <1>1, <1>6 DEF TakenIsInHand, BlockedIsPoisoned, Registers, consumerVars
  <2>2. FoldedOnce' /\ Survivors'
    BY <1>1 DEF FoldedOnce, Survivors, consumerVars
  <2>3. ShownIsAccepted'
    BY <1>1, <1>4 DEF ShownIsAccepted, consumerVars
  <2> QED BY <2>1, <2>2, <2>3
<1>8. OnlyLateIsPassedOver'
  <2> SUFFICES ASSUME NEW e \in Accepted', Position(e) <= cursor, outcome[e] \notin Settled
               PROVE  \E d \in overtaken' : position[d] <= Position(e)
    BY <1>1 DEF OnlyLateIsPassedOver, consumerVars, Position
  <2>1. CASE e \in Accepted
    BY <1>1, <2>1 DEF OnlyLateIsPassedOver
  <2>2. CASE e[1] = c
    <3>1. position[c] \in Nat /\ position[c] # 0 /\ cursor \in Nat /\ Position(e) = position[c]
      BY <1>1, <2>2 DEF Sources, Registers, Position
    <3>2. PICK d \in confirmed : position[d] = cursor
      BY <3>1 DEF CursorIsReached
    <3>3. position[d] # position[c]
      BY <1>1, <3>1 DEF Sources
    <3>4. c \in overtaken'
      BY <1>2, <3>1, <3>2, <3>3
    <3> QED BY <3>1, <3>4
  <2> QED BY <1>4, <2>1, <2>2
<1>9. CursorIsReached'
  BY <1>1 DEF CursorIsReached, consumerVars
<1> QED BY <1>3, <1>7, <1>8, <1>9

\* The source decides what is accepted.
LEMMA SourceKeeps == UNCHANGED sourceVars => Accepted' = Accepted
BY DEF sourceVars, Accepted

\* What stays in hand when the cursor, the attempts and the source stay put.
LEMMA NothingMoves ==
  ASSUME UNCHANGED sourceVars, UNCHANGED <<cursor, outcome>>
  PROVE  /\ Accepted' = Accepted /\ Candidates({})' = Candidates({})
         /\ \A e : Position(e)' = Position(e)
         /\ \A e : InHand(e)' <=> InHand(e)
         /\ Sources => Sources'
         /\ CursorIsReached => CursorIsReached'
         /\ OnlyLateIsPassedOver => OnlyLateIsPassedOver'
<1>1. Accepted' = Accepted /\ \A e : Position(e)' = Position(e)
  BY DEF sourceVars, Accepted, Position
<1>2. Candidates({})' = Candidates({})
  BY <1>1 DEF Candidates
<1>3. \A e : InHand(e)' <=> InHand(e)
  BY <1>1, <1>2 DEF InHand, sourceVars
<1>4. (Sources => Sources') /\ (CursorIsReached => CursorIsReached')
  BY DEF Sources, CursorIsReached, sourceVars
<1>5. OnlyLateIsPassedOver => OnlyLateIsPassedOver'
  BY <1>1 DEF OnlyLateIsPassedOver, sourceVars
<1> QED BY <1>1, <1>2, <1>3, <1>4, <1>5

\* A message that is taken is the blocked one, or the first of the stream.
LEMMA TakeMessageKeeps ==
  ASSUME IInv, TakeMessage
  PROVE  IInv'
<1> USE DEF IInv, Stream, Rows
<1>1. /\ taken' # <<>> /\ taken'[1].event = RecoverOrNext
      /\ RecoverOrNext = NoEvent => blocked = NoEvent
      /\ UNCHANGED sourceVars /\ UNCHANGED <<cursor, outcome, blocked, board, generation, resetting>>
  BY DEF TakeMessage, cursorVars, attemptVars
<1>2. /\ blocked # NoEvent => RecoverOrNext = blocked
      /\ blocked = NoEvent => RecoverOrNext = NextMessage
  BY <1>1 DEF RecoverOrNext
<1>3. RecoverOrNext # NoEvent => InHand(RecoverOrNext)
  <2>1. CASE blocked # NoEvent
    BY <1>2, <2>1 DEF BlockedIsPoisoned
  <2>2. CASE blocked = NoEvent /\ NextMessage # NoEvent
    <3>1. /\ NextMessage \in Candidates({})
          /\ \A f \in Candidates({}) : Position(NextMessage) <= Position(f)
      BY <2>2, NextIsFirst
    <3>2. \A f \in Candidates({}) : Position(f) \in Nat
      BY EventParts DEF Candidates, Accepted, Position, Sources
    <3>3. \A f \in Candidates({}) : ~(Position(f) < Position(NextMessage))
      BY <3>1, <3>2
    <3> QED BY <1>2, <2>2, <3>1, <3>3 DEF InHand, Candidates
  <2> QED BY <1>2, <2>1, <2>2
<1>4. RecoverOrNext \in Events \cup {NoEvent}
  BY <1>3 DEF InHand, Accepted
<1>5. TakenIsInHand' /\ Registers'
  BY <1>1, <1>2, <1>3, <1>4, NothingMoves DEF TakenIsInHand, Registers
<1>6. BlockedIsPoisoned' /\ Rows'
  BY <1>1, NothingMoves DEF BlockedIsPoisoned, FoldedOnce, Survivors, ShownIsAccepted
<1> QED BY <1>1, <1>5, <1>6, NothingMoves

\* When nothing is taken, or the event in hand is given back, only what is
\* blocked has to be looked at.
LEMMA GivingBackKeeps ==
  ASSUME IInv, UNCHANGED sourceVars,
         UNCHANGED <<cursor, outcome, blocked, board, generation>>,
         taken' = taken \/ taken' = <<>>, resetting' = resetting \/ Survivors'
  PROVE  IInv'
<1> USE DEF IInv, Stream, Rows
<1>1. TakenIsInHand' /\ Registers'
  BY NothingMoves DEF TakenIsInHand, Registers
<1>2. BlockedIsPoisoned' /\ Rows'
  BY NothingMoves DEF BlockedIsPoisoned, FoldedOnce, Survivors, ShownIsAccepted
<1> QED BY <1>1, <1>2, NothingMoves

\* The event in hand is settled and the cursor goes as far as it may: what it
\* passes over without settling was overtaken, or shares the position of an
\* event whose command is behind one that was.
LEMMA SettleKeeps ==
  ASSUME IInv, NEW e \in Events, Working(e), NEW result \in Settled,
         outcome' = [outcome EXCEPT ![e] = result], taken' = <<>>,
         AdvanceIfPositionDrained(e), UNCHANGED sourceVars, board' \in Seq(Folds),
         generation' = generation
  PROVE  Stream'
<1> USE DEF IInv, Stream, Rows
<1>1. InHand(e) /\ (blocked # NoEvent => blocked = e)
  BY CommandAssumption DEF Working, TakenIsInHand
<1>2. /\ Accepted' = Accepted /\ \A f : Position(f)' = Position(f)
      /\ \A f \in Accepted : f \in Events /\ Position(f) \in Nat
  BY EventParts DEF sourceVars, Accepted, Position, Sources
<1>3. blocked' = NoEvent /\ (cursor' = cursor \/ cursor' = Position(e))
  BY DEF AdvanceIfPositionDrained, Advance
<1>4. \A f \in Events : /\ f # e => outcome'[f] = outcome[f]
                        /\ outcome'[e] = result
  BY DEF Registers
<1>5. Sources' /\ CursorIsReached'
  <2>1. e[1] \in confirmed
    BY <1>1 DEF InHand, Accepted
  <2> QED BY <1>3, <2>1 DEF Sources, CursorIsReached, Position, sourceVars
<1>6. Registers' /\ TakenIsInHand'
  BY <1>1, <1>2, <1>3 DEF Registers, TakenIsInHand, InHand, Settled, Outcomes
<1>7. BlockedIsPoisoned'
  <2>1. ASSUME NEW f \in Events PROVE outcome'[f] # "poisoned"
    <3>1. CASE f = e
      BY <1>4, <3>1 DEF Settled
    <3>2. CASE f # e
      <4>1. outcome[f] = "poisoned" => blocked = f
        BY DEF BlockedIsPoisoned
      <4> QED BY <1>1, <1>4, <3>2, <4>1, CommandAssumption
    <3> QED BY <3>1, <3>2
  <2> QED BY <1>3, <2>1 DEF BlockedIsPoisoned
<1>8. OnlyLateIsPassedOver'
  <2> SUFFICES ASSUME NEW f \in Accepted, Position(f) <= cursor', outcome'[f] \notin Settled
               PROVE  \E c \in overtaken : position[c] <= Position(f)
    BY <1>2 DEF OnlyLateIsPassedOver, sourceVars
  <2>1. f # e /\ f \in Events /\ outcome[f] \notin Settled
    BY <1>2, <1>4
  <2>2. CASE Position(f) <= cursor
    BY <2>1, <2>2 DEF OnlyLateIsPassedOver
  <2>3. CASE ~(Position(f) <= cursor)
    <3>1. cursor' = Position(e) /\ cursor \in Nat
      BY <1>3, <2>3 DEF Registers
    <3>2. f \in Candidates({}) /\ f \in Candidates({e}) /\ cursor # Position(e)
      BY <1>1, <1>2, <2>1, <2>3, <3>1 DEF Candidates, InHand
    <3>3. CASE Position(f) < Position(e)
      BY <1>1, <1>2, <3>2, <3>3 DEF InHand, Position
    <3>4. CASE Position(f) = Position(e)
      <4> DEFINE first == CHOOSE x \in Candidates({e}) : \A g \in Candidates({e}) \ {x} : Before(x, g)
      <4>1. Candidates({e}) \in SUBSET Accepted /\ Candidates({e}) \subseteq Candidates({})
        BY DEF Candidates
      <4>2. first \in Candidates({e}) /\ \A g \in Candidates({e}) \ {first} : Before(first, g)
        BY <3>2, <4>1, FirstEvent
      <4>3. Position(first) # Position(e)
        BY <3>1, <3>2 DEF AdvanceIfPositionDrained
      <4> HIDE DEF first
      <4>4. first # f => Position(first) < Position(f)
        BY <3>2, <3>4, <4>2, <4>3 DEF Before, Position
      <4>5. first[1] \in overtaken
        BY <1>1, <3>4, <4>1, <4>2, <4>3, <4>4 DEF InHand
      <4> QED BY <1>2, <3>4, <4>1, <4>2, <4>3, <4>4, <4>5 DEF Position
    <3> QED BY <1>1, <1>2, <2>3, <3>1, <3>3, <3>4 DEF InHand
  <2> QED BY <2>2, <2>3
<1> QED BY <1>5, <1>6, <1>7, <1>8

\* An accepted tombstone settles its event without folding it.
LEMMA TombstoneKeeps ==
  ASSUME IInv, NEW e \in Events, Tombstone(e)
  PROVE  IInv'
<1>1. /\ Working(e) /\ outcome' = [outcome EXCEPT ![e] = "tombstoned"] /\ taken' = <<>>
      /\ AdvanceIfPositionDrained(e) /\ UNCHANGED sourceVars
      /\ UNCHANGED <<board, generation, resetting>>
  BY DEF Tombstone, Tombstoning, Attempt
<1>2. Stream'
  BY <1>1, SettleKeeps DEF Settled, IInv, Stream, Registers
<1>3. outcome[e] # "delivered"
  BY <1>1, CommandAssumption DEF IInv, Stream, Working, TakenIsInHand, InHand, Settled
<1>4. \A f \in Events : outcome'[f] = "delivered" <=> outcome[f] = "delivered"
  BY <1>1, <1>3 DEF IInv, Stream, Registers
<1>5. Rows'
  BY <1>1, <1>4, SourceKeeps DEF IInv, Rows, FoldedOnce, Survivors, ShownIsAccepted
<1> QED BY <1>2, <1>5 DEF IInv

\* A fold adds an event that was not delivered: it is in hand.
LEMMA DeliverKeeps ==
  ASSUME IInv, NEW e \in Events, Deliver(e)
  PROVE  IInv'
<1> DEFINE fold == [event |-> e, gen |-> generation, overlap |-> resetting # <<>>]
           n == Len(board)
<1>1. /\ Working(e) /\ outcome' = [outcome EXCEPT ![e] = "delivered"] /\ taken' = <<>>
      /\ AdvanceIfPositionDrained(e) /\ UNCHANGED sourceVars /\ board' = Append(board, fold)
      /\ UNCHANGED <<generation, resetting>>
  BY DEF Deliver, Folding, Attempt
<1>2. PICK o \in BOOLEAN : o = (resetting # <<>>)
  OBVIOUS
<1>3. fold = [event |-> e, gen |-> generation, overlap |-> o] /\ fold \in Folds
  BY <1>2 DEF IInv, Stream, Registers, Folds
<1>4. fold.event = e /\ fold.gen = generation /\ (resetting # <<>> => fold.overlap)
  BY <1>2, <1>3
<1> HIDE DEF fold
<1>5. board \in Seq(Folds) /\ board' \in Seq(Folds) /\ n \in Nat
  BY <1>1, <1>3 DEF IInv, Stream, Registers
<1>6. /\ DOMAIN board = 1..n /\ DOMAIN board' = 1..(n + 1) /\ Len(board') = n + 1
      /\ board'[n + 1] = fold /\ \A i \in 1..n : board'[i] = board[i]
  BY <1>1, <1>3, <1>5
<1> HIDE DEF n
<1>7. Stream'
  BY <1>1, <1>5, SettleKeeps DEF Settled
<1>8. outcome[e] # "delivered"
  BY <1>1, CommandAssumption DEF IInv, Stream, Working, TakenIsInHand, InHand, Settled
<1>9. \A i \in 1..n : ~(board[i].event = e /\ board[i].gen = generation)
  BY <1>6, <1>8 DEF IInv, Rows, FoldedOnce
<1>10. \A i \in 1..(n + 1) : i = n + 1 \/ i \in 1..n
  BY <1>5
<1>11. \A i, j \in DOMAIN board' :
         board'[i].event = board'[j].event /\ board'[i].gen = board'[j].gen => i = j
  BY <1>4, <1>6, <1>9, <1>10 DEF IInv, Rows, FoldedOnce
<1>12. \A f \in Events : outcome'[f] = "delivered" <=> outcome[f] = "delivered" \/ f = e
  BY <1>1 DEF IInv, Stream, Registers
<1>13. {f \in Events : outcome'[f] = "delivered"} =
         {board'[i].event : i \in {k \in DOMAIN board' : board'[k].gen = generation}}
  <2>1. \A f \in Events : outcome[f] = "delivered" <=>
          \E i \in 1..n : board[i].gen = generation /\ board[i].event = f
    BY <1>6 DEF IInv, Rows, FoldedOnce
  <2>2. \A i \in 1..(n + 1) : board'[i].event \in Events
    <3>1. \A i \in DOMAIN board' : board'[i] \in Folds
      BY <1>5
    <3> QED BY <1>6, <3>1 DEF Folds
  <2>3. n + 1 \in 1..(n + 1) /\ \A i \in 1..n : i \in 1..(n + 1)
    BY <1>5
  <2>4. \A f \in Events : outcome'[f] = "delivered" <=>
          \E i \in 1..(n + 1) : board'[i].gen = generation /\ board'[i].event = f
    <3> SUFFICES ASSUME NEW f \in Events
                 PROVE  outcome'[f] = "delivered" <=>
                   \E i \in 1..(n + 1) : board'[i].gen = generation /\ board'[i].event = f
      OBVIOUS
    <3>1. (\E i \in 1..n : board[i].gen = generation /\ board[i].event = f) \/ f = e <=>
          \E i \in 1..(n + 1) : board'[i].gen = generation /\ board'[i].event = f
      BY <1>4, <1>6, <1>10, <2>3
    <3> QED BY <1>12, <2>1, <3>1
  <2> QED BY <1>6, <2>2, <2>4
<1>14. \A i \in DOMAIN board' :
         board'[i].gen # generation => board'[i].gen + 1 = generation /\ board'[i].overlap
  BY <1>4, <1>6, <1>10 DEF IInv, Rows, FoldedOnce
<1>15. FoldedOnce'
  BY <1>1, <1>11, <1>13, <1>14 DEF FoldedOnce
<1>16. Survivors'
  BY <1>1, <1>4, <1>5, <1>6, <1>10 DEF IInv, Rows, Survivors
<1>17. ShownIsAccepted'
  <2>1. e \in Accepted /\ Accepted' = Accepted
    BY <1>1, SourceKeeps, CommandAssumption DEF IInv, Stream, Working, TakenIsInHand, InHand
  <2> QED BY <1>4, <1>6, <1>10, <2>1 DEF IInv, Rows, ShownIsAccepted
<1> QED BY <1>7, <1>15, <1>16, <1>17 DEF IInv, Rows

\* A failed attempt leaves the event in hand and the cursor where it is.
LEMMA FailedAttemptKeeps ==
  ASSUME IInv, NEW e \in Events, Working(e),
         NEW result \in {"retryable_failure", "poisoned"},
         outcome' = [outcome EXCEPT ![e] = result], taken' = <<>>,
         blocked' = IF result = "poisoned" THEN e ELSE NoEvent,
         UNCHANGED sourceVars, UNCHANGED <<cursor, board, generation, resetting>>
  PROVE  IInv'
<1> USE DEF IInv, Stream, Rows
<1>1. InHand(e) /\ (blocked # NoEvent => blocked = e)
  BY CommandAssumption DEF Working, TakenIsInHand
<1>2. \A f \in Events : outcome'[f] = IF f = e THEN result ELSE outcome[f]
  BY DEF Registers
<1>3. \A f \in Events : (outcome'[f] \in Settled <=> outcome[f] \in Settled)
  BY <1>1, <1>2 DEF InHand, Settled
<1>4. /\ Accepted' = Accepted /\ Accepted \subseteq Events
      /\ \A f : Position(f)' = Position(f)
  BY DEF sourceVars, Accepted, Position
<1>5. Candidates({})' = Candidates({})
  BY <1>3, <1>4 DEF Candidates
<1>6. InHand(e)'
  BY <1>1, <1>3, <1>4, <1>5 DEF InHand, sourceVars
<1>7. Sources' /\ CursorIsReached' /\ OnlyLateIsPassedOver'
  BY <1>3, <1>4 DEF Sources, CursorIsReached, OnlyLateIsPassedOver, sourceVars
<1>8. Registers' /\ TakenIsInHand'
  BY DEF Registers, TakenIsInHand, Outcomes
<1>9. BlockedIsPoisoned'
  <2>1. ASSUME NEW f \in Events, f # e PROVE outcome'[f] # "poisoned"
    <3>1. outcome[f] = "poisoned" => blocked = f
      BY DEF BlockedIsPoisoned
    <3> QED BY <1>1, <1>2, <2>1, <3>1, CommandAssumption
  <2> QED BY <1>2, <1>6, <2>1, CommandAssumption DEF BlockedIsPoisoned
<1>10. Rows'
  <2>1. \A f \in Events : (outcome'[f] = "delivered" <=> outcome[f] = "delivered")
    BY <1>1, <1>2 DEF InHand, Settled
  <2> QED BY <1>4, <2>1 DEF FoldedOnce, Survivors, ShownIsAccepted
<1> QED BY <1>7, <1>8, <1>9, <1>10

LEMMA RetryableFailureKeeps ==
  ASSUME IInv, NEW e \in Events, RetryableFailure(e)
  PROVE  IInv'
<1>1. /\ Working(e) /\ outcome' = [outcome EXCEPT ![e] = "retryable_failure"] /\ taken' = <<>>
      /\ blocked' = NoEvent /\ UNCHANGED sourceVars
      /\ UNCHANGED <<cursor, board, generation, resetting>>
  BY DEF RetryableFailure, FoldFails, Folding, Attempt
<1> QED BY <1>1, FailedAttemptKeeps

LEMMA PoisonKeeps ==
  ASSUME IInv, NEW e \in Events, Poison(e)
  PROVE  IInv'
<1>1. /\ Working(e) /\ outcome' = [outcome EXCEPT ![e] = "poisoned"] /\ taken' = <<>>
      /\ blocked' = e /\ UNCHANGED sourceVars
      /\ UNCHANGED <<cursor, board, generation, resetting>>
  BY DEF Poison, FoldFails, Folding, Attempt
<1> QED BY <1>1, FailedAttemptKeeps

\* With nothing to fold nothing is blocked, and the cursor stays.
LEMMA NothingToFoldKeeps ==
  ASSUME IInv, NothingToFold
  PROVE  IInv'
<1>1. /\ taken # <<>> /\ taken[1].event = NoEvent /\ taken' = <<>> /\ blocked' = NoEvent
      /\ UNCHANGED sourceVars /\ UNCHANGED <<cursor, outcome, board, generation, resetting>>
  BY DEF NothingToFold, Working, Advance, attemptVars
<1>2. blocked = NoEvent
  BY <1>1 DEF IInv, Stream, TakenIsInHand
<1> QED BY <1>1, <1>2, GivingBackKeeps

\* A reset that begins finds all folds in front of it, and nothing behind.
LEMMA ClearRowsKeeps ==
  ASSUME IInv, ClearRows
  PROVE  IInv'
<1>1. /\ UNCHANGED sourceVars /\ UNCHANGED <<cursor, outcome, blocked, board, generation>>
      /\ taken' = taken /\ resetting' = <<Len(board)>>
  BY DEF ClearRows, cursorVars, attemptVars
<1>2. board \in Seq(Folds)
  BY DEF IInv, Stream, Registers
<1>3. Survivors'
  BY <1>1, <1>2 DEF Survivors
<1> QED BY <1>1, <1>3, GivingBackKeeps

\* A reset that takes the cursor row starts the stream again from nothing.  What it
\* leaves on the Board was folded into the generation that ends.
LEMMA StartOverKeeps ==
  ASSUME IInv, StartOver
  PROVE  IInv'
<1> USE DEF IInv, Stream, Rows
<1>1. /\ taken' = <<>> /\ cursor' = 0 /\ blocked' = NoEvent
      /\ outcome' = [e \in Events |-> "none"] /\ UNCHANGED sourceVars
      /\ generation' = generation + 1 /\ resetting' = <<>> /\ resetting # <<>>
      /\ board' = SubSeq(board, resetting[1] + 1, Len(board))
  BY DEF StartOver
<1> DEFINE n == resetting[1]
           k == Len(board)
<1>2. n \in 0..k /\ k \in Nat /\ board \in Seq(Folds) /\ generation \in Nat
  BY <1>1 DEF Survivors, Registers
<1>3. /\ board' \in Seq(Folds) /\ DOMAIN board' = 1..(k - n)
      /\ \A i \in 1..(k - n) : board'[i] = board[i + n]
  <2>1. board' = SubSeq(board, n + 1, k)
    BY <1>1
  <2> HIDE DEF n, k
  <2>2. \A i \in (n + 1)..k : board[i] \in Folds
    BY <1>2 DEF k
  <2>3. /\ SubSeq(board, n + 1, k) \in Seq(Folds)
        /\ Len(SubSeq(board, n + 1, k)) = k - n
        /\ \A i \in 1..(k - n) : SubSeq(board, n + 1, k)[i] = board[i + n]
    BY <1>2 DEF k
  <2> QED BY <2>1, <2>3
<1>4. \A i \in 1..(k - n) : /\ board'[i].gen = generation /\ board'[i].overlap
                            /\ i + n \in DOMAIN board /\ board'[i] = board[i + n]
  <2>1. \A i \in DOMAIN board : i > n => board[i].gen = generation /\ board[i].overlap
    BY <1>1 DEF Survivors
  <2>2. DOMAIN board = 1..k
    BY <1>2
  <2> HIDE DEF n, k
  <2>3. \A i \in 1..(k - n) : i + n \in 1..k /\ i + n > n
    BY <1>2
  <2> QED BY <1>3, <2>1, <2>2, <2>3
<1>5. Sources' /\ CursorIsReached' /\ Registers' /\ TakenIsInHand' /\ BlockedIsPoisoned'
  BY <1>1, <1>2, <1>3 DEF Sources, CursorIsReached, Registers, TakenIsInHand,
              BlockedIsPoisoned, sourceVars, Outcomes
<1>6. OnlyLateIsPassedOver'
  <2>1. \A e \in Accepted' : Position(e)' \in Nat \ {0}
    BY <1>1, EventParts DEF Accepted, Position, Sources, sourceVars
  <2> QED BY <1>1, <2>1 DEF OnlyLateIsPassedOver
<1> HIDE DEF n, k
<1>7. FoldedOnce'
  <2>1. ASSUME NEW i \in DOMAIN board', NEW j \in DOMAIN board',
               board'[i].event = board'[j].event, board'[i].gen = board'[j].gen
        PROVE  i = j
    <3>1. i + n = j + n
      BY <1>3, <1>4, <2>1 DEF FoldedOnce
    <3> QED BY <1>2, <1>3, <3>1
  <2>2. {e \in Events : outcome'[e] = "delivered"} = {}
    BY <1>1
  <2>3. \A i \in DOMAIN board' : board'[i].gen # generation'
    <3>1. generation' # generation
      BY <1>1, <1>2
    <3> QED BY <1>3, <1>4, <3>1
  <2>4. {board'[i].event : i \in {j \in DOMAIN board' : board'[j].gen = generation'}} = {}
    BY <2>3
  <2>5. \A i \in DOMAIN board' : board'[i].gen + 1 = generation' /\ board'[i].overlap
    BY <1>1, <1>3, <1>4
  <2> QED BY <2>1, <2>2, <2>4, <2>5 DEF FoldedOnce
<1>8. Survivors' /\ ShownIsAccepted'
  <2>1. Accepted' = Accepted
    BY <1>1, SourceKeeps
  <2> QED BY <1>1, <1>3, <1>4, <2>1 DEF Survivors, ShownIsAccepted
<1> QED BY <1>5, <1>6, <1>7, <1>8

\* A reset that is rolled back leaves the rows as they were.
LEMMA AbandonResetKeeps ==
  ASSUME IInv, AbandonReset
  PROVE  IInv'
<1>1. /\ UNCHANGED sourceVars /\ UNCHANGED <<cursor, outcome, blocked, board, generation>>
      /\ taken' = taken /\ resetting' = <<>>
  BY DEF AbandonReset, cursorVars, attemptVars
<1>2. Survivors'
  BY <1>1 DEF Survivors
<1> QED BY <1>1, <1>2, GivingBackKeeps

\* Dispositions, repairs and a foreign watermark touch no event's outcome.
LEMMA OperatorKeeps ==
  ASSUME IInv, OperatorStep
  PROVE  IInv'
<1>1. ASSUME NEW e \in Events, NEW a \in {"retry", "tombstone"}, RecordDisposition(e, a)
      PROVE  IInv'
  BY <1>1, GivingBackKeeps DEF RecordDisposition, cursorVars, attemptVars
<1>2. ASSUME NEW e \in Events, NEW i \in 1..MaxDispositions, AcceptDisposition(e, i)
      PROVE  IInv'
  BY <1>2, GivingBackKeeps DEF AcceptDisposition, cursorVars, attemptVars
<1>3. ASSUME NEW e \in Events, Repair(e)
      PROVE  IInv'
  BY <1>3, GivingBackKeeps DEF Repair, cursorVars, attemptVars
<1>4. ASSUME MarkRequestedUnknown
      PROVE  IInv'
  BY <1>4, GivingBackKeeps DEF MarkRequestedUnknown, attemptVars
<1> QED BY <1>1, <1>2, <1>3, <1>4, ClearRowsKeeps, StartOverKeeps, AbandonResetKeeps
        DEF OperatorStep

LEMMA StepKeeps == IInv /\ [Next]_vars => IInv'
<1> SUFFICES ASSUME IInv, [Next]_vars PROVE IInv'
  OBVIOUS
<1>1. ASSUME NEW c \in Commands, Acknowledge(c) \/ Confirm(c) PROVE IInv'
  BY <1>1, AcknowledgeKeeps, ConfirmKeeps
<1>2. ASSUME ConsumeOne PROVE IInv'
  <2>1. ASSUME NEW e \in Events, Tombstone(e) \/ Deliver(e) \/ RetryableFailure(e) \/ Poison(e)
        PROVE  IInv'
    BY <2>1, TombstoneKeeps, DeliverKeeps, RetryableFailureKeeps, PoisonKeeps
  <2>2. CASE Abandon
    BY <2>2, GivingBackKeeps DEF Abandon, cursorVars, attemptVars
  <2> QED BY <1>2, <2>1, <2>2, TakeMessageKeeps, NothingToFoldKeeps DEF ConsumeOne
<1>3. CASE UNCHANGED vars
  BY <1>3, GivingBackKeeps DEF vars, sourceVars
<1> QED BY <1>1, <1>2, <1>3, OperatorKeeps DEF Next

THEOREM StreamInvariant == Spec => []IInv
<1> QED BY Initially, StepKeeps, PTL DEF Spec

-----------------------------------------------------------------------------
(* The properties the runs check.                                          *)

\* Retries, crashes, poison recovery and resets, which may overlap a fold, never
\* fold an event twice into one generation of the Board, which holds exactly what
\* its attempt log calls delivered; what an earlier generation leaves on it was
\* folded while the last reset was under way.
THEOREM BoardFoldsOnce == Spec => []FoldedOnce
<1> QED BY StreamInvariant, PTL DEF IInv, Rows

\* A poisoned event holds the stream: the cursor stays below it and the Board
\* does not read CURRENT, whatever is confirmed, retried or rebuilt meanwhile.
THEOREM PoisonHolds == Spec => []PoisonHoldsStream
<1>1. IInv => PoisonHoldsStream
  <2> SUFFICES ASSUME IInv, NEW e \in Events, outcome[e] = "poisoned"
               PROVE  cursor < Position(e) /\ ~BoardReadsCurrent /\ blocked = e
    BY DEF PoisonHoldsStream
  <2>1. blocked = e /\ blocked # NoEvent /\ InHand(e)
    BY CommandAssumption DEF IInv, Stream, BlockedIsPoisoned
  <2>2. cursor \in Nat /\ Position(e) \in Nat
    BY EventParts DEF IInv, Stream, Registers, Sources, Position
  <2> QED BY <2>1, <2>2 DEF InHand, BoardReadsCurrent
<1> QED BY <1>1, StreamInvariant, PTL

\* The cursor passes over an unsettled event only behind a confirmation that came
\* late, at or below its position.
THEOREM CursorPassesOnlyLate == Spec => []OnlyLateIsPassedOver
<1> QED BY StreamInvariant, PTL DEF IInv, Stream

\* A Board that reads CURRENT shows every accepted ticket: what it shows is accepted,
\* so as many creations as were accepted are those that were accepted.
THEOREM CurrentCardsAreAll == Spec => []CurrentShowsEveryCard
<1>1. IInv => CurrentShowsEveryCard
  <2> SUFFICES ASSUME IInv, BoardReadsCurrent
               PROVE  Creates \cap Accepted \subseteq Shown
    BY DEF CurrentShowsEveryCard
  <2>1. Shown \subseteq Accepted
    BY DEF IInv, Rows, ShownIsAccepted, Shown
  <2>2. IsFiniteSet(Creates \cap Accepted)
    BY CommandAssumption, FS_Subset
  <2>3. Creates \cap Shown \in SUBSET (Creates \cap Accepted)
    BY <2>1
  <2>4. Cardinality(Creates \cap Accepted) = Cardinality(Creates \cap Shown)
    BY DEF BoardReadsCurrent
  <2>5. Creates \cap Accepted = Creates \cap Shown
    BY <2>2, <2>3, <2>4, FS_Subset
  <2> QED BY <2>5
<1> QED BY <1>1, StreamInvariant, PTL
=============================================================================
