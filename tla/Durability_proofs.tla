-------------------------- MODULE Durability_proofs --------------------------
(***************************************************************************)
(* Proofs about Durability for every set of commands and reconcilers: type *)
(* correctness, that nothing accepted is lost with the primary, that an    *)
(* accepted answer is stable, that the evidence is in order, and that the  *)
(* protocol implements the acceptance authority; and, about AcceptedBoard, *)
(* which composes it with the projection consumer, that the Board shows    *)
(* only what the standby holds.                                            *)
(*                                                                         *)
(* None of the invariants is inductive alone.  The one below adds what a   *)
(* reconciler knows at each of its steps (StepsKnow): what it has proved   *)
(* on the standby stays there, because the standby only moves forward, and *)
(* a promotion ends every reconcile in flight.                             *)
(***************************************************************************)
EXTENDS AcceptedBoard, TLAPS, WellFoundedInduction

\* The types, with the fact they need: a reconciler at work has a command.
TypeInv ==
  /\ TypeOK
  /\ \A p \in Reconcilers : pc[p] # "idle" => cmd[p] \in Commands

\* Positions in the WAL; what sessions see has been written.
WalBounds ==
  /\ applied <= walEnd
  /\ \A k \in Kinds, c \in Commands :
       lsn[k][c] <= walEnd /\ (c \in visible[k] => lsn[k][c] # 0)

\* A finalization repeats the acknowledged position.
PositionsMatch ==
  \A c \in Commands :
    /\ Written("ack", c) => ackPos[c] # 0
    /\ Written("final", c) => finPos[c] = ackPos[c]

\* What the reconciler at each step has already established.
StepsKnow ==
  \A p \in Reconcilers : pc[p] # "idle" =>
    LET c == cmd[p] IN
    /\ Written("result", c)
    /\ pc[p] = "ackWait" => Written("ack", c)
    /\ pc[p] = "receipt" => Written("ack", c)
    /\ pc[p] = "final" => OnStandby("ack", c)
    /\ pc[p] \in {"final", "finalWait", "readFinal"} => seen[p] = ackPos[c] /\ Written("ack", c)
    /\ pc[p] = "finalWait" => Written("final", c)
    /\ pc[p] = "confirm" => OnStandby("ack", c) /\ OnStandby("final", c)

\* The new primary has no standby behind it, so nothing new is accepted there.
PromotedIsFrozen ==
  promoted =>
    /\ ~reachable
    /\ \A p \in Reconcilers : pc[p] \in {"idle", "read", "prove", "confirmRead"}
    /\ \A c \in Commands : Written("final", c) => OnStandby("final", c)

\* A confirmation is seen from the moment it is written, with its finalization.
ConfirmedIsFinal ==
  \A c \in Commands :
    /\ Written("conf", c) => c \in visible["conf"]
    /\ c \in visible["conf"] => c \in visible["final"]

\* What the rows say of each other, and what callers and a new primary know.
Evidence == WalBounds /\ EvidenceInOrder /\ PositionsMatch /\ ConfirmedIsFinal
Answers  == AcceptedSurvivesPrimaryLoss /\ AcceptedIsStable

\* The inductive invariant (relative to the types).
IInv == Evidence /\ StepsKnow /\ PromotedIsFrozen /\ Answers

-----------------------------------------------------------------------------
\* The types hold in every reachable state.
LEMMA TypesHold == Spec => []TypeInv
<1>1. Init => TypeInv
  <2> SUFFICES ASSUME Init PROVE TypeInv
    OBVIOUS
  <2>1. reachable \in BOOLEAN /\ promoted \in BOOLEAN
    BY Zenon DEF Init
  <2> QED BY <2>1 DEF Init, TypeInv, TypeOK, Steps
<1>2. TypeInv /\ [Next]_vars => TypeInv'
  <2> SUFFICES ASSUME TypeInv, [Next]_vars PROVE TypeInv'
    OBVIOUS
  <2>1. ASSUME NEW c \in Commands, CommitCommand(c) PROVE TypeInv'
    BY <2>1 DEF TypeInv, TypeOK, Kinds, Steps, CommitCommand, LogRow, nodeVars, localVars
  <2>2. ASSUME NEW c \in Commands, CommandVisible(c) PROVE TypeInv'
    BY <2>2 DEF TypeInv, TypeOK, Kinds, Steps, CommandVisible, Show, nodeVars, localVars
  <2>3. ASSUME Replay PROVE TypeInv'
    BY <2>3 DEF TypeInv, TypeOK, Kinds, Steps, Replay, walVars, localVars
  <2>4. ASSUME LoseStandby PROVE TypeInv'
    <3>1. reachable' \in BOOLEAN
      BY <2>4, Zenon DEF LoseStandby
    <3> QED BY <2>4, <3>1 DEF TypeInv, TypeOK, LoseStandby, walVars, localVars
  <2>5. ASSUME RestoreStandby PROVE TypeInv'
    BY <2>5 DEF TypeInv, TypeOK, Kinds, Steps, RestoreStandby, walVars, localVars
  <2>6. ASSUME Promote PROVE TypeInv'
    BY <2>6 DEF TypeInv, TypeOK, Kinds, Steps, Promote, Kinds
  <2>7. ASSUME NEW p \in Reconcilers, ReadPrimary(p) PROVE TypeInv'
    BY <2>7
      DEF TypeInv, TypeOK, Kinds, Steps, ReadPrimary, Goto, Accept, Rest, walVars,
          nodeVars
  <2>8. ASSUME NEW p \in Reconcilers, ProveCopy(p) PROVE TypeInv'
    BY <2>8
      DEF TypeInv, TypeOK, Kinds, Steps, ProveCopy, Goto, Pending, Rest, walVars, nodeVars
  <2>9. ASSUME NEW p \in Reconcilers, InsertAck(p) PROVE TypeInv'
    BY <2>9
      DEF TypeInv, TypeOK, Kinds, Steps, InsertAck, DrawPosition, Goto, LogRow, nodeVars
  <2>10. ASSUME NEW p \in Reconcilers, InsertAckFails(p) PROVE TypeInv'
    BY <2>10
      DEF TypeInv, TypeOK, Kinds, Steps, InsertAckFails, Pending, Rest, walVars, nodeVars
  <2>11. ASSUME NEW p \in Reconcilers, AckCommitted(p) PROVE TypeInv'
    BY <2>11
      DEF TypeInv, TypeOK, Kinds, Steps, AckCommitted, Goto, Show, Pending, Rest, nodeVars
  <2>12. ASSUME NEW p \in Reconcilers, ReadReceipt(p) PROVE TypeInv'
    BY <2>12
      DEF TypeInv, TypeOK, Kinds, Steps, ReadReceipt, Goto, Pending, Rest, walVars,
          nodeVars
  <2>13. ASSUME NEW p \in Reconcilers, InsertFinalization(p) PROVE TypeInv'
    BY <2>13 DEF TypeInv, TypeOK, Kinds, Steps, InsertFinalization, Goto, LogRow, nodeVars
  <2>14. ASSUME NEW p \in Reconcilers, InsertFinalizationFails(p) PROVE TypeInv'
    BY <2>14
      DEF TypeInv, TypeOK, Kinds, Steps, InsertFinalizationFails, Goto, walVars, nodeVars
  <2>15. ASSUME NEW p \in Reconcilers, FinalizationCommitted(p) PROVE TypeInv'
    BY <2>15
      DEF TypeInv, TypeOK, Kinds, Steps, FinalizationCommitted, Goto, Show, nodeVars
  <2>16. ASSUME NEW p \in Reconcilers, ReadFinalization(p) PROVE TypeInv'
    BY <2>16
      DEF TypeInv, TypeOK, Kinds, Steps, ReadFinalization, ReplayedFinalization, Goto,
          Pending, Rest, walVars, nodeVars
  <2>17. ASSUME NEW p \in Reconcilers, StoreConfirmation(p) PROVE TypeInv'
    BY <2>17
      DEF TypeInv, TypeOK, Kinds, Steps, StoreConfirmation, LogRow, Show, Accept, Rest,
          nodeVars
  <2>18. ASSUME NEW p \in Reconcilers, StoreConfirmationFails(p) PROVE TypeInv'
    BY <2>18
      DEF TypeInv, TypeOK, Kinds, Steps, StoreConfirmationFails, LogRow, Show, Pending,
          Rest, nodeVars
  <2>19. ASSUME NEW p \in Reconcilers, NEW c \in Commands, Start(p, c) PROVE TypeInv'
    BY <2>19 DEF TypeInv, TypeOK, Kinds, Steps, Start, walVars, nodeVars
  <2>20. CASE UNCHANGED vars
    BY <2>20 DEF TypeInv, TypeOK, vars
  <2> QED BY <2>1, <2>2, <2>3, <2>4, <2>5, <2>6, <2>7, <2>8, <2>9, <2>10, <2>11, <2>12,
        <2>13, <2>14, <2>15, <2>16, <2>17, <2>18, <2>19, <2>20
    DEF Next, ReconcileStep
<1> QED BY <1>1, <1>2, PTL DEF Spec

-----------------------------------------------------------------------------
\* Every step keeps the invariant, one case per action and per conjunct.
LEMMA Inductive == TypeInv /\ TypeInv' /\ IInv /\ [Next]_vars => IInv'
<1> SUFFICES ASSUME TypeInv, TypeInv', IInv, [Next]_vars PROVE IInv'
  OBVIOUS
<1>1. ASSUME NEW c \in Commands, CommitCommand(c) PROVE IInv'
  <2>1. Evidence'
    BY <1>1
      DEF IInv, Evidence, TypeInv, TypeOK, Kinds, CommitCommand, LogRow, nodeVars,
          localVars, WalBounds, EvidenceInOrder, PositionsMatch, ConfirmedIsFinal,
          StepsKnow, Written, OnStandby
  <2>2. StepsKnow'
    BY <1>1
      DEF IInv, Evidence, TypeInv, TypeOK, Kinds, CommitCommand, LogRow, nodeVars,
          localVars, WalBounds, StepsKnow, Written, OnStandby
  <2>3. PromotedIsFrozen'
    BY <1>1
      DEF IInv, Evidence, TypeInv, TypeOK, Kinds, CommitCommand, LogRow, nodeVars,
          localVars, PromotedIsFrozen, Written, OnStandby
  <2>4. Answers'
    BY <1>1
      DEF IInv, Evidence, Answers, TypeInv, TypeOK, Kinds, CommitCommand, LogRow,
          nodeVars, localVars, WalBounds, ConfirmedIsFinal, AcceptedSurvivesPrimaryLoss,
          AcceptedIsStable, KnownAccepted, Written, OnStandby
  <2> QED BY <2>1, <2>2, <2>3, <2>4 DEF IInv
<1>2. ASSUME NEW c \in Commands, CommandVisible(c) PROVE IInv'
  <2>1. Evidence'
    BY <1>2
      DEF IInv, Evidence, TypeInv, TypeOK, Kinds, CommandVisible, Show, nodeVars,
          localVars, WalBounds, EvidenceInOrder, PositionsMatch, ConfirmedIsFinal,
          StepsKnow, Written, OnStandby
  <2>2. StepsKnow'
    BY <1>2
      DEF IInv, Evidence, TypeInv, TypeOK, Kinds, CommandVisible, Show, nodeVars,
          localVars, WalBounds, StepsKnow, Written, OnStandby
  <2>3. PromotedIsFrozen'
    BY <1>2
      DEF IInv, Evidence, TypeInv, TypeOK, Kinds, CommandVisible, Show, nodeVars,
          localVars, PromotedIsFrozen, Written, OnStandby
  <2>4. Answers'
    BY <1>2
      DEF IInv, Evidence, Answers, TypeInv, TypeOK, Kinds, CommandVisible, Show, nodeVars,
          localVars, WalBounds, ConfirmedIsFinal, AcceptedSurvivesPrimaryLoss,
          AcceptedIsStable, KnownAccepted, Written, OnStandby
  <2> QED BY <2>1, <2>2, <2>3, <2>4 DEF IInv
<1>3. ASSUME Replay PROVE IInv'
  <2>1. Evidence'
    BY <1>3
      DEF IInv, Evidence, TypeInv, TypeOK, Kinds, Replay, walVars, localVars, WalBounds,
          EvidenceInOrder, PositionsMatch, ConfirmedIsFinal, StepsKnow, Written, OnStandby
  <2>2. StepsKnow'
    BY <1>3
      DEF IInv, Evidence, TypeInv, TypeOK, Kinds, Replay, walVars, localVars, WalBounds,
          StepsKnow, Written, OnStandby
  <2>3. PromotedIsFrozen'
    BY <1>3
      DEF IInv, Evidence, TypeInv, TypeOK, Kinds, Replay, walVars, localVars,
          PromotedIsFrozen, Written, OnStandby
  <2>4. Answers'
    BY <1>3
      DEF IInv, Evidence, Answers, TypeInv, TypeOK, Kinds, Replay, walVars, localVars,
          WalBounds, ConfirmedIsFinal, AcceptedSurvivesPrimaryLoss, AcceptedIsStable,
          KnownAccepted, Written, OnStandby
  <2> QED BY <2>1, <2>2, <2>3, <2>4 DEF IInv
<1>4. ASSUME LoseStandby PROVE IInv'
  <2>1. Evidence'
    BY <1>4
      DEF IInv, Evidence, TypeInv, TypeOK, Kinds, LoseStandby, walVars, localVars,
          WalBounds, EvidenceInOrder, PositionsMatch, ConfirmedIsFinal, StepsKnow,
          Written, OnStandby
  <2>2. StepsKnow'
    BY <1>4
      DEF IInv, Evidence, TypeInv, TypeOK, Kinds, LoseStandby, walVars, localVars,
          WalBounds, StepsKnow, Written, OnStandby
  <2>3. PromotedIsFrozen'
    BY <1>4
      DEF IInv, Evidence, TypeInv, TypeOK, Kinds, LoseStandby, walVars, localVars,
          PromotedIsFrozen, Written, OnStandby
  <2>4. Answers'
    BY <1>4
      DEF IInv, Evidence, Answers, TypeInv, TypeOK, Kinds, LoseStandby, walVars,
          localVars, WalBounds, ConfirmedIsFinal, AcceptedSurvivesPrimaryLoss,
          AcceptedIsStable, KnownAccepted, Written, OnStandby
  <2> QED BY <2>1, <2>2, <2>3, <2>4 DEF IInv
<1>5. ASSUME RestoreStandby PROVE IInv'
  <2>1. Evidence'
    BY <1>5
      DEF IInv, Evidence, TypeInv, TypeOK, Kinds, RestoreStandby, walVars, localVars,
          WalBounds, EvidenceInOrder, PositionsMatch, ConfirmedIsFinal, StepsKnow,
          Written, OnStandby
  <2>2. StepsKnow'
    BY <1>5
      DEF IInv, Evidence, TypeInv, TypeOK, Kinds, RestoreStandby, walVars, localVars,
          WalBounds, StepsKnow, Written, OnStandby
  <2>3. PromotedIsFrozen'
    BY <1>5
      DEF IInv, Evidence, TypeInv, TypeOK, Kinds, RestoreStandby, walVars, localVars,
          PromotedIsFrozen, Written, OnStandby
  <2>4. Answers'
    BY <1>5
      DEF IInv, Evidence, Answers, TypeInv, TypeOK, Kinds, RestoreStandby, walVars,
          localVars, WalBounds, ConfirmedIsFinal, AcceptedSurvivesPrimaryLoss,
          AcceptedIsStable, KnownAccepted, Written, OnStandby
  <2> QED BY <2>1, <2>2, <2>3, <2>4 DEF IInv
<1>6. ASSUME Promote PROVE IInv'
  <2>1. Evidence'
    BY <1>6
      DEF IInv, Evidence, TypeInv, TypeOK, Kinds, Promote, WalBounds, EvidenceInOrder,
          PositionsMatch, ConfirmedIsFinal, StepsKnow, Written, OnStandby
  <2>2. StepsKnow'
    BY <1>6
      DEF IInv, Evidence, TypeInv, TypeOK, Kinds, Promote, WalBounds, StepsKnow, Written,
          OnStandby
  <2>3. PromotedIsFrozen'
    BY <1>6
      DEF IInv, Evidence, TypeInv, TypeOK, Kinds, Promote, PromotedIsFrozen, Written,
          OnStandby
  <2>4. Answers'
    BY <1>6
      DEF IInv, Evidence, Answers, TypeInv, TypeOK, Kinds, Promote, WalBounds,
          ConfirmedIsFinal, AcceptedSurvivesPrimaryLoss, AcceptedIsStable, KnownAccepted,
          Written, OnStandby
  <2> QED BY <2>1, <2>2, <2>3, <2>4 DEF IInv
<1>7. ASSUME NEW p \in Reconcilers, NEW c \in Commands, Start(p, c) PROVE IInv'
  <2>1. Evidence'
    BY <1>7
      DEF IInv, Evidence, TypeInv, TypeOK, Kinds, Start, walVars, nodeVars, Selects,
          WalBounds, EvidenceInOrder, PositionsMatch, ConfirmedIsFinal, StepsKnow,
          Written, OnStandby
  <2>2. StepsKnow'
    BY <1>7
      DEF IInv, Evidence, TypeInv, TypeOK, Kinds, Start, walVars, nodeVars, Selects,
          WalBounds, StepsKnow, Written, OnStandby
  <2>3. PromotedIsFrozen'
    BY <1>7
      DEF IInv, Evidence, TypeInv, TypeOK, Kinds, Start, walVars, nodeVars, Selects,
          PromotedIsFrozen, Written, OnStandby
  <2>4. Answers'
    BY <1>7
      DEF IInv, Evidence, Answers, TypeInv, TypeOK, Kinds, Start, walVars, nodeVars,
          Selects, WalBounds, ConfirmedIsFinal, AcceptedSurvivesPrimaryLoss,
          AcceptedIsStable, KnownAccepted, Written, OnStandby
  <2> QED BY <2>1, <2>2, <2>3, <2>4 DEF IInv
<1>8. ASSUME NEW p \in Reconcilers, ReadPrimary(p) PROVE IInv'
  <2>1. Evidence'
    BY <1>8
      DEF IInv, Evidence, TypeInv, TypeOK, Kinds, ReadPrimary, Goto, Accept, Rest,
          walVars, nodeVars, WalBounds, EvidenceInOrder, PositionsMatch, ConfirmedIsFinal,
          StepsKnow, Written, OnStandby
  <2>2. StepsKnow'
    BY <1>8
      DEF IInv, Evidence, TypeInv, TypeOK, Kinds, ReadPrimary, Goto, Accept, Rest,
          walVars, nodeVars, WalBounds, StepsKnow, Written, OnStandby
  <2>3. PromotedIsFrozen'
    BY <1>8
      DEF IInv, Evidence, TypeInv, TypeOK, Kinds, ReadPrimary, Goto, Accept, Rest,
          walVars, nodeVars, PromotedIsFrozen, Written, OnStandby
  <2>4. Answers'
    BY <1>8
      DEF IInv, Evidence, Answers, TypeInv, TypeOK, Kinds, ReadPrimary, Goto, Accept,
          Rest, walVars, nodeVars, WalBounds, EvidenceInOrder, PositionsMatch,
          ConfirmedIsFinal, PromotedIsFrozen, AcceptedSurvivesPrimaryLoss,
          AcceptedIsStable, KnownAccepted, Written, OnStandby
  <2> QED BY <2>1, <2>2, <2>3, <2>4 DEF IInv
<1>9. ASSUME NEW p \in Reconcilers, ProveCopy(p) PROVE IInv'
  <2>1. Evidence'
    BY <1>9
      DEF IInv, Evidence, TypeInv, TypeOK, Kinds, ProveCopy, Goto, Pending, Rest, walVars,
          nodeVars, WalBounds, EvidenceInOrder, PositionsMatch, ConfirmedIsFinal,
          StepsKnow, Written, OnStandby
  <2>2. StepsKnow'
    BY <1>9
      DEF IInv, Evidence, TypeInv, TypeOK, Kinds, ProveCopy, Goto, Pending, Rest, walVars,
          nodeVars, WalBounds, StepsKnow, Written, OnStandby
  <2>3. PromotedIsFrozen'
    BY <1>9
      DEF IInv, Evidence, TypeInv, TypeOK, Kinds, ProveCopy, Goto, Pending, Rest, walVars,
          nodeVars, PromotedIsFrozen, Written, OnStandby
  <2>4. Answers'
    BY <1>9
      DEF IInv, Evidence, Answers, TypeInv, TypeOK, Kinds, ProveCopy, Goto, Pending, Rest,
          walVars, nodeVars, WalBounds, ConfirmedIsFinal, AcceptedSurvivesPrimaryLoss,
          AcceptedIsStable, KnownAccepted, Written, OnStandby
  <2> QED BY <2>1, <2>2, <2>3, <2>4 DEF IInv
<1>10. ASSUME NEW p \in Reconcilers, InsertAck(p) PROVE IInv'
  <2>1. Evidence'
    BY <1>10
      DEF IInv, Evidence, TypeInv, TypeOK, Kinds, InsertAck, Goto, LogRow, nodeVars,
          DrawPosition, WalBounds, EvidenceInOrder, PositionsMatch, ConfirmedIsFinal,
          StepsKnow, Written, OnStandby
  <2>2. StepsKnow'
    BY <1>10
      DEF IInv, Evidence, TypeInv, TypeOK, Kinds, InsertAck, Goto, LogRow, nodeVars,
          DrawPosition, WalBounds, StepsKnow, Written, OnStandby
  <2>3. PromotedIsFrozen'
    BY <1>10
      DEF IInv, Evidence, TypeInv, TypeOK, Kinds, InsertAck, Goto, LogRow, nodeVars,
          DrawPosition, PromotedIsFrozen, Written, OnStandby
  <2>4. Answers'
    BY <1>10
      DEF IInv, Evidence, Answers, TypeInv, TypeOK, Kinds, InsertAck, Goto, LogRow,
          nodeVars, DrawPosition, WalBounds, ConfirmedIsFinal,
          AcceptedSurvivesPrimaryLoss, AcceptedIsStable, KnownAccepted, Written, OnStandby
  <2> QED BY <2>1, <2>2, <2>3, <2>4 DEF IInv
<1>11. ASSUME NEW p \in Reconcilers, InsertAckFails(p) PROVE IInv'
  <2>1. Evidence'
    BY <1>11
      DEF IInv, Evidence, TypeInv, TypeOK, Kinds, InsertAckFails, Pending, Rest, walVars,
          nodeVars, WalBounds, EvidenceInOrder, PositionsMatch, ConfirmedIsFinal,
          StepsKnow, Written, OnStandby
  <2>2. StepsKnow'
    BY <1>11
      DEF IInv, Evidence, TypeInv, TypeOK, Kinds, InsertAckFails, Pending, Rest, walVars,
          nodeVars, WalBounds, StepsKnow, Written, OnStandby
  <2>3. PromotedIsFrozen'
    BY <1>11
      DEF IInv, Evidence, TypeInv, TypeOK, Kinds, InsertAckFails, Pending, Rest, walVars,
          nodeVars, PromotedIsFrozen, Written, OnStandby
  <2>4. Answers'
    BY <1>11
      DEF IInv, Evidence, Answers, TypeInv, TypeOK, Kinds, InsertAckFails, Pending, Rest,
          walVars, nodeVars, WalBounds, ConfirmedIsFinal, AcceptedSurvivesPrimaryLoss,
          AcceptedIsStable, KnownAccepted, Written, OnStandby
  <2> QED BY <2>1, <2>2, <2>3, <2>4 DEF IInv
<1>12. ASSUME NEW p \in Reconcilers, AckCommitted(p) PROVE IInv'
  <2>1. Evidence'
    BY <1>12
      DEF IInv, Evidence, TypeInv, TypeOK, Kinds, AckCommitted, Goto, Show, Pending, Rest,
          nodeVars, WalBounds, EvidenceInOrder, PositionsMatch, ConfirmedIsFinal,
          StepsKnow, Written, OnStandby
  <2>2. StepsKnow'
    BY <1>12
      DEF IInv, Evidence, TypeInv, TypeOK, Kinds, AckCommitted, Goto, Show, Pending, Rest,
          nodeVars, WalBounds, StepsKnow, Written, OnStandby
  <2>3. PromotedIsFrozen'
    BY <1>12
      DEF IInv, Evidence, TypeInv, TypeOK, Kinds, AckCommitted, Goto, Show, Pending, Rest,
          nodeVars, PromotedIsFrozen, Written, OnStandby
  <2>4. Answers'
    BY <1>12
      DEF IInv, Evidence, Answers, TypeInv, TypeOK, Kinds, AckCommitted, Goto, Show,
          Pending, Rest, nodeVars, WalBounds, ConfirmedIsFinal,
          AcceptedSurvivesPrimaryLoss, AcceptedIsStable, KnownAccepted, Written, OnStandby
  <2> QED BY <2>1, <2>2, <2>3, <2>4 DEF IInv
<1>13. ASSUME NEW p \in Reconcilers, ReadReceipt(p) PROVE IInv'
  <2>1. Evidence'
    BY <1>13
      DEF IInv, Evidence, TypeInv, TypeOK, Kinds, ReadReceipt, Goto, Pending, Rest,
          walVars, nodeVars, WalBounds, EvidenceInOrder, PositionsMatch, ConfirmedIsFinal,
          StepsKnow, Written, OnStandby
  <2>2. StepsKnow'
    BY <1>13
      DEF IInv, Evidence, TypeInv, TypeOK, Kinds, ReadReceipt, Goto, Pending, Rest,
          walVars, nodeVars, WalBounds, StepsKnow, Written, OnStandby
  <2>3. PromotedIsFrozen'
    BY <1>13
      DEF IInv, Evidence, TypeInv, TypeOK, Kinds, ReadReceipt, Goto, Pending, Rest,
          walVars, nodeVars, PromotedIsFrozen, Written, OnStandby
  <2>4. Answers'
    BY <1>13
      DEF IInv, Evidence, Answers, TypeInv, TypeOK, Kinds, ReadReceipt, Goto, Pending,
          Rest, walVars, nodeVars, WalBounds, ConfirmedIsFinal,
          AcceptedSurvivesPrimaryLoss, AcceptedIsStable, KnownAccepted, Written, OnStandby
  <2> QED BY <2>1, <2>2, <2>3, <2>4 DEF IInv
<1>14. ASSUME NEW p \in Reconcilers, InsertFinalization(p) PROVE IInv'
  <2>1. Evidence'
    BY <1>14
      DEF IInv, Evidence, TypeInv, TypeOK, Kinds, InsertFinalization, Goto, LogRow,
          nodeVars, WalBounds, EvidenceInOrder, PositionsMatch, ConfirmedIsFinal,
          StepsKnow, Written, OnStandby
  <2>2. StepsKnow'
    BY <1>14
      DEF IInv, Evidence, TypeInv, TypeOK, Kinds, InsertFinalization, Goto, LogRow,
          nodeVars, WalBounds, StepsKnow, Written, OnStandby
  <2>3. PromotedIsFrozen'
    BY <1>14
      DEF IInv, Evidence, TypeInv, TypeOK, Kinds, InsertFinalization, Goto, LogRow,
          nodeVars, PromotedIsFrozen, Written, OnStandby
  <2>4. Answers'
    BY <1>14
      DEF IInv, Evidence, Answers, TypeInv, TypeOK, Kinds, InsertFinalization, Goto,
          LogRow, nodeVars, WalBounds, ConfirmedIsFinal, AcceptedSurvivesPrimaryLoss,
          AcceptedIsStable, KnownAccepted, Written, OnStandby
  <2> QED BY <2>1, <2>2, <2>3, <2>4 DEF IInv
<1>15. ASSUME NEW p \in Reconcilers, InsertFinalizationFails(p) PROVE IInv'
  <2>1. Evidence'
    BY <1>15
      DEF IInv, Evidence, TypeInv, TypeOK, Kinds, InsertFinalizationFails, Goto, walVars,
          nodeVars, WalBounds, EvidenceInOrder, PositionsMatch, ConfirmedIsFinal,
          StepsKnow, Written, OnStandby
  <2>2. StepsKnow'
    BY <1>15
      DEF IInv, Evidence, TypeInv, TypeOK, Kinds, InsertFinalizationFails, Goto, walVars,
          nodeVars, WalBounds, StepsKnow, Written, OnStandby
  <2>3. PromotedIsFrozen'
    BY <1>15
      DEF IInv, Evidence, TypeInv, TypeOK, Kinds, InsertFinalizationFails, Goto, walVars,
          nodeVars, PromotedIsFrozen, Written, OnStandby
  <2>4. Answers'
    BY <1>15
      DEF IInv, Evidence, Answers, TypeInv, TypeOK, Kinds, InsertFinalizationFails, Goto,
          walVars, nodeVars, WalBounds, ConfirmedIsFinal, AcceptedSurvivesPrimaryLoss,
          AcceptedIsStable, KnownAccepted, Written, OnStandby
  <2> QED BY <2>1, <2>2, <2>3, <2>4 DEF IInv
<1>16. ASSUME NEW p \in Reconcilers, FinalizationCommitted(p) PROVE IInv'
  <2>1. Evidence'
    BY <1>16
      DEF IInv, Evidence, TypeInv, TypeOK, Kinds, FinalizationCommitted, Goto, Show,
          nodeVars, WalBounds, EvidenceInOrder, PositionsMatch, ConfirmedIsFinal,
          StepsKnow, Written, OnStandby
  <2>2. StepsKnow'
    BY <1>16
      DEF IInv, Evidence, TypeInv, TypeOK, Kinds, FinalizationCommitted, Goto, Show,
          nodeVars, WalBounds, StepsKnow, Written, OnStandby
  <2>3. PromotedIsFrozen'
    BY <1>16
      DEF IInv, Evidence, TypeInv, TypeOK, Kinds, FinalizationCommitted, Goto, Show,
          nodeVars, PromotedIsFrozen, Written, OnStandby
  <2>4. Answers'
    BY <1>16
      DEF IInv, Evidence, Answers, TypeInv, TypeOK, Kinds, FinalizationCommitted, Goto,
          Show, nodeVars, WalBounds, ConfirmedIsFinal, AcceptedSurvivesPrimaryLoss,
          AcceptedIsStable, KnownAccepted, Written, OnStandby
  <2> QED BY <2>1, <2>2, <2>3, <2>4 DEF IInv
<1>17. ASSUME NEW p \in Reconcilers, ReadFinalization(p) PROVE IInv'
  <2>1. Evidence'
    BY <1>17
      DEF IInv, Evidence, TypeInv, TypeOK, Kinds, ReadFinalization, Goto, Pending, Rest,
          walVars, nodeVars, ReplayedFinalization, WalBounds, EvidenceInOrder,
          PositionsMatch, ConfirmedIsFinal, StepsKnow, Written, OnStandby
  <2>2. StepsKnow'
    BY <1>17
      DEF IInv, Evidence, TypeInv, TypeOK, Kinds, ReadFinalization, Goto, Pending, Rest,
          walVars, nodeVars, ReplayedFinalization, WalBounds, StepsKnow, Written,
          OnStandby
  <2>3. PromotedIsFrozen'
    BY <1>17
      DEF IInv, Evidence, TypeInv, TypeOK, Kinds, ReadFinalization, Goto, Pending, Rest,
          walVars, nodeVars, ReplayedFinalization, PromotedIsFrozen, Written, OnStandby
  <2>4. Answers'
    BY <1>17
      DEF IInv, Evidence, Answers, TypeInv, TypeOK, Kinds, ReadFinalization, Goto,
          Pending, Rest, walVars, nodeVars, ReplayedFinalization, WalBounds,
          ConfirmedIsFinal, AcceptedSurvivesPrimaryLoss, AcceptedIsStable, KnownAccepted,
          Written, OnStandby
  <2> QED BY <2>1, <2>2, <2>3, <2>4 DEF IInv
<1>18. ASSUME NEW p \in Reconcilers, StoreConfirmation(p) PROVE IInv'
  <2>1. Evidence'
    BY <1>18
      DEF IInv, Evidence, TypeInv, TypeOK, Kinds, StoreConfirmation, LogRow, Show, Accept,
          Rest, nodeVars, WalBounds, EvidenceInOrder, PositionsMatch, ConfirmedIsFinal,
          StepsKnow, Written, OnStandby
  <2>2. StepsKnow'
    BY <1>18
      DEF IInv, Evidence, TypeInv, TypeOK, Kinds, StoreConfirmation, LogRow, Show, Accept,
          Rest, nodeVars, WalBounds, StepsKnow, Written, OnStandby
  <2>3. PromotedIsFrozen'
    BY <1>18
      DEF IInv, Evidence, TypeInv, TypeOK, Kinds, StoreConfirmation, LogRow, Show, Accept,
          Rest, nodeVars, PromotedIsFrozen, Written, OnStandby
  <2>4. Answers'
    <3> DEFINE c == cmd[p]
    <3>1. c \in Commands
      BY <1>18 DEF StoreConfirmation, TypeInv
    <3>2. OnStandby("result", c) /\ OnStandby("ack", c) /\ OnStandby("final", c)
      BY <1>18, <3>1
         DEF IInv, Evidence, EvidenceInOrder, WalBounds, StepsKnow, StoreConfirmation, Written,
             OnStandby, TypeInv, TypeOK, Kinds
    <3>3. \A k \in Kinds, d \in Commands : OnStandby(k, d) => OnStandby(k, d)'
      BY <1>18, <3>1
         DEF StoreConfirmation, LogRow, nodeVars, Written, OnStandby, TypeInv, TypeOK, Kinds
    <3>4. AcceptedSurvivesPrimaryLoss'
      BY <1>18, <3>1, <3>2, <3>3
         DEF IInv, Answers, AcceptedSurvivesPrimaryLoss, StoreConfirmation, Show, Accept, TypeInv,
             TypeOK, Kinds
    <3>5. /\ c \in visible'["final"] /\ c \in visible'["conf"] /\ finPos[c] = ackPos[c]
          /\ \A d \in Commands : d # c => (KnownAccepted(d) => KnownAccepted(d)')
      BY <1>18, <3>1, <3>2
         DEF IInv, Evidence, PositionsMatch, ConfirmedIsFinal, StoreConfirmation, Show, nodeVars,
             KnownAccepted, Written, OnStandby, TypeInv, TypeOK, Kinds
    <3>6. accepted' = [accepted EXCEPT ![c] = @ \cup {finPos[c]}]
          /\ finPos' = finPos /\ ackPos' = ackPos
      BY <1>18 DEF StoreConfirmation, Accept
    <3>7. AcceptedIsStable'
      BY <3>1, <3>5, <3>6
         DEF IInv, Answers, AcceptedIsStable, KnownAccepted, TypeInv, TypeOK
    <3> QED BY <3>4, <3>7 DEF Answers
  <2> QED BY <2>1, <2>2, <2>3, <2>4 DEF IInv
<1>19. ASSUME NEW p \in Reconcilers, StoreConfirmationFails(p) PROVE IInv'
  <2>1. Evidence'
    BY <1>19
      DEF IInv, Evidence, TypeInv, TypeOK, Kinds, StoreConfirmationFails, LogRow, Show,
          Pending, Rest, nodeVars, WalBounds, EvidenceInOrder, PositionsMatch,
          ConfirmedIsFinal, StepsKnow, Written, OnStandby
  <2>2. StepsKnow'
    BY <1>19
      DEF IInv, Evidence, TypeInv, TypeOK, Kinds, StoreConfirmationFails, LogRow, Show,
          Pending, Rest, nodeVars, WalBounds, StepsKnow, Written, OnStandby
  <2>3. PromotedIsFrozen'
    BY <1>19
      DEF IInv, Evidence, TypeInv, TypeOK, Kinds, StoreConfirmationFails, LogRow, Show,
          Pending, Rest, nodeVars, PromotedIsFrozen, Written, OnStandby
  <2>4. Answers'
    BY <1>19
      DEF IInv, Evidence, Answers, TypeInv, TypeOK, Kinds, StoreConfirmationFails, LogRow,
          Show, Pending, Rest, nodeVars, WalBounds, EvidenceInOrder, PositionsMatch,
          ConfirmedIsFinal, StepsKnow, AcceptedSurvivesPrimaryLoss, AcceptedIsStable,
          KnownAccepted, Written, OnStandby
  <2> QED BY <2>1, <2>2, <2>3, <2>4 DEF IInv
<1>20. CASE UNCHANGED vars
  BY <1>20
    DEF vars, IInv, Evidence, WalBounds, EvidenceInOrder, PositionsMatch,
        ConfirmedIsFinal, Written, OnStandby, StepsKnow, PromotedIsFrozen, Answers,
        AcceptedSurvivesPrimaryLoss, AcceptedIsStable, KnownAccepted, Written, OnStandby
<1> QED BY <1>1, <1>2, <1>3, <1>4, <1>5, <1>6, <1>7, <1>8, <1>9, <1>10, <1>11, <1>12,
      <1>13, <1>14, <1>15, <1>16, <1>17, <1>18, <1>19, <1>20
  DEF Next, ReconcileStep

-----------------------------------------------------------------------------
\* Before anything is written there is nothing to lose.
LEMMA Initially == Init => IInv
BY DEF Init, IInv, Evidence, WalBounds, EvidenceInOrder, PositionsMatch, ConfirmedIsFinal,
       StepsKnow, PromotedIsFrozen, Answers, AcceptedSurvivesPrimaryLoss,
       AcceptedIsStable, KnownAccepted, Written, OnStandby, Kinds

\* The inductive invariant holds in every reachable state.
LEMMA InvariantHolds == Spec => []IInv
<1>1. TypeInv /\ TypeInv' /\ IInv /\ [Next]_vars => IInv'
  BY Inductive
<1> QED BY Initially, TypesHold, <1>1, PTL DEF Spec

\* The registers, rows and answers of the protocol stay in their types.
THEOREM TypeCorrect == Spec => []TypeOK
<1>1. TypeInv => TypeOK
  BY DEF TypeInv
<1> QED BY TypesHold, <1>1, PTL

\* At every moment at which the primary could be lost, the named standby holds
\* the whole evidence of every command that was answered accepted or confirmed.
THEOREM AcceptedIsNeverLost == Spec => []AcceptedSurvivesPrimaryLoss
<1>1. IInv => AcceptedSurvivesPrimaryLoss
  BY DEF IInv, Answers
<1> QED BY InvariantHolds, <1>1, PTL

\* reconcile_durability, called again after an accepted answer, answers
\* accepted at the same position from the primary alone, or from the promoted
\* standby.
THEOREM AnswersAreStable == Spec => []AcceptedIsStable
<1>1. IInv => AcceptedIsStable
  BY DEF IInv, Answers
<1> QED BY InvariantHolds, <1>1, PTL

\* The acknowledgement follows the result in the WAL, the finalization follows
\* the acknowledgement, and the confirmation follows the finalization.
THEOREM EvidenceIsOrdered == Spec => []EvidenceInOrder
<1>1. IInv => EvidenceInOrder
  BY DEF IInv, Evidence
<1> QED BY InvariantHolds, <1>1, PTL

-----------------------------------------------------------------------------
(* The refinement.  A caller's answer repeats the position of the receipt, so *)
(* that no two commands share a position needs the identity column behind the *)
(* receipts: every one of them has a number below the next, and its own.      *)

PositionsDrawn ==
  /\ \A c \in Commands : Written("ack", c) => ackPos[c] < nextPos
  /\ \A c, d \in Commands :
       Written("ack", c) /\ Written("ack", d) /\ ackPos[c] = ackPos[d] => c = d

\* The receipts keep their numbers: only InsertAck draws one, and a promotion
\* leaves out the receipts that the standby does not have.
LEMMA PositionsStay == TypeInv /\ PositionsDrawn /\ [Next]_vars => PositionsDrawn'
<1> SUFFICES ASSUME TypeInv, PositionsDrawn, [Next]_vars PROVE PositionsDrawn'
  OBVIOUS
<1>1. "ack" \in Kinds
  BY DEF Kinds
<1>2. ASSUME UNCHANGED <<ackPos, nextPos>>, \A c \in Commands : lsn'["ack"][c] = lsn["ack"][c]
      PROVE  PositionsDrawn'
  BY <1>2 DEF PositionsDrawn, Written
<1>3. ASSUME NEW c \in Commands, CommitCommand(c) PROVE PositionsDrawn'
  BY <1>2, <1>3 DEF CommitCommand, LogRow, TypeInv, TypeOK, Kinds
<1>4. ASSUME NEW c \in Commands, CommandVisible(c) PROVE PositionsDrawn'
  BY <1>2, <1>4 DEF CommandVisible
<1>5. CASE Replay \/ LoseStandby \/ RestoreStandby
  BY <1>2, <1>5 DEF Replay, LoseStandby, RestoreStandby, walVars
<1>6. CASE Promote
  <2>1. \A c \in Commands : Written("ack", c)' => /\ Written("ack", c)
                                                   /\ ackPos'[c] = ackPos[c]
    BY <1>1, <1>6 DEF Promote, Written, OnStandby
  <2>2. nextPos' = nextPos
    BY <1>6 DEF Promote
  <2> QED BY <2>1, <2>2 DEF PositionsDrawn
<1>7. ASSUME NEW p \in Reconcilers, NEW c \in Commands, Start(p, c) PROVE PositionsDrawn'
  BY <1>2, <1>7 DEF Start, walVars
<1>8. ASSUME NEW p \in Reconcilers, InsertAck(p) PROVE PositionsDrawn'
  <2> DEFINE c == cmd[p]
  <2>1. CASE UNCHANGED <<lsn, walEnd, ackPos, nextPos>>
    BY <1>2, <2>1
  <2>2. CASE ~Written("ack", c) /\ LogRow("ack", c) /\ DrawPosition(c)
    <3>1. c \in Commands
      BY <1>8 DEF InsertAck, TypeInv
    <3>2. /\ ackPos' = [ackPos EXCEPT ![c] = nextPos] /\ nextPos' = nextPos + 1
          /\ lsn' = [lsn EXCEPT !["ack"][c] = walEnd + 1]
      BY <2>2 DEF DrawPosition, LogRow
    <3>3. \A d \in Commands : d # c => /\ ackPos'[d] = ackPos[d]
                                       /\ Written("ack", d)' = Written("ack", d)
      BY <1>1, <3>1, <3>2 DEF Written, TypeInv, TypeOK
    <3>4. ackPos'[c] = nextPos /\ nextPos \in Nat /\ \A d \in Commands : ackPos[d] \in Nat
      BY <3>1, <3>2 DEF TypeInv, TypeOK
    <3> QED BY <3>1, <3>2, <3>3, <3>4 DEF PositionsDrawn
  <2> QED BY <1>8, <2>1, <2>2 DEF InsertAck
<1>9. ASSUME NEW p \in Reconcilers, InsertFinalization(p) PROVE PositionsDrawn'
  BY <1>2, <1>9 DEF InsertFinalization, LogRow, TypeInv, TypeOK, Kinds
<1>10. ASSUME NEW p \in Reconcilers, StoreConfirmation(p) PROVE PositionsDrawn'
  BY <1>2, <1>10 DEF StoreConfirmation, LogRow, TypeInv, TypeOK, Kinds
<1>11. ASSUME NEW p \in Reconcilers, StoreConfirmationFails(p) PROVE PositionsDrawn'
  BY <1>2, <1>11 DEF StoreConfirmationFails, LogRow, TypeInv, TypeOK, Kinds
<1>12. ASSUME NEW p \in Reconcilers,
              \/ ReadPrimary(p) \/ ProveCopy(p) \/ InsertAckFails(p) \/ AckCommitted(p)
              \/ ReadReceipt(p) \/ InsertFinalizationFails(p) \/ FinalizationCommitted(p)
              \/ ReadFinalization(p)
       PROVE  PositionsDrawn'
  BY <1>2, <1>12
     DEF ReadPrimary, ProveCopy, InsertAckFails, AckCommitted, ReadReceipt,
         InsertFinalizationFails, FinalizationCommitted, ReadFinalization, walVars
<1>13. CASE UNCHANGED vars
  BY <1>2, <1>13 DEF vars
<1> QED BY <1>3, <1>4, <1>5, <1>6, <1>7, <1>8, <1>9, <1>10, <1>11, <1>12, <1>13
        DEF Next, ReconcileStep

\* Every position that stands for a receipt was drawn for it alone.
LEMMA PositionsHold == Spec => []PositionsDrawn
<1>1. Init => PositionsDrawn
  BY DEF Init, PositionsDrawn, Written, Kinds
<1> QED BY <1>1, TypesHold, PositionsStay, PTL DEF Spec

\* A step answers one caller at most, and takes no earlier answer back.
LEMMA OneAnswer ==
  ASSUME TypeInv, [Next]_vars
  PROVE  \/ accepted' = accepted
         \/ \E c \in Commands, n \in Nat : accepted' = [accepted EXCEPT ![c] = @ \cup {n}]
<1>1. ASSUME NEW p \in Reconcilers, Accept(p), cmd[p] \in Commands
      PROVE  \E c \in Commands, n \in Nat : accepted' = [accepted EXCEPT ![c] = @ \cup {n}]
  BY <1>1 DEF Accept, TypeInv, TypeOK
<1>2. ASSUME NEW p \in Reconcilers, ReadPrimary(p) \/ StoreConfirmation(p)
      PROVE  accepted' = accepted \/ (Accept(p) /\ cmd[p] \in Commands)
  BY <1>2 DEF ReadPrimary, StoreConfirmation, Goto, TypeInv
<1>3. ASSUME NEW p \in Reconcilers,
             \/ ProveCopy(p) \/ InsertAck(p) \/ InsertAckFails(p) \/ AckCommitted(p)
             \/ ReadReceipt(p) \/ InsertFinalization(p) \/ InsertFinalizationFails(p)
             \/ FinalizationCommitted(p) \/ ReadFinalization(p) \/ StoreConfirmationFails(p)
      PROVE  accepted' = accepted
  BY <1>3 DEF ProveCopy, InsertAck, InsertAckFails, AckCommitted, ReadReceipt,
              InsertFinalization, InsertFinalizationFails, FinalizationCommitted,
              ReadFinalization, StoreConfirmationFails, Goto, Pending
<1>4. ASSUME NEW c \in Commands,
             CommitCommand(c) \/ CommandVisible(c) \/ \E p \in Reconcilers : Start(p, c)
      PROVE  accepted' = accepted
  BY <1>4 DEF CommitCommand, CommandVisible, Start
<1>5. CASE Replay \/ LoseStandby \/ RestoreStandby \/ Promote
  BY <1>5 DEF Replay, LoseStandby, RestoreStandby, Promote
<1>6. CASE UNCHANGED vars
  BY <1>6 DEF vars
<1> QED BY <1>1, <1>2, <1>3, <1>4, <1>5, <1>6 DEF Next, ReconcileStep

\* A step of the protocol is a step of the authority or none for the callers.
LEMMA StepIsAuthorityStep ==
  TypeInv /\ TypeInv' /\ IInv /\ IInv' /\ PositionsDrawn' /\ [Next]_vars
    => [Authority!Next]_accepted
<1> SUFFICES ASSUME TypeInv, TypeInv', IInv, IInv', PositionsDrawn', [Next]_vars,
                    accepted' # accepted
             PROVE  Authority!Next
  OBVIOUS
<1>1. PICK c \in Commands, n \in Nat : accepted' = [accepted EXCEPT ![c] = @ \cup {n}]
  BY OneAnswer
<1>2. accepted \in [Commands -> SUBSET Nat]
  BY DEF TypeInv, TypeOK
<1>3. \A d \in Commands : accepted'[d] # {} =>      \* the answer is the receipt's position
        /\ accepted'[d] = {ackPos'[d]} /\ ackPos'[d] \in Nat \ {0} /\ Written("ack", d)'
  <2> SUFFICES ASSUME NEW d \in Commands, accepted'[d] # {}
               PROVE  /\ accepted'[d] = {ackPos'[d]} /\ ackPos'[d] \in Nat \ {0}
                      /\ Written("ack", d)'
    OBVIOUS
  <2>1. OnStandby("ack", d)' /\ OnStandby("final", d)' /\ accepted'[d] = {finPos'[d]}
    BY DEF IInv, Answers, AcceptedSurvivesPrimaryLoss, AcceptedIsStable
  <2> QED BY <2>1 DEF IInv, Evidence, PositionsMatch, OnStandby, TypeInv, TypeOK
<1>4. accepted'[c] = accepted[c] \cup {n}
  BY <1>1, <1>2
<1>5. accepted'[c] = {n} /\ ackPos'[c] = n /\ n # 0 /\ Written("ack", c)'
  BY <1>3, <1>4
<1>6. accepted[c] = {}
  <2>1. accepted[c] = {} \/ accepted[c] = {n}
    BY <1>4, <1>5
  <2>2. accepted[c] # {n}
    BY <1>1, <1>2, <1>4
  <2> QED BY <2>1, <2>2
<1>7. ASSUME NEW d \in Commands PROVE n \notin accepted[d]
  <2>1. CASE d = c
    BY <1>6, <2>1
  <2>2. CASE d # c
    <3>1. accepted'[d] = accepted[d]
      BY <1>1, <1>2, <2>2
    <3> QED BY <1>3, <1>5, <2>2, <3>1 DEF PositionsDrawn
  <2> QED BY <2>1, <2>2
<1>8. accepted' = [accepted EXCEPT ![c] = {n}]
  BY <1>1, <1>2, <1>6
<1>9. n \in accepted'[c] /\ n \in Nat \ {0}
  BY <1>5
<1> QED BY <1>6, <1>7, <1>8, <1>9 DEF Authority!Next, Authority!AcceptCommand

\* What callers are told through standby outages, concurrent reconciles, failed
\* statements and a promotion is what the abstract acceptance authority tells: one
\* position for each command, no position for two, and never another answer.
THEOREM ProtocolImplementsAuthority == Spec => ImplementsAuthority
<1>1. Init => Authority!Init
  BY DEF Init, Authority!Init
<1>2. TypeInv /\ TypeInv' /\ IInv /\ IInv' /\ PositionsDrawn' /\ [Next]_vars
        => [Authority!Next]_accepted
  BY StepIsAuthorityStep
<1> QED BY <1>1, <1>2, TypesHold, InvariantHolds, PositionsHold, PTL
        DEF Spec, ImplementsAuthority, Authority!Spec

-----------------------------------------------------------------------------
(* The Board.  What the consumer has in its registers comes from commands    *)
(* whose evidence the standby holds, and the standby never gives it up.      *)

Durable(c) == OnStandby("result", c) /\ OnStandby("ack", c) /\ OnStandby("final", c)

ConsumerHoldsDurable ==
  /\ board \in Seq(Consumer!Folds) /\ generation \in Nat
  /\ resetting # <<>> => resetting[1] \in 0..Len(board)
  /\ \A i \in DOMAIN board : Durable(board[i].event[1])
  /\ blocked # NoEvent => blocked \in Consumer!Events /\ Durable(blocked[1])
  /\ taken # <<>> => \/ taken[1].event = NoEvent
                     \/ taken[1].event \in Consumer!Events /\ Durable(taken[1].event[1])

\* What has been replayed stays replayed, also through a promotion: a row is
\* logged once, and the standby moves forward.
LEMMA StandbyKeeps ==
  ASSUME TypeInv, [Next]_vars, NEW k \in Kinds, NEW c \in Commands, OnStandby(k, c)
  PROVE  OnStandby(k, c)'
<1>1. ASSUME lsn'[k][c] = lsn[k][c], applied' \in Nat, applied <= applied'
      PROVE  OnStandby(k, c)'
  BY <1>1 DEF OnStandby, Written, TypeInv, TypeOK
<1>2. ASSUME NEW j \in Kinds, NEW d \in Commands, ~Written(j, d), LogRow(j, d), UNCHANGED applied
      PROVE  OnStandby(k, c)'
  BY <1>1, <1>2 DEF LogRow, OnStandby, Written, TypeInv, TypeOK
<1>3. ASSUME UNCHANGED <<lsn, applied>> PROVE OnStandby(k, c)'
  BY <1>3 DEF OnStandby, Written
<1>4. ASSUME NEW d \in Commands, CommitCommand(d) \/ CommandVisible(d) PROVE OnStandby(k, c)'
  BY <1>2, <1>3, <1>4 DEF CommitCommand, CommandVisible, nodeVars, Kinds
<1>5. CASE Replay
  BY <1>1, <1>5 DEF Replay, walVars, TypeInv, TypeOK
<1>6. CASE LoseStandby \/ RestoreStandby
  BY <1>3, <1>6 DEF LoseStandby, RestoreStandby, walVars
<1>7. CASE Promote
  BY <1>7 DEF Promote, OnStandby, Written, TypeInv, TypeOK
<1>8. ASSUME NEW p \in Reconcilers, NEW d \in Commands, Start(p, d) PROVE OnStandby(k, c)'
  BY <1>3, <1>8 DEF Start, walVars, nodeVars
<1>9. ASSUME NEW p \in Reconcilers, ReconcileStep(p) PROVE OnStandby(k, c)'
  <2>1. CASE ReadPrimary(p) \/ ProveCopy(p) \/ ReadReceipt(p) \/ ReadFinalization(p)
    BY <1>3, <2>1 DEF ReadPrimary, ProveCopy, ReadReceipt, ReadFinalization, walVars, nodeVars
  <2>2. CASE \/ InsertAckFails(p) \/ InsertFinalizationFails(p)
             \/ AckCommitted(p) \/ FinalizationCommitted(p)
    BY <1>3, <2>2 DEF InsertAckFails, InsertFinalizationFails, AckCommitted,
                      FinalizationCommitted, walVars, nodeVars
  <2>3. CASE InsertAck(p)
    BY <1>2, <1>3, <2>3 DEF InsertAck, nodeVars, Kinds, TypeInv
  <2>4. CASE InsertFinalization(p)
    BY <1>2, <1>3, <2>4 DEF InsertFinalization, nodeVars, Kinds, TypeInv
  <2>5. CASE StoreConfirmation(p)
    BY <1>2, <1>3, <2>5 DEF StoreConfirmation, nodeVars, Kinds, TypeInv
  <2>6. CASE StoreConfirmationFails(p)
    BY <1>2, <1>3, <2>6 DEF StoreConfirmationFails, nodeVars, Kinds, TypeInv
  <2> QED BY <1>9, <2>1, <2>2, <2>3, <2>4, <2>5, <2>6 DEF ReconcileStep
<1>10. CASE UNCHANGED vars
  BY <1>3, <1>10 DEF vars
<1> QED BY <1>4, <1>5, <1>6, <1>7, <1>8, <1>9, <1>10 DEF Next

\* A set of numbers that has a member has a least one.
LEMMA LeastNumber ==
  ASSUME NEW S \in SUBSET Nat, S # {}
  PROVE  \E n \in S : \A m \in S : n <= m
<1>1. PICK n \in S : \A m \in S : <<m, n>> \notin OpToRel(<, Nat)
  BY NatLessThanWellFounded, WFMin
<1>2. \A m \in S : ~(m < n)
  BY <1>1 DEF OpToRel
<1> QED BY <1>2

\* The confirmed commands have positions of their own.
LEMMA ConfirmedPositions ==
  ASSUME TypeInv, IInv, PositionsDrawn
  PROVE  /\ visible["conf"] \subseteq Commands
         /\ \A c \in visible["conf"] : finPos[c] \in Nat /\ Durable(c)
         /\ \A c, d \in visible["conf"] : finPos[c] = finPos[d] => c = d
<1>1. visible["conf"] \subseteq Commands /\ \A c \in Commands : finPos[c] \in Nat
  BY DEF TypeInv, TypeOK, Kinds
<1>2. \A c \in visible["conf"] : Durable(c)
  BY <1>1 DEF IInv, Answers, AcceptedSurvivesPrimaryLoss, Durable
<1>3. \A c \in visible["conf"] : Written("ack", c) /\ finPos[c] = ackPos[c]
  BY <1>1, <1>2 DEF Durable, OnStandby, IInv, Evidence, PositionsMatch
<1> QED BY <1>1, <1>2, <1>3 DEF PositionsDrawn

\* _next_message finds an event of a confirmed command.
LEMMA NextIsConfirmed ==
  ASSUME TypeInv, IInv, PositionsDrawn, Consumer!NextMessage # NoEvent
  PROVE  Consumer!NextMessage \in Consumer!Events /\ Durable(Consumer!NextMessage[1])
<1> DEFINE S == Consumer!Candidates({})
<1>1. /\ S # {}
      /\ Consumer!NextMessage = CHOOSE e \in S : \A f \in S \ {e} : Consumer!Before(e, f)
  BY DEF Consumer!NextMessage
<1>2. ASSUME NEW e \in S
      PROVE  /\ e \in Consumer!Events /\ e[1] \in visible["conf"] /\ e[2] \in Nat
             /\ e = <<e[1], e[2]>>
  <2>1. e \in Consumer!Events /\ e[1] \in visible["conf"]
    BY <1>2 DEF Consumer!Candidates, Consumer!Accepted
  <2>2. PICK c \in Commands : e \in {c} \X (1..EventCount[c])
    BY <2>1 DEF Consumer!Events
  <2>3. EventCount[c] \in Nat
    BY BoardAssumption
  <2> QED BY <2>1, <2>2, <2>3
<1> HIDE DEF S
<1>3. PICK n \in {finPos[e[1]] : e \in S} : \A m \in {finPos[e[1]] : e \in S} : n <= m
  <2>1. {finPos[e[1]] : e \in S} \in SUBSET Nat /\ {finPos[e[1]] : e \in S} # {}
    BY <1>1, <1>2, ConfirmedPositions
  <2> QED BY <2>1, LeastNumber
<1> DEFINE T == {e \in S : finPos[e[1]] = n}
<1>4. PICK k \in {e[2] : e \in T} : \A m \in {e[2] : e \in T} : k <= m
  <2>1. {e[2] : e \in T} \in SUBSET Nat /\ {e[2] : e \in T} # {}
    BY <1>2, <1>3
  <2> QED BY <2>1, LeastNumber
<1>5. PICK e \in T : e[2] = k
  BY <1>4
<1>6. ASSUME NEW f \in S \ {e}
      PROVE  Consumer!Before(e, f)
  <2>1. /\ finPos[e[1]] <= finPos[f[1]] /\ finPos[e[1]] \in Nat /\ finPos[f[1]] \in Nat
        /\ finPos[e[1]] = finPos[f[1]] => e[1] = f[1]
    BY <1>2, <1>3, <1>5, ConfirmedPositions
  <2>2. CASE finPos[f[1]] = finPos[e[1]]
    <3>1. f[1] = e[1] /\ e[2] <= f[2]
      BY <1>4, <1>5, <2>1, <2>2
    <3>2. e[2] # f[2]
      BY <1>2, <3>1
    <3> QED BY <1>2, <3>1, <3>2 DEF Consumer!Before
  <2>3. CASE finPos[f[1]] # finPos[e[1]]
    BY <2>1, <2>3 DEF Consumer!Before, Consumer!Position
  <2> QED BY <2>2, <2>3
<1>7. Consumer!NextMessage \in S
  BY <1>1, <1>5, <1>6
<1> QED BY <1>2, <1>7, ConfirmedPositions

\* The consumer takes from the confirmed commands, and shows what it has taken.
LEMMA ConsumerKeepsDurable ==
  ASSUME TypeInv, IInv, PositionsDrawn, ConsumerHoldsDurable, UNCHANGED vars,
         Consumer!ConsumeOne \/ Consumer!OperatorStep \/ UNCHANGED boardVars
  PROVE  ConsumerHoldsDurable'
<1>1. \A c : Durable(c)' <=> Durable(c)
  BY DEF vars, Durable, OnStandby, Written
<1>2. ASSUME UNCHANGED <<board, generation>>, resetting' \in {resetting, <<>>},
             blocked' \in {blocked, NoEvent}, taken' \in {taken, <<>>}
      PROVE  ConsumerHoldsDurable'
  BY <1>1, <1>2 DEF ConsumerHoldsDurable
<1>3. CASE Consumer!TakeMessage
  <2>1. /\ taken' # <<>> /\ taken'[1].event = Consumer!RecoverOrNext
        /\ UNCHANGED <<board, blocked, generation, resetting>>
    BY <1>3 DEF Consumer!TakeMessage, Consumer!cursorVars
  <2>2. \/ Consumer!RecoverOrNext = NoEvent
        \/ Consumer!RecoverOrNext \in Consumer!Events /\ Durable(Consumer!RecoverOrNext[1])
    BY NextIsConfirmed DEF Consumer!RecoverOrNext, ConsumerHoldsDurable
  <2> QED BY <1>1, <2>1, <2>2 DEF ConsumerHoldsDurable
<1>4. ASSUME NEW e \in Consumer!Events, Consumer!Working(e)
      PROVE  Durable(e[1])
  BY <1>4, BoardAssumption DEF Consumer!Working, ConsumerHoldsDurable
<1>5. ASSUME NEW e \in Consumer!Events, Consumer!Deliver(e) PROVE ConsumerHoldsDurable'
  <2> DEFINE fold == [event |-> e, gen |-> generation, overlap |-> resetting # <<>>]
  <2>1. /\ Consumer!Working(e) /\ board' = Append(board, fold) /\ taken' = <<>>
        /\ blocked' = NoEvent /\ UNCHANGED <<generation, resetting>>
    BY <1>5 DEF Consumer!Deliver, Consumer!Folding, Consumer!Attempt,
                Consumer!AdvanceIfPositionDrained, Consumer!Advance
  <2>2. Durable(e[1]) /\ board \in Seq(Consumer!Folds) /\ generation \in Nat
    BY <1>4, <2>1 DEF ConsumerHoldsDurable
  <2>3. PICK o \in BOOLEAN : o = (resetting # <<>>)
    OBVIOUS
  <2>4. fold = [event |-> e, gen |-> generation, overlap |-> o] /\ fold \in Consumer!Folds
    BY <2>2, <2>3 DEF Consumer!Folds
  <2>5. fold.event = e
    BY <2>4
  <2> HIDE DEF fold
  <2>6. /\ board' \in Seq(Consumer!Folds) /\ Len(board') = Len(board) + 1
        /\ Len(board) \in Nat
        /\ \A i \in DOMAIN board' : board'[i] = fold \/ (i \in DOMAIN board /\ board'[i] = board[i])
    BY <2>1, <2>2, <2>4
  <2>7. \A i \in DOMAIN board' : Durable(board'[i].event[1])
    BY <2>2, <2>5, <2>6 DEF ConsumerHoldsDurable
  <2>8. resetting # <<>> => resetting[1] \in 0..Len(board')
    BY <2>6 DEF ConsumerHoldsDurable
  <2> QED BY <1>1, <2>1, <2>2, <2>6, <2>7, <2>8 DEF ConsumerHoldsDurable
<1>6. ASSUME NEW e \in Consumer!Events, Consumer!Poison(e) PROVE ConsumerHoldsDurable'
  <2>1. /\ Consumer!Working(e) /\ taken' = <<>> /\ blocked' = e
        /\ UNCHANGED <<board, generation, resetting>>
    BY <1>6 DEF Consumer!Poison, Consumer!FoldFails, Consumer!Folding, Consumer!Attempt
  <2> QED BY <1>1, <1>4, <2>1 DEF ConsumerHoldsDurable
<1>7. ASSUME NEW e \in Consumer!Events, Consumer!Tombstone(e) \/ Consumer!RetryableFailure(e)
      PROVE  ConsumerHoldsDurable'
  BY <1>2, <1>7 DEF Consumer!Tombstone, Consumer!RetryableFailure, Consumer!Attempt,
                    Consumer!AdvanceIfPositionDrained, Consumer!Advance
<1>8. CASE Consumer!NothingToFold \/ Consumer!Abandon
  BY <1>2, <1>8 DEF Consumer!NothingToFold, Consumer!Abandon, Consumer!Advance, Consumer!cursorVars
<1>9. CASE Consumer!ClearRows \/ Consumer!AbandonReset
  <2>1. /\ UNCHANGED <<board, generation, blocked, taken>>
        /\ resetting' \in {<<Len(board)>>, <<>>}
    BY <1>9 DEF Consumer!ClearRows, Consumer!AbandonReset, Consumer!cursorVars
  <2> QED BY <1>1, <2>1 DEF ConsumerHoldsDurable
<1>10. CASE Consumer!StartOver
  <2>1. /\ board' = SubSeq(board, resetting[1] + 1, Len(board)) /\ resetting # <<>>
        /\ resetting' = <<>> /\ generation' = generation + 1
        /\ blocked' = NoEvent /\ taken' = taken
    BY <1>10 DEF Consumer!StartOver
  <2> DEFINE n == resetting[1]
             k == Len(board)
  <2>2. n \in 0..k /\ k \in Nat /\ board \in Seq(Consumer!Folds) /\ DOMAIN board = 1..k
    BY <2>1 DEF ConsumerHoldsDurable
  <2>3. board' = SubSeq(board, n + 1, k)
    BY <2>1
  <2>4. \A i \in (n + 1)..k : board[i] \in Consumer!Folds
    BY <2>2
  <2> HIDE DEF n, k
  <2>5. /\ SubSeq(board, n + 1, k) \in Seq(Consumer!Folds)
        /\ DOMAIN SubSeq(board, n + 1, k) = 1..(k - n)
        /\ \A i \in 1..(k - n) : /\ SubSeq(board, n + 1, k)[i] = board[i + n]
                                /\ i + n \in 1..k
    BY <2>2, <2>4
  <2>6. \A i \in DOMAIN board' : Durable(board'[i].event[1])
    BY <2>2, <2>3, <2>5 DEF ConsumerHoldsDurable
  <2>7. generation' \in Nat
    BY <2>1 DEF ConsumerHoldsDurable
  <2> QED BY <1>1, <2>1, <2>3, <2>5, <2>6, <2>7 DEF ConsumerHoldsDurable
<1>11. CASE Consumer!MarkRequestedUnknown
  BY <1>2, <1>11 DEF Consumer!MarkRequestedUnknown
<1>12. ASSUME NEW e \in Consumer!Events, Consumer!Repair(e) PROVE ConsumerHoldsDurable'
  BY <1>2, <1>12 DEF Consumer!Repair, Consumer!cursorVars
<1>13. ASSUME NEW e \in Consumer!Events, NEW a \in {"retry", "tombstone"},
              Consumer!RecordDisposition(e, a)
       PROVE  ConsumerHoldsDurable'
  BY <1>2, <1>13 DEF Consumer!RecordDisposition, Consumer!cursorVars
<1>14. ASSUME NEW e \in Consumer!Events, NEW i \in 1..MaxDispositions,
              Consumer!AcceptDisposition(e, i)
       PROVE  ConsumerHoldsDurable'
  BY <1>2, <1>14 DEF Consumer!AcceptDisposition, Consumer!cursorVars
<1>15. CASE UNCHANGED boardVars
  BY <1>2, <1>15 DEF boardVars
<1> QED BY <1>3, <1>5, <1>6, <1>7, <1>8, <1>9, <1>10, <1>11, <1>12, <1>13, <1>14,
           <1>15
        DEF Consumer!ConsumeOne, Consumer!OperatorStep

\* The composed system runs the acceptance protocol: its invariants hold there.
LEMMA SystemRunsDurability == SystemSpec => Spec
<1>1. SystemInit => Init
  BY DEF SystemInit
<1>2. [SystemNext]_systemVars => [Next]_vars
  BY DEF SystemNext, AcceptanceStep, ConsumerStep, OperatorStep, systemVars, vars
<1> QED BY <1>1, <1>2, PTL DEF SystemSpec, Spec

\* The Board never shows an event that losing the primary could take back, also
\* while the standby is promoted under the running consumer.
THEOREM BoardIsDurable == SystemSpec => []BoardShowsOnlyDurable
<1>1. SystemInit => ConsumerHoldsDurable
  BY DEF SystemInit, Consumer!ConsumerInit, ConsumerHoldsDurable
<1>2. TypeInv /\ IInv /\ PositionsDrawn /\ ConsumerHoldsDurable /\ [SystemNext]_systemVars
        => ConsumerHoldsDurable'
  <2> SUFFICES ASSUME TypeInv, IInv, PositionsDrawn, ConsumerHoldsDurable,
                      [SystemNext]_systemVars
               PROVE  ConsumerHoldsDurable'
    OBVIOUS
  <2>1. CASE AcceptanceStep
    <3>1. \A c \in Commands : Durable(c) => Durable(c)'
      BY <2>1, StandbyKeeps DEF AcceptanceStep, Durable, Kinds
    <3>2. \A e \in Consumer!Events : e[1] \in Commands
      BY DEF Consumer!Events
    <3>3. \A i \in DOMAIN board : board[i].event \in Consumer!Events
      <4>1. \A i \in DOMAIN board : board[i] \in Consumer!Folds
        BY DEF ConsumerHoldsDurable
      <4> QED BY <4>1 DEF Consumer!Folds
    <3>4. UNCHANGED <<board, blocked, taken, generation, resetting>>
      BY <2>1 DEF AcceptanceStep, boardVars
    <3> QED BY <3>1, <3>2, <3>3, <3>4 DEF ConsumerHoldsDurable
  <2>2. CASE ConsumerStep \/ OperatorStep \/ UNCHANGED systemVars
    <3>1. UNCHANGED vars
      BY <2>2 DEF ConsumerStep, OperatorStep, systemVars, vars
    <3>2. Consumer!ConsumeOne \/ Consumer!OperatorStep \/ UNCHANGED boardVars
      BY <2>2 DEF ConsumerStep, OperatorStep, systemVars, boardVars
    <3> QED BY <3>1, <3>2, ConsumerKeepsDurable
  <2> QED BY <2>1, <2>2 DEF SystemNext
<1>3. ConsumerHoldsDurable => BoardShowsOnlyDurable
  BY DEF ConsumerHoldsDurable, BoardShowsOnlyDurable, Durable
<1> QED BY <1>1, <1>2, <1>3, SystemRunsDurability, TypesHold, InvariantHolds, PositionsHold, PTL
        DEF SystemSpec
=============================================================================
