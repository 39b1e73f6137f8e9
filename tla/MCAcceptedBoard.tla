--------------------------- MODULE MCAcceptedBoard --------------------------
(* AcceptedBoard with one event per command, or one command of two events, the *)
(* first of which creates the one card.                                         *)
EXTENDS AcceptedBoard

MCSingles == [c \in Commands |-> 1]
MCPairs   == [c \in Commands |-> 2]
MCCreates == Commands \X {1}
MCCardOf  == [e \in UNION {{c} \X (1..EventCount[c]) : c \in Commands} |-> "card"]
=============================================================================
