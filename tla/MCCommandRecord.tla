--------------------------- MODULE MCCommandRecord --------------------------
(* CommandRecord on small instances.  Change and Retry send the same body under *)
(* the same key, Edit another body under it.  Relation and Follow add relations *)
(* between tickets 1 and 2 in opposite directions: both lock both tickets.      *)
(* Follow expects the version that Change leaves behind.  Other changes ticket  *)
(* 3 and meets the rest at the record position ledger only.                     *)
EXTENDS CommandRecord

CONSTANTS Change, Retry, Edit, Follow, Relation, Other, k1, k2, k3, k4

MCTickets    == {1, 2, 3}
MCKeyOf      == [r \in Requests |-> CASE r = Relation -> k2 [] r = Follow -> k3
                                      [] r = Other -> k4 [] OTHER -> k1]
MCDigestOf   == [r \in Requests |-> CASE r = Relation -> "relation" [] r = Follow -> "follow"
                                      [] r = Other -> "other" [] r = Edit -> "edit"
                                      [] OTHER -> "change"]
MCTicketsOf  == [r \in Requests |-> IF r \in {Relation, Follow} THEN {1, 2}
                                    ELSE IF r = Other THEN {3} ELSE {1}]
MCSourceOf   == [r \in Requests |-> IF r = Relation THEN 2 ELSE IF r = Other THEN 3 ELSE 1]
MCExpectedOf == [r \in Requests |-> IF r = Follow THEN 2 ELSE 1]
=============================================================================
