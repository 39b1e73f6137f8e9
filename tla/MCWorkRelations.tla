--------------------------- MODULE MCWorkRelations --------------------------
(* WorkRelations on four tickets.  MCRelations has every relation among three  *)
(* of them and a way through the fourth.                                       *)
EXTENDS WorkRelations

MCTickets   == 1..4
MCRelations == ((1..3) \X (1..3)) \cup {<<3, 4>>, <<4, 1>>}
=============================================================================
