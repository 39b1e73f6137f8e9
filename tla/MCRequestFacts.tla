--------------------------- MODULE MCRequestFacts ---------------------------
(* Three Requests that compete for one Ticket or duplicate each other.          *)
EXTENDS RequestFacts, TLC

RequestSymmetry == Permutations(Requests)
=============================================================================
