-------------------------- MODULE MCOutboxConsumer --------------------------
(* OutboxConsumer on small instances: one command with two events (a ticket   *)
(* creation and a work change) and one or two with a single event.  All write *)
(* the row of one card.                                                       *)
EXTENDS OutboxConsumer

CONSTANTS Pair, Single

MCEventCount == [c \in Commands |-> IF c = Pair THEN 2 ELSE 1]
MCCreates == {<<Pair, 1>>}
MCCardOf == [e \in Events |-> Pair]
=============================================================================
