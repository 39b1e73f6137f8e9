--------------------------- MODULE MCControlWorker --------------------------
(* ControlWorker on a small instance: the synthetic routine and one gated      *)
(* work-item routine, with the policies of their packs.                        *)
EXTENDS ControlWorker

CONSTANTS Synthetic, Item

MCHandler     == [r \in Routines |-> IF r = Synthetic THEN "synthetic" ELSE "item"]
MCConcurrency == [r \in Routines |-> IF r = Synthetic THEN "coalesce_if_active"
                                     ELSE "always_enqueue_bounded"]
MCCatchUp     == [r \in Routines |-> "skip_missed"]
MCSchedule    == [r \in Routines |-> IF r = Synthetic THEN {2, 3} ELSE {1, 2, 3}]
MCCatchUpCap  == [r \in Routines |-> 1]
=============================================================================
