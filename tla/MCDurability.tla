---------------------------- MODULE MCDurability ----------------------------
(* Durability on small instances. *)
EXTENDS Durability, TLC

CommandSymmetry == Permutations(Commands)
=============================================================================
