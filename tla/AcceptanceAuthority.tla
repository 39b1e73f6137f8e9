------------------------ MODULE AcceptanceAuthority ------------------------
(***************************************************************************)
(* What the Record component promises about acceptance, without the        *)
(* protocol (record/interface.py, DurabilityDecision): a caller is told    *)
(* that a command is accepted at one position; from then on every answer   *)
(* repeats that position, and no other command is ever accepted at it.     *)
(***************************************************************************)
EXTENDS Naturals

CONSTANT Commands

VARIABLE told      \* [command -> acceptance positions callers were told]

Init == told = [c \in Commands |-> {}]

\* The position is fresh; quantifying over the new answer leaves it unbounded.
AcceptCommand(c) ==
  /\ told[c] = {}
  /\ \E n \in told'[c] :
       /\ n \in Nat \ {0}
       /\ \A d \in Commands : n \notin told[d]
       /\ told' = [told EXCEPT ![c] = {n}]

Next == \E c \in Commands : AcceptCommand(c)

Spec == Init /\ [][Next]_told
=============================================================================
