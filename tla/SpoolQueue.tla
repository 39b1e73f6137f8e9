----------------------------- MODULE SpoolQueue -----------------------------
(***************************************************************************)
(* What the offline spool of ctowerctl promises its owner, without files,  *)
(* chains or crashes (ctowerctl/spool/interface.py): commands stand in the *)
(* order in which they were enqueued; one leaves only by being archived    *)
(* after the server accepted it, or by the owner's explicit discard of a   *)
(* quarantined or corrupt one; and no command is settled before everything *)
(* ahead of it has been accepted or discarded.                             *)
(***************************************************************************)
EXTENDS Naturals

CONSTANT Commands

VARIABLES
  entries,   \* set of [number in order of enqueueing, cmd, state]
  accepted   \* commands the server has accepted durably

vars == <<entries, accepted>>

States == {"pending", "accepted", "quarantine", "corrupt"}

Init == entries = {} /\ accepted = {}

AtFront(e) == \A f \in entries : f.number < e.number => f.state = "accepted"
Turn(e, from, to) ==
  /\ e.state = from
  /\ entries' = (entries \ {e}) \union {[e EXCEPT !.state = to]}
  /\ UNCHANGED accepted

ServerAccepts(c) ==
  /\ c \notin accepted
  /\ accepted' = accepted \union {c}
  /\ UNCHANGED entries

Enqueue(c) ==
  /\ \A e \in entries : e.cmd = c => e.state = "corrupt"
  /\ \E e \in entries' :
       /\ e.cmd = c /\ e.state = "pending"
       /\ \A f \in entries : f.number < e.number
       /\ entries' = entries \union {e}
  /\ UNCHANGED accepted

Archive(e) == AtFront(e) /\ e.cmd \in accepted /\ Turn(e, "pending", "accepted")
Quarantine(e) == AtFront(e) /\ Turn(e, "pending", "quarantine")
Retry(e) == Turn(e, "quarantine", "pending")
Rot(e) == \E s \in States \ {"corrupt"} : Turn(e, s, "corrupt")

Discard(e) ==
  /\ e.state \in {"quarantine", "corrupt"}
  /\ entries' = entries \ {e}
  /\ UNCHANGED accepted

Compact ==
  /\ \A e \in entries : e.state = "accepted"
  /\ entries' = {}
  /\ UNCHANGED accepted

\* A step changes something: stated first, it spares TLC the disjuncts on stutters.
Next ==
  /\ vars' # vars
  /\ \/ \E c \in Commands : ServerAccepts(c) \/ Enqueue(c)
     \/ \E e \in entries : Archive(e) \/ Quarantine(e) \/ Retry(e) \/ Rot(e) \/ Discard(e)
     \/ Compact

Spec == Init /\ [][Next]_vars
=============================================================================
