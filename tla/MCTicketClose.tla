---- MODULE MCTicketClose ----
(***************************************************************************)
(* One ticket on the four-stage graph with a way back from verify to       *)
(* frame: a commander who writes, an operator of another model family, and *)
(* a reviewer of the author's family.                                      *)
(***************************************************************************)
EXTENDS TicketClose, TLC

CONSTANTS cmd, op, rev, art, doc, c1, c2

MCPrincipals == {cmd, op, rev}
MCKind == (cmd :> "commander") @@ (op :> "operator") @@ (rev :> "reviewer")
MCFamily == (cmd :> "x") @@ (op :> "y") @@ (rev :> "x")
MCStages == {"capture", "frame", "verify", "close"}
Edge(from, to, needs) == [from |-> from, to |-> to, needs |-> needs]
MCEdges ==
    {Edge("capture", "frame", "entry.ready"),
     Edge("frame", "verify", "criteria.frozen"),
     Edge("verify", "frame", "criteria.frozen"),
     Edge("verify", "close", "proof.current")}
CandidateSymmetry == Permutations({c1, c2})
=============================================================================
