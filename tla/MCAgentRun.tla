----------------------------- MODULE MCAgentRun -----------------------------
(***************************************************************************)
(* Two runs on one state directory; the sandbox of the first one opens     *)
(* connections to its broker.                                              *)
(***************************************************************************)
EXTENDS AgentRun

CONSTANTS r1, r2, c1, c2

OwnerOf == [c \in Conn |-> r1]
=============================================================================
