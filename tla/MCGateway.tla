----------------------------- MODULE MCGateway -----------------------------
(***************************************************************************)
(* An instance of Gateway for TLC: one request, with two tokens.           *)
(***************************************************************************)
EXTENDS Gateway, TLC

CONSTANTS r1, t1, t2
=============================================================================
