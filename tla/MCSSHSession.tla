---------------------------- MODULE MCSSHSession ----------------------------
(***************************************************************************)
(* A small instance of SSHSession: two sessions under tokens of different  *)
(* workloads or of one, with a cap a token can reach.                      *)
(***************************************************************************)
EXTENDS SSHSession, TLC

CONSTANTS s1, s2, t1, t2, w1, w2

TokenWorkload == t1 :> w1 @@ t2 :> w2
=============================================================================
