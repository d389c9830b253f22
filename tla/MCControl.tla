----------------------------- MODULE MCControl -----------------------------
(***************************************************************************)
(* Small instances of Control.                                             *)
(***************************************************************************)
EXTENDS Control, TLC

CONSTANTS c1, c2, c3, t0, t1, t2

Interchangeable == Permutations(Call) \cup Permutations(Token \ {Root})
=============================================================================
