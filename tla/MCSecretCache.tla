--------------------------- MODULE MCSecretCache ---------------------------
(***************************************************************************)
(* Small instances of SecretCache.                                         *)
(***************************************************************************)
EXTENDS SecretCache, TLC

CONSTANTS g1, g2, closer, a, b

Interchangeable ==
  Permutations(Getter) \cup Permutations(Reference)
=============================================================================
