----------------------------- MODULE MCAuditLog -----------------------------
(***************************************************************************)
(* Small instances of AuditLog.                                            *)
(***************************************************************************)
EXTENDS AuditLog, TLC

CONSTANTS r1, r2, r3

Interchangeable == Permutations(Record)
=============================================================================
