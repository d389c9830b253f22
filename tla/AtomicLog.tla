----------------------------- MODULE AtomicLog ------------------------------
(***************************************************************************)
(* What a caller of the audit logger may rely on: a call of Record is one  *)
(* append of a whole record, at one moment between the call and its        *)
(* return, or it is none.  The log is its set of records and their order.  *)
(***************************************************************************)
CONSTANTS Record, FailureMode

VARIABLES call,      \* of each record: idle, pending, what Record returned, or lost
          stored,    \* the records in the log
          before     \* <<q, r>>: q is in front of r

vars == <<call, stored, before>>

Init ==
  /\ call = [r \in Record |-> "idle"]
  /\ stored = {} /\ before = {}

Begin(r) ==
  /\ call[r] = "idle"
  /\ call' = [call EXCEPT ![r] = "pending"]
  /\ UNCHANGED <<stored, before>>

\* The record appears at the end.
Store(r) ==
  /\ call[r] = "pending" /\ r \notin stored
  /\ stored' = stored \cup {r}
  /\ before' = before \cup (stored \X {r})
  /\ UNCHANGED call

\* Success is reported while nothing is behind the record.
Confirm(r) ==
  /\ call[r] = "pending" /\ r \in stored
  /\ \A q \in stored : <<r, q>> \notin before
  /\ call' = [call EXCEPT ![r] = "nil"]
  /\ UNCHANGED <<stored, before>>

Fail(r) ==
  /\ call[r] = "pending"
  /\ call' = [call EXCEPT ![r] = IF FailureMode = "open" THEN "nil" ELSE "error"]
  /\ UNCHANGED <<stored, before>>

\* The process dies.
Stop ==
  /\ call' = [r \in Record |-> IF call[r] = "pending" THEN "lost" ELSE call[r]]
  /\ UNCHANGED <<stored, before>>

Next == Stop \/ \E r \in Record : Begin(r) \/ Store(r) \/ Confirm(r) \/ Fail(r)

Spec == Init /\ [][Next]_vars
=============================================================================
