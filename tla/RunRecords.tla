----------------------------- MODULE RunRecords -----------------------------
(***************************************************************************)
(* The run records of internal/runner/state.go: one JSON file per sandbox, *)
(* replaced whole by WriteRunRecord, and read back by the                  *)
(* ReconcileRunRecords of every later `ff run` on the same directory.      *)
(***************************************************************************)
CONSTANTS Run, None

VARIABLE record     \* the record file of each run, None before the first

\* RunRecord, kept to what decides: the status, which of the two PIDs are set,
\* and whether the reason is "lost_process".
RunRecord == [status : {"starting", "running", "exited", "failed"},
              supervisor : BOOLEAN, main : BOOLEAN, lost : BOOLEAN]

Starting == [status |-> "starting", supervisor |-> FALSE, main |-> FALSE, lost |-> FALSE]

Live(rec) == rec # None /\ rec.status \in {"starting", "running"}

\* The part of validateRunRecord that depends on the status.
validateRunRecord(rec) ==
  CASE rec.status = "starting" -> ~rec.supervisor /\ ~rec.main
    [] rec.status = "running" -> rec.supervisor
    [] OTHER -> TRUE

\* "ok": renamed and the directory synced; "unsynced": an error, but the new
\* file is in place; "failed": an error, and the old one is.
WriteOutcome == {"ok", "unsynced", "failed"}

\* Write a temporary file, sync it, rename it over the record, and sync the
\* directory.
WriteRunRecord(r, rec, outcome) ==
  /\ validateRunRecord(rec) \/ outcome = "failed"
  /\ record' = IF outcome = "failed" THEN record ELSE [record EXCEPT ![r] = rec]

\* What ReconcileRunRecords makes of a record whose process it does not find.
AsLost(rec) == [rec EXCEPT !.status = "failed", !.lost = TRUE]

\* Variant: a record with neither PID counts as alive.
ProcessAssumed(rec, mainAlive, supervisorAlive) ==
  IF rec.main THEN mainAlive ELSE rec.supervisor => supervisorAlive

\* The PID it looks for: the main process if it is known, else the supervisor;
\* a record with neither counts as one whose process is gone.
ProcessFound(rec, mainAlive, supervisorAlive) ==
  IF rec.main THEN mainAlive ELSE rec.supervisor /\ supervisorAlive
=============================================================================
