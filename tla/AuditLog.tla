------------------------------ MODULE AuditLog ------------------------------
(***************************************************************************)
(* The Logger of internal/audit/audit.go: goroutines that append records   *)
(* to one file under a mutex, writes that stop half way, Close, and the    *)
(* process that dies and opens the same file again.                        *)
(*                                                                         *)
(* A record is Length cells, the last of them its newline.  A cell is the  *)
(* record it belongs to and its place in that record.                      *)
(***************************************************************************)
EXTENDS Integers, Sequences

CONSTANTS
  Record,          \* calls of Record, each with the record it is to append
  Length,          \* cells in an encoded record
  Nobody,
  LogFailureMode,  \* FailClosed or FailOpen: "closed" or "open"
  MaxCrashes

ASSUME LogAssumption ==
  /\ Nobody \notin Record /\ Length \in Nat \ {0, 1}
  /\ LogFailureMode \in {"closed", "open"} /\ MaxCrashes \in Nat

VARIABLES
  file,            \* the cells in the file
  mu,              \* who holds the mutex
  left,            \* cells the holder has still to write
  call,            \* of each record: idle, waiting, writing, or what its Record returned
  acknowledged,    \* the records whose Record returned nil after a write, in that order
  closed,
  up,              \* whether the process runs
  crashes

logVars == <<file, mu, left, call, acknowledged, closed, up, crashes>>

Cell == Record \X (1..Length)

newline(cell) == cell[2] = Length

\* What Record returns to its caller when it fails (handleErrorLocked).
Failure == IF LogFailureMode = "open" THEN "nil" ELSE "error"

Return(r, result) ==
  /\ call' = [call EXCEPT ![r] = result]
  /\ mu' = Nobody

Start(r) ==
  /\ up /\ call[r] = "idle"
  /\ call' = [call EXCEPT ![r] = "waiting"]
  /\ UNCHANGED <<file, mu, left, acknowledged, closed, up, crashes>>

\* The mutex is taken; a closed logger, or a record that does not validate, is an
\* error and leaves the file alone.
Lock(r) ==
  /\ up /\ call[r] = "waiting" /\ mu = Nobody
  /\ \/ Return(r, Failure) /\ UNCHANGED left
     \/ /\ ~closed
        /\ call' = [call EXCEPT ![r] = "writing"]
        /\ mu' = r
        /\ left' = [left EXCEPT ![r] = Length]
  /\ UNCHANGED <<file, acknowledged, closed, up, crashes>>

\* writeAll: some of what is left reaches the end of the file.
Write(r) ==
  /\ up /\ call[r] = "writing" /\ left[r] > 0
  /\ file' = Append(file, <<r, Length - left[r] + 1>>)
  /\ left' = [left EXCEPT ![r] = @ - 1]
  /\ UNCHANGED <<mu, call, acknowledged, closed, up, crashes>>

\* The next write fails; what was written stays where it is.
WriteFails(r) ==
  /\ up /\ call[r] = "writing" /\ left[r] > 0
  /\ Return(r, Failure)
  /\ UNCHANGED <<file, left, acknowledged, closed, up, crashes>>

\* Variant: a short write is taken for the whole.
WrittenShort(r) ==
  /\ up /\ call[r] = "writing" /\ left[r] < Length
  /\ Return(r, "nil")
  /\ acknowledged' = Append(acknowledged, r)
  /\ UNCHANGED <<file, left, closed, up, crashes>>

\* All is written: Record returns nil.
Written(r) ==
  /\ up /\ call[r] = "writing" /\ left[r] = 0
  /\ Return(r, "nil")
  /\ acknowledged' = Append(acknowledged, r)
  /\ UNCHANGED <<file, left, closed, up, crashes>>

Close ==
  /\ up /\ mu = Nobody /\ ~closed
  /\ closed' = TRUE
  /\ UNCHANGED <<file, mu, left, call, acknowledged, up, crashes>>

\* The process dies; the calls it was in never return.
LogCrash ==
  /\ up /\ crashes < MaxCrashes
  /\ up' = FALSE /\ crashes' = crashes + 1
  /\ mu' = Nobody
  /\ call' = [r \in Record |-> IF call[r] \in {"waiting", "writing"} THEN "lost" ELSE call[r]]
  /\ UNCHANGED <<file, left, acknowledged, closed>>

\* Open appends to the file it finds, as it finds it.
Open ==
  /\ ~up
  /\ up' = TRUE /\ closed' = FALSE
  /\ UNCHANGED <<file, mu, left, call, acknowledged, crashes>>

LogInit ==
  /\ file = <<>> /\ mu = Nobody
  /\ left = [r \in Record |-> 0]
  /\ call = [r \in Record |-> "idle"]
  /\ acknowledged = <<>> /\ closed = FALSE /\ up = TRUE /\ crashes = 0

LogNext ==
  \/ \E r \in Record : Start(r) \/ Lock(r) \/ Write(r) \/ WriteFails(r) \/ Written(r)
  \/ Close \/ LogCrash \/ Open

LogSpec == LogInit /\ [][LogNext]_logVars

-----------------------------------------------------------------------------
\* Every variable has its type.
LogTypeOK ==
  /\ file \in Seq(Cell) /\ mu \in Record \cup {Nobody}
  /\ left \in [Record -> 0..Length]
  /\ call \in [Record -> {"idle", "waiting", "writing", "nil", "error", "lost"}]
  /\ acknowledged \in Seq(Record) /\ closed \in BOOLEAN /\ up \in BOOLEAN
  /\ crashes \in 0..MaxCrashes

\* The place in the file where all of r begins.
WholeAt(r, i) ==
  /\ i + Length - 1 <= Len(file)
  /\ \A k \in 1..Length : file[i + k - 1] = <<r, k>>

\* The records that are whole in the file, and their order there.
Stored == {r \in Record : \E i \in DOMAIN file : WholeAt(r, i)}

Before ==
  {p \in Record \X Record :
     \E i, j \in DOMAIN file : i < j /\ WholeAt(p[1], i) /\ WholeAt(p[2], j)}

\* The calls, without where in Record they are.
Pending == {"waiting", "writing"}

Calls == [r \in Record |-> IF call[r] \in Pending THEN "pending" ELSE call[r]]

Atomic == INSTANCE AtomicLog
            WITH FailureMode <- LogFailureMode, call <- Calls, stored <- Stored, before <- Before

\* Writing cell by cell under the mutex, with writes that stop half way, Close,
\* crashes and reopening, implements a log whose records appear whole, in one
\* step, between the call of Record and its return, are never lost again, and of
\* which each is the last one when it is acknowledged (Record, writeAll).
ImplementsAtomicLog == Atomic!Spec

\* audit.go: "Logger serializes complete JSONL appends through one mutex."  Each
\* record that was acknowledged is a line: it begins the file or follows a newline.
AcknowledgedIsLine ==
  \A i \in DOMAIN file, n \in DOMAIN acknowledged :
    file[i] = <<acknowledged[n], 1>> => i = 1 \/ newline(file[i - 1])
=============================================================================
