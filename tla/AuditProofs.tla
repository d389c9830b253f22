---------------------------- MODULE AuditProofs -----------------------------
(***************************************************************************)
(* The logger implements AtomicLog, for any number of records of any       *)
(* length.                                                                 *)
(*                                                                         *)
(* Then the control operations that write to it, Control, for any sets of  *)
(* calls and tokens and either failure mode: what a call's stage says of   *)
(* its records, of the token it issued and of the one it revoked, whatever *)
(* the other calls, the commands and the shutdown do in between.           *)
(***************************************************************************)
EXTENDS AuditLog, Control, TLAPS

\* How many cells of r were written by the call that is writing it.
Done(r) == Length - left[r]

\* The record being written is a tail of the file and nowhere else in it.
AtEnd(r) ==
  /\ Done(r) <= Len(file)
  /\ \A i \in 1..Len(file) :
       IF i <= Len(file) - Done(r) THEN file[i][1] # r
       ELSE file[i] = <<r, i - (Len(file) - Done(r))>>

\* A call that does not write yet has left nothing in the file, and one that
\* writes holds the mutex.
IInv ==
  /\ LogTypeOK
  /\ \A r \in Record : call[r] \in {"idle", "waiting"} => \A i \in 1..Len(file) : file[i][1] # r
  /\ \A r \in Record : call[r] = "writing" => mu = r /\ AtEnd(r)

-----------------------------------------------------------------------------
(* The inductive invariant *)

\* The types hold initially and every step keeps them.
LEMMA TypeStep == LogTypeOK /\ [LogNext]_logVars => LogTypeOK'
<1> SUFFICES ASSUME LogTypeOK, [LogNext]_logVars PROVE LogTypeOK'
  BY Zenon
<1> USE LogAssumption DEF LogTypeOK
<1>1. ASSUME NEW r \in Record, Start(r) PROVE LogTypeOK'
  BY Zenon, <1>1 DEF Start
<1>2. ASSUME NEW r \in Record, Lock(r) PROVE LogTypeOK'
  <2>1. call' \in [Record -> {"idle", "waiting", "writing", "nil", "error", "lost"}] /\ mu' \in Record \cup {Nobody}
    BY Zenon, <1>2 DEF Lock, Return, Failure
  <2>2. left' \in [Record -> 0..Length]
    BY <1>2 DEF Lock
  <2> QED
    BY Zenon, <1>2, <2>1, <2>2 DEF Lock
<1>3. ASSUME NEW r \in Record, Write(r) PROVE LogTypeOK'
  <2>1. <<r, Length - left[r] + 1>> \in Cell
    BY <1>3 DEF Write, Cell
  <2>2. file' \in Seq(Cell)
    BY <1>3, <2>1 DEF Write
  <2> QED
    BY <1>3, <2>2 DEF Write
<1>4. ASSUME NEW r \in Record, WriteFails(r) PROVE LogTypeOK'
  BY Zenon, <1>4 DEF WriteFails, Return, Failure
<1>5. ASSUME NEW r \in Record, Written(r) PROVE LogTypeOK'
  BY <1>5 DEF Written, Return
<1>6. CASE Close
  BY Zenon, <1>6 DEF Close
<1>7. CASE LogCrash
  <2> DEFINE C == {"idle", "waiting", "writing", "nil", "error", "lost"}
  <2>1. call' \in [Record -> C]
    <3>1. \A r \in Record : (IF call[r] \in {"waiting", "writing"} THEN "lost" ELSE call[r]) \in C
      BY Zenon
    <3> HIDE DEF C
    <3> QED
      BY Zenon, <1>7, <3>1 DEF LogCrash
  <2>2. crashes' \in 0..MaxCrashes
    BY <1>7, SMT DEF LogCrash
  <2>3. up' \in BOOLEAN /\ mu' \in Record \cup {Nobody}
    BY <1>7, Zenon DEF LogCrash
  <2> QED
    BY Zenon, <1>7, <2>1, <2>2, <2>3 DEF LogCrash
<1>8. CASE Open
  BY <1>8, Zenon DEF Open
<1>9. CASE UNCHANGED logVars
  BY Zenon, <1>9 DEF logVars
<1> QED
  BY Zenon, <1>1, <1>2, <1>3, <1>4, <1>5, <1>6, <1>7, <1>8, <1>9 DEF LogNext

\* A step that leaves the file and what is left alone, lets no call begin to
\* write and no other call stop waiting, keeps the invariant.
LEMMA QuietStep ==
  ASSUME IInv, LogTypeOK', UNCHANGED <<file, left>>,
         \A r \in Record : call'[r] \in {"idle", "waiting"} => call[r] \in {"idle", "waiting"},
         \A r \in Record : call'[r] = "writing" => call[r] = "writing" /\ mu' = mu
  PROVE  IInv'
BY Zenon DEF IInv, AtEnd, Done

\* Every step keeps the invariant (Record, Close, Open).
LEMMA StepInv == IInv /\ [LogNext]_logVars => IInv'
<1> SUFFICES ASSUME IInv, [LogNext]_logVars PROVE IInv'
  BY Zenon
<1>0. LogTypeOK /\ LogTypeOK'
  BY Zenon, TypeStep DEF IInv
<1>1. ASSUME NEW r \in Record, Start(r) PROVE IInv'
  <2>1. \A q \in Record : call'[q] = IF q = r THEN "waiting" ELSE call[q]
    BY Zenon, <1>0, <1>1 DEF Start, LogTypeOK
  <2> QED
    BY <1>0, <1>1, <2>1, QuietStep DEF Start
<1>2. ASSUME NEW r \in Record, Lock(r) PROVE IInv'
  <2>1. CASE Return(r, Failure) /\ UNCHANGED left
    <3>1. \A q \in Record : call'[q] = IF q = r THEN Failure ELSE call[q]
      BY Zenon, <1>0, <2>1 DEF Return, LogTypeOK
    <3>2. Failure \in {"nil", "error"}
      BY Zenon DEF Failure
    <3>3. \A q \in Record : call[q] # "writing"
      BY Zenon, <1>2, LogAssumption DEF Lock, IInv
    <3> QED
      BY Zenon, <1>0, <1>2, <2>1, <3>1, <3>2, <3>3, QuietStep DEF Lock
  <2>2. CASE call' = [call EXCEPT ![r] = "writing"] /\ mu' = r /\ left' = [left EXCEPT ![r] = Length]
    <3>1. \A q \in Record : call'[q] = IF q = r THEN "writing" ELSE call[q]
      BY Zenon, <1>0, <2>2 DEF LogTypeOK
    <3>2. left'[r] = Length /\ file' = file
      BY Zenon, <1>0, <1>2, <2>2 DEF LogTypeOK, Lock
    <3>3. \A q \in Record : call[q] # "writing"
      BY Zenon, <1>2, LogAssumption DEF Lock, IInv
    <3>4. \A i \in 1..Len(file) : file[i][1] # r
      BY Zenon, <1>2 DEF Lock, IInv
    <3>5. AtEnd(r)'
      <4>1. Len(file) \in Nat /\ Length \in Nat
        BY <1>0, LogAssumption DEF LogTypeOK
      <4>2. Done(r)' = 0
        BY <3>2, <4>1 DEF Done
      <4>3. 0 <= Len(file) /\ Len(file) - 0 = Len(file)
        BY <4>1
      <4>4. \A i \in 1..Len(file) : i <= Len(file)
        BY <4>1
      <4> QED
        BY Zenon, <3>2, <3>4, <4>2, <4>3, <4>4 DEF AtEnd
    <3> QED
      BY <1>0, <2>2, <3>1, <3>2, <3>3, <3>5 DEF IInv
  <2> QED
    BY Zenon, <1>2, <2>1, <2>2 DEF Lock
<1>3. ASSUME NEW r \in Record, Write(r) PROVE IInv'
  <2> DEFINE k == Length - left[r] + 1
  <2>1. /\ file' = Append(file, <<r, k>>) /\ Len(file') = Len(file) + 1
        /\ \A i \in 1..Len(file) : file'[i] = file[i]
        /\ file'[Len(file) + 1] = <<r, k>>
    BY <1>0, <1>3 DEF Write, LogTypeOK
  <2>2. call' = call /\ mu' = mu /\ left'[r] = left[r] - 1 /\ left[r] \in 1..Length
    BY <1>0, <1>3 DEF Write, LogTypeOK
  <2>3. call[r] = "writing" /\ mu = r /\ AtEnd(r)
    BY Zenon, <1>3 DEF Write, IInv
  <2>4. Done(r)' = Done(r) + 1 /\ Done(r) \in Nat
    BY <2>2, LogAssumption DEF Done
  <2>5. AtEnd(r)'
    <3>1. Done(r)' <= Len(file')
      BY <1>0, <2>1, <2>3, <2>4 DEF AtEnd, LogTypeOK
    <3>2. ASSUME NEW i \in 1..Len(file')
          PROVE IF i <= Len(file') - Done(r)' THEN file'[i][1] # r
                ELSE file'[i] = <<r, i - (Len(file') - Done(r)')>>
      <4>1. Len(file') - Done(r)' = Len(file) - Done(r) /\ Len(file) \in Nat
        <5>1. Len(file) \in Nat
          BY <1>0 DEF LogTypeOK
        <5> QED
          BY <2>1, <2>4, <5>1
      <4>2. CASE i <= Len(file)
        BY <2>1, <2>3, <4>1, <4>2 DEF AtEnd
      <4>3. CASE i = Len(file) + 1
        <5>1. k = i - (Len(file) - Done(r))
          BY <4>1, <4>3, <2>2, LogAssumption DEF Done
        <5>2. ~(i <= Len(file) - Done(r))
          BY <4>1, <4>3, <2>4
        <5> QED
          BY Zenon, <2>1, <4>1, <4>3, <5>1, <5>2
      <4> QED
        BY <2>1, <4>1, <4>2, <4>3
    <3> QED
      BY Zenon, <3>1, <3>2 DEF AtEnd
  <2>6. ASSUME NEW q \in Record, call[q] \in {"idle", "waiting"}, NEW i \in 1..Len(file')
        PROVE file'[i][1] # q
    <3>1. q # r /\ Len(file) \in Nat
      BY <1>0, <2>3, <2>6 DEF LogTypeOK
    <3>2. CASE i \in 1..Len(file)
      BY Zenon, <2>1, <2>6, <3>2 DEF IInv
    <3>3. CASE i = Len(file) + 1
      BY <2>1, <3>1, <3>3
    <3> QED
      BY <2>1, <3>1, <3>2, <3>3
  <2>7. \A q \in Record : call[q] = "writing" => q = r
    BY Zenon, <2>3 DEF IInv
  <2> QED
    BY Zenon, <1>0, <2>2, <2>3, <2>5, <2>6, <2>7 DEF IInv
<1>4. ASSUME NEW r \in Record, WriteFails(r) \/ Written(r) PROVE IInv'
  <2>1. PICK result \in {"nil", "error"} : \A q \in Record : call'[q] = IF q = r THEN result ELSE call[q]
    BY Zenon, <1>0, <1>4 DEF WriteFails, Written, Return, Failure, LogTypeOK
  <2>2. \A q \in Record : call[q] = "writing" => q = r
    BY Zenon, <1>4 DEF WriteFails, Written, IInv
  <2> QED
    BY Zenon, <1>0, <1>4, <2>1, <2>2, QuietStep DEF WriteFails, Written
<1>5. CASE Close
  BY Zenon, <1>0, <1>5, QuietStep DEF Close
<1>6. CASE LogCrash
  <2>1. \A q \in Record : call'[q] = IF call[q] \in {"waiting", "writing"} THEN "lost" ELSE call[q]
    BY Zenon, <1>6 DEF LogCrash
  <2> QED
    BY Zenon, <1>0, <1>6, <2>1, QuietStep DEF LogCrash
<1>7. CASE Open
  BY Zenon, <1>0, <1>7, QuietStep DEF Open
<1>8. CASE UNCHANGED logVars
  BY Zenon, <1>0, <1>8, QuietStep DEF logVars
<1> QED
  BY Zenon, <1>1, <1>2, <1>3, <1>4, <1>5, <1>6, <1>7, <1>8 DEF LogNext

\* The invariant holds in every reachable state.
LEMMA Invariance == LogSpec => []IInv
<1>1. LogInit => IInv
  <2> SUFFICES ASSUME LogInit PROVE IInv
    BY Zenon
  <2>1. LogTypeOK
    <3>1. file \in Seq(Cell) /\ acknowledged \in Seq(Record)
      BY DEF LogInit
    <3>2. left \in [Record -> 0..Length] /\ crashes \in 0..MaxCrashes
      BY LogAssumption DEF LogInit
    <3> QED
      BY <3>1, <3>2, Zenon DEF LogInit, LogTypeOK
  <2>2. Len(file) = 0 /\ \A r \in Record : call[r] = "idle"
    BY Zenon DEF LogInit
  <2> QED
    BY <2>1, <2>2 DEF IInv
<1> QED
  BY <1>1, StepInv, PTL DEF LogSpec

-----------------------------------------------------------------------------
(* Where records are whole *)

\* A cell of r at the end of the file changes nothing for another record.
LEMMA OthersStay ==
  ASSUME LogTypeOK, NEW r \in Record, NEW c, file' = Append(file, <<r, c>>),
         NEW q \in Record, q # r, NEW i \in Nat \ {0}
  PROVE  WholeAt(q, i)' <=> WholeAt(q, i)
<1>1. /\ Len(file) \in Nat /\ Len(file') = Len(file) + 1
      /\ \A n \in 1..Len(file) : file'[n] = file[n]
      /\ file'[Len(file) + 1] = <<r, c>>
  BY DEF LogTypeOK
<1>2. Length \in Nat /\ Length >= 2
  BY LogAssumption
<1>3. ASSUME WholeAt(q, i) PROVE WholeAt(q, i)'
  <2>1. \A k \in 1..Length : i + k - 1 \in 1..Len(file)
    BY <1>1, <1>2, <1>3 DEF WholeAt
  <2>2. \A k \in 1..Length : file'[i + k - 1] = file[i + k - 1] /\ file[i + k - 1] = <<q, k>>
    BY Zenon, <1>1, <1>3, <2>1 DEF WholeAt
  <2>3. i + Length - 1 <= Len(file')
    BY <1>1, <1>2, <1>3 DEF WholeAt
  <2> QED
    BY <2>2, <2>3, Zenon DEF WholeAt
<1>4. ASSUME WholeAt(q, i)' PROVE WholeAt(q, i)
  <2>1. file'[i + Length - 1] = <<q, Length>> /\ i + Length - 1 <= Len(file) + 1
    <3>1. Length \in 1..Length
      BY <1>2
    <3> QED
      BY <1>1, <1>4, <3>1, Zenon DEF WholeAt
  <2>2. i + Length - 1 # Len(file) + 1
    BY <1>1, <2>1
  <2>3. \A k \in 1..Length : i + k - 1 \in 1..Len(file)
    BY <1>1, <1>2, <2>1, <2>2
  <2>4. \A k \in 1..Length : file[i + k - 1] = file'[i + k - 1] /\ file'[i + k - 1] = <<q, k>>
    BY <1>1, <1>4, <2>3, Zenon DEF WholeAt
  <2>5. i + Length - 1 <= Len(file)
    BY <1>1, <1>2, <2>1, <2>2
  <2> QED
    BY <2>4, <2>5, Zenon DEF WholeAt
<1> QED
  BY Zenon, <1>3, <1>4

\* A record at the end of the file is whole there once all its cells are, and
\* nowhere before; and no record is whole behind its first cell.
Ends(r) ==
  /\ Len(file) - Length + 1 \in DOMAIN file
  /\ WholeAt(r, Len(file) - Length + 1)
  /\ \A q \in Record, i \in DOMAIN file :
       WholeAt(q, i) => i <= Len(file) - Length + 1
  /\ \A i \in DOMAIN file : WholeAt(r, i) => i = Len(file) - Length + 1

CompleteEnds == \A r \in Record : AtEnd(r) /\ left[r] = 0 => Ends(r)

\* A record with no cell left to write is whole at the end of the file and
\* nowhere else (writeAll has returned nil).
LEMMA WholeAtEnd == LogTypeOK => CompleteEnds
<1> SUFFICES ASSUME LogTypeOK, NEW r \in Record, AtEnd(r), left[r] = 0 PROVE Ends(r)
  BY Zenon DEF CompleteEnds
<1>1. Len(file) \in Nat /\ Length \in Nat /\ Length >= 2 /\ DOMAIN file = 1..Len(file)
  BY LogAssumption DEF LogTypeOK
<1>2. Done(r) = Length /\ Length <= Len(file)
  BY <1>1 DEF Done, AtEnd
<1>3. WholeAt(r, Len(file) - Length + 1)
  <2>1. \A i \in 1..Len(file) : ~(i <= Len(file) - Length) => file[i] = <<r, i - (Len(file) - Length)>>
    BY <1>2, Zenon DEF AtEnd
  <2>2. ASSUME NEW k \in 1..Length
        PROVE  file[(Len(file) - Length + 1) + k - 1] = <<r, k>>
    <3> DEFINE i == (Len(file) - Length + 1) + k - 1
    <3>1. i \in 1..Len(file) /\ ~(i <= Len(file) - Length) /\ i - (Len(file) - Length) = k
      BY <1>1, <1>2
    <3> HIDE DEF i
    <3>2. file[i] = <<r, i - (Len(file) - Length)>>
      BY <2>1, <3>1, Zenon
    <3>3. file[i] = <<r, k>>
      BY <3>1, <3>2, Zenon
    <3> QED  BY Zenon, <3>3 DEF i
  <2>3. (Len(file) - Length + 1) + Length - 1 <= Len(file)
    BY <1>1
  <2> QED  BY <2>2, <2>3, Zenon DEF WholeAt
<1>4. ASSUME NEW q \in Record, NEW i \in DOMAIN file, WholeAt(q, i)
      PROVE i <= Len(file) - Length + 1
  BY <1>1, <1>4 DEF WholeAt
<1>5. ASSUME NEW i \in DOMAIN file, WholeAt(r, i)
      PROVE i = Len(file) - Length + 1
  <2>1. file[i] = <<r, 1>>
    BY <1>1, <1>5 DEF WholeAt
  <2>2. ~(i <= Len(file) - Length)
    BY <1>1, <1>2, <2>1 DEF AtEnd
  <2> QED
    BY <1>1, <1>4, <1>5, <2>2
<1> QED
  BY <1>1, <1>2, <1>3, <1>4, <1>5 DEF Ends

\* A record of which cells are missing is whole nowhere.
ShortNowhere == \A r \in Record : AtEnd(r) /\ left[r] > 0 => \A i \in DOMAIN file : ~WholeAt(r, i)

\* A record that writeAll has not finished is whole nowhere in the file.
LEMMA ShortIsNotWhole == LogTypeOK => ShortNowhere
<1> SUFFICES ASSUME LogTypeOK, NEW r \in Record, AtEnd(r), left[r] > 0, NEW i \in DOMAIN file, WholeAt(r, i)
             PROVE FALSE
  BY Zenon DEF ShortNowhere
<1>1. Len(file) \in Nat /\ Length \in Nat /\ Length >= 2 /\ DOMAIN file = 1..Len(file) /\ left[r] \in Nat
  BY LogAssumption DEF LogTypeOK
<1>2. file[i + Length - 1] = <<r, Length>> /\ i + Length - 1 \in 1..Len(file)
  BY <1>1 DEF WholeAt
<1>3. ~(i + Length - 1 <= Len(file) - Done(r))
  BY <1>1, <1>2 DEF AtEnd
<1>4. Length = i + Length - 1 - (Len(file) - Done(r))
  <2> DEFINE x == i + Length - 1
  <2>1. x \in 1..Len(file) /\ ~(x <= Len(file) - Done(r))
    BY Zenon, <1>2, <1>3
  <2>2. file[x] = <<r, x - (Len(file) - Done(r))>>
    <3> HIDE DEF x
    <3> QED
      BY Zenon, <2>1 DEF AtEnd
  <2>3. file[x] = <<r, Length>>
    BY Zenon, <1>2
  <2>4. Length = x - (Len(file) - Done(r))
    BY <2>2, <2>3
  <2>5. i \in Int /\ Len(file) \in Int /\ Done(r) \in Int /\ Length \in Int
    BY <1>1 DEF Done
  <2> QED
    BY <2>4, <2>5
<1> QED
  BY <1>1, <1>2, <1>4 DEF Done

-----------------------------------------------------------------------------
(* The refinement *)

\* The write of a cell shows nothing, or the whole record at the end of the log
\* (writeAll under the mutex).
LEMMA WriteStep ==
  ASSUME IInv, IInv', NEW r \in Record, Write(r)
  PROVE  UNCHANGED Atomic!vars \/ Atomic!Store(r)
<1>1. LogTypeOK /\ LogTypeOK' /\ AtEnd(r) /\ AtEnd(r)' /\ call[r] = "writing" /\ call' = call
  BY Zenon DEF IInv, Write
<1>2. left[r] \in 1..Length /\ left'[r] = left[r] - 1 /\ Length \in Nat
  BY <1>1, LogAssumption DEF LogTypeOK, Write
<1>3. /\ Len(file) \in Nat /\ Len(file') = Len(file) + 1
      /\ DOMAIN file = 1..Len(file) /\ DOMAIN file' = 1..(Len(file) + 1)
  BY <1>1 DEF LogTypeOK, Write
<1>4. ASSUME NEW q \in Record, q # r, NEW i \in DOMAIN file' PROVE WholeAt(q, i)' <=> WholeAt(q, i)
  BY <1>1, <1>3, <1>4, OthersStay DEF Write
<1>5. ASSUME NEW i \in DOMAIN file', NEW q \in Record, WholeAt(q, i) PROVE i \in DOMAIN file
  BY <1>3, <1>5, LogAssumption DEF WholeAt
<1>6. \A i \in DOMAIN file : ~WholeAt(r, i)
  BY <1>1, <1>2, ShortIsNotWhole DEF ShortNowhere
<1>7. Calls' = Calls /\ Calls[r] = "pending"
  BY Zenon, <1>1 DEF Calls, Pending
<1>8. CASE left[r] > 1
  <2>1. \A i \in DOMAIN file' : ~WholeAt(r, i)'
    <3>1. left'[r] > 0
      BY <1>2, <1>8
    <3> QED
      <4>1. LogTypeOK' => ShortNowhere'
        BY ShortIsNotWhole, PTL
      <4> QED
        BY Zenon, <1>1, <3>1, <4>1 DEF ShortNowhere
  <2>2. \A q \in Record, i \in DOMAIN file' : WholeAt(q, i)' <=> WholeAt(q, i) /\ i \in DOMAIN file
    BY Zenon, <1>4, <1>5, <1>6, <2>1
  <2>3. DOMAIN file \subseteq DOMAIN file'
    BY <1>3
  <2>4. Stored' = Stored
    BY Zenon, <2>2, <2>3 DEF Stored
  <2>5. Before' = Before
    BY Zenon, <2>2, <2>3 DEF Before
  <2> QED
    BY Zenon, <1>7, <2>4, <2>5 DEF Atomic!vars
<1>9. CASE left[r] = 1
  <2>0. PICK s \in Int : s = Len(file) - Length + 2
    <3>1. Len(file) - Length + 2 \in Int
      BY <1>2, <1>3
    <3> QED
      BY <3>1, Zenon
  <2>1. /\ s \in DOMAIN file' /\ WholeAt(r, s)'
        /\ \A q \in Record, i \in DOMAIN file' : WholeAt(q, i)' => i <= s
        /\ \A i \in DOMAIN file' : WholeAt(r, i)' => i = s
    <3>1. left'[r] = 0
      BY <1>2, <1>9
    <3>2. Len(file') - Length + 1 = s
      BY <1>2, <1>3, <2>0
    <3> QED
      <4>1. LogTypeOK' => CompleteEnds'
        BY WholeAtEnd, PTL
      <4>2. Ends(r)'
        BY Zenon, <1>1, <3>1, <4>1 DEF CompleteEnds
      <4> QED
        BY Zenon, <3>2, <4>2 DEF Ends
  <2>2. ASSUME NEW q \in Record, q # r, NEW i \in DOMAIN file', WholeAt(q, i)' PROVE i < s /\ i \in DOMAIN file
    <3>1. i # s
      <4>1. 1 \in 1..Length /\ i + 1 - 1 = i /\ s + 1 - 1 = s
        BY <1>3, LogAssumption
      <4>2. file'[i] = <<q, 1>> /\ file'[s] = <<r, 1>>
        BY <2>1, <2>2, <4>1, Zenon DEF WholeAt
      <4> QED
        BY <2>2, <4>2
    <3> QED
      BY <1>2, <1>3, <1>4, <1>5, <2>1, <2>2, <3>1
  <2>3. DOMAIN file \subseteq DOMAIN file' /\ s \in Nat
    BY <1>3, <2>1
  <2>4. r \notin Stored
    BY Zenon, <1>6 DEF Stored
  <2>5. Stored' = Stored \cup {r}
    <3>1. r \in Stored'
      BY Zenon, <2>1 DEF Stored
    <3>2. ASSUME NEW q \in Record, q # r PROVE q \in Stored' <=> q \in Stored
      BY Zenon, <1>4, <2>2, <2>3, <3>2 DEF Stored
    <3>3. Stored \subseteq Record /\ Stored' \subseteq Record
      BY Zenon DEF Stored
    <3> QED
      BY Zenon, <3>1, <3>2, <3>3
  <2>6. Before' = Before \cup (Stored \X {r})
    <3>1. ASSUME NEW p \in Record \X Record, p \in Before' PROVE p \in Before \cup (Stored \X {r})
      <4>1. PICK i \in DOMAIN file', j \in DOMAIN file' : i < j /\ WholeAt(p[1], i)' /\ WholeAt(p[2], j)'
        BY Zenon, <3>1 DEF Before
      <4>2. p[1] # r
        BY <1>3, <2>1, <4>1
      <4>3. i \in DOMAIN file /\ WholeAt(p[1], i) /\ p[1] \in Stored
        BY Zenon, <1>4, <2>2, <4>1, <4>2 DEF Stored
      <4>4. CASE p[2] = r
        BY Zenon, <4>3, <4>4
      <4>5. CASE p[2] # r
        <5>1. j \in DOMAIN file /\ WholeAt(p[2], j)
          BY Zenon, <1>4, <2>2, <4>1, <4>5
        <5> QED
          BY Zenon, <4>1, <4>3, <5>1 DEF Before
      <4> QED
        BY Zenon, <4>4, <4>5
    <3>2. ASSUME NEW p \in Before PROVE p \in Before'
      <4>1. p \in Record \X Record
        BY Zenon DEF Before
      <4>2. PICK i \in DOMAIN file, j \in DOMAIN file : i < j /\ WholeAt(p[1], i) /\ WholeAt(p[2], j)
        BY Zenon DEF Before
      <4>3. p[1] # r /\ p[2] # r
        BY Zenon, <1>6, <4>2
      <4>4. WholeAt(p[1], i)' /\ WholeAt(p[2], j)'
        BY Zenon, <1>4, <2>3, <4>1, <4>2, <4>3
      <4> QED
        BY Zenon, <2>3, <4>1, <4>2, <4>4 DEF Before
    <3>3. ASSUME NEW q \in Stored PROVE <<q, r>> \in Before'
      <4>1. PICK i \in DOMAIN file : WholeAt(q, i)
        BY Zenon DEF Stored
      <4>2. q \in Record /\ q # r
        BY Zenon, <2>4 DEF Stored
      <4>3. i \in DOMAIN file' /\ WholeAt(q, i)'
        BY Zenon, <1>4, <2>3, <4>1, <4>2
      <4>4. i < s
        BY Zenon, <2>2, <4>2, <4>3
      <4>5. <<q, r>> \in Record \X Record /\ <<q, r>>[1] = q /\ <<q, r>>[2] = r
        BY Zenon, <4>2
      <4> QED
        BY Zenon, <2>1, <4>3, <4>4, <4>5 DEF Before
    <3>4. Before' \subseteq Record \X Record
      BY Zenon DEF Before
    <3> QED
      BY <3>1, <3>2, <3>3, <3>4
  <2> QED
    BY Zenon, <1>7, <2>4, <2>5, <2>6 DEF Atomic!Store
<1> QED
  BY <1>2, <1>8, <1>9

\* A step that leaves the file alone leaves the log alone.
LEMMA SameFile == ASSUME file' = file PROVE Stored' = Stored /\ Before' = Before
BY DEF Stored, Before, WholeAt

\* When Record returns nil after its write, the record is the last one of the
\* log.
LEMMA WrittenStep ==
  ASSUME IInv, NEW r \in Record, Written(r)
  PROVE  Atomic!Confirm(r)
<1>1. LogTypeOK /\ AtEnd(r) /\ left[r] = 0 /\ call[r] = "writing"
  BY Zenon DEF IInv, Written
<1> DEFINE s == Len(file) - Length + 1
<1>2. /\ s \in DOMAIN file /\ WholeAt(r, s)
      /\ \A q \in Record, i \in DOMAIN file : WholeAt(q, i) => i <= s
      /\ \A i \in DOMAIN file : WholeAt(r, i) => i = s
  BY Zenon, <1>1, WholeAtEnd DEF CompleteEnds, Ends
<1>3. r \in Stored
  BY Zenon, <1>2 DEF Stored
<1>4. ASSUME NEW q \in Stored, <<r, q>> \in Before PROVE FALSE
  <2>1. PICK i \in DOMAIN file, j \in DOMAIN file : i < j /\ WholeAt(r, i) /\ WholeAt(q, j)
    BY Zenon, <1>4 DEF Before
  <2>2. i = s /\ j <= s
    BY Zenon, <1>2, <2>1 DEF Stored
  <2>3. i \in Int /\ j \in Int
    BY <1>1 DEF LogTypeOK
  <2> QED
    BY <2>1, <2>2, <2>3
<1>5. Calls[r] = "pending" /\ Calls' = [Calls EXCEPT ![r] = "nil"]
  BY <1>1, Zenon DEF Calls, Pending, Written, Return, LogTypeOK
<1>6. Stored' = Stored /\ Before' = Before
  BY Zenon, SameFile DEF Written
<1> QED
  BY Zenon, <1>3, <1>4, <1>5, <1>6 DEF Atomic!Confirm

\* Every step of the logger is a step of AtomicLog or shows nothing there.
LEMMA RefinedStep == IInv /\ IInv' /\ [LogNext]_logVars => [Atomic!Next]_(Atomic!vars)
<1> SUFFICES ASSUME IInv, IInv', [LogNext]_logVars PROVE [Atomic!Next]_(Atomic!vars)
  BY Zenon
<1>0. LogTypeOK
  BY Zenon DEF IInv
<1>1. ASSUME NEW r \in Record, Start(r) PROVE Atomic!Begin(r)
  <2>1. Calls[r] = "idle" /\ Calls' = [Calls EXCEPT ![r] = "pending"]
    BY <1>0, <1>1, Zenon DEF Calls, Pending, Start, LogTypeOK
  <2> QED
    BY Zenon, <1>1, <2>1, SameFile DEF Start, Atomic!Begin
<1>2. ASSUME NEW r \in Record, call[r] \in Pending, Return(r, Failure), file' = file PROVE Atomic!Fail(r)
  <2>1. Calls[r] = "pending" /\ Calls' = [Calls EXCEPT ![r] = Failure]
    BY <1>0, <1>2, Zenon DEF Calls, Pending, Return, Failure, LogTypeOK
  <2> QED
    BY Zenon, <1>2, <2>1, SameFile DEF Failure, Atomic!Fail
<1>3. ASSUME NEW r \in Record, Lock(r) PROVE Atomic!Fail(r) \/ UNCHANGED Atomic!vars
  <2>1. CASE Return(r, Failure)
    BY Zenon, <1>2, <1>3, <2>1 DEF Lock, Pending
  <2>2. CASE call' = [call EXCEPT ![r] = "writing"]
    <3>1. Calls' = Calls
      BY Zenon, <1>0, <1>3, <2>2 DEF Calls, Pending, Lock, LogTypeOK
    <3> QED
      BY Zenon, <1>3, <3>1, SameFile DEF Lock, Atomic!vars
  <2> QED
    BY Zenon, <1>3, <2>1, <2>2 DEF Lock
<1>4. ASSUME NEW r \in Record, WriteFails(r) PROVE Atomic!Fail(r)
  BY Zenon, <1>2, <1>4 DEF WriteFails, Pending
<1>5. CASE LogCrash
  <2>1. Calls' = [r \in Record |-> IF Calls[r] = "pending" THEN "lost" ELSE Calls[r]]
    BY <1>0, <1>5, Zenon DEF Calls, Pending, LogCrash, LogTypeOK
  <2>2. Atomic!Stop
    BY Zenon, <1>5, <2>1, SameFile DEF LogCrash, Atomic!Stop
  <2> QED
    BY Zenon, <2>2 DEF Atomic!Next
<1>6. CASE Close \/ Open \/ UNCHANGED logVars
  <2>1. Calls' = Calls /\ file' = file
    BY Zenon, <1>6 DEF Calls, Close, Open, logVars
  <2> QED
    BY Zenon, <2>1, SameFile DEF Atomic!vars
<1>7. ASSUME NEW r \in Record, Start(r) \/ Lock(r) \/ Write(r) \/ WriteFails(r) \/ Written(r)
      PROVE [Atomic!Next]_(Atomic!vars)
  BY Zenon, <1>1, <1>3, <1>4, <1>7, WriteStep, WrittenStep DEF Atomic!Next
<1> QED
  BY Zenon, <1>5, <1>6, <1>7 DEF LogNext

\* The logger of internal/audit, with writes that stop half way, Close, crashes
\* and reopening, implements the atomic log, whatever the number of callers and
\* the length of a record.
THEOREM AtomicAppends == LogSpec => ImplementsAtomicLog
<1>1. LogInit => Atomic!Init
  <2> SUFFICES ASSUME LogInit PROVE Atomic!Init
    BY Zenon
  <2>1. DOMAIN file = {}
    BY DEF LogInit
  <2>2. Stored = {} /\ Before = {}
    BY Zenon, <2>1 DEF Stored, Before
  <2>3. Calls = [r \in Record |-> "idle"]
    BY Zenon DEF LogInit, Calls, Pending
  <2> QED
    BY Zenon, <2>2, <2>3 DEF Atomic!Init
<1> QED
  BY <1>1, Invariance, RefinedStep, PTL DEF LogSpec, ImplementsAtomicLog, Atomic!Spec

(***************************************************************************)
(* The control API.                                                        *)
(***************************************************************************)
Entry == {"authorized", "completed", "failed"}

\* What the handler of a call has done, by stage.
StageInv(c) ==
  /\ pc[c] \in {"idle", "arrived", "valid"} => trail[c] = <<>>
  /\ pc[c] \in {"idle", "arrived", "valid", "authorized"} => issued[c] = None
  /\ pc[c] # "idle" => op[c] # "none"
  /\ pc[c] # "idle" /\ op[c] # "mint" => target[c] \in Token
  /\ op[c] = "revoke" => issued[c] = None
  /\ pc[c] \in {"mutated", "responding", "compensating"} /\ op[c] # "revoke" => issued[c] # None
  /\ pc[c] = "compensating" => op[c] # "revoke"

\* What it has told the command, and what the command made of it.
AnswerInv(c) ==
  /\ pc[c] # "done" => response[c] = "none" /\ client[c] \notin {"holding", "printed", "revoked"}
  /\ response[c] = "accepted" /\ op[c] # "revoke" => issued[c] # None
  /\ client[c] \in {"holding", "printed"} => response[c] = "accepted" /\ op[c] # "revoke"
  /\ client[c] = "revoked" => response[c] = "accepted" /\ op[c] = "revoke"

\* The records of a call whose sink fails closed.
TrailInv(c) ==
  FailureMode = "closed" =>
    /\ pc[c] \in {"authorized", "mutated"} => trail[c] = <<"authorized">>
    /\ pc[c] = "responding" \/ response[c] = "accepted" => trail[c] = <<"authorized", "completed">>
    /\ issued[c] # None => trail[c] # <<>> /\ Head(trail[c]) = "authorized"

\* The store's side: the token issued is in it, the one revoked stays revoked.
StoreInv(c) ==
  /\ issued[c] # None => state[issued[c]] # "absent"
  /\ op[c] = "revoke" /\ (pc[c] \in {"mutated", "responding"} \/ response[c] = "accepted")
       => state[target[c]] = "revoked"
  /\ pc[c] = "done" /\ issued[c] # None /\ response[c] # "accepted"
       => state[issued[c]] = "revoked" \/ issued[c] \in uncompensated

Unshared == \A c, d \in Call : issued[c] # None /\ issued[d] = issued[c] => c = d

CallInv(c) == StageInv(c) /\ AnswerInv(c) /\ TrailInv(c) /\ StoreInv(c)

ControlIInv ==
  /\ TypeOK /\ lapsed = {} /\ Unshared
  /\ \A c \in Call : CallInv(c)
-----------------------------------------------------------------------------
(* Steps that leave a call alone *)

\* The store only moves forward: a token in it stays, and a revoked one stays revoked.
StoreGrows ==
  /\ \A t \in Token : /\ state[t] # "absent" => state'[t] # "absent"
                      /\ state[t] = "revoked" => state'[t] = "revoked"
  /\ uncompensated \subseteq uncompensated'

Same(c) ==
  /\ pc'[c] = pc[c] /\ op'[c] = op[c] /\ target'[c] = target[c] /\ issued'[c] = issued[c]
  /\ trail'[c] = trail[c] /\ response'[c] = response[c] /\ client'[c] = client[c]

\* What holds of a call is not disturbed by steps of others.
LEMMA OtherCall ==
    ASSUME NEW c \in Call, TypeOK, CallInv(c), StoreGrows, Same(c)
    PROVE  CallInv(c)'
  <1>1. issued[c] \in Token \cup {None} /\ target[c] \in Token \cup {None}
    BY Zenon DEF TypeOK
  <1>2. StageInv(c)'
    BY Zenon DEF CallInv, StageInv, Same
  <1>3. AnswerInv(c)'
    BY Zenon DEF CallInv, AnswerInv, Same
  <1>4. TrailInv(c)'
    BY Zenon DEF CallInv, TrailInv, Same
  <1>5. StoreInv(c)'
    <2>1. op[c] = "revoke" /\ (pc[c] \in {"mutated", "responding"} \/ response[c] = "accepted")
            => target[c] \in Token
      BY Zenon DEF CallInv, StageInv, AnswerInv
    <2> QED  BY Zenon, <1>1, <2>1 DEF CallInv, StoreInv, Same, StoreGrows
  <1> QED  BY Zenon, <1>2, <1>3, <1>4, <1>5 DEF CallInv

\* A token is of its own lineage.
LEMMA OwnLineage == \A t \in Token : t \in Lineage(t)
  BY Zenon DEF Lineage

\* A write of the store that revokes a token's subtree: whatever its outcome it
\* moves the store forward, and unless it failed the token is revoked
\* (store.go revokeHash).
LEMMA SubtreeRevoked ==
    ASSUME TypeOK, NEW t \in Token, NEW outcome, RevokeSubtree(t, outcome)
    PROVE  /\ state' \in [Token -> {"absent", "live", "revoked"}]
           /\ \A d \in Token : /\ state[d] # "absent" => state'[d] # "absent"
                               /\ state[d] = "revoked" => state'[d] = "revoked"
           /\ outcome # "failed" => state'[t] = "revoked"
  <1>1. state \in [Token -> {"absent", "live", "revoked"}]
    BY Zenon DEF TypeOK
  <1>2. CASE outcome = "failed"
    BY Zenon, <1>1, <1>2 DEF RevokeSubtree
  <1>3. CASE outcome # "failed"
    <2>1. /\ state[t] # "absent"
          /\ state' = [d \in Token |-> IF t \in Lineage(d) /\ state[d] = "live" THEN "revoked" ELSE state[d]]
      BY Zenon, <1>3 DEF RevokeSubtree
    <2>2. t \in Lineage(t)
      BY Zenon, OwnLineage
    <2> QED  BY Zenon, <1>1, <2>1, <2>2, <1>3
  <1> QED  BY Zenon, <1>2, <1>3

-----------------------------------------------------------------------------
(* The invariant *)

\* Nothing was asked yet.
LEMMA InitInv == Init => ControlIInv
  <1> SUFFICES ASSUME Init PROVE ControlIInv
    BY Zenon
  <1>1. TypeOK
    BY ControlAssumption DEF Init, TypeOK, Stage
  <1>2. Unshared
    BY Zenon DEF Init, Unshared
  <1>3. ASSUME NEW c \in Call PROVE CallInv(c)
    BY Zenon DEF Init, CallInv, StageInv, AnswerInv, TrailInv, StoreInv
  <1> QED  BY Zenon, <1>1, <1>2, <1>3 DEF ControlIInv, Init

\* The steps of one call that leave the store, and what the call issued, alone.
LEMMA Combine ==
    ASSUME ControlIInv, TypeOK', NEW c \in Call, CallInv(c)', StoreGrows, lapsed' = {}, issued' = issued,
           \A d \in Call : d # c => Same(d)
    PROVE  ControlIInv'
  <1>1. ASSUME NEW d \in Call PROVE CallInv(d)'
    <2>1. CASE d = c
      BY Zenon, <2>1
    <2>2. CASE d # c
      BY Zenon, <2>2, OtherCall DEF ControlIInv
    <2> QED  BY Zenon, <2>1, <2>2
  <1>2. Unshared'
    BY Zenon DEF ControlIInv, Unshared
  <1> QED  BY Zenon, <1>1, <1>2 DEF ControlIInv

\* A request reaches the socket (control.go).
LEMMA ArriveInv ==
    ASSUME ControlIInv, NEW c \in Call, Arrive(c)
    PROVE  ControlIInv'
  <1> USE DEF ControlIInv, Arrive, Goto, store
  <1>1. TypeOK'
    BY DEF TypeOK, Stage
  <1>2. StoreGrows
    BY Zenon DEF StoreGrows
  <1>3. \A d \in Call : d # c => Same(d)
    BY DEF Same, TypeOK
  <1>4. CallInv(c)'
    BY DEF CallInv, StageInv, AnswerInv, TrailInv, StoreInv, TypeOK
  <1> QED  BY Zenon, <1>1, <1>2, <1>3, <1>4, Combine

\* decodeJSON, the checks and, for a delegation, the first validation.
LEMMA CheckInv ==
    ASSUME ControlIInv, NEW c \in Call, Check(c)
    PROVE  ControlIInv'
  <1> USE DEF ControlIInv, Check, Running, Answer, Goto, store, request
  <1>1. TypeOK'
    BY Zenon DEF TypeOK, Stage
  <1>2. StoreGrows
    BY Zenon DEF StoreGrows
  <1>3. \A d \in Call : d # c => Same(d)
    BY DEF Same, TypeOK
  <1>4. CallInv(c)'
    BY DEF CallInv, StageInv, AnswerInv, TrailInv, StoreInv, TypeOK
  <1> QED  BY Zenon, <1>1, <1>2, <1>3, <1>4, Combine

\* What a record adds to a trail.
LEMMA Recorded ==
    ASSUME TypeOK, NEW c \in Call, NEW entry \in Entry, NEW written \in BOOLEAN, Trail(c, entry, written)
    PROVE  /\ trail' \in [Call -> Seq(Entry)]
           /\ \A d \in Call : d # c => trail'[d] = trail[d]
           /\ trail'[c] = IF written THEN Append(trail[c], entry) ELSE trail[c]
  BY DEF TypeOK, Trail, Entry

\* A record appended to a trail.
LEMMA Appended ==
  ASSUME NEW S, NEW s \in Seq(S), NEW e \in S
  PROVE  /\ Append(s, e) \in Seq(S) /\ Append(s, e) # <<>> /\ Len(Append(s, e)) = Len(s) + 1
         /\ Append(s, e)[Len(s) + 1] = e
         /\ \A i \in 1..Len(s) : Append(s, e)[i] = s[i]
OBVIOUS

\* Trails with the same records are the same.
LEMMA SameSequence ==
  ASSUME NEW S, NEW s \in Seq(S), NEW t \in Seq(S), Len(s) = Len(t),
         \A i \in 1..Len(s) : s[i] = t[i]
  PROVE  s = t
OBVIOUS

\* Records, as sequences.
LEMMA TrailFacts ==
  /\ Append(<<>>, "authorized") = <<"authorized">>
  /\ Append(<<"authorized">>, "completed") = <<"authorized", "completed">>
  /\ \A s \in Seq(Entry), e \in Entry :
       /\ s # <<>> => Head(Append(s, e)) = Head(s)
       /\ Append(s, e) # <<>>
  /\ <<"authorized">> # <<>> /\ Head(<<"authorized">>) = "authorized"
  /\ <<"authorized", "completed">> # <<>> /\ Head(<<"authorized", "completed">>) = "authorized"
  <1>1. Append(<<>>, "authorized") = <<"authorized">>
    OBVIOUS
  <1>2. Append(<<"authorized">>, "completed") = <<"authorized", "completed">>
    <2>1. /\ <<"authorized">> \in Seq(Entry) /\ "completed" \in Entry
          /\ <<"authorized", "completed">> \in Seq(Entry)
      BY DEF Entry
    <2>2. Len(<<"authorized">>) = 1 /\ Len(<<"authorized", "completed">>) = 2
      BY Zenon
    <2>3. /\ Append(<<"authorized">>, "completed") \in Seq(Entry)
          /\ Len(Append(<<"authorized">>, "completed")) = 2
          /\ Append(<<"authorized">>, "completed")[1] = "authorized"
          /\ Append(<<"authorized">>, "completed")[2] = "completed"
      BY <2>1, <2>2, Appended
    <2>4. <<"authorized", "completed">>[1] = "authorized" /\ <<"authorized", "completed">>[2] = "completed"
      BY Zenon
    <2>5. \A i \in 1..2 : Append(<<"authorized">>, "completed")[i] = <<"authorized", "completed">>[i]
      BY <2>3, <2>4
    <2> HIDE DEF Entry
    <2> QED  BY <2>1, <2>2, <2>3, <2>5, SameSequence, Zenon
  <1>3. ASSUME NEW s \in Seq(Entry), NEW e \in Entry
        PROVE  (s # <<>> => Head(Append(s, e)) = Head(s)) /\ Append(s, e) # <<>>
    <2>1. Append(s, e) # <<>> /\ \A i \in 1..Len(s) : Append(s, e)[i] = s[i]
      BY Appended
    <2>2. s # <<>> => Len(s) \in Nat \ {0} /\ Head(s) = s[1]
      OBVIOUS
    <2>3. Append(s, e) \in Seq(Entry)
      BY Zenon, Appended
    <2>4. Head(Append(s, e)) = Append(s, e)[1]
      BY <2>1, <2>3
    <2> QED  BY <2>1, <2>2, <2>4
  <1>4. <<"authorized">> # <<>> /\ Head(<<"authorized">>) = "authorized"
    OBVIOUS
  <1>5. <<"authorized", "completed">> # <<>> /\ Head(<<"authorized", "completed">>) = "authorized"
    OBVIOUS
  <1> QED  BY Zenon, <1>1, <1>2, <1>3, <1>4, <1>5

\* The record that goes before the operation (recordControl).
LEMMA AuthorizeInv ==
    ASSUME ControlIInv, NEW c \in Call, Authorize(c)
    PROVE  ControlIInv'
  <1> USE DEF ControlIInv, Authorize, Running, Answer, Goto, store, request
  <1>0. PICK written \in BOOLEAN :
          /\ Trail(c, "authorized", written)
          /\ \/ Acknowledged(written) /\ Goto(c, "authorized") /\ UNCHANGED response
             \/ ~Acknowledged(written) /\ Answer(c, "rejected")
    BY Zenon DEF SinkWrites
  <1>a. "authorized" \in Entry
    BY Zenon DEF Entry
  <1>b. /\ trail' \in [Call -> Seq(Entry)]
        /\ \A d \in Call : d # c => trail'[d] = trail[d]
        /\ trail'[c] = IF written THEN Append(trail[c], "authorized") ELSE trail[c]
    BY Zenon, <1>0, <1>a, Recorded
  <1>1. TypeOK'
    BY <1>0, <1>b, Zenon DEF TypeOK, Stage, Entry
  <1>2. StoreGrows
    BY Zenon DEF StoreGrows
  <1>3. \A d \in Call : d # c => Same(d)
    BY <1>0, <1>b DEF Same, TypeOK
  <1>4. CallInv(c)'
    <2>1. pc[c] = "valid" /\ trail[c] = <<>> /\ issued[c] = None /\ response[c] = "none"
      BY Zenon DEF CallInv, StageInv, AnswerInv
    <2>2. StageInv(c)' /\ AnswerInv(c)' /\ StoreInv(c)'
      BY <1>0, <2>1 DEF CallInv, StageInv, AnswerInv, StoreInv, TypeOK
    <2>3. TrailInv(c)'
      BY <1>0, <1>b, <2>1, TrailFacts DEF TrailInv, Acknowledged, TypeOK
    <2> QED  BY Zenon, <2>2, <2>3 DEF CallInv
  <1> QED  BY Zenon, <1>1, <1>2, <1>3, <1>4, Combine

\* A store method that failed: a best-effort record and an error.
LEMMA FailedCall ==
    ASSUME ControlIInv, NEW c \in Call, pc[c] = "authorized", Failed(c), UNCHANGED <<op, target, client>>
    PROVE  /\ pc' \in [Call -> Stage] /\ trail' \in [Call -> Seq(Entry)]
           /\ response' \in [Call -> {"none", "rejected", "accepted", "torn"}]
           /\ issued' = issued
           /\ \A d \in Call : d # c => Same(d)
           /\ StageInv(c)' /\ AnswerInv(c)' /\ TrailInv(c)'
           /\ issued'[c] = None /\ pc'[c] = "done" /\ response'[c] = "rejected"
  <1> USE DEF ControlIInv, Failed, Answer, Goto
  <1>0. PICK written \in BOOLEAN : Trail(c, "failed", written)
    BY Zenon DEF SinkWrites
  <1>a. "failed" \in Entry
    BY Zenon DEF Entry
  <1>b. /\ trail' \in [Call -> Seq(Entry)]
        /\ \A d \in Call : d # c => trail'[d] = trail[d]
    BY Zenon, <1>0, <1>a, Recorded
  <1>1. /\ pc' \in [Call -> Stage]
        /\ response' \in [Call -> {"none", "rejected", "accepted", "torn"}]
    BY Zenon DEF TypeOK, Stage
  <1>2. \A d \in Call : d # c => Same(d)
    BY <1>b DEF Same, TypeOK
  <1>3. issued[c] = None /\ client[c] \notin {"holding", "printed", "revoked"}
    BY Zenon DEF CallInv, StageInv, AnswerInv
  <1>4. pc'[c] = "done" /\ response'[c] = "rejected" /\ issued'[c] = None
    BY Zenon, <1>3 DEF TypeOK
  <1>5. StageInv(c)'
    BY Zenon, <1>3, <1>4 DEF CallInv, StageInv
  <1>6. AnswerInv(c)'
    BY Zenon, <1>3, <1>4 DEF CallInv, AnswerInv
  <1>7. TrailInv(c)'
    BY Zenon, <1>3, <1>4 DEF TrailInv
  <1> QED  BY Zenon, <1>b, <1>1, <1>2, <1>4, <1>5, <1>6, <1>7

\* The store issues a token that was in no record, or fails before or after the
\* file was replaced (store.go Mint, Delegate).
LEMMA IssueInv ==
    ASSUME ControlIInv, NEW c \in Call, NEW from \in Token \cup {None}, from # None => Usable(from),
           pc[c] = "authorized", op[c] # "revoke", Issue(c, from),
           UNCHANGED <<op, target, client, uncompensated, phase>>
    PROVE  ControlIInv'
  <1> USE DEF ControlIInv
  <1>1. PICK t \in Token, outcome \in Outcome :
          /\ state[t] = "absent"
          /\ \/ outcome = "failed" /\ UNCHANGED store
             \/ /\ outcome # "failed"
                /\ state' = [state EXCEPT ![t] = "live"]
                /\ parent' = [parent EXCEPT ![t] = from]
                /\ lapsed' = IF from # None /\ ~Usable(from) THEN lapsed \cup {t} ELSE lapsed
          /\ \/ /\ outcome = "done"
                /\ issued' = [issued EXCEPT ![c] = t]
                /\ Goto(c, "mutated")
                /\ UNCHANGED <<trail, response>>
             \/ outcome # "done" /\ Failed(c)
    BY Zenon DEF Issue
  <1>2. /\ state' \in [Token -> {"absent", "live", "revoked"}]
        /\ parent' \in [Token -> Token \cup {None}]
        /\ lapsed' = {}
    BY <1>1, Zenon DEF TypeOK, store
  <1>3. StoreGrows
    BY <1>1 DEF StoreGrows, TypeOK, store
  <1>4. CASE outcome = "done"
    <2>1. TypeOK'
      <3>1. /\ issued' = [issued EXCEPT ![c] = t] /\ Goto(c, "mutated")
            /\ UNCHANGED <<trail, response>>
        BY Zenon, <1>1, <1>4
      <3>2. pc' \in [Call -> Stage] /\ issued' \in [Call -> Token \cup {None}]
        BY Zenon, <3>1 DEF TypeOK, Goto, Stage
      <3> QED  BY Zenon, <1>2, <3>1, <3>2 DEF TypeOK
    <2>2. \A d \in Call : d # c => Same(d)
      BY <1>1, <1>4 DEF Same, TypeOK, Goto
    <2>3. /\ pc'[c] = "mutated" /\ issued'[c] = t /\ t # None /\ state'[t] = "live"
          /\ trail'[c] = trail[c] /\ response'[c] = "none"
      BY <1>1, <1>4, ControlAssumption DEF TypeOK, Goto, CallInv, AnswerInv
    <2>4. StageInv(c)' /\ AnswerInv(c)' /\ StoreInv(c)'
      BY Zenon, <2>3 DEF CallInv, StageInv, AnswerInv, StoreInv
    <2>5. TrailInv(c)'
      BY Zenon, <2>3, TrailFacts DEF CallInv, TrailInv
    <2>6. ASSUME NEW d \in Call PROVE CallInv(d)'
      <3>1. CASE d = c
        BY Zenon, <2>4, <2>5, <3>1 DEF CallInv
      <3>2. CASE d # c
        BY Zenon, <1>3, <2>2, <3>2, OtherCall
      <3> QED  BY Zenon, <3>1, <3>2
    <2>7. ASSUME NEW d \in Call, d # c PROVE issued'[d] = issued[d] /\ issued'[d] # t
      <3>1. issued'[d] = issued[d]
        BY Zenon, <2>2, <2>7 DEF Same
      <3>2. issued[d] # None => state[issued[d]] # "absent"
        BY Zenon DEF CallInv, StoreInv
      <3> QED  BY <1>1, <2>3, <3>1, <3>2
    <2>8. Unshared'
      <3> SUFFICES ASSUME NEW a \in Call, NEW b \in Call, issued'[a] # None, issued'[b] = issued'[a]
                   PROVE  a = b
        BY Zenon DEF Unshared
      <3>1. CASE a = c
        BY Zenon, <2>3, <2>7, <3>1
      <3>2. CASE b = c
        BY Zenon, <2>3, <2>7, <3>2
      <3>3. CASE a # c /\ b # c
        BY Zenon, <2>7, <3>3 DEF Unshared
      <3> QED  BY Zenon, <3>1, <3>2, <3>3
    <2> QED  BY Zenon, <1>2, <2>1, <2>6, <2>8
  <1>5. CASE outcome # "done"
    <2>1. /\ pc' \in [Call -> Stage] /\ trail' \in [Call -> Seq(Entry)]
          /\ response' \in [Call -> {"none", "rejected", "accepted", "torn"}]
          /\ issued' = issued
          /\ \A d \in Call : d # c => Same(d)
          /\ StageInv(c)' /\ AnswerInv(c)' /\ TrailInv(c)'
          /\ issued'[c] = None /\ pc'[c] = "done" /\ response'[c] = "rejected"
      BY Zenon, <1>1, <1>5, FailedCall
    <2>2. TypeOK'
      BY Zenon, <1>2, <2>1 DEF TypeOK, Entry
    <2>3. StoreInv(c)'
      BY Zenon, <2>1 DEF StoreInv
    <2> QED  BY Zenon, <1>2, <1>3, <2>1, <2>2, <2>3, Combine DEF CallInv
  <1> QED  BY Zenon, <1>4, <1>5

\* store.Mint.
LEMMA MintInv ==
    ASSUME ControlIInv, NEW c \in Call, Mint(c)
    PROVE  ControlIInv'
  BY Zenon, IssueInv DEF Mint, Running, request

\* store.Delegate, with its own validation of the parent.
LEMMA DelegateInv ==
    ASSUME ControlIInv, NEW c \in Call, Delegate(c)
    PROVE  ControlIInv'
  <1> USE DEF Delegate, Running, request
  <1>1. pc[c] = "authorized" /\ op[c] = "delegate"
    BY Zenon
  <1>2. CASE Usable(target[c]) /\ Issue(c, target[c])
    <2>1. target[c] \in Token \cup {None}
      BY Zenon DEF ControlIInv, TypeOK
    <2> QED  BY Zenon, <1>1, <1>2, <2>1, IssueInv
  <1>3. CASE ~Usable(target[c]) /\ Failed(c) /\ UNCHANGED store
    <2>1. /\ pc' \in [Call -> Stage] /\ trail' \in [Call -> Seq(Entry)]
          /\ response' \in [Call -> {"none", "rejected", "accepted", "torn"}]
          /\ issued' = issued
          /\ \A d \in Call : d # c => Same(d)
          /\ StageInv(c)' /\ AnswerInv(c)' /\ TrailInv(c)'
          /\ issued'[c] = None /\ pc'[c] = "done" /\ response'[c] = "rejected"
      BY Zenon, <1>1, <1>3, FailedCall
    <2>2. TypeOK' /\ lapsed' = {}
      BY Zenon, <1>3, <2>1 DEF ControlIInv, TypeOK, Entry, store
    <2>3. StoreInv(c)'
      BY Zenon, <1>1, <2>1 DEF StoreInv
    <2>4. StoreGrows
      BY Zenon, <1>3 DEF StoreGrows, store
    <2> QED  BY Zenon, <2>1, <2>2, <2>3, <2>4, Combine DEF CallInv
  <1> QED  BY Zenon, <1>2, <1>3

\* store.RevokeID and store.RevokeBearer.
LEMMA RevokeInv ==
    ASSUME ControlIInv, NEW c \in Call, Revoke(c)
    PROVE  ControlIInv'
  <1> USE DEF ControlIInv
  <1>1. PICK outcome \in Outcome :
          /\ RevokeSubtree(target[c], outcome)
          /\ \/ outcome = "done" /\ Goto(c, "mutated") /\ UNCHANGED <<trail, response, issued>>
             \/ outcome # "done" /\ Failed(c)
    BY Zenon DEF Revoke
  <1>2. /\ pc[c] = "authorized" /\ op[c] = "revoke"
        /\ UNCHANGED <<op, target, parent, lapsed, client, uncompensated, phase>>
    BY Zenon DEF Revoke, Running, request
  <1>3. target[c] \in Token
    BY Zenon, <1>2 DEF CallInv, StageInv
  <1>4. /\ state' \in [Token -> {"absent", "live", "revoked"}]
        /\ \A d \in Token : /\ state[d] # "absent" => state'[d] # "absent"
                            /\ state[d] = "revoked" => state'[d] = "revoked"
        /\ outcome # "failed" => state'[target[c]] = "revoked"
    BY Zenon, <1>1, <1>3, SubtreeRevoked
  <1>5. StoreGrows
    BY Zenon, <1>2, <1>4 DEF StoreGrows
  <1>6. CASE outcome = "done"
    <2>1. TypeOK'
      BY <1>1, <1>2, <1>4, <1>6, Zenon DEF TypeOK, Goto, Stage
    <2>2. \A d \in Call : d # c => Same(d)
      BY Zenon, <1>1, <1>2, <1>6 DEF Same, TypeOK, Goto
    <2>3. /\ pc'[c] = "mutated" /\ issued'[c] = None /\ trail'[c] = trail[c] /\ response'[c] = "none"
          /\ op'[c] = "revoke" /\ target'[c] = target[c] /\ client'[c] = client[c]
      BY <1>1, <1>2, <1>6 DEF TypeOK, Goto, CallInv, StageInv, AnswerInv
    <2>4. StageInv(c)' /\ AnswerInv(c)' /\ TrailInv(c)'
      BY Zenon, <1>2, <1>3, <2>3 DEF CallInv, StageInv, AnswerInv, TrailInv
    <2>5. StoreInv(c)'
      BY Zenon, <1>4, <1>6, <2>3 DEF StoreInv
    <2> QED  BY Zenon, <1>1, <1>2, <1>5, <1>6, <2>1, <2>2, <2>4, <2>5, Combine DEF CallInv
  <1>7. CASE outcome # "done"
    <2>1. /\ pc' \in [Call -> Stage] /\ trail' \in [Call -> Seq(Entry)]
          /\ response' \in [Call -> {"none", "rejected", "accepted", "torn"}]
          /\ issued' = issued
          /\ \A d \in Call : d # c => Same(d)
          /\ StageInv(c)' /\ AnswerInv(c)' /\ TrailInv(c)'
          /\ issued'[c] = None /\ pc'[c] = "done" /\ response'[c] = "rejected"
      BY Zenon, <1>1, <1>2, <1>7, FailedCall
    <2>2. TypeOK'
      BY Zenon, <1>2, <1>4, <2>1 DEF TypeOK, Entry
    <2>3. StoreInv(c)'
      BY Zenon, <2>1 DEF StoreInv
    <2> QED  BY Zenon, <1>2, <1>5, <2>1, <2>2, <2>3, Combine DEF CallInv
  <1> QED  BY Zenon, <1>6, <1>7

\* The completion record, and what its absence means.
LEMMA CompleteInv ==
    ASSUME ControlIInv, NEW c \in Call, Complete(c)
    PROVE  ControlIInv'
  <1> USE DEF ControlIInv
  <1>0. PICK written \in BOOLEAN :
          /\ Trail(c, "completed", written)
          /\ \/ Acknowledged(written) /\ Goto(c, "responding") /\ UNCHANGED response
             \/ ~Acknowledged(written) /\ op[c] = "revoke" /\ Answer(c, "rejected")
             \/ ~Acknowledged(written) /\ op[c] # "revoke" /\ Goto(c, "compensating") /\ UNCHANGED response
    BY Zenon DEF Complete, SinkWrites
  <1>a. /\ pc[c] = "mutated"
        /\ UNCHANGED <<op, target, issued, state, parent, lapsed, client, uncompensated, phase>>
    BY Zenon DEF Complete, Running, request, store
  <1>b. /\ trail' \in [Call -> Seq(Entry)]
        /\ \A d \in Call : d # c => trail'[d] = trail[d]
        /\ trail'[c] = IF written THEN Append(trail[c], "completed") ELSE trail[c]
    <2>1. "completed" \in Entry
      BY Zenon DEF Entry
    <2> QED  BY Zenon, <1>0, <2>1, Recorded
  <1>c. /\ pc' \in [Call -> Stage]
        /\ response' \in [Call -> {"none", "rejected", "accepted", "torn"}]
    BY <1>0, Zenon DEF TypeOK, Stage, Goto, Answer
  <1>1. TypeOK'
    BY Zenon, <1>a, <1>b, <1>c DEF TypeOK, Entry
  <1>2. StoreGrows
    BY Zenon, <1>a DEF StoreGrows
  <1>3. \A d \in Call : d # c => Same(d)
    BY <1>0, <1>a, <1>b DEF Same, TypeOK, Goto, Answer
  <1>4. CallInv(c)'
    <2>1. response[c] = "none" /\ client[c] \notin {"holding", "printed", "revoked"}
      BY Zenon, <1>a DEF CallInv, AnswerInv
    <2>2. \/ pc'[c] = "responding" /\ response'[c] = "none" /\ Acknowledged(written)
          \/ pc'[c] = "done" /\ response'[c] = "rejected" /\ op[c] = "revoke"
          \/ pc'[c] = "compensating" /\ response'[c] = "none" /\ op[c] # "revoke"
      BY <1>0, <2>1 DEF TypeOK, Goto, Answer
    <2>3. StageInv(c)'
      BY Zenon, <1>a, <2>2 DEF CallInv, StageInv
    <2>4. AnswerInv(c)'
      BY Zenon, <1>a, <2>1, <2>2 DEF CallInv, AnswerInv
    <2>5. TrailInv(c)'
      <3>1. FailureMode = "closed" => trail[c] = <<"authorized">> /\ (Acknowledged(written) => written)
        BY Zenon, <1>a DEF CallInv, TrailInv, Acknowledged
      <3>2. FailureMode = "closed" => \/ trail'[c] = <<"authorized">> /\ ~written
                                      \/ trail'[c] = <<"authorized", "completed">>
        BY <1>b, <3>1, TrailFacts, Zenon
      <3> QED  BY Zenon, <2>2, <3>1, <3>2, TrailFacts DEF TrailInv
    <2>6. StoreInv(c)'
      BY Zenon, <1>a, <2>1, <2>2 DEF CallInv, StageInv, StoreInv
    <2> QED  BY Zenon, <2>3, <2>4, <2>5, <2>6 DEF CallInv
  <1> QED  BY Zenon, <1>a, <1>1, <1>2, <1>3, <1>4, Combine

\* writeJSON.
LEMMA RespondInv ==
    ASSUME ControlIInv, NEW c \in Call, Respond(c)
    PROVE  ControlIInv'
  <1> USE DEF ControlIInv
  <1>a. /\ pc[c] = "responding"
        /\ UNCHANGED <<op, target, issued, state, parent, lapsed, trail, client, uncompensated, phase>>
        /\ \/ Answer(c, "accepted")
           \/ op[c] = "revoke" /\ Answer(c, "torn")
           \/ op[c] # "revoke" /\ Goto(c, "compensating") /\ UNCHANGED response
    BY Zenon DEF Respond, Running, request, store
  <1>1. TypeOK'
    BY <1>a, Zenon DEF TypeOK, Stage, Goto, Answer
  <1>2. StoreGrows
    BY Zenon, <1>a DEF StoreGrows
  <1>3. \A d \in Call : d # c => Same(d)
    BY <1>a DEF Same, TypeOK, Goto, Answer
  <1>4. CallInv(c)'
    <2>1. response[c] = "none" /\ client[c] \notin {"holding", "printed", "revoked"}
      BY Zenon, <1>a DEF CallInv, AnswerInv
    <2>2. \/ pc'[c] = "done" /\ response'[c] = "accepted"
          \/ pc'[c] = "done" /\ response'[c] = "torn" /\ op[c] = "revoke"
          \/ pc'[c] = "compensating" /\ response'[c] = "none" /\ op[c] # "revoke"
      BY <1>a, <2>1 DEF TypeOK, Goto, Answer
    <2>3. StageInv(c)'
      BY Zenon, <1>a, <2>2 DEF CallInv, StageInv
    <2>4. AnswerInv(c)'
      BY Zenon, <1>a, <2>1, <2>2 DEF CallInv, AnswerInv, StageInv
    <2>5. TrailInv(c)'
      BY Zenon, <1>a, <2>1, <2>2 DEF CallInv, TrailInv
    <2>6. StoreInv(c)'
      BY Zenon, <1>a, <2>1, <2>2 DEF CallInv, StageInv, StoreInv
    <2> QED  BY Zenon, <2>3, <2>4, <2>5, <2>6 DEF CallInv
  <1> QED  BY Zenon, <1>a, <1>1, <1>2, <1>3, <1>4, Combine

\* revokeIssuedToken.
LEMMA CompensateInv ==
    ASSUME ControlIInv, NEW c \in Call, Compensate(c)
    PROVE  ControlIInv'
  <1> USE DEF ControlIInv
  <1>a. /\ pc[c] = "compensating" /\ Answer(c, "torn")
        /\ UNCHANGED <<op, target, issued, parent, lapsed, trail, client, phase>>
    BY Zenon DEF Compensate, Running, request
  <1>b. PICK outcome \in Outcome :
          /\ RevokeSubtree(issued[c], outcome)
          /\ uncompensated' = IF outcome = "failed" THEN uncompensated \cup {issued[c]} ELSE uncompensated
    BY Zenon DEF Compensate
  <1>c. issued[c] \in Token /\ issued[c] # None /\ op[c] # "revoke"
    BY <1>a DEF CallInv, StageInv, TypeOK
  <1>d. /\ state' \in [Token -> {"absent", "live", "revoked"}]
        /\ \A d \in Token : /\ state[d] # "absent" => state'[d] # "absent"
                            /\ state[d] = "revoked" => state'[d] = "revoked"
        /\ outcome # "failed" => state'[issued[c]] = "revoked"
    BY Zenon, <1>b, <1>c, SubtreeRevoked
  <1>1. TypeOK'
    BY Zenon, <1>a, <1>b, <1>c, <1>d DEF TypeOK, Stage, Goto, Answer
  <1>2. StoreGrows
    BY Zenon, <1>b, <1>d DEF StoreGrows
  <1>3. \A d \in Call : d # c => Same(d)
    BY Zenon, <1>a DEF Same, TypeOK, Goto, Answer
  <1>4. CallInv(c)'
    <2>1. /\ response[c] = "none" /\ client[c] \notin {"holding", "printed", "revoked"}
          /\ pc'[c] = "done" /\ response'[c] = "torn"
      BY Zenon, <1>a DEF CallInv, AnswerInv, TypeOK, Goto, Answer
    <2>2. StageInv(c)'
      BY Zenon, <1>a, <2>1 DEF CallInv, StageInv
    <2>3. AnswerInv(c)'
      BY Zenon, <1>a, <2>1 DEF CallInv, AnswerInv
    <2>4. TrailInv(c)'
      BY Zenon, <1>a, <2>1 DEF CallInv, TrailInv
    <2>5. StoreInv(c)'
      <3>1. state'[issued[c]] = "revoked" \/ issued[c] \in uncompensated'
        BY Zenon, <1>b, <1>d
      <3>2. state'[issued[c]] # "absent"
        BY Zenon, <1>c, <1>d DEF CallInv, StoreInv
      <3> QED  BY Zenon, <1>a, <1>c, <2>1, <3>1, <3>2 DEF StoreInv
    <2> QED  BY Zenon, <2>2, <2>3, <2>4, <2>5 DEF CallInv
  <1> QED  BY Zenon, <1>a, <1>1, <1>2, <1>3, <1>4, Combine

\* The command reads its answer, gives up, or prints the bearer (cmd/ff).
LEMMA CommandInv ==
    ASSUME ControlIInv, NEW c \in Call, Receive(c) \/ GiveUp(c) \/ PrintBearer(c)
    PROVE  ControlIInv'
  <1> USE DEF ControlIInv
  <1>a. UNCHANGED <<pc, op, target, issued, state, parent, lapsed, trail, response, uncompensated, phase>>
    BY Zenon DEF Receive, GiveUp, PrintBearer, serving, request, store
  <1>b. PICK now \in {"holding", "printed", "revoked", "failed"} : client' = [client EXCEPT ![c] = now]
    BY Zenon DEF Receive, GiveUp, PrintBearer
  <1>1. TypeOK'
    BY Zenon, <1>a, <1>b DEF TypeOK
  <1>2. StoreGrows
    BY Zenon, <1>a DEF StoreGrows
  <1>3. \A d \in Call : d # c => Same(d)
    BY Zenon, <1>a, <1>b DEF Same, TypeOK
  <1>4. CallInv(c)'
    <2>1. StageInv(c)' /\ TrailInv(c)' /\ StoreInv(c)'
      BY Zenon, <1>a DEF CallInv, StageInv, TrailInv, StoreInv
    <2>2. AnswerInv(c)'
      <3>1. CASE Receive(c)
        BY Zenon, <1>a, <3>1 DEF CallInv, AnswerInv, Receive, TypeOK
      <3>2. CASE GiveUp(c)
        BY Zenon, <1>a, <3>2 DEF CallInv, AnswerInv, GiveUp, TypeOK
      <3>3. CASE PrintBearer(c)
        BY Zenon, <1>a, <3>3 DEF CallInv, AnswerInv, PrintBearer, TypeOK
      <3> QED  BY Zenon, <3>1, <3>2, <3>3
    <2> QED  BY Zenon, <2>1, <2>2 DEF CallInv
  <1> QED  BY Zenon, <1>a, <1>1, <1>2, <1>3, <1>4, Combine

\* runMint and runDelegate ask for the revocation of a bearer they could not print.
LEMMA PrintFailsInv ==
    ASSUME ControlIInv, NEW c \in Call, NEW d \in Call, PrintFails(c, d)
    PROVE  ControlIInv'
  <1> USE DEF ControlIInv
  <1>a. /\ client[c] = "holding" /\ pc[d] = "idle"
        /\ op' = [op EXCEPT ![d] = "revoke"] /\ target' = [target EXCEPT ![d] = issued[c]]
        /\ pc' = [pc EXCEPT ![d] = "arrived"]
        /\ client' = [client EXCEPT ![c] = "failed", ![d] = "waiting"]
        /\ UNCHANGED <<issued, state, parent, lapsed, trail, response, uncompensated, phase>>
    BY Zenon DEF PrintFails, Goto, store
  <1>b. /\ pc[c] = "done" /\ c # d
        /\ issued[c] \in Token
    <2>1. pc[c] = "done" /\ issued[c] # None
      BY Zenon, <1>a DEF CallInv, AnswerInv
    <2> QED  BY Zenon, <1>a, <2>1 DEF TypeOK
  <1>1. TypeOK'
    BY <1>a, <1>b, Zenon DEF TypeOK, Stage
  <1>2. StoreGrows
    BY Zenon, <1>a DEF StoreGrows
  <1>3. CallInv(c)'
    <2>1. /\ pc'[c] = pc[c] /\ op'[c] = op[c] /\ target'[c] = target[c] /\ client'[c] = "failed"
      <3>1. /\ pc \in [Call -> Stage] /\ DOMAIN op = Call /\ DOMAIN target = Call
            /\ DOMAIN client = Call
        BY Zenon DEF TypeOK
      <3> HIDE DEF ControlIInv
      <3> QED  BY <1>a, <1>b, <3>1, Zenon
    <2> QED  BY <1>a, <1>b, <2>1 DEF CallInv, StageInv, AnswerInv, TrailInv, StoreInv
  <1>4. CallInv(d)'
    <2>1. /\ pc'[d] = "arrived" /\ op'[d] = "revoke" /\ target'[d] \in Token /\ client'[d] = "waiting"
      BY <1>a, <1>b DEF TypeOK
    <2>2. trail[d] = <<>> /\ issued[d] = None /\ response[d] = "none"
      BY Zenon, <1>a DEF CallInv, StageInv, AnswerInv
    <2> QED  BY Zenon, <1>a, <2>1, <2>2 DEF CallInv, StageInv, AnswerInv, TrailInv, StoreInv
  <1>5. ASSUME NEW x \in Call PROVE CallInv(x)'
    <2>1. CASE x \notin {c, d}
      <3>1. Same(x)
        BY Zenon, <1>a, <2>1 DEF Same, TypeOK
      <3> QED  BY Zenon, <1>2, <3>1, OtherCall
    <2> QED  BY Zenon, <1>3, <1>4, <2>1
  <1>6. Unshared'
    BY Zenon, <1>a DEF Unshared
  <1> QED  BY Zenon, <1>a, <1>1, <1>5, <1>6

\* Every step keeps the invariant.
LEMMA NextInv == ControlIInv /\ [Next]_vars => ControlIInv'
  <1> SUFFICES ASSUME ControlIInv, [Next]_vars PROVE ControlIInv'
    BY Zenon
  <1>1. ASSUME NEW c \in Call, Handle(c) PROVE ControlIInv'
    BY <1>1, CheckInv, AuthorizeInv, MintInv, DelegateInv, RevokeInv, CompleteInv, RespondInv,
       CompensateInv, Zenon DEF Handle
  <1>2. CASE Shutdown \/ Crash \/ UNCHANGED vars
    <2>1. /\ UNCHANGED <<pc, op, target, issued, state, parent, trail, response, client,
                         uncompensated, lapsed>>
          /\ phase' \in 1..5
      BY <1>2 DEF Shutdown, Crash, vars, serving, request, store,
         ControlIInv, TypeOK
    <2>2. TypeOK' /\ Unshared' /\ lapsed' = {}
      BY Zenon, <2>1 DEF ControlIInv, TypeOK, Unshared
    <2>3. ASSUME NEW c \in Call PROVE CallInv(c)'
      BY Zenon, <2>1 DEF ControlIInv, CallInv, StageInv, AnswerInv, TrailInv, StoreInv
    <2> QED  BY Zenon, <2>2, <2>3 DEF ControlIInv
  <1> QED  BY <1>1, <1>2, ArriveInv, CommandInv, PrintFailsInv, Zenon DEF Next

\* The inductive invariant holds throughout, for every number of concurrent calls.
THEOREM ControlInvariance == Spec => []ControlIInv
  BY InitInv, NextInv, PTL DEF Spec

-----------------------------------------------------------------------------
(* The properties *)

\* With a sink that fails closed, a token is only issued after its "authorized"
\* record and a bearer only leaves with both records, and no two commands get the
\* same token (control.go mint, delegate, recordControl).
THEOREM AlwaysAudited == Spec => []BearerIsAudited
  <1>1. ControlIInv => BearerIsAudited
    BY Zenon DEF ControlIInv, BearerIsAudited, Unshared, CallInv, AnswerInv, TrailInv
  <1> QED  BY <1>1, ControlInvariance, PTL

\* A token whose bearer was not handed over is revoked by the handler that issued
\* it, unless the store refused that (revokeIssuedToken).
THEOREM UndeliveredRevoked == Spec => []UndeliveredIsRevoked
  <1>1. ControlIInv => UndeliveredIsRevoked
    BY Zenon DEF ControlIInv, UndeliveredIsRevoked, CallInv, StoreInv
  <1> QED  BY <1>1, ControlInvariance, PTL

\* A parent revoked between the handler's look at it and the store's own is not
\* delegated from (control.go delegate, store.go Delegate).
THEOREM DelegationFromUsable == Spec => []DelegatedFromUsable
  <1>1. ControlIInv => DelegatedFromUsable
    BY Zenon DEF ControlIInv, DelegatedFromUsable
  <1> QED  BY <1>1, ControlInvariance, PTL

\* A command that was told so can rely on its token being revoked
\* (control.go revoke).
THEOREM RevocationReliable == Spec => []RevokedMeansRevoked
  <1>1. ControlIInv => RevokedMeansRevoked
    <2> SUFFICES ASSUME ControlIInv, NEW c \in Call, client[c] = "revoked" PROVE ~Usable(target[c])
      BY Zenon DEF RevokedMeansRevoked
    <2>1. op[c] = "revoke" /\ response[c] = "accepted" /\ pc[c] = "done"
      BY Zenon DEF ControlIInv, CallInv, AnswerInv
    <2>2. state[target[c]] = "revoked" /\ target[c] \in Token
      BY Zenon, <2>1 DEF ControlIInv, CallInv, StoreInv, StageInv
    <2> QED  BY Zenon, <2>2, OwnLineage DEF Usable
  <1> QED  BY <1>1, ControlInvariance, PTL
=============================================================================
