--------------------------- MODULE AgentRunProofs ---------------------------
(***************************************************************************)
(* Proofs about AgentRun for any runs and connections, any limits of the   *)
(* broker and any number of killed supervisors: what a run that is         *)
(* reported as exited has given back, and what a later run makes of the    *)
(* records of the dead.                                                    *)
(***************************************************************************)
EXTENDS AgentRun, TLAPS

Unstarted == {"idle", "reconciling", "minting", "recording", "brokering"}
Launched == {"querying", "marking", "waiting"}
Over == {"leaving", "returned", "crashed"}
Stage == Unstarted \cup {"listening", "launching"} \cup Launched \cup Over

Step == {"close", "revoke", "stop", "kill", "linger", "record", "final"}

\* Every variable the argument is about has its type.
Typed ==
  /\ pc \in [Run -> Stage] /\ plan \in [Run -> Seq(Step)]
  /\ token \in [Run -> {"none", "orphaned", "live", "remote", "revoked"}]
  /\ revoked \in [Run -> BOOLEAN] /\ main \in [Run -> BOOLEAN]
  /\ interrupted \in [Run -> BOOLEAN] /\ clean \in [Run -> BOOLEAN]
  /\ client \in [Run -> {"none", "alive", "exited"}]
  /\ unit \in [Run -> {"none", "init", "serving", "ended"}]
  /\ result \in [Run -> {"none", "error", "exit code"}]
  /\ broker \in [Run -> BrokerStage] /\ conn \in [Conn -> ConnStage]
  /\ record \in [Run -> RunRecord \cup {None}]
  /\ scan \in [Run -> SUBSET Run] /\ abandoned \in [Run -> SUBSET Run]
  /\ snap \in [Run -> [run : Run, record : RunRecord] \cup {None}]

\* No connection of the run is open.
Quiet(r) == \A c \in Conn : Owner[c] = r => conn[c] \in {"none", "shut"}

\* The broker follows its supervisor, and unless a shutdown timed out no
\* connection outlives it.
BrokerInv(r) ==
  /\ pc[r] \in Unstarted => broker[r] = "none"
  /\ pc[r] = "listening" => broker[r] = "made"
  /\ broker[r] # "bound" => \A c \in Conn : Owner[c] = r => conn[c] # "queued"
  /\ clean[r] /\ broker[r] \notin {"bound", "draining"} => Quiet(r)

\* The run is reported as exited.
Reported(r) == (record[r] # None /\ record[r].status = "exited") \/ result[r] = "exit code"

SupervisorInv(r) ==
  /\ revoked[r] => token[r] = "revoked" /\ pc[r] \in Over
  /\ pc[r] \in Launched => client[r] # "none"
  /\ Reported(r) =>
       /\ pc[r] \in Over
       /\ token[r] \in {"revoked", "remote"}
       /\ broker[r] \in {"closed", "gone"} /\ Quiet(r)
       /\ unit[r] \in {"none", "ended"} /\ client[r] = "exited"

\* The step is still to be taken before the i-th of the plan.
Ahead(r, step, i) == \E j \in 1..(i - 1) : plan[r][j] = step

\* What the last record relies on has been done, or comes before it.
PlanInv(r) ==
  \A i \in 1..Len(plan[r]) : plan[r][i] = "final" =>
    /\ pc[r] \in {"leaving", "crashed"}
    /\ Ahead(r, "close", i) \/ broker[r] \in {"closed", "gone"}
    /\ interrupted[r] \/ client[r] = "exited"
    /\ clean[r] =>
         /\ Ahead(r, "revoke", i) \/ token[r] \in {"revoked", "remote"}
         /\ interrupted[r] \/ Ahead(r, "stop", i) \/ unit[r] \in {"none", "ended"}

RunInv(r) == BrokerInv(r) /\ SupervisorInv(r) /\ PlanInv(r)

\* A run that cannot come back.
Dead(q) == pc[q] = "crashed" /\ ~MainAlive(q) /\ ~ClientAlive(q)

\* The records of the dead that a reconciliation found live are ahead of it, in
\* its hand, or no longer live.
StaleInv(r) ==
  /\ pc[r] = "reconciling" => \A q \in abandoned[r] :
       /\ Dead(q)
       /\ ~Live(record[q]) \/ q \in scan[r] \/ (snap[r] # None /\ snap[r].run = q)
  /\ pc[r] \notin {"idle", "reconciling", "returned", "crashed"} => \A q \in abandoned[r] :
       Dead(q) /\ ~Live(record[q])

IInv == Typed /\ \A r \in Run : RunInv(r) /\ StaleInv(r)

-----------------------------------------------------------------------------
(* Runs do not disturb each other *)

\* A step that leaves the run d alone, but may declare its process lost.
Same(d) ==
  /\ pc'[d] = pc[d] /\ plan'[d] = plan[d] /\ token'[d] = token[d] /\ revoked'[d] = revoked[d]
  /\ client'[d] = client[d] /\ unit'[d] = unit[d] /\ interrupted'[d] = interrupted[d]
  /\ clean'[d] = clean[d] /\ result'[d] = result[d] /\ broker'[d] = broker[d]
  /\ \A c \in Conn : Owner[c] = d => conn'[c] = conn[c]
  /\ record'[d] = record[d] \/ (record'[d] # None /\ record'[d].status = "failed")

SameScan(d) == scan'[d] = scan[d] /\ snap'[d] = snap[d] /\ abandoned'[d] = abandoned[d]

\* The dead stay dead, and their records do not come to life.
Calm ==
  \A q \in Run : Dead(q) => Dead(q)' /\ (~Live(record[q]) => ~Live(record'[q]))

\* The stage of d moves as StaleInv expects while the scan stands still.
Moves(d) ==
  \/ pc'[d] = pc[d] \/ pc'[d] \in {"returned", "crashed"}
  \/ /\ pc[d] \notin {"idle", "reconciling", "returned", "crashed"}
     /\ pc'[d] \notin {"idle", "reconciling"}

\* A plan joined to another: what is where.
LEMMA Joined ==
  ASSUME NEW S, NEW s \in Seq(S), NEW t \in Seq(S)
  PROVE  /\ s \o t \in Seq(S) /\ Len(s \o t) = Len(s) + Len(t)
         /\ \A i \in 1..(Len(s) + Len(t)) :
              (s \o t)[i] = IF i <= Len(s) THEN s[i] ELSE t[i - Len(s)]
OBVIOUS

\* What holds of a run goes on to hold while others act.
LEMMA OtherRun ==
    ASSUME NEW d \in Run, RunInv(d), Same(d)
    PROVE  RunInv(d)'
  <1>1. Quiet(d) => Quiet(d)'
    BY Zenon DEF Same, Quiet
  <1>2. Reported(d)' => Reported(d)
    BY Zenon DEF Same, Reported
  <1>3. BrokerInv(d)'
    BY Zenon, <1>1 DEF RunInv, BrokerInv, Same
  <1>4. SupervisorInv(d)'
    BY Zenon, <1>1, <1>2 DEF RunInv, SupervisorInv, Same
  <1>5. PlanInv(d)'
    BY DEF RunInv, PlanInv, Same, Ahead
  <1> QED  BY Zenon, <1>3, <1>4, <1>5 DEF RunInv

\* A step of one run leaves the dead alone if that run is not one of them.
LEMMA CalmStep ==
    ASSUME NEW r \in Run, \A d \in Run : d # r => Same(d),
           Dead(r) => Dead(r)' /\ record'[r] = record[r]
    PROVE  Calm
  <1> SUFFICES ASSUME NEW q \in Run, Dead(q)
               PROVE  Dead(q)' /\ (~Live(record[q]) => ~Live(record'[q]))
    BY Zenon DEF Calm
  <1>1. CASE q = r
    BY Zenon, <1>1
  <1>2. CASE q # r
    BY Zenon, <1>2 DEF Same, Dead, MainAlive, ClientAlive, Live
  <1> QED  BY Zenon, <1>1, <1>2

\* A reconciliation that stands still, or is over.
LEMMA StaleKept ==
    ASSUME NEW d \in Run, Typed, Calm, StaleInv(d), SameScan(d), Moves(d)
    PROVE  StaleInv(d)'
  <1>1. \A q \in abandoned[d] : q \in Run
    BY Zenon DEF Typed
  <1>2. \A q \in abandoned[d] : Dead(q) => Dead(q)' /\ (~Live(record[q]) => ~Live(record'[q]))
    BY Zenon, <1>1 DEF Calm
  <1> QED  BY Zenon, <1>2 DEF StaleInv, SameScan, Moves

\* A step of one run that does not touch its reconciliation.
LEMMA Combine ==
    ASSUME IInv, NEW r \in Run, Typed', RunInv(r)', \A d \in Run : d # r => Same(d),
           UNCHANGED reconciling, Moves(r), Dead(r) => Dead(r)' /\ record'[r] = record[r]
    PROVE  IInv'
  <1>1. Calm
    BY Zenon, CalmStep
  <1>2. ASSUME NEW d \in Run PROVE RunInv(d)' /\ StaleInv(d)'
    <2>1. RunInv(d)'
      BY Zenon, OtherRun DEF IInv
    <2>2. SameScan(d) /\ Moves(d)
      BY Zenon DEF SameScan, Moves, Same, reconciling
    <2>3. StaleInv(d)'
      BY Zenon, <1>1, <2>2, StaleKept DEF IInv
    <2> QED  BY Zenon, <2>1, <2>3
  <1> QED  BY Zenon, <1>2 DEF IInv

\* A step of one run's reconciliation.
LEMMA CombineReconciling ==
    ASSUME IInv, NEW r \in Run, Typed', RunInv(r)', \A d \in Run : d # r => Same(d) /\ SameScan(d),
           Calm => StaleInv(r)', pc[r] # "crashed"
    PROVE  IInv'
  <1>1. Calm
    BY Zenon, CalmStep DEF Dead
  <1>2. ASSUME NEW d \in Run PROVE RunInv(d)' /\ StaleInv(d)'
    <2>1. CASE d = r
      BY Zenon, <1>1, <2>1
    <2>2. CASE d # r
      <3>1. Moves(d)
        BY Zenon, <2>2 DEF Moves, Same
      <3> QED  BY Zenon, <1>1, <2>2, <3>1, OtherRun, StaleKept DEF IInv
    <2> QED  BY Zenon, <2>1, <2>2
  <1> QED  BY Zenon, <1>2 DEF IInv

-----------------------------------------------------------------------------
(* Up to the launch *)

\* A supervisor that has not begun its way out moves on: nothing is reported of it.
LEMMA Onward ==
    ASSUME IInv, NEW r \in Run, pc[r] \notin Over, pc'[r] # "crashed", BrokerInv(r)',
           revoked'[r] = revoked[r], result'[r] \in {result[r], "error"},
           pc'[r] \in Launched => client'[r] # "none",
           record'[r] = record[r] \/ record'[r].status # "exited",
           \A i \in 1..Len(plan'[r]) : plan'[r][i] # "final"
    PROVE  RunInv(r)'
  <1>1. ~Reported(r) /\ ~revoked[r]
    BY Zenon DEF IInv, RunInv, SupervisorInv
  <1>2. ~Reported(r)'
    BY <1>1, Zenon DEF Reported
  <1>3. SupervisorInv(r)'
    BY Zenon, <1>1, <1>2 DEF SupervisorInv
  <1>4. PlanInv(r)'
    BY Zenon DEF PlanInv
  <1> QED  BY Zenon, <1>3, <1>4 DEF RunInv

\* Before the way out no plan holds the last record.
LEMMA NoFinal ==
    ASSUME IInv, NEW r \in Run, pc[r] \notin {"leaving", "crashed"}
    PROVE  \A i \in 1..Len(plan[r]) : plan[r][i] # "final"
  BY Zenon DEF IInv, RunInv, PlanInv

\* What BrokerInv says while neither the broker nor its connections change.
LEMMA BrokerStill ==
    ASSUME IInv, NEW r \in Run, UNCHANGED brokerVars, clean' = clean,
           pc'[r] \in Unstarted => broker[r] = "none", pc'[r] = "listening" => broker[r] = "made"
    PROVE  BrokerInv(r)'
  BY Zenon DEF IInv, RunInv, BrokerInv, Quiet, brokerVars


\* A write of a record keeps the others, and their types.
LEMMA Written ==
    ASSUME Typed, NEW r \in Run, NEW rec \in RunRecord, NEW outcome, WriteRunRecord(r, rec, outcome)
    PROVE  /\ record' \in [Run -> RunRecord \cup {None}]
           /\ \A d \in Run : d # r => record'[d] = record[d]
           /\ record'[r] = record[r] \/ record'[r] = rec
           /\ outcome # "failed" => record'[r] = rec
  BY Zenon DEF Typed, WriteRunRecord

\* The records a supervisor writes of itself.
LEMMA OwnRecords ==
    ASSUME Typed, NEW r \in Run
    PROVE  /\ Starting \in RunRecord /\ Starting.status = "starting"
           /\ Running(r) \in RunRecord /\ Running(r).status = "running"
  BY Zenon DEF Typed, Starting, Running, RunRecord

\* An error return before anything is to be undone.
LEMMA ReturnErrorInv ==
    ASSUME IInv, NEW r \in Run, pc[r] \notin Over, ReturnError(r),
           UNCHANGED <<brokerVars, record, reconciling, crashes>>
    PROVE  IInv'
  <1>a. /\ pc' = [pc EXCEPT ![r] = "returned"] /\ result' = [result EXCEPT ![r] = "error"]
        /\ UNCHANGED <<plan, token, revoked, client, unit, main, interrupted, clean>>
        /\ UNCHANGED <<broker, conn, record, scan, snap, abandoned>>
    BY Zenon DEF ReturnError, Goto, brokerVars, reconciling
  <1>t. Typed
    BY Zenon DEF IInv
  <1>1. Typed'
    BY <1>a, <1>t, Zenon DEF Typed, Stage, Over
  <1>2. RunInv(r)'
    <2>1. pc'[r] = "returned" /\ result'[r] = "error"
      BY <1>a, <1>t, Zenon DEF Typed
    <2>2. BrokerInv(r)'
      BY Zenon, <1>a, <2>1, BrokerStill DEF Unstarted
    <2> QED  BY Zenon, <1>a, <2>1, <2>2, Onward, NoFinal DEF Launched, Over
  <1>3. \A d \in Run : d # r => Same(d)
    BY <1>a, <1>t, Zenon DEF Same, Typed
  <1>4. Moves(r)
    BY <1>a, <1>t, Zenon DEF Moves, Typed
  <1> QED  BY Zenon, <1>1, <1>2, <1>3, <1>4, Combine DEF Dead, Over

\* An error return with a plan of what is to be undone.
LEMMA FailInv ==
    ASSUME IInv, NEW r \in Run, pc[r] \notin Over \cup {"idle", "reconciling"},
           NEW steps \in Seq(Step), \A i \in 1..Len(steps) : steps[i] # "final",
           Fail(r, steps), UNCHANGED <<brokerVars, reconciling>>,
           record' \in [Run -> RunRecord \cup {None}],
           \A d \in Run : d # r => record'[d] = record[d],
           record'[r] = record[r] \/ record'[r].status # "exited"
    PROVE  IInv'
  <1>a. /\ pc' = [pc EXCEPT ![r] = "leaving"] /\ result' = [result EXCEPT ![r] = "error"]
        /\ plan' = [plan EXCEPT ![r] = steps]
        /\ UNCHANGED <<token, revoked, client, unit, main, interrupted, clean>>
        /\ UNCHANGED <<broker, conn, scan, snap, abandoned>>
    BY Zenon DEF Fail, brokerVars, reconciling
  <1>t. Typed
    BY Zenon DEF IInv
  <1>1. Typed'
    BY <1>a, <1>t, Zenon DEF Typed, Stage, Over
  <1>2. RunInv(r)'
    <2>1. pc'[r] = "leaving" /\ result'[r] = "error" /\ plan'[r] = steps
      BY <1>a, <1>t, Zenon DEF Typed
    <2>2. BrokerInv(r)'
      BY Zenon, <1>a, <2>1, BrokerStill DEF Unstarted
    <2> QED  BY Zenon, <1>a, <2>1, <2>2, Onward DEF Launched, Over
  <1>3. \A d \in Run : d # r => Same(d)
    BY <1>a, <1>t, Zenon DEF Same, Typed
  <1>4. Moves(r)
    BY <1>a, <1>t, Zenon DEF Moves, Typed, Over
  <1> QED  BY Zenon, <1>1, <1>2, <1>3, <1>4, Combine DEF Dead, Over

\* The plans after an error hold no last record.
LEMMA ErrorPlans ==
    ASSUME NEW steps \in {<<"revoke", "record", "revoke">>,
                          <<"revoke", "close", "record", "revoke">>,
                          <<"close", "revoke", "record", "revoke">>,
                          <<"close", "revoke", "stop", "kill", "record", "revoke">>}
    PROVE  steps \in Seq(Step) /\ \A i \in 1..Len(steps) : steps[i] # "final"
  <1>1. CASE steps = <<"revoke", "record", "revoke">>
    BY <1>1 DEF Step
  <1>2. CASE steps = <<"revoke", "close", "record", "revoke">>
    BY <1>2 DEF Step
  <1>3. CASE steps = <<"close", "revoke", "record", "revoke">>
    BY <1>3 DEF Step
  <1>4. CASE steps = <<"close", "revoke", "stop", "kill", "record", "revoke">>
    BY <1>4 DEF Step
  <1> QED  BY Zenon, <1>1, <1>2, <1>3, <1>4

\* A supervisor goes on, with or without writing its record, and nothing else of
\* the broker or the scan changes.
LEMMA AdvanceInv ==
    ASSUME IInv, NEW r \in Run, pc[r] \notin Over \cup {"idle", "reconciling"}, NEW stage \in Stage,
           Goto(r, stage), stage \notin {"idle", "reconciling", "crashed"},
           UNCHANGED <<brokerVars, reconciling, plan, revoked, unit, interrupted, clean>>,
           Typed', \A d \in Run : d # r => token'[d] = token[d] /\ client'[d] = client[d]
                                         /\ record'[d] = record[d] /\ result'[d] = result[d],
           result'[r] \in {result[r], "error"},
           record'[r] = record[r] \/ record'[r].status # "exited",
           stage \in Launched => client'[r] # "none",
           stage \in Unstarted => broker[r] = "none", stage = "listening" => broker[r] = "made"
    PROVE  IInv'
  <1>a. pc' = [pc EXCEPT ![r] = stage] /\ UNCHANGED <<plan, revoked, unit, interrupted, clean, broker, conn>>
    BY Zenon DEF Goto, brokerVars
  <1>t. pc \in [Run -> Stage]
    BY Zenon DEF IInv, Typed
  <1>p. pc'[r] = stage /\ \A d \in Run : d # r => pc'[d] = pc[d]
    BY Zenon, <1>a, <1>t
  <1>2. RunInv(r)'
    <2>1. pc'[r] = stage
      BY Zenon, <1>p
    <2>2. BrokerInv(r)'
      BY Zenon, <1>a, <2>1, BrokerStill
    <2> QED  BY <1>a, <2>1, <2>2, Onward, NoFinal DEF Over
  <1>3. \A d \in Run : d # r => Same(d)
    BY Zenon, <1>a, <1>p DEF Same
  <1>4. Moves(r)
    BY Zenon, <1>p DEF Moves, Over
  <1> QED  BY Zenon, <1>2, <1>3, <1>4, Combine DEF Dead, Over

\* Obtaining the token.
LEMMA ObtainInv ==
    ASSUME IInv, NEW r \in Run, Obtain(r)
    PROVE  IInv'
  <1>a. /\ pc[r] = "minting"
        /\ UNCHANGED <<brokerVars, reconciling, plan, revoked, unit, interrupted, clean>>
        /\ UNCHANGED <<record, client, main, broker, conn, scan, snap, abandoned>>
    BY Zenon DEF Obtain, brokerVars, reconciling
  <1>b. /\ \E stage \in {"recording", "returned"} : Goto(r, stage)
        /\ \E t \in {"none", "orphaned", "live", "remote"} : token' = [token EXCEPT ![r] = t] \/ token' = token
        /\ result' = result \/ result' = [result EXCEPT ![r] = "error"]
    BY Zenon DEF Obtain, Mint, Fetch
  <1>t. Typed
    BY Zenon DEF IInv
  <1>1. Typed'
    <2>1. token' \in [Run -> {"none", "orphaned", "live", "remote", "revoked"}]
      BY <1>b, <1>t, Zenon DEF Typed
    <2>2. result' \in [Run -> {"none", "error", "exit code"}]
      BY <1>b, <1>t, Zenon DEF Typed
    <2>3. pc' \in [Run -> Stage]
      BY <1>b, <1>t, Zenon DEF Typed, Goto, Stage, Unstarted, Over
    <2> QED  BY <1>a, <1>t, <2>1, <2>2, <2>3, Zenon DEF Typed
  <1>2. /\ \A d \in Run : d # r => token'[d] = token[d] /\ result'[d] = result[d]
        /\ result'[r] \in {result[r], "error"}
    <2>1. token \in [Run -> {"none", "orphaned", "live", "remote", "revoked"}]
          /\ result \in [Run -> {"none", "error", "exit code"}]
      BY <1>t, Zenon DEF Typed
    <2>2. \A d \in Run : d # r => token'[d] = token[d]
      BY <1>b, <2>1, Zenon
    <2>3. /\ \A d \in Run : d # r => result'[d] = result[d]
          /\ result'[r] \in {result[r], "error"}
      BY <1>b, <2>1, Zenon
    <2> QED  BY Zenon, <2>2, <2>3
  <1>3. broker[r] = "none"
    BY Zenon, <1>a DEF IInv, RunInv, BrokerInv, Unstarted
  <1> QED  BY Zenon, <1>a, <1>b, <1>1, <1>2, <1>3, AdvanceInv DEF Over, Stage, Unstarted, Launched

\* The first record.
LEMMA RecordStartingInv ==
    ASSUME IInv, NEW r \in Run, RecordStarting(r)
    PROVE  IInv'
  <1>t. Typed
    BY Zenon DEF IInv
  <1>1. PICK outcome \in WriteOutcome :
          /\ WriteRunRecord(r, Starting, outcome)
          /\ IF outcome = "ok" THEN Goto(r, "brokering") /\ UNCHANGED supervisor
             ELSE Fail(r, <<"revoke", "record", "revoke">>)
    BY Zenon DEF RecordStarting
  <1>2. pc[r] = "recording" /\ UNCHANGED <<brokerVars, reconciling>>
    BY Zenon DEF RecordStarting
  <1>3. /\ record' \in [Run -> RunRecord \cup {None}]
        /\ \A d \in Run : d # r => record'[d] = record[d]
        /\ record'[r] = record[r] \/ record'[r].status # "exited"
    BY Zenon, <1>1, <1>t, Written, OwnRecords
  <1>4. CASE Goto(r, "brokering") /\ UNCHANGED supervisor
    <2>1. Typed'
      BY <1>2, <1>3, <1>4, <1>t, Zenon DEF Typed, Goto, supervisor, brokerVars, reconciling, Stage, Unstarted
    <2>2. broker[r] = "none"
      BY Zenon, <1>2 DEF IInv, RunInv, BrokerInv, Unstarted
    <2> QED
      BY Zenon, <1>2, <1>3, <1>4, <2>1, <2>2, AdvanceInv DEF supervisor, Over, Stage, Unstarted, Launched
  <1>5. CASE Fail(r, <<"revoke", "record", "revoke">>)
    BY <1>2, <1>3, <1>5, FailInv, ErrorPlans, Zenon DEF Over
  <1> QED  BY Zenon, <1>1, <1>4, <1>5

\* The plan after the wait: the last record comes after the close, the revocation
\* and the stop.
LEMMA CleanupPlan ==
    ASSUME NEW early \in BOOLEAN
    PROVE  /\ Cleanup(early) \in Seq(Step)
           /\ Cleanup(early)[1] = "close" /\ Cleanup(early)[2] = "revoke" /\ Cleanup(early)[3] = "stop"
           /\ \A i \in 1..Len(Cleanup(early)) : Cleanup(early)[i] = "final" => i > 3
  <1>1. PICK middle \in Seq(Step) :
          Cleanup(early) = <<"close", "revoke", "stop">> \o middle \o <<"final", "revoke">>
    <2>1. <<"linger">> \in Seq(Step) /\ <<>> \in Seq(Step)
      BY DEF Step
    <2>2. CASE early = TRUE
      BY <2>1, <2>2, Zenon DEF Cleanup
    <2>3. CASE early = FALSE
      BY <2>1, <2>3, Zenon DEF Cleanup
    <2> QED  BY <2>2, <2>3, Zenon
  <1> DEFINE first == <<"close", "revoke", "stop">>
             s == first \o middle
             last == <<"final", "revoke">>
  <1>2. /\ first \in Seq(Step) /\ last \in Seq(Step) /\ Len(first) = 3
        /\ first[1] = "close" /\ first[2] = "revoke" /\ first[3] = "stop"
    BY DEF Step
  <1> HIDE DEF first, last
  <1>3. s \in Seq(Step) /\ Len(s) >= 3 /\ \A i \in 1..3 : s[i] = first[i]
    <2>1. Len(middle) \in Nat
      OBVIOUS
    <2>2. /\ s \in Seq(Step) /\ Len(s) = Len(first) + Len(middle)
          /\ \A i \in 1..Len(first) + Len(middle) :
               s[i] = IF i <= Len(first) THEN first[i] ELSE middle[i - Len(first)]
      BY <1>2, Joined, Zenon
    <2>3. \A i \in 1..3 : s[i] = first[i]
      BY <1>2, <2>1, <2>2
    <2> HIDE DEF s
    <2> QED  BY <1>2, <2>1, <2>2, <2>3
  <1> HIDE DEF s
  <1>4. s \o last \in Seq(Step) /\ Len(s \o last) >= 3 /\ \A i \in 1..3 : (s \o last)[i] = s[i]
    BY <1>2, <1>3
  <1>5. Cleanup(early) = s \o last
    BY Zenon, <1>1 DEF s, first, last
  <1> QED  BY <1>2, <1>3, <1>4, <1>5

\* The broker is made: it has no connection yet.
LEMMA MakeBrokerInv ==
    ASSUME IInv, NEW r \in Run, MakeBroker(r)
    PROVE  IInv'
  <1>t. Typed
    BY Zenon DEF IInv
  <1>a. pc[r] = "brokering" /\ UNCHANGED <<record, reconciling>>
    BY Zenon DEF MakeBroker
  <1>1. CASE UNCHANGED brokerVars /\ Fail(r, <<"revoke", "record", "revoke">>)
    BY <1>1, <1>a, <1>t, FailInv, ErrorPlans, Zenon DEF Over, Typed
  <1>2. CASE NewBroker(r) /\ Goto(r, "listening") /\ UNCHANGED supervisor
    <2>a. /\ broker' = [broker EXCEPT ![r] = "made"] /\ pc' = [pc EXCEPT ![r] = "listening"]
          /\ UNCHANGED <<conn, record, scan, snap, abandoned>>
          /\ UNCHANGED <<plan, token, revoked, client, unit, main, interrupted, clean, result>>
      BY Zenon, <1>2, <1>a DEF NewBroker, Goto, supervisor, reconciling
    <2>1. Typed'
      BY <2>a, <1>t, Zenon DEF Typed, Stage, BrokerStage
    <2>2. RunInv(r)'
      <3>1. pc'[r] = "listening" /\ broker'[r] = "made" /\ broker[r] = "none"
        BY <1>a, <2>a, <1>t, Zenon DEF Typed, IInv, RunInv, BrokerInv, Unstarted
      <3>2. BrokerInv(r)'
        BY Zenon, <2>a, <3>1 DEF IInv, RunInv, BrokerInv, Quiet, Unstarted
      <3> QED  BY Zenon, <1>a, <2>a, <3>1, <3>2, Onward, NoFinal DEF Launched, Over
    <2>3. \A d \in Run : d # r => Same(d)
      BY <2>a, <1>t, Zenon DEF Same, Typed
    <2>4. Moves(r)
      BY <1>a, <2>a, <1>t, Zenon DEF Moves, Typed
    <2> QED  BY Zenon, <1>a, <2>1, <2>2, <2>3, <2>4, Combine DEF Dead
  <1> QED  BY Zenon, <1>1, <1>2 DEF MakeBroker, NewBrokerFromManifest

\* The broker listens and serves.
LEMMA ListenInv ==
    ASSUME IInv, NEW r \in Run, Listen(r)
    PROVE  IInv'
  <1>t. Typed
    BY Zenon DEF IInv
  <1>a. pc[r] = "listening" /\ UNCHANGED <<record, reconciling>>
    BY Zenon DEF Listen
  <1>1. CASE UNCHANGED brokerVars /\ Fail(r, <<"revoke", "close", "record", "revoke">>)
    BY <1>1, <1>a, <1>t, FailInv, ErrorPlans, Zenon DEF Over, Typed
  <1>2. CASE ListenAndServe(r) /\ Goto(r, "launching") /\ UNCHANGED supervisor
    <2>a. /\ broker' = [broker EXCEPT ![r] = "bound"] /\ pc' = [pc EXCEPT ![r] = "launching"]
          /\ UNCHANGED <<conn, record, scan, snap, abandoned>>
          /\ UNCHANGED <<plan, token, revoked, client, unit, main, interrupted, clean, result>>
      BY Zenon, <1>2, <1>a DEF ListenAndServe, Goto, supervisor, reconciling
    <2>1. Typed'
      BY <2>a, <1>t, Zenon DEF Typed, Stage, BrokerStage
    <2>2. RunInv(r)'
      <3>1. pc'[r] = "launching" /\ broker'[r] = "bound"
        BY <2>a, <1>t, Zenon DEF Typed
      <3>2. BrokerInv(r)'
        BY Zenon, <3>1 DEF BrokerInv, Unstarted
      <3> QED  BY Zenon, <1>a, <2>a, <3>1, <3>2, Onward, NoFinal DEF Launched, Over
    <2>3. \A d \in Run : d # r => Same(d)
      BY <2>a, <1>t, Zenon DEF Same, Typed
    <2>4. Moves(r)
      BY <1>a, <2>a, <1>t, Zenon DEF Moves, Typed
    <2> QED  BY Zenon, <1>a, <2>1, <2>2, <2>3, <2>4, Combine DEF Dead
  <1> QED  BY Zenon, <1>1, <1>2 DEF Listen

\* The systemd client is started.
LEMMA LaunchInv ==
    ASSUME IInv, NEW r \in Run, Launch(r)
    PROVE  IInv'
  <1>t. Typed
    BY Zenon DEF IInv
  <1>a. pc[r] = "launching" /\ UNCHANGED <<brokerVars, record, reconciling>>
    BY Zenon DEF Launch
  <1>1. CASE Fail(r, <<"close", "revoke", "record", "revoke">>)
    BY <1>1, <1>a, <1>t, FailInv, ErrorPlans, Zenon DEF Over, Typed
  <1>2. CASE /\ Goto(r, "querying") /\ client' = [client EXCEPT ![r] = "alive"]
             /\ UNCHANGED <<plan, token, revoked, unit, main, interrupted, clean, result>>
    <2>1. Typed'
      BY <1>2, <1>a, <1>t, Zenon DEF Typed, Goto, Stage, Launched, brokerVars, reconciling
    <2>2. client'[r] = "alive" /\ \A d \in Run : d # r => client'[d] = client[d]
      BY <1>2, <1>t, Zenon DEF Typed
    <2> QED  BY Zenon, <1>2, <1>a, <2>1, <2>2, AdvanceInv DEF Over, Stage, Launched, Unstarted
  <1> QED  BY Zenon, <1>1, <1>2 DEF Launch

\* The unit's main process is asked for.
LEMMA QueryInv ==
    ASSUME IInv, NEW r \in Run, querySystemdMainPID(r)
    PROVE  IInv'
  <1>t. Typed
    BY Zenon DEF IInv
  <1>a. /\ pc[r] = "querying" /\ Goto(r, "marking") /\ \E found \in BOOLEAN : main' = [main EXCEPT ![r] = found]
        /\ UNCHANGED <<brokerVars, reconciling, plan, revoked, unit, interrupted, clean>>
        /\ UNCHANGED <<record, token, client, result>>
    BY Zenon DEF querySystemdMainPID
  <1>1. Typed'
    BY <1>a, <1>t, Zenon DEF Typed, Goto, Stage, Launched, brokerVars, reconciling
  <1>2. client[r] # "none"
    BY Zenon, <1>a DEF IInv, RunInv, SupervisorInv, Launched
  <1> QED  BY Zenon, <1>a, <1>1, <1>2, AdvanceInv DEF Over, Stage, Launched, Unstarted

\* The second record.
LEMMA RecordRunningInv ==
    ASSUME IInv, NEW r \in Run, RecordRunning(r)
    PROVE  IInv'
  <1>t. Typed
    BY Zenon DEF IInv
  <1>1. PICK outcome \in WriteOutcome :
          /\ WriteRunRecord(r, Running(r), outcome)
          /\ IF outcome = "ok" THEN Goto(r, "waiting") /\ UNCHANGED supervisor
             ELSE Fail(r, <<"close", "revoke", "stop", "kill", "record", "revoke">>)
    BY Zenon DEF RecordRunning
  <1>2. pc[r] = "marking" /\ UNCHANGED <<brokerVars, reconciling>>
    BY Zenon DEF RecordRunning
  <1>3. /\ record' \in [Run -> RunRecord \cup {None}]
        /\ \A d \in Run : d # r => record'[d] = record[d]
        /\ record'[r] = record[r] \/ record'[r].status # "exited"
    BY Zenon, <1>1, <1>t, Written, OwnRecords
  <1>4. CASE Goto(r, "waiting") /\ UNCHANGED supervisor
    <2>1. Typed'
      BY <1>2, <1>3, <1>4, <1>t, Zenon DEF Typed, Goto, supervisor, brokerVars, reconciling, Stage, Launched
    <2>2. client[r] # "none"
      BY Zenon, <1>2 DEF IInv, RunInv, SupervisorInv, Launched
    <2> QED
      BY Zenon, <1>2, <1>3, <1>4, <2>1, <2>2, AdvanceInv DEF supervisor, Over, Stage, Unstarted, Launched
  <1>5. CASE Fail(r, <<"close", "revoke", "stop", "kill", "record", "revoke">>)
    BY <1>2, <1>3, <1>5, FailInv, ErrorPlans, Zenon DEF Over
  <1> QED  BY Zenon, <1>1, <1>4, <1>5

\* The wait ends, and with it the part of the run nothing has been undone of.
LEMMA WaitInv ==
    ASSUME IInv, NEW r \in Run, waitForAgentRun(r)
    PROVE  IInv'
  <1>t. Typed
    BY Zenon DEF IInv
  <1>a. /\ pc[r] = "waiting" /\ pc' = [pc EXCEPT ![r] = "leaving"]
        /\ UNCHANGED <<broker, conn, record, token, revoked, client, unit, main, clean, result>>
        /\ UNCHANGED <<brokerVars, reconciling, scan, snap, abandoned>>
    BY Zenon DEF waitForAgentRun, Goto, brokerVars, reconciling
  <1>b. PICK early \in BOOLEAN :
          /\ early \/ ~ClientAlive(r)
          /\ interrupted' = [interrupted EXCEPT ![r] = early]
          /\ plan' = [plan EXCEPT ![r] = Cleanup(early)]
    BY Zenon DEF waitForAgentRun
  <1>c. /\ Cleanup(early) \in Seq(Step)
        /\ Cleanup(early)[1] = "close" /\ Cleanup(early)[2] = "revoke" /\ Cleanup(early)[3] = "stop"
        /\ \A i \in 1..Len(Cleanup(early)) : Cleanup(early)[i] = "final" => i > 3
    BY Zenon, CleanupPlan
  <1>1. Typed'
    BY <1>a, <1>b, <1>c, <1>t, Zenon DEF Typed, Stage, Over
  <1>2. RunInv(r)'
    <2>1. pc'[r] = "leaving" /\ interrupted'[r] = early /\ plan'[r] = Cleanup(early)
      BY <1>a, <1>b, <1>t, Zenon DEF Typed
    <2>2. BrokerInv(r)'
      BY Zenon, <1>a, <2>1, BrokerStill DEF Unstarted
    <2>3. SupervisorInv(r)'
      BY <1>a, <2>1, Zenon DEF IInv, RunInv, SupervisorInv, Reported, Quiet, Launched, Over
    <2>4. early \/ client[r] = "exited"
      BY <1>a, <1>b, <1>t, Zenon DEF Typed, IInv, RunInv, SupervisorInv, Launched, ClientAlive
    <2>5. ASSUME NEW i \in 1..Len(plan'[r]), plan'[r][i] = "final"
          PROVE  Ahead(r, "close", i)' /\ Ahead(r, "revoke", i)' /\ Ahead(r, "stop", i)'
      <3>1. i > 3
        BY Zenon, <1>c, <2>1, <2>5
      <3>2. 1 \in 1..(i - 1) /\ 2 \in 1..(i - 1) /\ 3 \in 1..(i - 1)
        BY <1>c, <2>1, <2>5, <3>1
      <3> QED  BY Zenon, <1>c, <2>1, <3>2 DEF Ahead
    <2>6. PlanInv(r)'
      BY Zenon, <1>a, <2>1, <2>4, <2>5 DEF PlanInv
    <2> QED  BY Zenon, <2>2, <2>3, <2>6 DEF RunInv
  <1>3. \A d \in Run : d # r => Same(d)
    BY <1>a, <1>b, <1>t, Zenon DEF Same, Typed
  <1>4. Moves(r)
    BY <1>a, <1>t, Zenon DEF Moves, Typed
  <1> QED  BY Zenon, <1>a, <1>1, <1>2, <1>3, <1>4, Combine DEF Dead

-----------------------------------------------------------------------------
(* The reconciliation *)

\* A run begins, or returns at once.
LEMMA BeginInv ==
    ASSUME IInv, NEW r \in Run, Begin(r)
    PROVE  IInv'
  <1>t. Typed
    BY Zenon DEF IInv
  <1>a. pc[r] = "idle" /\ UNCHANGED <<brokerVars, record, crashes>>
    BY Zenon DEF Begin
  <1>1. CASE ReturnError(r) /\ UNCHANGED reconciling
    BY Zenon, <1>1, <1>a, ReturnErrorInv DEF Over
  <1>2. CASE /\ Goto(r, "reconciling") /\ UNCHANGED <<snap, supervisor>>
             /\ scan' = [scan EXCEPT ![r] = {q \in Run : record[q] # None}]
             /\ abandoned' = [abandoned EXCEPT ![r] =
                  {q \in Run : pc[q] = "crashed" /\ Live(record[q]) /\ ~MainAlive(q) /\ ~ClientAlive(q)}]
    <2>a. /\ pc' = [pc EXCEPT ![r] = "reconciling"]
          /\ UNCHANGED <<plan, token, revoked, client, unit, main, interrupted, clean, result>>
          /\ UNCHANGED <<broker, conn, record, snap>>
      BY Zenon, <1>2, <1>a DEF Goto, supervisor, brokerVars
    <2>1. Typed'
      BY <1>2, <2>a, <1>t, Zenon DEF Typed, Stage, Unstarted
    <2>2. RunInv(r)'
      <3>1. pc'[r] = "reconciling" /\ broker[r] = "none"
        BY <1>a, <2>a, <1>t, Zenon DEF Typed, IInv, RunInv, BrokerInv, Unstarted
      <3>2. BrokerInv(r)'
        BY Zenon, <1>a, <2>a, <3>1, BrokerStill
      <3> QED  BY Zenon, <1>a, <2>a, <3>1, <3>2, Onward, NoFinal DEF Launched, Over
    <2>3. \A d \in Run : d # r => Same(d) /\ SameScan(d)
      BY <1>2, <2>a, <1>t, Zenon DEF Same, SameScan, Typed
    <2>4. StaleInv(r)'
      <3>1. /\ pc'[r] = "reconciling" /\ scan'[r] = {q \in Run : record[q] # None}
            /\ abandoned'[r] =
                 {q \in Run : pc[q] = "crashed" /\ Live(record[q]) /\ ~MainAlive(q) /\ ~ClientAlive(q)}
        BY <1>2, <2>a, <1>t, Zenon DEF Typed
      <3>2. \A q \in Run : q # r => pc'[q] = pc[q]
        BY <2>a, <1>t, Zenon DEF Typed
      <3>3. ASSUME NEW q \in abandoned'[r] PROVE Dead(q)' /\ q \in scan'[r]
        BY Zenon, <1>a, <2>a, <3>1, <3>2 DEF Dead, MainAlive, ClientAlive, Live
      <3> QED  BY Zenon, <3>1, <3>3 DEF StaleInv
    <2> QED  BY Zenon, <1>a, <2>1, <2>2, <2>3, <2>4, CombineReconciling
  <1> QED  BY Zenon, <1>1, <1>2 DEF Begin

\* A record is read, or cannot be.
LEMMA ReconcileReadInv ==
    ASSUME IInv, NEW r \in Run, ReconcileRead(r), NoneAssumption
    PROVE  IInv'
  <1>t. Typed
    BY Zenon DEF IInv
  <1>o. /\ pc[r] = "reconciling" /\ snap[r] = None
        /\ UNCHANGED <<brokerVars, record, abandoned, crashes>>
    BY Zenon DEF ReconcileRead
  <1>r. CASE ReturnError(r) /\ UNCHANGED <<scan, snap>>
    BY Zenon, <1>o, <1>r, ReturnErrorInv DEF Over, reconciling
  <1>s. CASE \E q \in scan[r] :
          /\ scan' = [scan EXCEPT ![r] = @ \ {q}]
          /\ snap' = [snap EXCEPT ![r] = IF Live(record[q]) THEN [run |-> q, record |-> record[q]] ELSE None]
          /\ UNCHANGED <<pc, supervisor>>
    <2>a. /\ pc[r] = "reconciling" /\ snap[r] = None
          /\ UNCHANGED <<pc, plan, token, revoked, client, unit, main, interrupted, clean, result>>
          /\ UNCHANGED <<brokerVars, broker, conn, record, abandoned>>
      BY Zenon, <1>o, <1>s DEF supervisor, brokerVars
    <2>b. PICK x \in scan[r] :
            /\ scan' = [scan EXCEPT ![r] = @ \ {x}]
            /\ snap' = [snap EXCEPT ![r] = IF Live(record[x]) THEN [run |-> x, record |-> record[x]] ELSE None]
      BY Zenon, <1>s
    <2>c. x \in Run /\ (Live(record[x]) => [run |-> x, record |-> record[x]] \in [run : Run, record : RunRecord])
      BY <1>t, Zenon DEF Typed, Live
    <2>1. Typed'
      BY <2>a, <2>b, <2>c, <1>t, Zenon DEF Typed
    <2>2. RunInv(r)'
      <3>1. BrokerInv(r)'
        BY Zenon, <2>a, BrokerStill DEF IInv, RunInv, BrokerInv
      <3> QED  BY Zenon, <2>a, <3>1, Onward, NoFinal DEF Launched, Over
    <2>3. \A d \in Run : d # r => Same(d) /\ SameScan(d)
      BY <2>a, <2>b, <1>t, Zenon DEF Same, SameScan, Typed
    <2>4. StaleInv(r)'
      <3>1. /\ scan'[r] = scan[r] \ {x}
            /\ snap'[r] = IF Live(record[x]) THEN [run |-> x, record |-> record[x]] ELSE None
        BY <2>b, <1>t, Zenon DEF Typed
      <3>2. Live(record[x]) => snap'[r] # None /\ snap'[r].run = x
        BY <2>c, <3>1 DEF NoneAssumption
      <3>3. \A q \in abandoned[r] : Dead(q) /\ (~Live(record[q]) \/ q \in scan[r])
        BY Zenon, <2>a DEF IInv, StaleInv
      <3>4. \A q : Dead(q)' <=> Dead(q)
        BY Zenon, <2>a DEF Dead, MainAlive, ClientAlive
      <3> QED  BY Zenon, <2>a, <3>1, <3>2, <3>3, <3>4 DEF StaleInv
    <2> QED  BY Zenon, <2>a, <2>1, <2>2, <2>3, <2>4, CombineReconciling
  <1> QED  BY Zenon, <1>r, <1>s DEF ReconcileRead

\* A record is judged by its process, and written back if that is gone.
LEMMA ReconcileJudgeInv ==
    ASSUME IInv, NEW r \in Run, ReconcileJudge(r), NoneAssumption
    PROVE  IInv'
  <1>t. Typed
    BY Zenon DEF IInv
  <1>a. /\ pc[r] = "reconciling" /\ snap[r] # None /\ snap' = [snap EXCEPT ![r] = None]
        /\ UNCHANGED <<brokerVars, broker, conn, scan, abandoned>>
    BY Zenon DEF ReconcileJudge, brokerVars
  <1>b. PICK q \in Run, rec \in RunRecord : q = snap[r].run /\ rec = snap[r].record
    BY <1>a, <1>t, Zenon DEF Typed
  <1>c. \/ /\ ProcessFound(rec, MainAlive(q), ClientAlive(q)) /\ UNCHANGED <<record, pc, supervisor>>
        \/ /\ ~ProcessFound(rec, MainAlive(q), ClientAlive(q))
           /\ \E outcome \in WriteOutcome :
                /\ WriteRunRecord(q, AsLost(rec), outcome)
                /\ IF outcome = "ok" THEN UNCHANGED <<pc, supervisor>> ELSE ReturnError(r)
    BY Zenon, <1>b DEF ReconcileJudge
  <1>d. AsLost(rec) \in RunRecord /\ AsLost(rec).status = "failed"
    BY Zenon DEF AsLost, RunRecord
  <1>e. /\ record' \in [Run -> RunRecord \cup {None}]
        /\ \A d \in Run : d # q => record'[d] = record[d]
        /\ record'[q] = record[q] \/ record'[q] = AsLost(rec)
    BY <1>c, <1>d, <1>t, Written, Zenon DEF Typed
  <1>f. \A d \in Run : record'[d] = record[d] \/ (record'[d] \in RunRecord /\ record'[d].status = "failed")
    BY Zenon, <1>d, <1>e
  <1>g. /\ UNCHANGED <<plan, token, revoked, client, unit, main, interrupted, clean>>
        /\ \/ pc' = pc /\ result' = result
           \/ pc' = [pc EXCEPT ![r] = "returned"] /\ result' = [result EXCEPT ![r] = "error"]
    BY Zenon, <1>c DEF supervisor, ReturnError, Goto
  <1>h. pc \in [Run -> Stage] /\ result \in [Run -> {"none", "error", "exit code"}]
    BY <1>t, Zenon DEF Typed
  <1>1. Typed'
    <2>1. pc' \in [Run -> Stage] /\ result' \in [Run -> {"none", "error", "exit code"}]
      <3>1. CASE pc' = pc /\ result' = result
        BY <1>t, <3>1, Zenon DEF Typed
      <3>2. CASE pc' = [pc EXCEPT ![r] = "returned"] /\ result' = [result EXCEPT ![r] = "error"]
        BY <1>t, <3>2, Zenon DEF Typed, Stage, Over
      <3> QED  BY <1>g, <3>1, <3>2, Zenon
    <2> QED  BY <1>a, <1>e, <1>g, <1>t, <2>1, Zenon DEF Typed
  <1>2. RunInv(r)'
    <2>1. pc'[r] \in {"reconciling", "returned"} /\ result'[r] \in {result[r], "error"}
      BY <1>a, <1>g, <1>h, Zenon
    <2>2. broker[r] = "none"
      BY Zenon, <1>a DEF IInv, RunInv, BrokerInv, Unstarted
    <2>3. BrokerInv(r)'
      BY Zenon, <1>a, <1>g, <2>1, <2>2, BrokerStill
    <2> QED  BY Zenon, <1>a, <1>f, <1>g, <2>1, <2>3, Onward, NoFinal DEF Launched, Over
  <1>3. \A d \in Run : d # r => Same(d) /\ SameScan(d)
    <2>1. \A d \in Run : d # r => pc'[d] = pc[d] /\ result'[d] = result[d]
      BY <1>g, <1>h, Zenon
    <2>2. \A d \in Run : record'[d] = record[d] \/ (record'[d] # None /\ record'[d].status = "failed")
      BY Zenon, <1>f DEF NoneAssumption
    <2>3. \A d \in Run : d # r => SameScan(d)
      BY <1>a, <1>t, Zenon DEF SameScan, Typed
    <2> QED  BY Zenon, <1>a, <1>g, <2>1, <2>2, <2>3 DEF Same
  <1>4. ASSUME Calm PROVE StaleInv(r)'
    <2>1. CASE pc'[r] # "reconciling"
      <3>1. pc'[r] = "returned"
        BY <1>a, <1>g, <1>h, <2>1, Zenon
      <3> QED  BY Zenon, <3>1 DEF StaleInv
    <2>2. CASE pc'[r] = "reconciling"
      <3>1. ASSUME NEW x \in abandoned[r] PROVE Dead(x)' /\ (~Live(record'[x]) \/ x \in scan'[r])
        <4>1. x \in Run /\ Dead(x) /\ (~Live(record[x]) \/ x \in scan[r] \/ snap[r].run = x)
          BY <1>a, <1>t, <3>1, Zenon DEF Typed, IInv, StaleInv
        <4>2. Dead(x)' /\ (~Live(record[x]) => ~Live(record'[x]))
          BY Zenon, <1>4, <4>1 DEF Calm
        <4>3. ASSUME x = q PROVE ~Live(record'[x])
          <5>1. ~ProcessFound(rec, MainAlive(q), ClientAlive(q))
            BY Zenon, <4>1, <4>3 DEF Dead, ProcessFound
          <5>2. PICK outcome \in WriteOutcome :
                  /\ WriteRunRecord(q, AsLost(rec), outcome)
                  /\ IF outcome = "ok" THEN UNCHANGED <<pc, supervisor>> ELSE ReturnError(r)
            BY Zenon, <1>c, <5>1
          <5>3. outcome = "ok"
            BY <1>h, <2>2, <5>2, Zenon DEF ReturnError, Goto
          <5>4. record'[q] = AsLost(rec)
            BY Zenon, <1>d, <1>t, <5>2, <5>3, Written
          <5> QED  BY Zenon, <1>d, <4>3, <5>4 DEF Live
        <4> QED  BY Zenon, <1>a, <1>b, <4>1, <4>2, <4>3
      <3> QED  BY Zenon, <1>a, <2>2, <3>1 DEF StaleInv
    <2> QED  BY Zenon, <2>1, <2>2
  <1> QED  BY Zenon, <1>a, <1>1, <1>2, <1>3, <1>4, CombineReconciling

\* Every record was judged: what was abandoned is terminal.
LEMMA PrepareInv ==
    ASSUME IInv, NEW r \in Run, Prepare(r)
    PROVE  IInv'
  <1>t. Typed
    BY Zenon DEF IInv
  <1>a. /\ pc[r] = "reconciling" /\ snap[r] = None /\ scan[r] = {}
        /\ UNCHANGED <<brokerVars, record, reconciling, crashes>>
        /\ UNCHANGED <<broker, conn, scan, snap, abandoned>>
    BY Zenon DEF Prepare, brokerVars, reconciling
  <1>1. CASE ReturnError(r)
    BY Zenon, <1>1, <1>a, ReturnErrorInv DEF Over
  <1>2. CASE Goto(r, "minting") /\ UNCHANGED supervisor
    <2>a. /\ pc' = [pc EXCEPT ![r] = "minting"]
          /\ UNCHANGED <<plan, token, revoked, client, unit, main, interrupted, clean, result>>
      BY Zenon, <1>2 DEF Goto, supervisor
    <2>1. Typed'
      BY <1>a, <2>a, <1>t, Zenon DEF Typed, Stage, Unstarted
    <2>2. pc'[r] = "minting" /\ broker[r] = "none"
      BY <1>a, <2>a, <1>t, Zenon DEF Typed, IInv, RunInv, BrokerInv, Unstarted
    <2>3. RunInv(r)'
      <3>1. BrokerInv(r)'
        BY Zenon, <1>a, <2>a, <2>2, BrokerStill
      <3> QED  BY Zenon, <1>a, <2>a, <2>2, <3>1, Onward, NoFinal DEF Launched, Over
    <2>4. \A d \in Run : d # r => Same(d) /\ SameScan(d)
      BY <1>a, <2>a, <1>t, Zenon DEF Same, SameScan, Typed
    <2>5. ASSUME Calm PROVE StaleInv(r)'
      <3>1. \A x \in abandoned[r] : x \in Run /\ Dead(x) /\ ~Live(record[x])
        BY <1>a, <1>t, Zenon DEF Typed, IInv, StaleInv
      <3> QED  BY Zenon, <1>a, <2>2, <2>5, <3>1 DEF StaleInv, Calm
    <2> QED  BY Zenon, <1>a, <2>1, <2>3, <2>4, <2>5, CombineReconciling
  <1> QED  BY Zenon, <1>1, <1>2 DEF Prepare

-----------------------------------------------------------------------------
(* The way out *)

\* A step of the plan is done: what comes before the last record has moved up.
LEMMA Shift ==
    ASSUME Typed, NEW r \in Run, NEW step, At(r, step), plan' = [plan EXCEPT ![r] = Tail(@)],
           NEW i \in 1..Len(plan'[r])
    PROVE  /\ i + 1 \in 1..Len(plan[r]) /\ plan'[r][i] = plan[r][i + 1]
           /\ \A s : Ahead(r, s, i + 1) => s = step \/ Ahead(r, s, i)'
  <1>1. PICK p \in Seq(Step) : p = plan[r] /\ p # <<>> /\ Head(p) = step
    BY Zenon DEF Typed, At
  <1>2. plan'[r] = Tail(p)
    BY <1>1, Zenon DEF Typed
  <1>3. Len(p) \in Nat /\ Len(Tail(p)) = Len(p) - 1 /\ p[1] = step
    BY <1>1
  <1>4. i \in Nat /\ 1 <= i /\ i <= Len(p) - 1
    BY <1>2, <1>3
  <1>5. \A j \in 1..(Len(p) - 1) : Tail(p)[j] = p[j + 1]
    BY <1>1
  <1>6. ASSUME NEW s, Ahead(r, s, i + 1) PROVE s = step \/ Ahead(r, s, i)'
    <2>1. PICK j \in 1..i : p[j] = s
      BY <1>1, <1>4, <1>6 DEF Ahead
    <2>2. CASE j = 1
      BY Zenon, <1>3, <2>1, <2>2
    <2>3. CASE j # 1
      <3>1. j - 1 \in 1..(i - 1) /\ j - 1 \in 1..(Len(p) - 1) /\ (j - 1) + 1 = j
        BY <1>4, <2>3
      <3>2. plan'[r][j - 1] = s
        BY <1>2, <1>5, <2>1, <3>1, Zenon
      <3> QED  BY <3>1, <3>2, Zenon DEF Ahead
    <2> QED  BY Zenon, <2>2, <2>3
  <1>7. i + 1 \in 1..Len(plan[r]) /\ plan'[r][i] = plan[r][i + 1]
    <2>1. i + 1 \in 1..Len(p) /\ Tail(p)[i] = p[i + 1]
      BY <1>3, <1>4, <1>5
    <2> QED  BY <1>1, <1>2, <2>1, Zenon
  <1> QED  BY Zenon, <1>6, <1>7

\* The type of a plan is kept.
LEMMA PlanTyped ==
    ASSUME Typed, NEW r \in Run, NEW step, At(r, step), plan' = [plan EXCEPT ![r] = Tail(@)]
    PROVE  plan' \in [Run -> Seq(Step)] /\ \A d \in Run : d # r => plan'[d] = plan[d]
  <1>1. plan[r] \in Seq(Step) /\ plan[r] # <<>>
    BY Zenon DEF Typed, At
  <1>2. Tail(plan[r]) \in Seq(Step)
    BY <1>1
  <1> QED  BY <1>2, Zenon DEF Typed

\* The effects of Done, spelled out.
LEMMA DoneEffects ==
    ASSUME Typed, NEW r \in Run, NEW step, At(r, step), NEW ok \in BOOLEAN, Done(r, ok)
    PROVE  /\ pc[r] = "leaving" /\ plan' = [plan EXCEPT ![r] = Tail(@)]
           /\ clean' \in [Run -> BOOLEAN] /\ (clean'[r] <=> clean[r] /\ ok)
           /\ \A d \in Run : d # r => clean'[d] = clean[d]
           /\ UNCHANGED <<record, pc, main, interrupted, scan, snap, abandoned, reconciling>>
  BY Zenon DEF Typed, At, Done, reconciling

\* An attempt at a revocation.
LEMMA RevokeInv ==
    ASSUME IInv, NEW r \in Run, Revoke(r)
    PROVE  IInv'
  <1>t. Typed /\ RunInv(r)
    BY Zenon DEF IInv
  <1>a. At(r, "revoke") /\ UNCHANGED <<brokerVars, broker, conn, client, unit, result>>
    BY Zenon DEF Revoke, brokerVars
  <1>b. PICK ok \in BOOLEAN :
          /\ Done(r, ok)
          /\ \/ ok /\ (revoked[r] \/ token[r] = "remote") /\ UNCHANGED <<token, revoked>>
             \/ token' = [token EXCEPT ![r] = "revoked"] /\ revoked' = [revoked EXCEPT ![r] = TRUE]
             \/ /\ ~ok /\ UNCHANGED revoked
                /\ \E t \in {token[r], "revoked"} : token' = [token EXCEPT ![r] = t]
    BY Zenon DEF Revoke
  <1>d. /\ pc[r] = "leaving" /\ plan' = [plan EXCEPT ![r] = Tail(@)]
        /\ clean' \in [Run -> BOOLEAN] /\ (clean'[r] <=> clean[r] /\ ok)
        /\ \A d \in Run : d # r => clean'[d] = clean[d]
        /\ UNCHANGED <<record, pc, main, interrupted, scan, snap, abandoned, reconciling>>
    BY Zenon, <1>a, <1>b, <1>t, DoneEffects
  <1>p. plan' \in [Run -> Seq(Step)] /\ \A d \in Run : d # r => plan'[d] = plan[d]
    BY <1>a, <1>d, <1>t, PlanTyped, Zenon
  <1>e. /\ token' \in [Run -> {"none", "orphaned", "live", "remote", "revoked"}]
        /\ revoked' \in [Run -> BOOLEAN]
        /\ \A d \in Run : d # r => token'[d] = token[d] /\ revoked'[d] = revoked[d]
    <2>1. PICK t \in {"none", "orphaned", "live", "remote", "revoked"} :
            token' = token \/ token' = [token EXCEPT ![r] = t]
      BY <1>b, <1>t, Zenon DEF Typed
    <2>2. revoked' = revoked \/ revoked' = [revoked EXCEPT ![r] = TRUE]
      BY Zenon, <1>b
    <2>3. /\ token' \in [Run -> {"none", "orphaned", "live", "remote", "revoked"}]
          /\ \A d \in Run : d # r => token'[d] = token[d]
      BY <1>t, <2>1, Zenon DEF Typed
    <2>4. revoked' \in [Run -> BOOLEAN] /\ \A d \in Run : d # r => revoked'[d] = revoked[d]
      BY <1>t, <2>2, Zenon DEF Typed
    <2> QED  BY Zenon, <2>3, <2>4
  <1>f. /\ revoked'[r] => token'[r] = "revoked"
        /\ token[r] \in {"revoked", "remote"} => token'[r] \in {token[r], "revoked"}
        /\ ok => token'[r] \in {"revoked", "remote"}
    BY <1>b, <1>t, Zenon DEF Typed, RunInv, SupervisorInv
  <1>1. Typed'
    BY <1>a, <1>d, <1>p, <1>e, <1>t, Zenon DEF Typed
  <1>2. RunInv(r)'
    <2>1. BrokerInv(r)'
      BY Zenon, <1>a, <1>d, <1>t DEF RunInv, BrokerInv, Quiet
    <2>2. SupervisorInv(r)'
      BY <1>a, <1>d, <1>f, <1>t, Zenon DEF RunInv, SupervisorInv, Reported, Quiet, Over, Launched
    <2>3. ASSUME NEW i \in 1..Len(plan'[r]), plan'[r][i] = "final"
          PROVE  /\ Ahead(r, "close", i)' \/ broker[r] \in {"closed", "gone"}
                 /\ interrupted[r] \/ client[r] = "exited"
                 /\ clean'[r] =>
                      /\ token'[r] \in {"revoked", "remote"}
                      /\ interrupted[r] \/ Ahead(r, "stop", i)' \/ unit[r] \in {"none", "ended"}
      <3>1. /\ i + 1 \in 1..Len(plan[r]) /\ plan[r][i + 1] = "final"
            /\ \A s : Ahead(r, s, i + 1) => s = "revoke" \/ Ahead(r, s, i)'
        BY <1>a, <1>d, <1>t, <2>3, Shift, Zenon
      <3> QED  BY Zenon, <1>d, <1>f, <1>t, <3>1 DEF RunInv, PlanInv
    <2>4. PlanInv(r)'
      BY <1>a, <1>d, <2>3, Zenon DEF PlanInv
    <2> QED  BY Zenon, <2>1, <2>2, <2>4 DEF RunInv
  <1>3. \A d \in Run : d # r => Same(d)
    BY Zenon, <1>a, <1>d, <1>p, <1>e DEF Same
  <1> QED  BY Zenon, <1>d, <1>1, <1>2, <1>3, Combine DEF Dead, Moves

\* An attempt to stop the unit.
LEMMA StopInv ==
    ASSUME IInv, NEW r \in Run, executeStop(r)
    PROVE  IInv'
  <1>t. Typed /\ RunInv(r)
    BY Zenon DEF IInv
  <1>a. At(r, "stop") /\ UNCHANGED <<brokerVars, broker, conn, token, revoked, client, result>>
    BY Zenon DEF executeStop, brokerVars
  <1>b. PICK ok \in BOOLEAN : 
          /\ Done(r, ok)
          /\ \E ended \in BOOLEAN :
               /\ ok => ended
               /\ unit' = [unit EXCEPT ![r] = IF ended /\ MainAlive(r) THEN "ended" ELSE @]
    BY Zenon DEF executeStop
  <1>d. /\ pc[r] = "leaving" /\ plan' = [plan EXCEPT ![r] = Tail(@)]
        /\ clean' \in [Run -> BOOLEAN] /\ (clean'[r] <=> clean[r] /\ ok)
        /\ \A d \in Run : d # r => clean'[d] = clean[d]
        /\ UNCHANGED <<record, pc, main, interrupted, scan, snap, abandoned, reconciling>>
    BY Zenon, <1>a, <1>b, <1>t, DoneEffects
  <1>p. plan' \in [Run -> Seq(Step)] /\ \A d \in Run : d # r => plan'[d] = plan[d]
    BY <1>a, <1>d, <1>t, PlanTyped, Zenon
  <1>e. /\ unit' \in [Run -> {"none", "init", "serving", "ended"}]
        /\ \A d \in Run : d # r => unit'[d] = unit[d]
        /\ unit[r] \in {"none", "ended"} => unit'[r] \in {"none", "ended"}
        /\ ok => unit'[r] \in {"none", "ended"}
    BY <1>b, <1>t, Zenon DEF Typed, MainAlive
  <1>1. Typed'
    BY <1>a, <1>d, <1>p, <1>e, <1>t, Zenon DEF Typed
  <1>2. RunInv(r)'
    <2>1. BrokerInv(r)'
      BY Zenon, <1>a, <1>d, <1>t DEF RunInv, BrokerInv, Quiet
    <2>2. SupervisorInv(r)'
      BY <1>a, <1>d, <1>e, <1>t, Zenon DEF RunInv, SupervisorInv, Reported, Quiet
    <2>3. ASSUME NEW i \in 1..Len(plan'[r]), plan'[r][i] = "final"
          PROVE  /\ Ahead(r, "close", i)' \/ broker[r] \in {"closed", "gone"}
                 /\ interrupted[r] \/ client[r] = "exited"
                 /\ clean'[r] =>
                      /\ Ahead(r, "revoke", i)' \/ token[r] \in {"revoked", "remote"}
                      /\ unit'[r] \in {"none", "ended"}
      <3>1. /\ i + 1 \in 1..Len(plan[r]) /\ plan[r][i + 1] = "final"
            /\ \A s : Ahead(r, s, i + 1) => s = "stop" \/ Ahead(r, s, i)'
        BY <1>a, <1>d, <1>t, <2>3, Shift, Zenon
      <3> QED  BY Zenon, <1>d, <1>e, <1>t, <3>1 DEF RunInv, PlanInv
    <2>4. PlanInv(r)'
      BY Zenon, <1>a, <1>d, <2>3 DEF PlanInv
    <2> QED  BY Zenon, <2>1, <2>2, <2>4 DEF RunInv
  <1>3. \A d \in Run : d # r => Same(d)
    BY Zenon, <1>a, <1>d, <1>p, <1>e DEF Same
  <1> QED  BY Zenon, <1>d, <1>1, <1>2, <1>3, Combine DEF Dead, Moves

\* The client exits, or is killed.
LEMMA KillInv ==
    ASSUME IInv, NEW r \in Run, KillClient(r)
    PROVE  IInv'
  <1>t. Typed /\ RunInv(r)
    BY Zenon DEF IInv
  <1>a. UNCHANGED <<brokerVars, broker, conn, token, revoked, unit, result>>
    BY Zenon DEF KillClient, brokerVars
  <1>b. PICK step \in {"linger", "kill"} : At(r, step) /\ Done(r, TRUE)
    BY Zenon DEF KillClient
  <1>c. client' = [client EXCEPT ![r] = "exited"]
    BY Zenon DEF KillClient
  <1>d. /\ pc[r] = "leaving" /\ plan' = [plan EXCEPT ![r] = Tail(@)]
        /\ clean' \in [Run -> BOOLEAN] /\ (clean'[r] <=> clean[r] /\ TRUE)
        /\ \A d \in Run : d # r => clean'[d] = clean[d]
        /\ UNCHANGED <<record, pc, main, interrupted, scan, snap, abandoned, reconciling>>
    BY <1>b, <1>t, DoneEffects, Zenon
  <1>p. plan' \in [Run -> Seq(Step)] /\ \A d \in Run : d # r => plan'[d] = plan[d]
    BY <1>b, <1>d, <1>t, PlanTyped, Zenon
  <1>e. client'[r] = "exited" /\ \A d \in Run : d # r => client'[d] = client[d]
    BY <1>c, <1>t, Zenon DEF Typed
  <1>1. Typed'
    BY <1>a, <1>c, <1>d, <1>p, <1>t, Zenon DEF Typed
  <1>2. RunInv(r)'
    <2>1. BrokerInv(r)'
      BY Zenon, <1>a, <1>d, <1>t DEF RunInv, BrokerInv, Quiet
    <2>2. SupervisorInv(r)'
      BY <1>a, <1>d, <1>e, <1>t, Zenon DEF RunInv, SupervisorInv, Reported, Quiet
    <2>3. ASSUME NEW i \in 1..Len(plan'[r]), plan'[r][i] = "final"
          PROVE  /\ Ahead(r, "close", i)' \/ broker[r] \in {"closed", "gone"}
                 /\ clean'[r] =>
                      /\ Ahead(r, "revoke", i)' \/ token[r] \in {"revoked", "remote"}
                      /\ interrupted[r] \/ Ahead(r, "stop", i)' \/ unit[r] \in {"none", "ended"}
      <3>1. /\ i + 1 \in 1..Len(plan[r]) /\ plan[r][i + 1] = "final"
            /\ \A s : Ahead(r, s, i + 1) => s = step \/ Ahead(r, s, i)'
        BY <1>b, <1>d, <1>t, <2>3, Shift, Zenon
      <3>2. step \notin {"close", "revoke", "stop"}
        BY Zenon, <1>b
      <3> QED  BY Zenon, <1>d, <1>t, <3>1, <3>2 DEF RunInv, PlanInv
    <2>4. PlanInv(r)'
      BY Zenon, <1>a, <1>d, <1>e, <2>3 DEF PlanInv
    <2> QED  BY Zenon, <2>1, <2>2, <2>4 DEF RunInv
  <1>3. \A d \in Run : d # r => Same(d)
    BY Zenon, <1>a, <1>d, <1>p, <1>e DEF Same
  <1> QED  BY Zenon, <1>d, <1>1, <1>2, <1>3, Combine DEF Dead, Moves

\* The last record: an exit is reported only of a run that gave everything back.
LEMMA FinishInv ==
    ASSUME IInv, NEW r \in Run, Finish(r)
    PROVE  IInv'
  <1>t. Typed /\ RunInv(r)
    BY Zenon DEF IInv
  <1>a. /\ At(r, "final") /\ pc[r] = "leaving" /\ plan' = [plan EXCEPT ![r] = Tail(@)]
        /\ UNCHANGED <<brokerVars, broker, conn, pc, token, revoked, client, unit, main, interrupted, clean>>
        /\ UNCHANGED <<reconciling, scan, snap, abandoned>>
    BY Zenon DEF Finish, At, brokerVars, reconciling
  <1>b. PICK isProcessExit \in processExitCode(r), outcome \in WriteOutcome :
          /\ WriteRunRecord(r, [Running(r) EXCEPT !.status = IF isProcessExit /\ clean[r] THEN "exited" ELSE "failed"],
                            outcome)
          /\ result' = [result EXCEPT ![r] = IF (isProcessExit /\ clean[r]) /\ outcome = "ok"
                                             THEN "exit code" ELSE "error"]
    BY Zenon DEF Finish
  <1> DEFINE exited == isProcessExit /\ clean[r]
             rec == [Running(r) EXCEPT !.status = IF exited THEN "exited" ELSE "failed"]
  <1>c. rec \in RunRecord /\ rec.status = IF exited THEN "exited" ELSE "failed"
    BY <1>t, Zenon DEF Typed, Running, RunRecord
  <1>d. /\ record' \in [Run -> RunRecord \cup {None}]
        /\ \A d \in Run : d # r => record'[d] = record[d]
        /\ record'[r] = record[r] \/ record'[r] = rec
    BY <1>b, <1>c, <1>t, Written, Zenon
  <1>e. /\ result' \in [Run -> {"none", "error", "exit code"}]
        /\ \A d \in Run : d # r => result'[d] = result[d]
        /\ result'[r] = IF exited /\ outcome = "ok" THEN "exit code" ELSE "error"
    BY <1>b, <1>t, Zenon DEF Typed
  <1>p. plan' \in [Run -> Seq(Step)] /\ \A d \in Run : d # r => plan'[d] = plan[d]
    BY <1>a, <1>t, PlanTyped, Zenon
  <1>f. exited => /\ token[r] \in {"revoked", "remote"}
                  /\ broker[r] \in {"closed", "gone"} /\ Quiet(r)
                  /\ unit[r] \in {"none", "ended"} /\ client[r] = "exited"
    <2>1. 1 \in 1..Len(plan[r]) /\ plan[r][1] = "final"
      <3>1. PICK p \in Seq(Step) : p = plan[r] /\ p # <<>> /\ Head(p) = "final"
        BY <1>a, <1>t, Zenon DEF At, Typed
      <3>2. Len(p) \in Nat /\ Len(p) # 0 /\ p[1] = "final"
        BY <3>1
      <3>3. 1 \in 1..Len(p)
        BY <3>2
      <3> QED  BY <3>1, <3>2, <3>3, Zenon
    <2>2. \A s : ~Ahead(r, s, 1)
      BY DEF Ahead
    <2>3. exited => clean[r] /\ ~interrupted[r]
      BY <1>b, Zenon DEF processExitCode
    <2>4. exited => /\ token[r] \in {"revoked", "remote"} /\ broker[r] \in {"closed", "gone"}
                    /\ unit[r] \in {"none", "ended"} /\ client[r] = "exited"
      BY Zenon, <1>t, <2>1, <2>2, <2>3 DEF RunInv, PlanInv
    <2> QED  BY Zenon, <1>t, <2>3, <2>4 DEF RunInv, BrokerInv
  <1>1. Typed'
    BY <1>a, <1>d, <1>e, <1>p, <1>t, Zenon DEF Typed
  <1>2. RunInv(r)'
    <2>1. BrokerInv(r)'
      BY Zenon, <1>a, <1>t DEF RunInv, BrokerInv, Quiet
    <2>2. Reported(r)' => Reported(r) \/ exited
      <3> SUFFICES ASSUME ~exited PROVE Reported(r)' => Reported(r)
        BY Zenon
      <3>1. rec.status = "failed" /\ result'[r] = "error"
        BY <1>c, <1>e, Zenon
      <3> HIDE DEF rec, exited
      <3> QED  BY <1>d, <3>1, Zenon DEF Reported
    <2>3. SupervisorInv(r)'
      BY Zenon, <1>a, <1>f, <1>t, <2>2 DEF RunInv, SupervisorInv, Quiet, Over
    <2>4. ASSUME NEW i \in 1..Len(plan'[r]), plan'[r][i] = "final"
          PROVE  /\ Ahead(r, "close", i)' \/ broker[r] \in {"closed", "gone"}
                 /\ interrupted[r] \/ client[r] = "exited"
                 /\ clean[r] =>
                      /\ Ahead(r, "revoke", i)' \/ token[r] \in {"revoked", "remote"}
                      /\ interrupted[r] \/ Ahead(r, "stop", i)' \/ unit[r] \in {"none", "ended"}
      <3>1. /\ i + 1 \in 1..Len(plan[r]) /\ plan[r][i + 1] = "final"
            /\ \A s : Ahead(r, s, i + 1) => s = "final" \/ Ahead(r, s, i)'
        BY <1>a, <1>t, <2>4, Shift, Zenon
      <3> QED  BY Zenon, <1>t, <3>1 DEF RunInv, PlanInv
    <2>5. PlanInv(r)'
      BY Zenon, <1>a, <2>4 DEF PlanInv
    <2> QED  BY Zenon, <2>1, <2>3, <2>5 DEF RunInv
  <1>3. \A d \in Run : d # r => Same(d)
    BY <1>a, <1>d, <1>e, <1>p, Zenon DEF Same
  <1> QED  BY Zenon, <1>a, <1>1, <1>2, <1>3, Combine DEF Dead, Moves

\* The deferred record of a run that failed.
LEMMA RecordFailedInv ==
    ASSUME IInv, NEW r \in Run, RecordFailed(r)
    PROVE  IInv'
  <1>t. Typed /\ RunInv(r)
    BY Zenon DEF IInv
  <1>a. /\ At(r, "record") /\ pc[r] = "leaving" /\ plan' = [plan EXCEPT ![r] = Tail(@)]
        /\ UNCHANGED <<brokerVars, broker, conn, pc, token, revoked, client, unit, main, interrupted, clean, result>>
        /\ UNCHANGED <<reconciling, scan, snap, abandoned>>
    BY Zenon DEF RecordFailed, At, brokerVars, reconciling
  <1> DEFINE rec == [status |-> "failed", supervisor |-> client[r] # "none", main |-> main[r], lost |-> FALSE]
  <1>c. rec \in RunRecord /\ rec.status = "failed"
    BY <1>t, Zenon DEF Typed, RunRecord
  <1>d. /\ record' \in [Run -> RunRecord \cup {None}]
        /\ \A d \in Run : d # r => record'[d] = record[d]
        /\ record'[r] = record[r] \/ record'[r] = rec
    BY Zenon, <1>c, <1>t, Written DEF RecordFailed
  <1>p. plan' \in [Run -> Seq(Step)] /\ \A d \in Run : d # r => plan'[d] = plan[d]
    BY <1>a, <1>t, PlanTyped, Zenon
  <1>1. Typed'
    BY <1>a, <1>d, <1>p, <1>t, Zenon DEF Typed
  <1>2. RunInv(r)'
    <2>1. BrokerInv(r)'
      BY Zenon, <1>a, <1>t DEF RunInv, BrokerInv, Quiet
    <2>2. Reported(r)' => Reported(r)
      BY <1>a, <1>c, <1>d, Zenon DEF Reported
    <2>3. SupervisorInv(r)'
      BY Zenon, <1>a, <1>t, <2>2 DEF RunInv, SupervisorInv, Quiet
    <2>4. ASSUME NEW i \in 1..Len(plan'[r]), plan'[r][i] = "final"
          PROVE  /\ Ahead(r, "close", i)' \/ broker[r] \in {"closed", "gone"}
                 /\ interrupted[r] \/ client[r] = "exited"
                 /\ clean[r] =>
                      /\ Ahead(r, "revoke", i)' \/ token[r] \in {"revoked", "remote"}
                      /\ interrupted[r] \/ Ahead(r, "stop", i)' \/ unit[r] \in {"none", "ended"}
      <3>1. /\ i + 1 \in 1..Len(plan[r]) /\ plan[r][i + 1] = "final"
            /\ \A s : Ahead(r, s, i + 1) => s = "record" \/ Ahead(r, s, i)'
        BY <1>a, <1>t, <2>4, Shift, Zenon
      <3> QED  BY Zenon, <1>t, <3>1 DEF RunInv, PlanInv
    <2>5. PlanInv(r)'
      BY Zenon, <1>a, <2>4 DEF PlanInv
    <2> QED  BY Zenon, <2>1, <2>3, <2>5 DEF RunInv
  <1>3. \A d \in Run : d # r => Same(d)
    BY Zenon, <1>a, <1>d, <1>p DEF Same
  <1> QED  BY Zenon, <1>a, <1>1, <1>2, <1>3, Combine DEF Dead, Moves

\* The plan is empty: runAgent returns.
LEMMA ReturnInv ==
    ASSUME IInv, NEW r \in Run, Return(r)
    PROVE  IInv'
  <1>t. Typed /\ RunInv(r)
    BY Zenon DEF IInv
  <1>a. /\ pc[r] = "leaving" /\ plan[r] = <<>> /\ pc' = [pc EXCEPT ![r] = "returned"]
        /\ UNCHANGED <<broker, conn, record, scan, snap, abandoned, reconciling>>
        /\ UNCHANGED <<plan, token, revoked, client, unit, main, interrupted, clean, result>>
    BY Zenon DEF Return, Goto, brokerVars, supervisor, reconciling
  <1>1. Typed'
    BY <1>a, <1>t, Zenon DEF Typed, Stage, Over
  <1>2. RunInv(r)'
    <2>1. pc'[r] = "returned"
      BY <1>a, <1>t, Zenon DEF Typed
    <2>2. BrokerInv(r)'
      BY Zenon, <1>a, <1>t, <2>1 DEF RunInv, BrokerInv, Quiet, Unstarted
    <2>3. SupervisorInv(r)'
      BY <1>a, <1>t, <2>1, Zenon DEF RunInv, SupervisorInv, Reported, Quiet, Over, Launched
    <2>4. PlanInv(r)'
      BY <1>a DEF PlanInv
    <2> QED  BY Zenon, <2>2, <2>3, <2>4 DEF RunInv
  <1>3. \A d \in Run : d # r => Same(d)
    BY <1>a, <1>t, Zenon DEF Same, Typed
  <1>4. Moves(r)
    BY <1>a, <1>t, Zenon DEF Moves, Typed
  <1> QED  BY Zenon, <1>a, <1>1, <1>2, <1>3, <1>4, Combine DEF Dead

-----------------------------------------------------------------------------
(* Closing the broker *)

\* A step of Close that leaves more of it to be done.
LEMMA ClosingInv ==
    ASSUME IInv, NEW r \in Run, pc[r] = "leaving", broker[r] \notin {"closed", "gone"},
           UNCHANGED <<record, pc, plan, token, revoked, client, unit, main, interrupted, result,
                       reconciling>>,
           NEW stage \in BrokerStage, broker' = [broker EXCEPT ![r] = stage],
           conn' \in [Conn -> ConnStage],
           \A c \in Conn : Owner[c] # r => conn'[c] = conn[c],
           clean' \in [Run -> BOOLEAN], clean'[r] => clean[r],
           \A d \in Run : d # r => clean'[d] = clean[d],
           BrokerInv(r)'
    PROVE  IInv'
  <1>t. Typed /\ RunInv(r)
    BY Zenon DEF IInv
  <1>a. UNCHANGED <<scan, snap, abandoned>>
    BY Zenon DEF reconciling
  <1>1. Typed'
    BY <1>a, <1>t, Zenon DEF Typed
  <1>2. ~Reported(r) /\ ~Reported(r)'
    BY <1>t, Zenon DEF RunInv, SupervisorInv, Reported
  <1>3. SupervisorInv(r)'
    BY Zenon, <1>t, <1>2 DEF RunInv, SupervisorInv
  <1>4. PlanInv(r)'
    <2> SUFFICES ASSUME NEW i \in 1..Len(plan[r]), plan[r][i] = "final"
                 PROVE  /\ pc[r] \in {"leaving", "crashed"} /\ Ahead(r, "close", i)
                        /\ interrupted[r] \/ client[r] = "exited"
                        /\ clean[r] =>
                             /\ Ahead(r, "revoke", i) \/ token[r] \in {"revoked", "remote"}
                             /\ interrupted[r] \/ Ahead(r, "stop", i) \/ unit[r] \in {"none", "ended"}
      BY DEF PlanInv, Ahead
    <2> QED  BY Zenon, <1>t DEF RunInv, PlanInv
  <1>5. \A d \in Run : d # r => Same(d)
    BY <1>t, Zenon DEF Same, Typed
  <1>6. RunInv(r)'
    BY Zenon, <1>3, <1>4 DEF RunInv
  <1> QED  BY Zenon, <1>1, <1>5, <1>6, Combine DEF Dead, Moves

\* Close, one call at a time: the listener and the backlog go first, then the
\* idle connections, the Hive token and the bearer.
LEMMA CloseBrokerInv ==
    ASSUME IInv, NEW r \in Run, CloseBroker(r)
    PROVE  IInv'
  <1>t. Typed /\ RunInv(r)
    BY Zenon DEF IInv
  <1>a. At(r, "close") /\ pc[r] = "leaving"
    BY Zenon DEF CloseBroker, At
  <1>b. BrokerInv(r)
    BY Zenon, <1>t DEF RunInv
  <1>1. CASE /\ broker[r] \in {"made", "bound"} /\ BeginClose(r)
             /\ UNCHANGED <<record, pc, supervisor, reconciling, crashes>>
    <2>a. UNCHANGED <<record, pc, plan, token, revoked, client, unit, main, interrupted, clean, result,
                      reconciling>>
      BY Zenon, <1>1 DEF supervisor
    <2>1. PICK stage \in {"draining", "drained"} :
            broker' = [broker EXCEPT ![r] = stage] /\ (broker[r] = "made" => stage = "drained")
      BY <1>1, <1>t, Zenon DEF BeginClose, Typed
    <2>2. /\ conn' \in [Conn -> ConnStage]
          /\ \A c \in Conn : conn'[c] = IF Owner[c] = r /\ conn[c] = "queued" THEN "shut" ELSE conn[c]
      BY <1>1, <1>t, Zenon DEF BeginClose, Typed, ConnStage
    <2>3. broker'[r] = stage
      BY <2>1, <1>t, Zenon DEF Typed
    <2>4. stage = "drained" /\ clean[r] => Quiet(r)'
      <3>1. stage = "drained" => broker[r] = "made"
        BY <1>1, <1>t, <2>1, <2>3, Zenon DEF BeginClose, Typed
      <3> QED  BY Zenon, <1>b, <2>2, <3>1 DEF BrokerInv, Quiet
    <2>5. BrokerInv(r)'
      BY Zenon, <1>a, <2>a, <2>2, <2>3, <2>4 DEF BrokerInv, Unstarted
    <2> QED  BY <1>1, <1>a, <1>t, <2>a, <2>1, <2>2, <2>5, ClosingInv, Zenon DEF BrokerStage, Typed
  <1>2. ASSUME NEW timedOut \in BOOLEAN, Shutdown(r, timedOut),
               clean' = [clean EXCEPT ![r] = @ /\ ~timedOut],
               UNCHANGED <<record, pc, plan, token, revoked, client, unit, main, interrupted,
                           result, reconciling, crashes>>
        PROVE  IInv'
    <2>1. /\ clean' \in [Run -> BOOLEAN] /\ (clean'[r] <=> clean[r] /\ ~timedOut)
          /\ \A d \in Run : d # r => clean'[d] = clean[d]
      BY <1>2, <1>t, Zenon DEF Typed
    <2>2. /\ conn' \in [Conn -> ConnStage]
          /\ \A c \in Conn : conn'[c] = IF Owner[c] = r /\ conn[c] \in {"new", "idle"} /\ ~timedOut
                                        THEN "shut" ELSE conn[c]
      BY <1>2, <1>t, Zenon DEF Shutdown, Typed, ConnStage
    <2>3. broker[r] = "draining" /\ broker' = [broker EXCEPT ![r] = "drained"] /\ broker'[r] = "drained"
      BY <1>2, <1>t, Zenon DEF Shutdown, Typed
    <2>4. ~timedOut => Quiet(r)'
      <3> SUFFICES ASSUME ~timedOut, NEW c \in Conn, Owner[c] = r PROVE conn'[c] \in {"none", "shut"}
        BY Zenon DEF Quiet
      <3>1. conn[c] # "queued"
        BY Zenon, <1>b, <2>3 DEF BrokerInv
      <3>2. conn[c] \notin InHandler
        BY Zenon, <1>2 DEF Shutdown, ConnsOf
      <3> QED  BY <1>t, <2>2, <3>1, <3>2, Zenon DEF Typed, ConnStage, InHandler
    <2>5. \A c \in Conn : Owner[c] = r => conn'[c] # "queued"
      BY Zenon, <1>b, <2>2, <2>3 DEF BrokerInv
    <2>6. BrokerInv(r)'
      BY Zenon, <1>2, <1>a, <2>1, <2>3, <2>4, <2>5 DEF BrokerInv, Unstarted
    <2> QED  BY <1>2, <1>a, <2>1, <2>2, <2>3, <2>6, ClosingInv, Zenon DEF BrokerStage
  <1>3. CASE ClearHive(r) /\ UNCHANGED <<record, pc, supervisor, reconciling, crashes>>
    <2>a. UNCHANGED <<record, pc, plan, token, revoked, client, unit, main, interrupted, clean, result,
                      reconciling, conn>>
      BY Zenon, <1>3 DEF supervisor, ClearHive
    <2>1. broker[r] = "drained" /\ broker' = [broker EXCEPT ![r] = "hiveless"] /\ broker'[r] = "hiveless"
      BY <1>3, <1>t, Zenon DEF ClearHive, Typed
    <2>2. BrokerInv(r)'
      BY Zenon, <1>a, <1>b, <2>a, <2>1 DEF BrokerInv, Unstarted, Quiet
    <2>3. conn' \in [Conn -> ConnStage] /\ clean' \in [Run -> BOOLEAN]
      BY <1>t, <2>a, Zenon DEF Typed
    <2> QED  BY <1>a, <2>a, <2>1, <2>2, <2>3, ClosingInv, Zenon DEF BrokerStage
  <1>4. CASE ClearBearer(r) /\ Done(r, TRUE) /\ UNCHANGED <<token, revoked, client, unit, result>>
    <2>d. /\ plan' = [plan EXCEPT ![r] = Tail(@)]
          /\ clean' \in [Run -> BOOLEAN] /\ (clean'[r] <=> clean[r] /\ TRUE)
          /\ \A d \in Run : d # r => clean'[d] = clean[d]
          /\ UNCHANGED <<record, pc, main, interrupted, scan, snap, abandoned, reconciling>>
      BY <1>4, <1>a, <1>t, DoneEffects, Zenon
    <2>p. plan' \in [Run -> Seq(Step)] /\ \A d \in Run : d # r => plan'[d] = plan[d]
      BY <1>a, <2>d, <1>t, PlanTyped, Zenon
    <2>e. /\ broker[r] = "hiveless" /\ broker'[r] = "closed" /\ UNCHANGED conn
          /\ broker' \in [Run -> BrokerStage] /\ \A d \in Run : d # r => broker'[d] = broker[d]
      BY <1>4, <1>t, Zenon DEF ClearBearer, Typed, BrokerStage
    <2>1. Typed'
      BY <1>4, <1>t, <2>d, <2>p, <2>e, Zenon DEF Typed
    <2>2. BrokerInv(r)'
      BY Zenon, <1>a, <1>b, <2>d, <2>e DEF BrokerInv, Unstarted, Quiet
    <2>3. SupervisorInv(r)'
      BY <1>4, <1>t, <2>d, <2>e, Zenon DEF RunInv, SupervisorInv, Reported, Quiet
    <2>4. ASSUME NEW i \in 1..Len(plan'[r]), plan'[r][i] = "final"
          PROVE  /\ interrupted[r] \/ client[r] = "exited"
                 /\ clean'[r] =>
                      /\ Ahead(r, "revoke", i)' \/ token[r] \in {"revoked", "remote"}
                      /\ interrupted[r] \/ Ahead(r, "stop", i)' \/ unit[r] \in {"none", "ended"}
      <3>1. /\ i + 1 \in 1..Len(plan[r]) /\ plan[r][i + 1] = "final"
            /\ \A s : Ahead(r, s, i + 1) => s = "close" \/ Ahead(r, s, i)'
        BY <1>a, <2>d, <1>t, <2>4, Shift, Zenon
      <3> QED  BY Zenon, <2>d, <1>t, <3>1 DEF RunInv, PlanInv
    <2>5. PlanInv(r)'
      BY Zenon, <1>4, <1>a, <2>d, <2>e, <2>4 DEF PlanInv
    <2>6. RunInv(r)'
      BY Zenon, <2>2, <2>3, <2>5 DEF RunInv
    <2>7. \A d \in Run : d # r => Same(d)
      BY Zenon, <1>4, <2>d, <2>p, <2>e DEF Same
    <2> QED  BY Zenon, <1>a, <2>d, <2>1, <2>6, <2>7, Combine DEF Dead, Moves
  <1> QED  BY <1>1, <1>2, <1>3, <1>4, Zenon DEF CloseBroker

-----------------------------------------------------------------------------
(* The service manager, the sandbox and the end of a supervisor *)

\* The unit of a run that is not dead starts, serves or ends: it never comes to
\* life once the run was reported, or once its stop had been confirmed.
LEMMA UnitInv ==
    ASSUME IInv, NEW r \in Run, NEW stage \in {"init", "serving", "ended"}, SetUnit(r, stage),
           UNCHANGED brokerVars, MainAlive(r) \/ (ClientAlive(r) /\ unit[r] = "none")
    PROVE  IInv'
  <1>t. Typed /\ RunInv(r)
    BY Zenon DEF IInv
  <1>a. UNCHANGED <<broker, conn, record, pc, plan, token, revoked, client, main, interrupted, clean,
                    result, scan, snap, abandoned, reconciling>>
    BY Zenon DEF SetUnit, brokerVars, reconciling
  <1>b. /\ unit' \in [Run -> {"none", "init", "serving", "ended"}] /\ unit'[r] = stage
        /\ \A d \in Run : d # r => unit'[d] = unit[d]
    BY <1>t, Zenon DEF SetUnit, Typed
  <1>1. Typed'
    BY <1>a, <1>b, <1>t, Zenon DEF Typed
  <1>2. ~Reported(r) /\ ~Reported(r)'
    BY <1>a, <1>t, Zenon DEF RunInv, SupervisorInv, Reported, MainAlive, ClientAlive
  <1>3. BrokerInv(r)' /\ SupervisorInv(r)'
    BY <1>a, <1>t, <1>2, Zenon DEF RunInv, BrokerInv, SupervisorInv, Quiet
  <1>4. PlanInv(r)'
    <2> SUFFICES ASSUME NEW i \in 1..Len(plan[r]), plan[r][i] = "final"
                 PROVE  /\ pc[r] \in {"leaving", "crashed"}
                        /\ Ahead(r, "close", i) \/ broker[r] \in {"closed", "gone"}
                        /\ interrupted[r] \/ client[r] = "exited"
                        /\ clean[r] =>
                             /\ Ahead(r, "revoke", i) \/ token[r] \in {"revoked", "remote"}
                             /\ interrupted[r] \/ Ahead(r, "stop", i)
      BY <1>a, ZenonT(30) DEF PlanInv, Ahead
    <2> QED  BY Zenon, <1>t DEF RunInv, PlanInv, MainAlive, ClientAlive
  <1>5. \A d \in Run : d # r => Same(d)
    BY Zenon, <1>a, <1>b DEF Same
  <1>6. RunInv(r)' /\ ~Dead(r) /\ Moves(r)
    BY Zenon, <1>a, <1>3, <1>4 DEF RunInv, Dead, Moves
  <1> QED  BY Zenon, <1>a, <1>1, <1>5, <1>6, Combine

\* systemd-run exits.
LEMMA ClientExitsInv ==
    ASSUME IInv, NEW r \in Run, ClientExits(r)
    PROVE  IInv'
  <1>t. Typed /\ RunInv(r)
    BY Zenon DEF IInv
  <1>a. UNCHANGED <<broker, conn, record, pc, plan, token, revoked, unit, main, interrupted, clean,
                    result, scan, snap, abandoned, reconciling>>
    BY Zenon DEF ClientExits, brokerVars, reconciling
  <1>b. /\ client' \in [Run -> {"none", "alive", "exited"}] /\ client'[r] = "exited"
        /\ \A d \in Run : d # r => client'[d] = client[d]
    BY <1>t, Zenon DEF ClientExits, Typed
  <1>1. Typed'
    BY <1>a, <1>b, <1>t, Zenon DEF Typed
  <1>2. BrokerInv(r)'
    BY Zenon, <1>a, <1>t DEF RunInv, BrokerInv, Quiet
  <1>3. SupervisorInv(r)'
    BY <1>a, <1>b, <1>t, Zenon DEF RunInv, SupervisorInv, Reported, Quiet
  <1>4. PlanInv(r)'
    BY ZenonT(30), <1>a, <1>b, <1>t DEF RunInv, PlanInv, Ahead
  <1>5. \A d \in Run : d # r => Same(d)
    BY Zenon, <1>a, <1>b DEF Same
  <1>6. RunInv(r)' /\ ~Dead(r) /\ Moves(r)
    BY Zenon, <1>a, <1>2, <1>3, <1>4 DEF RunInv, Dead, Moves, ClientExits
  <1> QED  BY Zenon, <1>a, <1>1, <1>5, <1>6, Combine

\* Serve ends by itself.
LEMMA BrokerStopsInv ==
    ASSUME IInv, NEW r \in Run, BrokerStops(r)
    PROVE  IInv'
  <1>a. UNCHANGED <<broker, conn, record, pc, plan, token, revoked, client, unit, main, interrupted,
                    clean, result, scan, snap, abandoned, reconciling>>
    BY Zenon DEF BrokerStops, ServeFails, supervisor, reconciling
  <1>1. Typed'
    BY <1>a, Zenon DEF IInv, Typed
  <1>2. \A d \in Run : Same(d) /\ Moves(d)
    BY Zenon, <1>a DEF Same, Moves
  <1>3. RunInv(r)'
    BY Zenon, <1>2, OtherRun DEF IInv
  <1> QED  BY Zenon, <1>a, <1>1, <1>2, <1>3, Combine DEF Dead, MainAlive, ClientAlive

\* A supervisor dies, and its broker with it.
LEMMA CrashInv ==
    ASSUME IInv, NEW r \in Run, Crash(r)
    PROVE  IInv'
  <1>t. Typed /\ RunInv(r)
    BY Zenon DEF IInv
  <1>a. UNCHANGED <<record, plan, token, revoked, client, unit, main, interrupted, clean, result,
                    scan, snap, abandoned, reconciling>>
    BY Zenon DEF Crash, supervisor, reconciling
  <1>b. /\ pc[r] # "crashed" /\ pc' \in [Run -> Stage] /\ pc'[r] = "crashed"
        /\ \A d \in Run : d # r => pc'[d] = pc[d]
    BY <1>t, Zenon DEF Crash, Goto, Typed, Stage, Over
  <1>c. /\ broker' \in [Run -> BrokerStage] /\ broker'[r] = "gone"
        /\ \A d \in Run : d # r => broker'[d] = broker[d]
    BY <1>t, Zenon DEF Crash, BrokerDies, Typed, BrokerStage
  <1>d. /\ conn' \in [Conn -> ConnStage]
        /\ \A c \in Conn : conn'[c] = IF Owner[c] = r THEN "shut" ELSE conn[c]
    BY <1>t, Zenon DEF Crash, BrokerDies, Typed, ConnStage
  <1>1. Typed'
    BY <1>a, <1>b, <1>c, <1>d, <1>t, Zenon DEF Typed
  <1>2. Quiet(r)' /\ \A c \in Conn : Owner[c] = r => conn'[c] # "queued"
    BY Zenon, <1>d DEF Quiet
  <1>3. BrokerInv(r)'
    BY Zenon, <1>b, <1>c, <1>2 DEF BrokerInv, Unstarted
  <1>4. SupervisorInv(r)'
    BY <1>a, <1>b, <1>c, <1>2, <1>t, Zenon DEF RunInv, SupervisorInv, Reported, Over, Launched
  <1>5. PlanInv(r)'
    BY Zenon, <1>a, <1>b, <1>c, <1>t DEF RunInv, PlanInv, Ahead
  <1>6. \A d \in Run : d # r => Same(d)
    BY <1>a, <1>b, <1>c, <1>d, Zenon DEF Same
  <1>7. RunInv(r)' /\ ~Dead(r) /\ Moves(r)
    BY Zenon, <1>b, <1>3, <1>4, <1>5 DEF RunInv, Dead, Moves
  <1> QED  BY Zenon, <1>a, <1>1, <1>6, <1>7, Combine

\* What a step of the traffic does to its connection: it joins the backlog of a
\* bound broker only, and one that is opened on any other is refused.
LEMMA TrafficMoves ==
    ASSUME Typed, NEW c \in Conn, Traffic(c)
    PROVE  \E stage \in ConnStage :
             /\ conn' = [conn EXCEPT ![c] = stage]
             /\ stage = "queued" => broker[Owner[c]] = "bound"
             /\ conn[c] = "shut" => FALSE
             /\ conn[c] = "none" => stage = "shut" \/ broker[Owner[c]] = "bound"
  <1>1. CASE Dial(c)
    BY <1>1, Zenon DEF Dial, Move, ConnStage
  <1>2. CASE Accept(c)
    BY Zenon, <1>2 DEF Accept, Move, ConnStage
  <1>3. CASE ServeHTTP(c)
    <2>1. CASE Move(c, AfterResponse(c))
      BY <1>3, <2>1, Zenon DEF ServeHTTP, Move, AfterResponse, ConnStage
    <2>2. CASE Move(c, "bearer") \/ Move(c, "hive")
      BY Zenon, <1>3, <2>2 DEF ServeHTTP, Move, ConnStage
    <2> QED  BY Zenon, <1>3, <2>1, <2>2 DEF ServeHTTP
  <1>4. CASE HiveRefuses(c) \/ Copied(c)
    BY Zenon, <1>4 DEF HiveRefuses, Copied, Move, AfterResponse, ConnStage
  <1>5. CASE RoundTrip(c)
    <2>1. CASE Move(c, AfterResponse(c))
      BY <1>5, <2>1, Zenon DEF RoundTrip, Move, AfterResponse, ConnStage
    <2>2. CASE Move(c, "copying")
      BY Zenon, <1>5, <2>2 DEF RoundTrip, Move, ConnStage
    <2> QED  BY Zenon, <1>5, <2>1, <2>2 DEF RoundTrip
  <1>6. CASE HangUp(c)
    BY Zenon, <1>6 DEF HangUp, Move, ConnStage
  <1> QED  BY Zenon, <1>1, <1>2, <1>3, <1>4, <1>5, <1>6 DEF Traffic

\* The traffic of a run leaves a broker that is shut down quiet.
LEMMA TrafficInv ==
    ASSUME IInv, BrokerAssumption, NEW c \in Conn, Traffic(c)
    PROVE  IInv'
  <1>t. Typed /\ Owner[c] \in Run
    BY Zenon DEF IInv, BrokerAssumption
  <1>r. PICK r \in Run : r = Owner[c]
    BY Zenon, <1>t
  <1>u. RunInv(r)
    BY Zenon DEF IInv
  <1>a. UNCHANGED <<broker, record, pc, plan, token, revoked, client, unit, main, interrupted, clean,
                    result, scan, snap, abandoned, reconciling>>
    BY Zenon DEF Traffic, supervisor, reconciling, Move, Dial, Accept, ServeHTTP, HiveRefuses, RoundTrip,
           Copied, HangUp
  <1>b. PICK stage \in ConnStage :
             /\ conn' = [conn EXCEPT ![c] = stage]
             /\ stage = "queued" => broker[r] = "bound"
             /\ conn[c] # "shut"
             /\ conn[c] = "none" => stage = "shut" \/ broker[r] = "bound"
    BY Zenon, <1>r, <1>t, TrafficMoves
  <1>c. /\ conn' \in [Conn -> ConnStage] /\ conn'[c] = stage
        /\ \A e \in Conn : e # c => conn'[e] = conn[e]
    BY <1>b, <1>t, Zenon DEF Typed
  <1>1. Typed'
    BY <1>a, <1>c, <1>t, Zenon DEF Typed
  <1>2. Quiet(r) /\ broker[r] # "bound" => Quiet(r)'
    BY Zenon, <1>r, <1>b, <1>c DEF Quiet
  <1>3. BrokerInv(r)'
    <2>1. broker[r] # "bound" => \A e \in Conn : Owner[e] = r => conn'[e] # "queued"
      BY Zenon, <1>b, <1>c, <1>u DEF RunInv, BrokerInv
    <2> QED  BY Zenon, <1>a, <1>u, <1>2, <2>1 DEF RunInv, BrokerInv
  <1>4. SupervisorInv(r)'
    <2>1. Reported(r)' => Reported(r)
      BY <1>a, Zenon DEF Reported
    <2> QED  BY Zenon, <1>a, <1>u, <1>2, <2>1 DEF RunInv, SupervisorInv
  <1>5. PlanInv(r)'
    BY <1>a, <1>u DEF RunInv, PlanInv, Ahead
  <1>6. \A d \in Run : d # r => Same(d)
    BY Zenon, <1>a, <1>c, <1>r DEF Same
  <1>7. RunInv(r)' /\ Moves(r) /\ (Dead(r) => Dead(r)' /\ record'[r] = record[r])
    BY Zenon, <1>a, <1>3, <1>4, <1>5 DEF RunInv, Moves, Dead, MainAlive, ClientAlive
  <1> QED  BY Zenon, <1>a, <1>1, <1>6, <1>7, Combine

-----------------------------------------------------------------------------
(* All steps together *)

\* Before the first run, nothing is open, recorded or reported.
LEMMA InitInv == Init => IInv
  <1> SUFFICES ASSUME Init PROVE IInv
    BY Zenon
  <1>1. Typed
    <2>1. plan \in [Run -> Seq(Step)]
      <3>1. <<>> \in Seq(Step)
        OBVIOUS
      <3> QED  BY Zenon, <3>1 DEF Init
    <2>2. /\ pc \in [Run -> Stage] /\ broker \in [Run -> BrokerStage] /\ conn \in [Conn -> ConnStage]
      BY Zenon DEF Init, Stage, Unstarted, BrokerStage, ConnStage
    <2>3. /\ record \in [Run -> RunRecord \cup {None}]
          /\ snap \in [Run -> [run : Run, record : RunRecord] \cup {None}]
          /\ scan \in [Run -> SUBSET Run] /\ abandoned \in [Run -> SUBSET Run]
      BY Zenon DEF Init
    <2> QED  BY Zenon, <2>1, <2>2, <2>3 DEF Init, Typed
  <1>2. ASSUME NEW r \in Run PROVE RunInv(r) /\ StaleInv(r)
    <2>1. BrokerInv(r)
      BY Zenon DEF Init, BrokerInv, Quiet
    <2>2. SupervisorInv(r)
      BY Zenon DEF Init, SupervisorInv, Reported, Launched
    <2>3. PlanInv(r)
      BY DEF Init, PlanInv
    <2>4. StaleInv(r)
      BY Zenon DEF Init, StaleInv
    <2> QED  BY Zenon, <2>1, <2>2, <2>3, <2>4 DEF RunInv
  <1> QED  BY Zenon, <1>1, <1>2 DEF IInv

\* Every step of the supervisors, the sandboxes, the service manager and the
\* brokers keeps the invariant.
LEMMA NextInv ==
    ASSUME BrokerAssumption, NoneAssumption
    PROVE  IInv /\ [Next]_vars => IInv'
  <1> SUFFICES ASSUME IInv, [Next]_vars PROVE IInv'
    BY Zenon
  <1>1. ASSUME NEW r \in Run, Supervise(r) PROVE IInv'
    BY Zenon, <1>1, BeginInv, ReconcileReadInv, ReconcileJudgeInv, PrepareInv, ObtainInv, RecordStartingInv,
       MakeBrokerInv, ListenInv, LaunchInv, QueryInv, RecordRunningInv, WaitInv, CloseBrokerInv,
       RevokeInv, StopInv, KillInv, FinishInv, RecordFailedInv, ReturnInv DEF Supervise
  <1>2. ASSUME NEW r \in Run, UnitStarts(r) \/ SandboxServes(r) \/ UnitEnds(r) PROVE IInv'
    BY Zenon, <1>2, UnitInv DEF UnitStarts, SandboxServes, UnitEnds, MainAlive
  <1>3. ASSUME NEW r \in Run, ClientExits(r) \/ BrokerStops(r) \/ Crash(r) PROVE IInv'
    BY Zenon, <1>3, ClientExitsInv, BrokerStopsInv, CrashInv
  <1>4. ASSUME NEW c \in Conn, Traffic(c) PROVE IInv'
    BY Zenon, <1>4, TrafficInv
  <1>5. CASE UNCHANGED vars
    <2>a. UNCHANGED <<broker, conn, record, pc, plan, token, revoked, client, unit, main, interrupted,
                      clean, result, scan, snap, abandoned>>
      BY Zenon, <1>5 DEF vars, brokerVars, supervisor, reconciling
    <2>1. Typed'
      BY <2>a, Zenon DEF IInv, Typed
    <2>2. ASSUME NEW d \in Run PROVE RunInv(d)' /\ StaleInv(d)'
      <3>1. Same(d) /\ SameScan(d) /\ Moves(d)
        BY Zenon, <2>a DEF Same, SameScan, Moves
      <3>2. Calm
        BY Zenon, <2>a DEF Calm, Dead, MainAlive, ClientAlive
      <3> QED  BY Zenon, <3>1, <3>2, OtherRun, StaleKept DEF IInv
    <2> QED  BY Zenon, <2>1, <2>2 DEF IInv
  <1> QED  BY Zenon, <1>1, <1>2, <1>3, <1>4, <1>5 DEF Next

\* The inductive invariant of `ff run` holds in every reachable state.
THEOREM Invariance ==
    ASSUME BrokerAssumption, NoneAssumption
    PROVE  Spec => []IInv
  BY InitInv, NextInv, PTL DEF Spec

\* A run that is reported as exited, in its record or by the exit code that
\* runAgent returns, has given everything back (run_agent.go:304-348).
THEOREM ExitIsClean ==
    ASSUME BrokerAssumption, NoneAssumption
    PROVE  Spec => []CleanMeansReleased
  <1>1. IInv => CleanMeansReleased
    <2> SUFFICES ASSUME IInv, NEW r \in Run, Reported(r) PROVE Released(r)
      BY Zenon DEF CleanMeansReleased, Reported
    <2>1. SupervisorInv(r)
      BY Zenon DEF IInv, RunInv
    <2>2. ConnsOf(r, {"bearer", "hive"}) = {}
      BY Zenon, <2>1 DEF SupervisorInv, Quiet, ConnsOf
    <2> QED  BY Zenon, <2>1, <2>2 DEF SupervisorInv, Released, Disarmed
  <1> QED  BY <1>1, Invariance, PTL

\* A run that was dead with a live record when another run began to reconcile
\* has a terminal record by the time that run asks for its token (state.go:54).
THEOREM ReconciledRecords ==
    ASSUME BrokerAssumption, NoneAssumption
    PROVE  Spec => []StaleRecordsEnd
  <1>1. IInv => StaleRecordsEnd
    BY Zenon DEF IInv, StaleInv, StaleRecordsEnd
  <1> QED  BY <1>1, Invariance, PTL
=============================================================================
