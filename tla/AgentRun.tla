------------------------------ MODULE AgentRun ------------------------------
(***************************************************************************)
(* `ff run` (cmd/ff/run_agent.go): a supervisor that reconciles the state  *)
(* directory, obtains a token, records the run, serves the broker, starts  *)
(* the sandbox as a systemd unit, waits, and gives everything back on      *)
(* every path out; several of them beside each other on one state          *)
(* directory, any of which may be killed.                                  *)
(*                                                                         *)
(* The control API and the service manager are external: a call to them    *)
(* has the outcomes the supervisor can meet, among them an error although  *)
(* the call took effect.                                                   *)
(***************************************************************************)
EXTENDS RunnerBroker, Sequences

CONSTANTS
  None,
  Granted,      \* runs the gateway has a token for
  MaxCrashes

ASSUME RunAssumption == Granted \subseteq Run /\ MaxCrashes \in Nat

VARIABLES
  record,       \* the run records, see RunRecords
  pc,           \* where each supervisor is
  plan,         \* what is left of its way out
  token,        \* the token obtained for the run
  revoked,      \* the supervisor's own flag
  client,       \* the systemd-run process
  unit,         \* the systemd unit with the sandbox
  main,         \* whether the unit's main PID was learnt
  interrupted,  \* the wait ended before the client did
  clean,        \* no cleanup step has failed
  result,       \* what runAgent returned
  scan,         \* records ReconcileRunRecords has still to read
  snap,         \* the record it has read and not judged yet
  abandoned,    \* runs seen dead, with a live record, when the scan began
  crashes

INSTANCE RunRecords

\* No file, and no file read.
ASSUME NoneAssumption == None \notin RunRecord \cup [run : Run, record : RunRecord]

supervisor == <<plan, token, revoked, client, unit, main, interrupted, clean, result>>
reconciling == <<scan, snap, abandoned>>
vars == <<brokerVars, record, pc, supervisor, reconciling, crashes>>

MainAlive(r) == unit[r] \in {"init", "serving"}
ClientAlive(r) == client[r] = "alive"

Goto(r, stage) == pc' = [pc EXCEPT ![r] = stage]

\* An error return: the rest of the function's calls and its deferred ones.
Fail(r, steps) ==
  /\ pc' = [pc EXCEPT ![r] = "leaving"]
  /\ plan' = [plan EXCEPT ![r] = steps]
  /\ result' = [result EXCEPT ![r] = "error"]
  /\ UNCHANGED <<token, revoked, client, unit, main, interrupted, clean>>

ReturnError(r) ==
  /\ Goto(r, "returned")
  /\ result' = [result EXCEPT ![r] = "error"]
  /\ UNCHANGED <<plan, token, revoked, client, unit, main, interrupted, clean>>

(***************************************************************************)
(* Before the token: validation, the state directory, and the records of   *)
(* earlier runs.                                                           *)
(***************************************************************************)
Begin(r) ==
  /\ pc[r] = "idle"
  /\ \/ ReturnError(r) /\ UNCHANGED reconciling
     \/ /\ Goto(r, "reconciling")
        /\ scan' = [scan EXCEPT ![r] = {q \in Run : record[q] # None}]
        /\ abandoned' = [abandoned EXCEPT ![r] =
             {q \in Run : pc[q] = "crashed" /\ Live(record[q]) /\ ~MainAlive(q) /\ ~ClientAlive(q)}]
        /\ UNCHANGED <<snap, supervisor>>
  /\ UNCHANGED <<brokerVars, record, crashes>>

\* The loop body of ReconcileRunRecords up to the look at the process; a record
\* that cannot be read ends the launch.
ReconcileRead(r) ==
  /\ pc[r] = "reconciling" /\ snap[r] = None
  /\ \E q \in scan[r] :
       \/ ReturnError(r) /\ UNCHANGED <<scan, snap>>
       \/ /\ scan' = [scan EXCEPT ![r] = @ \ {q}]
          /\ snap' = [snap EXCEPT ![r] =
               IF Live(record[q]) THEN [run |-> q, record |-> record[q]] ELSE None]
          /\ UNCHANGED <<pc, supervisor>>
  /\ UNCHANGED <<brokerVars, record, abandoned, crashes>>

\* The rest of it, with the record as it was read.
ReconcileJudge(r) ==
  /\ pc[r] = "reconciling" /\ snap[r] # None
  /\ snap' = [snap EXCEPT ![r] = None]
  /\ LET q == snap[r].run
         rec == snap[r].record
     IN  IF ProcessFound(rec, MainAlive(q), ClientAlive(q))
         THEN UNCHANGED <<record, pc, supervisor>>
         ELSE \E outcome \in WriteOutcome :
                /\ WriteRunRecord(q, AsLost(rec), outcome)
                /\ IF outcome = "ok" THEN UNCHANGED <<pc, supervisor>> ELSE ReturnError(r)
  /\ UNCHANGED <<brokerVars, scan, abandoned, crashes>>

\* The host isolation, the identifier, the stop command and the socket path.
Prepare(r) ==
  /\ pc[r] = "reconciling" /\ snap[r] = None /\ scan[r] = {}
  /\ \/ ReturnError(r)
     \/ Goto(r, "minting") /\ UNCHANGED supervisor
  /\ UNCHANGED <<brokerVars, record, reconciling, crashes>>

\* Mint over the control socket; one that fails may have issued a token nobody
\* was given.
Mint(r) ==
  \/ r \in Granted /\ token' = [token EXCEPT ![r] = "live"] /\ Goto(r, "recording") /\ UNCHANGED result
  \/ /\ \E t \in {"none", "orphaned"} : token' = [token EXCEPT ![r] = t]
     /\ Goto(r, "returned") /\ result' = [result EXCEPT ![r] = "error"]

\* The manifest of a remote gateway, and the bearer of the capability file.
Fetch(r) ==
  \/ r \in Granted /\ token' = [token EXCEPT ![r] = "remote"] /\ Goto(r, "recording") /\ UNCHANGED result
  \/ Goto(r, "returned") /\ result' = [result EXCEPT ![r] = "error"] /\ UNCHANGED token

Obtain(r) ==
  /\ pc[r] = "minting"
  /\ Mint(r) \/ Fetch(r)
  /\ UNCHANGED <<brokerVars, record, plan, revoked, client, unit, main, interrupted,
                 clean, reconciling, crashes>>

(***************************************************************************)
(* The record, the broker and the sandbox.                                 *)
(***************************************************************************)
RecordStarting(r) ==
  /\ pc[r] = "recording"
  /\ \E outcome \in WriteOutcome :
       /\ WriteRunRecord(r, Starting, outcome)
       /\ IF outcome = "ok" THEN Goto(r, "brokering") /\ UNCHANGED supervisor
          ELSE Fail(r, <<"revoke", "record", "revoke">>)
  /\ UNCHANGED <<brokerVars, reconciling, crashes>>

MakeBroker(r) ==
  /\ pc[r] = "brokering"
  /\ \/ /\ IF token[r] = "remote" THEN NewBrokerFromManifest(r) ELSE NewBroker(r)
        /\ Goto(r, "listening") /\ UNCHANGED supervisor
     \/ UNCHANGED brokerVars /\ Fail(r, <<"revoke", "record", "revoke">>)
  /\ UNCHANGED <<record, reconciling, crashes>>

Listen(r) ==
  /\ pc[r] = "listening"
  /\ \/ ListenAndServe(r) /\ Goto(r, "launching") /\ UNCHANGED supervisor
     \/ UNCHANGED brokerVars /\ Fail(r, <<"revoke", "close", "record", "revoke">>)
  /\ UNCHANGED <<record, reconciling, crashes>>

\* BuildBubblewrap, BuildSystemdScope and command.Start.
Launch(r) ==
  /\ pc[r] = "launching"
  /\ \/ /\ Goto(r, "querying")
        /\ client' = [client EXCEPT ![r] = "alive"]
        /\ UNCHANGED <<plan, token, revoked, unit, main, interrupted, clean, result>>
     \/ Fail(r, <<"close", "revoke", "record", "revoke">>)
  /\ UNCHANGED <<brokerVars, record, reconciling, crashes>>

querySystemdMainPID(r) ==
  /\ pc[r] = "querying"
  /\ Goto(r, "marking")
  /\ \E found \in BOOLEAN :
       /\ found => MainAlive(r)
       /\ main' = [main EXCEPT ![r] = found]
  /\ UNCHANGED <<brokerVars, record, plan, token, revoked, client, unit, interrupted,
                 clean, result, reconciling, crashes>>

\* The record as the supervisor holds it once the sandbox was started.
Running(r) == [status |-> "running", supervisor |-> TRUE, main |-> main[r], lost |-> FALSE]

RecordRunning(r) ==
  /\ pc[r] = "marking"
  /\ \E outcome \in WriteOutcome :
       /\ WriteRunRecord(r, Running(r), outcome)
       /\ IF outcome = "ok" THEN Goto(r, "waiting") /\ UNCHANGED supervisor
          ELSE Fail(r, <<"close", "revoke", "stop", "kill", "record", "revoke">>)
  /\ UNCHANGED <<brokerVars, reconciling, crashes>>

\* Variant: the unit is stopped only if its client has not exited.
CleanupTrustingClient(early) ==
  IF early THEN <<"close", "revoke", "stop", "linger", "final", "revoke">>
  ELSE <<"close", "revoke", "final", "revoke">>

\* The cleanup after the wait; the last step is the deferred revoke.
Cleanup(early) ==
  <<"close", "revoke", "stop">> \o (IF early THEN <<"linger">> ELSE <<>>)
                                \o <<"final", "revoke">>

\* The client's exit, the broker's, the wall time or a signal.
waitForAgentRun(r) ==
  /\ pc[r] = "waiting"
  /\ \E early \in BOOLEAN :
       /\ early \/ ~ClientAlive(r)
       /\ interrupted' = [interrupted EXCEPT ![r] = early]
       /\ plan' = [plan EXCEPT ![r] = Cleanup(early)]
  /\ Goto(r, "leaving")
  /\ UNCHANGED <<brokerVars, record, token, revoked, client, unit, main, clean, result,
                 reconciling, crashes>>

(***************************************************************************)
(* The way out, one step of the plan at a time.                            *)
(***************************************************************************)
At(r, step) == pc[r] = "leaving" /\ plan[r] # <<>> /\ Head(plan[r]) = step

\* The step is done, with or without an error.
Done(r, ok) ==
  /\ plan' = [plan EXCEPT ![r] = Tail(@)]
  /\ clean' = [clean EXCEPT ![r] = @ /\ ok]
  /\ UNCHANGED <<record, pc, main, interrupted, reconciling, crashes>>

CloseBroker(r) ==
  /\ At(r, "close")
  /\ \/ /\ broker[r] \in {"made", "bound"} /\ BeginClose(r)
        /\ UNCHANGED <<record, pc, supervisor, reconciling, crashes>>
     \/ \E timedOut \in BOOLEAN :
          /\ Shutdown(r, timedOut)
          /\ clean' = [clean EXCEPT ![r] = @ /\ ~timedOut]
          /\ UNCHANGED <<record, pc, plan, token, revoked, client, unit, main, interrupted,
                         result, reconciling, crashes>>
     \/ ClearHive(r) /\ UNCHANGED <<record, pc, supervisor, reconciling, crashes>>
     \/ /\ ClearBearer(r) /\ Done(r, TRUE)
        /\ UNCHANGED <<token, revoked, client, unit, result>>

\* An error may hide a revocation that is in force.
Revoke(r) ==
  /\ At(r, "revoke")
  /\ IF revoked[r] \/ token[r] = "remote"
     THEN Done(r, TRUE) /\ UNCHANGED <<token, revoked>>
     ELSE \/ /\ Done(r, TRUE)
             /\ token' = [token EXCEPT ![r] = "revoked"]
             /\ revoked' = [revoked EXCEPT ![r] = TRUE]
          \/ /\ Done(r, FALSE)
             /\ \E t \in {token[r], "revoked"} : token' = [token EXCEPT ![r] = t]
             /\ UNCHANGED revoked
  /\ UNCHANGED <<brokerVars, client, unit, result>>

\* systemctl stop; a unit that is not there, or not there yet, counts as
\* stopped.
executeStop(r) ==
  /\ At(r, "stop")
  /\ \E ok \in BOOLEAN :
       /\ Done(r, ok)
       /\ \E ended \in BOOLEAN :
            /\ ok => ended
            /\ unit' = [unit EXCEPT ![r] = IF ended /\ MainAlive(r) THEN "ended" ELSE @]
  /\ UNCHANGED <<brokerVars, token, revoked, client, result>>

\* Variant: no kill when the client does not exit.
AwaitClient(r) ==
  /\ At(r, "linger") \/ At(r, "kill")
  /\ ~ClientAlive(r)
  /\ Done(r, TRUE)
  /\ UNCHANGED <<brokerVars, token, revoked, client, unit, result>>

\* After an early end of the wait: the client's exit, or a kill after five
\* seconds; after a failed record: a kill at once.
KillClient(r) ==
  /\ At(r, "linger") \/ At(r, "kill")
  /\ Done(r, TRUE)
  /\ client' = [client EXCEPT ![r] = "exited"]
  /\ UNCHANGED <<brokerVars, token, revoked, unit, result>>

\* Whether the wait ended with an exit status: never after an early end, and
\* not when Wait itself failed.
processExitCode(r) == IF interrupted[r] THEN {FALSE} ELSE BOOLEAN

\* The terminal record and the return value.
Finish(r) ==
  /\ At(r, "final")
  /\ \E isProcessExit \in processExitCode(r), outcome \in WriteOutcome :
       LET exited == isProcessExit /\ clean[r]
           last == [Running(r) EXCEPT !.status = IF exited THEN "exited" ELSE "failed"]
       IN  /\ WriteRunRecord(r, last, outcome)
           /\ result' = [result EXCEPT ![r] = IF exited /\ outcome = "ok" THEN "exit code" ELSE "error"]
  /\ plan' = [plan EXCEPT ![r] = Tail(@)]
  /\ UNCHANGED <<brokerVars, pc, token, revoked, client, unit, main, interrupted, clean,
                 reconciling, crashes>>

\* The deferred record of a run that did not get that far.
RecordFailed(r) ==
  /\ At(r, "record")
  /\ \E outcome \in WriteOutcome :
       WriteRunRecord(r, [status |-> "failed", supervisor |-> client[r] # "none",
                          main |-> main[r], lost |-> FALSE], outcome)
  /\ plan' = [plan EXCEPT ![r] = Tail(@)]
  /\ UNCHANGED <<brokerVars, pc, token, revoked, client, unit, main, interrupted, clean,
                 result, reconciling, crashes>>

Return(r) ==
  /\ pc[r] = "leaving" /\ plan[r] = <<>>
  /\ Goto(r, "returned")
  /\ UNCHANGED <<brokerVars, record, supervisor, reconciling, crashes>>

(***************************************************************************)
(* The service manager, the sandbox and the end of a supervisor.           *)
(***************************************************************************)
SetUnit(r, stage) ==
  /\ unit' = [unit EXCEPT ![r] = stage]
  /\ UNCHANGED <<record, pc, plan, token, revoked, client, main, interrupted, clean, result,
                 reconciling, crashes>>

UnitStarts(r) ==
  /\ ClientAlive(r) /\ unit[r] = "none"
  /\ SetUnit(r, "init") /\ UNCHANGED brokerVars

\* runSandboxInit has its relay listening and starts the command.
SandboxServes(r) ==
  /\ unit[r] = "init"
  /\ SetUnit(r, "serving") /\ UNCHANGED brokerVars

\* runSandboxInit fails, its command or its relay ends, or RuntimeMaxSec is up.
UnitEnds(r) ==
  /\ MainAlive(r)
  /\ SetUnit(r, "ended") /\ UNCHANGED brokerVars

\* systemd-run --wait returns with its unit, gives up, or is killed.
ClientExits(r) ==
  /\ ClientAlive(r)
  /\ client' = [client EXCEPT ![r] = "exited"]
  /\ UNCHANGED <<brokerVars, record, pc, plan, token, revoked, unit, main, interrupted,
                 clean, result, reconciling, crashes>>

\* What the sandbox and net/http do with the broker's connections.
Traffic(c) ==
  /\ \/ unit[Owner[c]] = "serving" /\ Dial(c)
     \/ Accept(c)
     \/ unit[Owner[c]] = "serving" /\ ServeHTTP(c)
     \/ HiveRefuses(c)
     \/ RoundTrip(c)
     \/ Copied(c)
     \/ HangUp(c)
  /\ UNCHANGED <<record, pc, supervisor, reconciling, crashes>>

BrokerStops(r) ==
  /\ ServeFails(r)
  /\ UNCHANGED <<record, pc, supervisor, reconciling, crashes>>

\* The supervisor is killed, or gets a signal outside of waitForAgentRun.
Crash(r) ==
  /\ pc[r] \notin {"idle", "returned", "crashed"} /\ crashes < MaxCrashes
  /\ Goto(r, "crashed")
  /\ crashes' = crashes + 1
  /\ BrokerDies(r)
  /\ UNCHANGED <<record, supervisor, reconciling>>

Init ==
  /\ broker = [r \in Run |-> "none"] /\ serving = {} /\ conn = [c \in Conn |-> "none"]
  /\ record = [r \in Run |-> None]
  /\ pc = [r \in Run |-> "idle"] /\ plan = [r \in Run |-> <<>>]
  /\ token = [r \in Run |-> "none"] /\ revoked = [r \in Run |-> FALSE]
  /\ client = [r \in Run |-> "none"] /\ unit = [r \in Run |-> "none"]
  /\ main = [r \in Run |-> FALSE] /\ interrupted = [r \in Run |-> FALSE]
  /\ clean = [r \in Run |-> TRUE] /\ result = [r \in Run |-> "none"]
  /\ scan = [r \in Run |-> {}] /\ snap = [r \in Run |-> None]
  /\ abandoned = [r \in Run |-> {}] /\ crashes = 0

Supervise(r) ==
  \/ Begin(r) \/ ReconcileRead(r) \/ ReconcileJudge(r) \/ Prepare(r) \/ Obtain(r)
  \/ RecordStarting(r) \/ MakeBroker(r) \/ Listen(r) \/ Launch(r)
  \/ querySystemdMainPID(r) \/ RecordRunning(r) \/ waitForAgentRun(r)
  \/ CloseBroker(r) \/ Revoke(r) \/ executeStop(r) \/ KillClient(r) \/ Finish(r)
  \/ RecordFailed(r) \/ Return(r)

Next ==
  \/ \E r \in Run :
       \/ Supervise(r) \/ UnitStarts(r) \/ SandboxServes(r) \/ UnitEnds(r)
       \/ ClientExits(r) \/ BrokerStops(r) \/ Crash(r)
  \/ \E c \in Conn : Traffic(c)

Spec == Init /\ [][Next]_vars

\* A supervisor goes on, its timers and its time-limited calls included.
FairSpec == Spec /\ \A r \in Run : WF_vars(Supervise(r))

(***************************************************************************)
(* Properties.                                                             *)
(***************************************************************************)
Released(r) ==
  /\ token[r] \in {"revoked", "remote"}
  /\ Disarmed(r)
  /\ unit[r] \in {"none", "ended"} /\ client[r] = "exited"

\* A run that is reported as exited, in its record or by the exit code runAgent
\* returns, has given everything back: its token is revoked, no handler of its
\* broker holds a credential or can obtain one, and neither the sandbox nor the
\* systemd client runs, although the client may have died before the sandbox
\* and the agent may have kept connections busy (run_agent.go:304-348,
\* broker.go Close).
CleanMeansReleased ==
  \A r \in Run :
    (record[r] # None /\ record[r].status = "exited") \/ result[r] = "exit code"
    => Released(r)

\* A run that was dead, with a record that says it is starting or running, when
\* another run began to reconcile, has a terminal record by the time that run
\* asks for its token ("turns crash-left "running" records into durable
\* terminal state", state.go:54).
StaleRecordsEnd ==
  \A r \in Run :
    pc[r] \notin {"idle", "reconciling", "returned", "crashed"} =>
      \A q \in abandoned[r] : ~Live(record[q])

\* Every supervisor that begins returns, unless it is killed: neither a sandbox
\* that ignores its stop, nor an agent that keeps its connections busy, nor a
\* client that never exits keeps it (run_agent.go:307-321).
EveryRunEnds ==
  \A r \in Run : pc[r] = "reconciling" ~> pc[r] \in {"returned", "crashed"}

=============================================================================
