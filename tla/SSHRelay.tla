----------------------------- MODULE SSHRelay ------------------------------
(***************************************************************************)
(* The relay of one SSH session (relaySSHConnection and what it starts,    *)
(* internal/gateway/ssh.go): the goroutine that waits for a session        *)
(* channel, opens its counterpart and then waits for output, the reply to  *)
(* the start request and the target's own requests, and the workers that  *)
(* talk to it over the channels fatal and startRequestReplied.             *)
(*                                                                         *)
(* External: the guest and the target, and x/crypto/ssh between them: a    *)
(* read or a write on an open channel of an open leg may wait for ever;    *)
(* once the leg or the peer's channel is closed a write fails, and a read  *)
(* ends after what had arrived.  The session's deadline, or the monitor    *)
(* that found its token invalid, ends the context and closes both legs     *)
(* (SSHSession).                                                           *)
(***************************************************************************)
EXTENDS Naturals, FiniteSets

CONSTANTS Policy,         \* what the grant's policy allows: of shell, exec, pty
          maxRequests,    \* maxSSHProtocolRequestsPerSession
          fatalCapacity,  \* of the channel fatal: 8
          repliedCapacity, \* of the channel startRequestReplied: 1
          MaxOutput,      \* bound: chunks of each output stream
          Ask             \* what the guest may ask for

VARIABLES relayPc,   \* the relay: waiting, opening, accepting, output, reply, requests, joining, returned
          relayResult, \* what it returns: nil or error
          worker,    \* off, running or done
          fatal,     \* errors queued
          replied,   \* values queued in startRequestReplied
          guard,     \* sshProtocolLimiter
          ctx,       \* the session's context is done
          open,      \* the legs, and the session's channel on each, that are open
          answered,  \* the guest has the reply to its start request
          forwarding, \* the client request being forwarded
          state,     \* sshRequestState and startNotified
          output,    \* chunks of both streams that arrived and that were passed on
          target     \* programs started, kinds of request it acted on, its exit status sent
                     \* and passed on

relayVars == <<relayPc, relayResult, worker, fatal, replied, guard, ctx, open, answered, forwarding, state, output, target>>

Stream == {"stdout", "stderr"}
Worker == Stream \cup {"globals", "extras", "input", "client", "upstream"}
RequestType == {"shell", "exec", "pty-req", "window-change", "signal", "break", "env"}

ASSUME RelayAssumption ==
  /\ Policy \subseteq {"shell", "exec", "pty"}
  /\ Ask \subseteq {"session", "other", "global"} \cup RequestType
  /\ maxRequests \in Nat /\ MaxOutput \in [Stream -> Nat]
  /\ fatalCapacity \in Nat \ {0} /\ repliedCapacity \in Nat \ {0}

\* A worker that is through.
Ended(w) == worker[w] \in {"off", "done"}

\* A leg closes with its channel.
channel == [guest |-> "guest's channel", target |-> "target's channel"]

\* What is written to the guest's channel crosses to it; otherwise a write
\* returns an error.
GuestListens == channel.guest \in open

TargetListens == channel.target \in open

\* Variant: one stream is enough.
outputDoneOnce == \E s \in Stream : Ended(s)

\* outputCopies.Wait, then close(outputDone).
outputDone == \A s \in Stream : Ended(s)

(***************************************************************************)
(* sshProtocolLimiter.allowRequest: the count, or the rate (any attempt may *)
(* come too soon), and no attempt after the first that was refused.        *)
(***************************************************************************)
Allowed == ~guard.denied /\ guard.total < maxRequests /\ guard' = [guard EXCEPT !.total = @ + 1]

Exhausted == guard' = [guard EXCEPT !.denied = TRUE]

(***************************************************************************)
(* Leaving the relay: the deferred abort, then the join.                   *)
(***************************************************************************)
\* Variant: the legs are left open.
ReturnOpen(value) == relayPc' = "joining" /\ relayResult' = value /\ UNCHANGED open

Return(value) == relayPc' = "joining" /\ relayResult' = value /\ open' = {}

JoinWorkers ==
  /\ relayPc = "joining" /\ \A w \in Worker : Ended(w)
  /\ relayPc' = "returned"
  /\ UNCHANGED <<relayResult, worker, fatal, replied, guard, ctx, open, answered, forwarding, state, output, target>>

(***************************************************************************)
(* relaySSHConnection up to the session: one session channel is taken, any *)
(* other is rejected, and each attempt counts.  What the guest asked for    *)
(* before its leg or its channel closed may be taken after.                *)
(***************************************************************************)
WaitForChannel ==
  /\ relayPc = "waiting"
  /\ \/ /\ ctx \/ guard.denied \/ "guest" \notin open
        /\ Return("error") /\ UNCHANGED guard
     \/ \E asked \in Ask \cap {"session", "other"} :
          \/ Allowed /\ relayPc' = (IF asked = "session" THEN "opening" ELSE relayPc) /\ UNCHANGED <<relayResult, open>>
          \/ Exhausted /\ Return("error")
  /\ UNCHANGED <<answered, worker, fatal, replied, ctx, forwarding, state, output, target>>

\* The target answers, in its own time; a closed leg is an error.
OpenChannel ==
  /\ relayPc = "opening"
  /\ \/ /\ "target" \in open
        /\ relayPc' = "accepting" /\ open' = open \cup {channel.target}
        /\ UNCHANGED relayResult
     \/ Return("error")
  /\ UNCHANGED <<worker, fatal, replied, guard, ctx, answered, forwarding, state, output, target>>

StartWorkers == [w \in Worker |-> IF w = "globals" THEN worker[w] ELSE "running"]

Accept ==
  /\ relayPc = "accepting"
  /\ \/ /\ "guest" \in open
        /\ relayPc' = "output" /\ worker' = StartWorkers
        /\ open' = open \cup {channel.guest}
        /\ UNCHANGED relayResult
     \/ Return("error") /\ UNCHANGED worker
  /\ UNCHANGED <<fatal, replied, guard, ctx, answered, forwarding, state, output, target>>

(***************************************************************************)
(* relaySSHSession: three selects.                                         *)
(***************************************************************************)
Waiting == relayPc \in {"output", "reply", "requests"}

Interrupted ==
  /\ Waiting
  /\ \/ ctx /\ UNCHANGED fatal
     \/ guard.denied /\ UNCHANGED fatal
     \/ fatal > 0 /\ fatal' = fatal - 1
  /\ Return("error")
  /\ UNCHANGED <<worker, replied, guard, ctx, answered, forwarding, state, output, target>>

NextPhase ==
  /\ \/ relayPc = "output" /\ outputDone /\ relayPc' = "reply" /\ UNCHANGED <<relayResult, open, replied>>
     \/ relayPc = "reply" /\ replied > 0 /\ relayPc' = "requests" /\ replied' = replied - 1 /\ UNCHANGED <<relayResult, open>>
     \/ relayPc = "requests" /\ worker["upstream"] = "done" /\ Return("nil") /\ UNCHANGED replied
  /\ UNCHANGED <<worker, fatal, guard, ctx, answered, forwarding, state, output, target>>

(***************************************************************************)
(* The workers.                                                            *)
(***************************************************************************)
Becomes(w, s) == worker' = [worker EXCEPT ![w] = s]

\* The worker ends with an error, once fatal has room for it.
Fails(w) == fatal < fatalCapacity /\ fatal' = fatal + 1 /\ Becomes(w, "done")

\* rejectSSHRequests: global requests are refused and counted.
Globals ==
  /\ worker["globals"] = "running"
  /\ \/ "global" \in Ask /\ Allowed /\ UNCHANGED worker
     \/ "global" \in Ask /\ Exhausted /\ Becomes("globals", "done")
     \/ "guest" \notin open /\ Becomes("globals", "done") /\ UNCHANGED guard
  /\ UNCHANGED <<answered, relayPc, relayResult, fatal, replied, ctx, open, forwarding, state, output, target>>

\* Channels after the first are rejected; its error is only sent if it fits.
Extras ==
  /\ worker["extras"] = "running"
  /\ \/ Ask \cap {"session", "other"} # {} /\ Allowed /\ UNCHANGED <<worker, fatal>>
     \/ /\ Ask \cap {"session", "other"} # {} /\ Exhausted /\ Becomes("extras", "done")
        /\ fatal' = IF fatal < fatalCapacity THEN fatal + 1 ELSE fatal
     \/ "guest" \notin open /\ Becomes("extras", "done") /\ UNCHANGED <<guard, fatal>>
  /\ UNCHANGED <<answered, relayPc, relayResult, replied, ctx, open, forwarding, state, output, target>>

\* The guest's input ends, with an error if a byte limit was reached or a leg
\* was closed; the target is told that no more comes in each case.
Input ==
  /\ worker["input"] = "running"
  /\ \/ Becomes("input", "done") /\ UNCHANGED fatal
     \/ Fails("input")
  /\ UNCHANGED <<relayPc, relayResult, replied, guard, ctx, open, answered, forwarding, state, output, target>>

\* One chunk of output, or the end of the stream: the target announced it, or its
\* channel or leg is closed.  What has arrived is read before the end is; a write
\* that fails is an error.
Pass(s) ==
  /\ worker[s] = "running"
  /\ \/ /\ output[s].passed < output[s].arrived /\ GuestListens
        /\ output' = [output EXCEPT ![s].passed = @ + 1] /\ UNCHANGED <<worker, fatal>>
     \/ /\ output[s].passed < output[s].arrived /\ ~GuestListens
        /\ Fails(s) /\ UNCHANGED output
     \/ /\ output[s].passed = output[s].arrived
        /\ Becomes(s, "done") /\ UNCHANGED <<output, fatal>>
  /\ UNCHANGED <<relayPc, relayResult, replied, guard, ctx, open, answered, forwarding, state, target>>

(***************************************************************************)
(* forwardClientSSHRequests.                                               *)
(***************************************************************************)
Idle == [type |-> "env", step |-> "idle", wantReply |-> TRUE, accepted |-> FALSE]

\* Variant: a program may follow another.
validateAgain(type, wantReply) ==
  CASE type \in {"shell", "exec"} -> wantReply /\ type \in Policy
    [] type = "pty-req" -> wantReply /\ "pty" \in Policy /\ ~state.started /\ ~state.pty
    [] type = "window-change" -> ~wantReply /\ state.pty
    [] type = "signal" -> ~wantReply /\ state.started
    [] type = "break" -> wantReply /\ state.started
    [] OTHER -> FALSE

validateClientSSHRequest(type, wantReply) ==
  CASE type \in {"shell", "exec"} -> wantReply /\ type \in Policy /\ ~state.started
    [] type = "pty-req" -> wantReply /\ "pty" \in Policy /\ ~state.started /\ ~state.pty
    [] type = "window-change" -> ~wantReply /\ state.pty
    [] type = "signal" -> ~wantReply /\ state.started
    [] type = "break" -> wantReply /\ state.started
    [] OTHER -> FALSE

\* A request is counted, judged (one whose payload is malformed is not allowed
\* either), and its payload charged: it is refused, sent on, or the last one.
TakeRequest ==
  /\ worker["client"] = "running" /\ forwarding.step = "idle" /\ Ask \cap RequestType # {}
  /\ \/ Exhausted /\ forwarding' = [Idle EXCEPT !.step = "failed"]
     \/ Allowed /\ forwarding' = [Idle EXCEPT !.step = "answer"]
     \/ /\ Allowed
        /\ \E type \in Ask \cap RequestType, wantReply \in BOOLEAN :
             /\ validateClientSSHRequest(type, wantReply)
             /\ \/ forwarding' = [Idle EXCEPT !.step = "failed"]
                \/ forwarding' = [type |-> type, step |-> "send", wantReply |-> wantReply, accepted |-> FALSE]
  /\ UNCHANGED <<answered, worker, relayPc, relayResult, fatal, replied, ctx, open, state, output, target>>

\* The target acts on the request or refuses it (external).
TargetDecides ==
  /\ forwarding.step = "send" /\ TargetListens
  /\ \E acts \in BOOLEAN :
       /\ forwarding' = [forwarding EXCEPT !.step = IF acts THEN "acted" ELSE "refused"]
       /\ target' = IF acts
                     THEN [target EXCEPT
                             !.programs = IF forwarding.type \in {"shell", "exec"} THEN @ + 1 ELSE @,
                             !.kinds = @ \cup {forwarding.type}]
                     ELSE target
  /\ UNCHANGED <<relayPc, relayResult, worker, fatal, replied, guard, ctx, open, answered, state, output>>

\* SendRequest returns with the target's answer, once it was sent if no reply
\* is wanted, or with an error because the leg or the channel closed, whether or
\* not the target had acted.
SendRequest ==
  /\ worker["client"] = "running"
  /\ \E accepted \in BOOLEAN :
       /\ IF accepted THEN forwarding.step = "acted" \/ (forwarding.step = "refused" /\ ~forwarding.wantReply)
          ELSE \/ forwarding.step = "refused" /\ forwarding.wantReply
               \/ forwarding.step \in {"send", "acted"} /\ ~TargetListens
       /\ forwarding' = [forwarding EXCEPT !.step = "answer", !.accepted = accepted]
       /\ state' = [state EXCEPT
                     !.pty = @ \/ (accepted /\ forwarding.type = "pty-req"),
                     !.started = @ \/ (accepted /\ forwarding.type \in {"shell", "exec"})]
  /\ UNCHANGED <<relayPc, relayResult, worker, fatal, replied, guard, ctx, open, answered, output, target>>

Starts == forwarding.accepted /\ forwarding.type \in {"shell", "exec"}

\* The reply, if one is wanted, crosses to the guest if its channel is there, and
\* only then is the relay to be told.
Answer ==
  /\ worker["client"] = "running" /\ forwarding.step = "answer"
  /\ LET crossed == forwarding.wantReply => GuestListens
     IN  /\ answered' = (answered \/ (Starts /\ crossed))
         /\ forwarding' = IF Starts /\ crossed /\ ~state.notified
                          THEN [Idle EXCEPT !.step = "notify"] ELSE Idle
  /\ UNCHANGED <<relayPc, relayResult, worker, fatal, replied, guard, ctx, open, state, output, target>>

\* A send on startRequestReplied waits for room.
Reports == replied < repliedCapacity /\ replied' = replied + 1

Notify ==
  /\ worker["client"] = "running" /\ forwarding.step = "notify"
  /\ Reports
  /\ state' = [state EXCEPT !.notified = TRUE] /\ forwarding' = Idle
  /\ UNCHANGED <<relayPc, relayResult, worker, fatal, guard, ctx, open, answered, output, target>>


\* The deferred function of forwardClientSSHRequests.
LastReport == IF state.notified THEN UNCHANGED replied ELSE Reports

\* A limit was reached, or no more requests come; the error follows the deferred
\* send.
ClientEnds ==
  /\ worker["client"] = "running"
  /\ \/ /\ forwarding.step = "failed" /\ LastReport
        /\ forwarding' = [forwarding EXCEPT !.step = "failing"] /\ UNCHANGED <<worker, fatal>>
     \/ /\ forwarding.step = "failing"
        /\ Fails("client") /\ UNCHANGED <<replied, forwarding>>
     \/ /\ forwarding.step = "idle" /\ ~GuestListens /\ LastReport
        /\ Becomes("client", "done") /\ UNCHANGED <<fatal, forwarding>>
  /\ UNCHANGED <<relayPc, relayResult, guard, ctx, open, answered, state, output, target>>

\* forwardUpstreamSSHRequests: a well-formed exit status, then the end; what it
\* does not pass on is left out.  A failed send is ignored.
Upstream ==
  /\ worker["upstream"] = "running"
  /\ \/ /\ target.exits = 1 /\ target.exitPassed = "no"
        /\ target' = [target EXCEPT !.exitPassed = IF GuestListens THEN "yes" ELSE "lost"]
        /\ UNCHANGED worker
     \/ /\ target.exits = 1 => target.exitPassed # "no"
        /\ ~TargetListens
        /\ Becomes("upstream", "done") /\ UNCHANGED target
  /\ UNCHANGED <<relayPc, relayResult, fatal, replied, guard, ctx, open, answered, forwarding, state, output>>

(***************************************************************************)
(* The guest, the target, the clock and the network.                       *)
(***************************************************************************)
GuestEnds ==
  /\ GuestListens /\ open' = open \ {channel.guest}
  /\ UNCHANGED <<relayPc, relayResult, worker, fatal, replied, guard, ctx, answered, forwarding, state, output, target>>

\* No output follows the end of its stream.
TargetActs ==
  /\ TargetListens
  /\ \/ /\ target.programs > 0
        /\ \E s \in Stream :
             /\ worker[s] = "running" /\ output[s].arrived < MaxOutput[s]
             /\ output' = [output EXCEPT ![s].arrived = @ + 1]
        /\ UNCHANGED <<target, open>>
     \/ /\ target.programs > 0 /\ target.exits = 0
        /\ target' = [target EXCEPT !.exits = 1] /\ UNCHANGED <<output, open>>
     \/ open' = open \ {channel.target} /\ UNCHANGED <<output, target>>
  /\ UNCHANGED <<relayPc, relayResult, worker, fatal, replied, guard, ctx, answered, forwarding, state>>

\* The deadline or the monitor, as long as the relay looks at the context; then
\* both legs go, as they may at any time.
ContextEnds ==
  /\ ~ctx /\ relayPc \notin {"joining", "returned"} /\ ctx' = TRUE
  /\ UNCHANGED <<relayPc, relayResult, worker, fatal, replied, guard, open, answered, forwarding, state, output, target>>

LegCloses(leg) ==
  /\ leg \in open /\ open' = open \ {leg, channel[leg]}
  /\ UNCHANGED <<relayPc, relayResult, worker, fatal, replied, guard, ctx, answered, forwarding, state, output, target>>

(***************************************************************************)
(* Specification.                                                          *)
(***************************************************************************)
RelayInit ==
  /\ relayPc = "waiting" /\ relayResult = "none" /\ fatal = 0 /\ replied = 0 /\ ctx = FALSE
  /\ worker = [w \in Worker |-> IF w = "globals" THEN "running" ELSE "off"]
  /\ guard = [total |-> 0, denied |-> FALSE]
  /\ open = {"guest", "target"}
  /\ answered = FALSE
  /\ forwarding = Idle
  /\ state = [started |-> FALSE, pty |-> FALSE, notified |-> FALSE]
  /\ output = [s \in Stream |-> [arrived |-> 0, passed |-> 0]]
  /\ target = [programs |-> 0, kinds |-> {}, exits |-> 0, exitPassed |-> "no"]

Work ==
  \/ Globals \/ Extras \/ Input \/ Upstream \/ TakeRequest \/ SendRequest \/ Answer \/ Notify \/ ClientEnds
  \/ \E s \in Stream : Pass(s)

Relay == WaitForChannel \/ OpenChannel \/ Accept \/ Interrupted \/ NextPhase \/ JoinWorkers

RelayNext ==
  \/ Relay
  \/ Work \/ TargetDecides
  \/ GuestEnds \/ TargetActs \/ ContextEnds
  \/ \E leg \in {"guest", "target"} : LegCloses(leg)

RelaySpec == RelayInit /\ [][RelayNext]_relayVars

\* The relay's own steps are taken once they can be, those of its workers too
\* once they need no peer; a peer may keep a read or a write waiting while the
\* leg is open, and after the deadline it does not stay open.
Unhindered(A) == open = {} /\ A

FairRelaySpec ==
  /\ RelaySpec
  /\ WF_relayVars(WaitForChannel \/ Unhindered(OpenChannel \/ Accept) \/ Interrupted \/ NextPhase \/ JoinWorkers)
  /\ WF_relayVars(Unhindered(Work))
  /\ WF_relayVars(ctx /\ \E leg \in {"guest", "target"} : LegCloses(leg))

(***************************************************************************)
(* Properties.                                                             *)
(***************************************************************************)
\* A relay that returns no error to a guest whose channel is open ended the session
\* in order: all the output and the exit status that arrived, and the reply to a
\* start request that the target accepted, had crossed before anything was torn
\* down (the three selects of relaySSHSession).  To a guest that closed its channel
\* first they may be lost: a lost exit status or reply is no error of the relay.
OrderlyEnd ==
  [][relayResult' # relayResult /\ relayResult' = "nil" /\ GuestListens =>
       /\ \A s \in Stream : output[s].passed = output[s].arrived
       /\ target.exits = 1 => target.exitPassed = "yes"
       /\ state.started => answered]_relayVars

\* The target runs at most one program for a session, each program it runs is one
\* the policy allows, and it gives a terminal only where the policy allows one, even
\* when the answer to the request was lost (validateClientSSHRequest,
\* forwardClientSSHRequests).
OneProgram ==
  /\ target.programs <= 1
  /\ target.kinds \cap {"shell", "exec"} \subseteq Policy
  /\ "pty-req" \in target.kinds => "pty" \in Policy

=============================================================================
