----------------------------- MODULE SSHSession -----------------------------
(***************************************************************************)
(* serveSSH of internal/gateway/ssh.go: the life of an SSH session, from   *)
(* its admission under the caps of ssh_concurrency.go, through the dial    *)
(* and the guest handshake, to the completion record, beside the goroutine *)
(* that looks the token up again every second.                             *)
(*                                                                         *)
(* The relay between the two SSH connections is one stage here; what can   *)
(* end it is an outcome.                                                   *)
(***************************************************************************)
EXTENDS Naturals, FiniteSets

CONSTANTS
  Session, Token, Workload,
  WorkloadOf,                          \* the workload each token is bound to
  Usable,                              \* tokens with a current SSH grant
  FailureMode,                         \* audit.failure_mode: "closed" or "open"
  maxConcurrentSSHSessions,
  maxConcurrentSSHSessionsPerToken,
  maxConcurrentSSHSessionsPerWorkload

ASSUME BindingAssumption ==
  /\ Token # {} /\ IsFiniteSet(Session)
  /\ WorkloadOf \in [Token -> Workload] /\ Usable \subseteq Token
  /\ FailureMode \in {"closed", "open"}

ASSUME CapAssumption ==
  /\ maxConcurrentSSHSessions \in Nat
  /\ maxConcurrentSSHSessionsPerToken \in Nat
  /\ maxConcurrentSSHSessionsPerWorkload \in Nat

VARIABLES
  pc,          \* where each handler is
  token,       \* the token each session came with
  total, byToken, byWorkload,          \* sshConcurrencyManager
  context,     \* why the session's context is done, if it is
  due,         \* sessions whose deadline has passed
  dead,        \* tokens revoked or expired
  upstream,    \* the connection to the target
  monitor,     \* the goroutine that revalidates the token
  told,        \* sessions whose revoked channel holds a message
  result,      \* what the relay returned
  recorded,    \* sessions whose authorization record the sink took
  reason,      \* what the last record said
  doomed       \* sessions whose token died before they looked it up to dial

vars == <<pc, token, total, byToken, byWorkload, context, due, dead, upstream,
          monitor, told, result, recorded, reason, doomed>>

slots == <<total, byToken, byWorkload>>
around == <<due, dead, doomed>>
watch == <<monitor, told>>

Stage == {"idle", "arrived", "known", "slotted", "admitted", "recorded", "checked", "parsed",
          "cleared", "dialled", "handshaking", "relaying", "joining", "leaving", "done"}

\* The stages in which the lookup that allows the dial is still to come.
BeforeDialCheck == {"arrived", "known", "slotted", "admitted", "recorded", "checked", "parsed"}

\* The stages in which sessionContext, with its deadline, exists.
Timed == {"admitted", "recorded", "checked", "parsed", "cleared", "dialled",
          "handshaking", "relaying"}

\* The sessions that own a slot: acquired, not yet released by the deferred call.
Holding == {s \in Session : pc[s] \notin {"idle", "arrived", "known", "done"}}

tokenStillValid(s) == token[s] \notin dead /\ context[s] = "live"

(***************************************************************************)
(* sshConcurrencyManager.                                                  *)
(***************************************************************************)
Available(t) ==
  /\ total < maxConcurrentSSHSessions
  /\ byToken[t] < maxConcurrentSSHSessionsPerToken
  /\ byWorkload[WorkloadOf[t]] < maxConcurrentSSHSessionsPerWorkload

take(t) ==
  /\ total' = total + 1
  /\ byToken' = [byToken EXCEPT ![t] = @ + 1]
  /\ byWorkload' = [byWorkload EXCEPT ![WorkloadOf[t]] = @ + 1]

\* Variant: the token's own count is not given back.
releaseTotalOnly(t) ==
  /\ total' = total - 1
  /\ byWorkload' = [byWorkload EXCEPT ![WorkloadOf[t]] = @ - 1]
  /\ UNCHANGED byToken

release(t) ==
  /\ total' = total - 1
  /\ byToken' = [byToken EXCEPT ![t] = @ - 1]
  /\ byWorkload' = [byWorkload EXCEPT ![WorkloadOf[t]] = @ - 1]

(***************************************************************************)
(* Before the response is committed.                                       *)
(***************************************************************************)
Goto(s, stage) == pc' = [pc EXCEPT ![s] = stage]

\* A refusal: the record, if the sink takes it, the answer, and the deferred
\* calls: cancelSession, abort and the slot.
Refuse(s, why) ==
  /\ Goto(s, "done")
  /\ reason' = [reason EXCEPT ![s] = why]
  /\ context' = [context EXCEPT ![s] = IF @ = "live" THEN "cancelled" ELSE @]
  /\ upstream' = [upstream EXCEPT ![s] = IF @ = "open" THEN "closed" ELSE @]
  /\ IF s \in Holding THEN release(token[s]) ELSE UNCHANGED slots
  /\ UNCHANGED <<token, watch, result, recorded, around>>

Proceed(s, stage) ==
  /\ Goto(s, stage)
  /\ UNCHANGED <<token, slots, context, upstream, watch, result, recorded, reason, around>>

Arrive(s) ==
  /\ pc[s] = "idle"
  /\ doomed' = IF token[s] \in dead THEN doomed \cup {s} ELSE doomed
  /\ Goto(s, "arrived")
  /\ UNCHANGED <<token, slots, context, upstream, watch, result, recorded, reason, due, dead>>

\* The form of the request, the bearer, the workload, the token and the grant.
Authenticate(s) ==
  /\ pc[s] = "arrived"
  /\ \/ Refuse(s, "denied")
     \/ tokenStillValid(s) /\ token[s] \in Usable /\ Proceed(s, "known")

Acquire(s) ==
  /\ pc[s] = "known"
  /\ \/ ~Available(token[s]) /\ Refuse(s, "busy")
     \/ /\ Available(token[s])
        /\ take(token[s])
        /\ Goto(s, "slotted")
        /\ UNCHANGED <<token, context, upstream, watch, result, recorded, reason, around>>

\* One request from the limiters; then the deadline, which may have passed, is
\* put on the context and on the HTTP connection.
Admit(s) ==
  /\ pc[s] = "slotted"
  /\ \/ \E why \in {"limited", "denied", "no deadline"} : Refuse(s, why)
     \/ s \notin due /\ Proceed(s, "admitted")

\* The authorization record. A sink that fails closed stops the session when the
\* record is not written.
RecordAllow(s) ==
  /\ pc[s] = "admitted"
  /\ \/ FailureMode = "closed" /\ Refuse(s, "unaudited")
     \/ /\ Goto(s, "recorded")
        /\ recorded' \in {recorded \cup {s}} \cup (IF FailureMode = "open" THEN {recorded} ELSE {})
        /\ UNCHANGED <<token, slots, context, upstream, watch, result, reason, around>>

Check(s, before, after) ==
  /\ pc[s] = before
  /\ \/ ~tokenStillValid(s) /\ Refuse(s, "denied")
     \/ tokenStillValid(s) /\ Proceed(s, after)

CheckFirst(s) == Check(s, "recorded", "checked")

\* The key is fetched, cloned, parsed and restricted; the copies are zeroed.
FetchKey(s) ==
  /\ pc[s] = "checked"
  /\ \/ Refuse(s, "no key")
     \/ context[s] = "live" /\ Proceed(s, "parsed")

\* Variant: the key is used without looking the token up again.
CheckSecondSkipped(s) == pc[s] = "parsed" /\ Proceed(s, "cleared")

CheckSecond(s) == Check(s, "parsed", "cleared")

Dial(s) ==
  /\ pc[s] = "cleared"
  /\ \/ Refuse(s, "no upstream")
     \/ /\ context[s] = "live"
        /\ Goto(s, "dialled")
        /\ upstream' = [upstream EXCEPT ![s] = "open"]
        /\ UNCHANGED <<token, slots, context, watch, result, recorded, reason, around>>

\* The third check; then the status is written and flushed, and the goroutine
\* that watches the token is started.
Commit(s) ==
  /\ pc[s] = "dialled"
  /\ \/ ~tokenStillValid(s) /\ Refuse(s, "denied")
     \/ tokenStillValid(s) /\ Refuse(s, "response_flush")
     \/ /\ tokenStillValid(s)
        /\ Goto(s, "handshaking")
        /\ monitor' = [monitor EXCEPT ![s] = "waiting"]
        /\ UNCHANGED <<token, slots, context, upstream, told, result, recorded, reason, around>>

(***************************************************************************)
(* The watching goroutine.                                                 *)
(***************************************************************************)
handling == <<pc, token, slots, result, recorded, reason, around>>

\* The ticker fires and the goroutine begins a lookup under a context of its own.
MonitorTick(s) ==
  /\ monitor[s] = "waiting"
  /\ monitor' = [monitor EXCEPT ![s] = "looking"]
  /\ UNCHANGED <<handling, context, upstream, told>>

MonitorStop(s) ==
  /\ monitor[s] = "waiting" /\ context[s] # "live"
  /\ monitor' = [monitor EXCEPT ![s] = "done"]
  /\ UNCHANGED <<handling, context, upstream, told>>

\* Variant: after a failed lookup the goroutine just returns.
MonitorLookGivingUp(s) ==
  /\ monitor[s] = "looking"
  /\ monitor' = [monitor EXCEPT ![s] = IF token[s] \in dead THEN "done" ELSE "waiting"]
  /\ UNCHANGED <<handling, upstream, told, context>>

\* A lookup that takes more than a second counts as a failed one.
MonitorLook(s) ==
  /\ monitor[s] = "looking"
  /\ \/ /\ token[s] \notin dead
        /\ monitor' = [monitor EXCEPT ![s] = "waiting"]
        /\ UNCHANGED <<told, context>>
     \/ /\ monitor' = [monitor EXCEPT ![s] = "aborting"]
        /\ told' = told \cup {s}
        /\ context' = [context EXCEPT ![s] = IF @ = "live" THEN "cancelled" ELSE @]
  /\ UNCHANGED <<handling, upstream>>

\* abort: the authority side is closed first, then the client's stream.
MonitorAbort(s) ==
  /\ monitor[s] = "aborting"
  /\ monitor' = [monitor EXCEPT ![s] = "done"]
  /\ upstream' = [upstream EXCEPT ![s] = "closed"]
  /\ UNCHANGED <<handling, context, told>>

(***************************************************************************)
(* After the response is committed.                                        *)
(***************************************************************************)
Finish(s) ==
  /\ Goto(s, "done")
  /\ release(token[s])
  /\ UNCHANGED <<token, watch, result, recorded, around>>

Handshake(s) ==
  /\ pc[s] = "handshaking"
  /\ Proceed(s, "relaying")

\* A deadline cannot be set, or the guest handshake fails: on its own, because
\* its time is over, or because the stream was closed under it.
HandshakeFails(s) ==
  /\ pc[s] = "handshaking"
  /\ Goto(s, "leaving")
  /\ \/ s \in told /\ reason' = [reason EXCEPT ![s] = "token_invalidated"]
     \/ reason' = [reason EXCEPT ![s] = "ssh_handshake"]
  /\ context' = [context EXCEPT ![s] = IF @ = "live" THEN "cancelled" ELSE @]
  /\ UNCHANGED <<token, slots, upstream, watch, result, recorded, around>>

\* relaySSHConnection returns, having closed both connections and joined its
\* workers; the context's error is read and the context cancelled.
RelayReturns(s, outcome) ==
  /\ pc[s] = "relaying"
  /\ Goto(s, "joining")
  /\ result' = [result EXCEPT ![s] = IF outcome # "limit" /\ context[s] = "deadline"
                                     THEN "deadline" ELSE outcome]
  /\ context' = [context EXCEPT ![s] = IF @ = "live" THEN "cancelled" ELSE @]
  /\ upstream' = [upstream EXCEPT ![s] = "closed"]
  /\ UNCHANGED <<token, slots, watch, recorded, reason, around>>

RelayEnds(s) == \E outcome \in {"completed", "limit", "transport"} : RelayReturns(s, outcome)

\* What the relay cannot outlast: its context, or the connection to the target.
RelayStopped(s) ==
  /\ context[s] # "live" \/ upstream[s] = "closed"
  /\ \E outcome \in {"completed", "transport"} : RelayReturns(s, outcome)

\* Variant: what the relay returned is recorded, whatever ended it.
JoinAsReturned(s) ==
  /\ pc[s] = "joining" /\ monitor[s] = "done"
  /\ reason' = [reason EXCEPT ![s] = result[s]]
  /\ Finish(s)
  /\ UNCHANGED <<context, upstream>>

\* Once the watching goroutine has returned, the completion is recorded.
Join(s) ==
  /\ pc[s] = "joining" /\ monitor[s] = "done"
  /\ reason' = [reason EXCEPT ![s] = IF s \in told THEN "token_invalidated" ELSE result[s]]
  /\ Finish(s)
  /\ UNCHANGED <<context, upstream>>

\* Variant: the deferred calls after a failed handshake close nothing.
LeaveOpen(s) ==
  /\ pc[s] = "leaving" /\ monitor[s] = "done"
  /\ Finish(s)
  /\ UNCHANGED <<reason, context, upstream>>

Leave(s) ==
  /\ pc[s] = "leaving" /\ monitor[s] = "done"
  /\ upstream' = [upstream EXCEPT ![s] = "closed"]
  /\ Finish(s)
  /\ UNCHANGED <<reason, context>>

(***************************************************************************)
(* What happens around the handlers.                                       *)
(***************************************************************************)
serving == <<pc, token, slots, upstream, watch, result, recorded, reason>>

\* The client goes away: its request context is done.
ClientLeaves(s) ==
  /\ pc[s] \notin {"idle", "done"} /\ context[s] = "live"
  /\ context' = [context EXCEPT ![s] = "cancelled"]
  /\ UNCHANGED <<serving, around>>

Deadline(s) ==
  /\ pc[s] \notin {"idle", "done"} /\ s \notin due
  /\ due' = due \cup {s}
  /\ context' = [context EXCEPT ![s] = IF @ = "live" /\ pc[s] \in Timed THEN "deadline" ELSE @]
  /\ UNCHANGED <<serving, dead, doomed>>

\* A token is revoked or expires, or the store is closed.
Lapse(t) ==
  /\ t \notin dead
  /\ dead' = dead \cup {t}
  /\ doomed' = doomed \cup {s \in Session : token[s] = t /\ pc[s] \in BeforeDialCheck}
  /\ UNCHANGED <<serving, context, due>>

Init ==
  /\ pc = [s \in Session |-> "idle"]
  /\ token \in [Session -> Token]
  /\ total = 0 /\ byToken = [t \in Token |-> 0] /\ byWorkload = [w \in Workload |-> 0]
  /\ context = [s \in Session |-> "live"]
  /\ due = {} /\ dead = {} /\ doomed = {} /\ told = {} /\ recorded = {}
  /\ upstream = [s \in Session |-> "none"]
  /\ monitor = [s \in Session |-> "off"]
  /\ result = [s \in Session |-> "none"]
  /\ reason = [s \in Session |-> "none"]

Handle(s) ==
  \/ Authenticate(s) \/ Acquire(s) \/ Admit(s) \/ RecordAllow(s) \/ CheckFirst(s) \/ FetchKey(s)
  \/ CheckSecond(s) \/ Dial(s) \/ Commit(s) \/ Handshake(s) \/ HandshakeFails(s)
  \/ RelayStopped(s) \/ Join(s) \/ Leave(s)

Monitor(s) == MonitorTick(s) \/ MonitorLook(s) \/ MonitorAbort(s) \/ MonitorStop(s)

Next ==
  \/ \E s \in Session : Arrive(s) \/ Handle(s) \/ RelayEnds(s) \/ Monitor(s) \/ ClientLeaves(s) \/ Deadline(s)
  \/ \E t \in Token : Lapse(t)

Spec == Init /\ [][Next]_vars

(***************************************************************************)
(* Every stage of a handler is bounded by a deadline, except the relay,    *)
(* which only has to stop when its context is done.  The ticker keeps      *)
(* firing; a goroutine that finds its context done between two ticks       *)
(* returns.                                                                *)
(***************************************************************************)
Fairness ==
  \A s \in Session : WF_vars(Handle(s)) /\ WF_vars(Monitor(s)) /\ SF_vars(MonitorStop(s))

FairSpec == Spec /\ Fairness

-----------------------------------------------------------------------------
\* Every variable has its type.
TypeOK ==
  /\ pc \in [Session -> Stage] /\ token \in [Session -> Token]
  /\ total \in Nat /\ byToken \in [Token -> Nat] /\ byWorkload \in [Workload -> Nat]
  /\ context \in [Session -> {"live", "cancelled", "deadline"}]
  /\ due \subseteq Session /\ dead \subseteq Token /\ doomed \subseteq Session
  /\ upstream \in [Session -> {"none", "open", "closed"}]
  /\ monitor \in [Session -> {"off", "waiting", "looking", "aborting", "done"}]
  /\ told \subseteq Session /\ recorded \subseteq Session
  /\ result \in [Session -> {"none", "completed", "limit", "deadline", "transport"}]
  /\ reason \in [Session -> {"none", "denied", "busy", "limited", "no deadline", "unaudited",
        "no key", "no upstream", "response_flush", "ssh_handshake", "token_invalidated",
        "completed", "limit", "deadline", "transport"}]

\* The manager's counts are those of the sessions that hold a slot, on every path
\* out of serveSSH, and no more sessions are served at once than the caps allow: of
\* all, of a token, of a workload.
SlotsExact ==
  /\ TypeOK
  /\ total = Cardinality(Holding) /\ total <= maxConcurrentSSHSessions
  /\ \A t \in Token :
       /\ byToken[t] = Cardinality({s \in Holding : token[s] = t})
       /\ byToken[t] <= maxConcurrentSSHSessionsPerToken
  /\ \A w \in Workload :
       /\ byWorkload[w] = Cardinality({s \in Holding : WorkloadOf[token[s]] = w})
       /\ byWorkload[w] <= maxConcurrentSSHSessionsPerWorkload

\* A session whose token lapsed before the lookup that follows the key's retrieval
\* never authenticates upstream with that key; and with a sink that fails closed,
\* one that does has its authorization record.
DialIsAuthorized ==
  \A s \in Session : upstream[s] # "none" =>
    /\ s \notin doomed
    /\ FailureMode = "closed" => s \in recorded

\* A handler that has returned leaves no connection to the target open and no
\* goroutine behind.
NothingLeftBehind ==
  \A s \in Session : pc[s] = "done" => upstream[s] # "open" /\ monitor[s] \in {"off", "done"}

\* A relayed session the watching goroutine ended is recorded as ended by the
\* invalidation of its token, and no other session is.
InvalidationRecorded ==
  \A s \in Session : pc[s] = "done" =>
    /\ s \in told /\ result[s] # "none" => reason[s] = "token_invalidated"
    /\ reason[s] = "token_invalidated" => s \in told

\* A session whose token has lapsed ends, however long the relay would have gone on.
LapsedSessionsEnd ==
  \A s \in Session : (pc[s] # "idle" /\ token[s] \in dead) ~> (pc[s] = "done")
=============================================================================
