------------------------------ MODULE Gateway ------------------------------
(***************************************************************************)
(* The request pipeline of the data plane: ServeHTTP, serveGit and         *)
(* serveCapabilities of internal/gateway, from the arrival of a request to *)
(* the last audit record, with several requests in flight while tokens are *)
(* revoked and expire, clients go away, audit writes and secret lookups    *)
(* fail, and the process shuts down as runServe (cmd/ff/main.go) does.     *)
(*                                                                         *)
(* A step is what a handler does between two calls another goroutine can   *)
(* come between.  The limiters, the policies, the secret backend and the   *)
(* upstream are chosen outcomes here: RequestLimits models the limiters.   *)
(***************************************************************************)
EXTENDS Naturals, Sequences, FiniteSets

CONSTANTS
  Request,      \* requests that may arrive
  Token,        \* tokens the store has issued to the callers' workloads
  Usable,       \* those with one revision-current grant for the service
  FailureMode   \* state.audit_failure: "closed" or "open"

ASSUME TokenAssumption == Token # {} /\ Usable \subseteq Token

ASSUME ModeAssumption == FailureMode \in {"closed", "open"}

VARIABLES
  pc,         \* where each handler is
  kind,       \* the adapter that serves the request
  form,       \* what the client put into the request
  token,      \* the token the request carries
  answer,     \* the status written to the client, 0 before
  failed,     \* the error forward returned, if it did
  ending,     \* how the response ended for the client
  cancelled,  \* requests whose context is done
  revoked,    \* tokens whose revocation the store has acknowledged
  expired,    \* tokens past ExpiresAt
  phase,      \* how far runServe has come
  trail,      \* the audit records the sink took, by request
  lost,       \* requests a record of which the sink did not take
  used,       \* requests for which the upstream saw the credential
  doomed      \* requests whose token died before their last check

vars == <<pc, kind, form, token, answer, failed, ending, cancelled, revoked,
          expired, phase, trail, lost, used, doomed>>

handler == <<kind, form, token>>
world == <<cancelled, revoked, expired, phase, doomed>>

Kind == {"http", "git", "capabilities"}

\* "unroutable": refused before a service is known; "anonymous": no
\* Authorization header; "malformed": refused before the token is looked up.
Form == {"unroutable", "anonymous", "malformed", "proper"}

Stage == {"idle", "arrived", "known", "admitted", "authorized", "recorded",
          "checked", "holding", "cleared", "waiting", "committed", "closing",
          "done", "cut"}

InFlight == {r \in Request : pc[r] \notin {"idle", "done", "cut"}}

\* The stages before the last tokenStillValid of the handler.
BeforeLastCheck ==
  {"arrived", "known", "admitted", "authorized", "recorded", "checked", "holding"}

\* runServe serves (1), drains (2), closes the audit log (3), the secret
\* backend (4) and the token store (5), and exits (6).
AuditClosed == phase >= 3
BackendClosed == phase >= 4
StoreClosed == phase >= 5

(***************************************************************************)
(* Audit.                                                                  *)
(***************************************************************************)
\* Whether the sink takes a record: a closed logger never does.
SinkTakes == IF AuditClosed THEN {FALSE} ELSE BOOLEAN

Record(r, entry, taken) ==
  /\ trail' = IF taken THEN [trail EXCEPT ![r] = Append(@, entry)] ELSE trail
  /\ lost' = IF taken THEN lost ELSE lost \cup {r}

NoRecord == UNCHANGED <<trail, lost>>

\* The handler returns after writing one generic answer.
Return(r, status) ==
  /\ pc' = [pc EXCEPT ![r] = "done"]
  /\ answer' = [answer EXCEPT ![r] = status]
  /\ ending' = [ending EXCEPT ![r] = "whole"]
  /\ UNCHANGED <<failed, used>>

Goto(r, stage) ==
  /\ pc' = [pc EXCEPT ![r] = stage]
  /\ UNCHANGED <<answer, failed, ending, used>>

\* recordDeny, recordDecision, recordError: an audit failure is ignored.
Refuse(r, decision, status) ==
  /\ \E taken \in SinkTakes : Record(r, <<decision, status>>, taken)
  /\ Return(r, status)

\* recordCapabilityDeny also drops what its sampling limiter refuses.
RefuseSampled(r) ==
  /\ Return(r, 404)
  /\ \/ NoRecord
     \/ \E taken \in SinkTakes : Record(r, <<"deny", 404>>, taken)

Deny(r) ==
  IF kind[r] = "capabilities" THEN RefuseSampled(r) ELSE Refuse(r, "deny", 404)

(***************************************************************************)
(* Token validity, as Validate and tokenStillValid see it.                 *)
(***************************************************************************)
Validate(r) ==
  /\ r \notin cancelled
  /\ ~StoreClosed
  /\ token[r] \notin revoked \cup expired

tokenStillValid(r) == Validate(r)

(***************************************************************************)
(* The handler's steps.                                                    *)
(***************************************************************************)
Arrive(r) ==
  /\ pc[r] = "idle" /\ phase = 1
  /\ pc' = [pc EXCEPT ![r] = "arrived"]
  /\ \E k \in Kind : kind' = [kind EXCEPT ![r] = k]
  /\ \E f \in Form : form' = [form EXCEPT ![r] = f]
  /\ \E t \in Token :
       /\ token' = [token EXCEPT ![r] = t]
       /\ doomed' = IF t \in revoked \cup expired THEN doomed \cup {r} ELSE doomed
  /\ UNCHANGED <<answer, failed, ending, cancelled, revoked, expired, phase,
                 trail, lost, used>>

Authenticate(r) ==
  /\ pc[r] = "arrived"
  /\ \/ form[r] = "unroutable" /\ Return(r, 404) /\ NoRecord
     \/ form[r] = "anonymous" /\ kind[r] = "git" /\ Refuse(r, "deny", 401)
     \/ form[r] = "anonymous" /\ kind[r] # "git" /\ Deny(r)
     \/ form[r] = "malformed" /\ Deny(r)
     \/ form[r] = "proper" /\ ~Validate(r) /\ Deny(r)
     \/ form[r] = "proper" /\ Validate(r) /\ Goto(r, "known") /\ NoRecord
  /\ UNCHANGED <<handler, world>>

\* The grant, the credential binding, the policy revision and the limit chain;
\* then one request from every limiter of the chain.
Admit(r) ==
  /\ pc[r] = "known" /\ kind[r] # "capabilities"
  /\ \/ token[r] \notin Usable /\ Refuse(r, "deny", 404)
     \/ token[r] \in Usable /\ Refuse(r, "deny", 429)
     \/ token[r] \in Usable /\ Goto(r, "admitted") /\ NoRecord
  /\ UNCHANGED <<handler, world>>

\* The body is read and charged and the policy decides; for Git a fetch is
\* decided before and a push after its body's prefix is read.
Authorize(r) ==
  /\ pc[r] = "admitted"
  /\ \/ Refuse(r, "deny", 404)
     \/ Goto(r, "authorized") /\ NoRecord
  /\ UNCHANGED <<handler, world>>

\* Discovery: a throttled lookup is not audited; a token past its expiry, or with
\* two grants for one service, is refused again; the manifest may not build.
Project(r) ==
  /\ pc[r] = "known" /\ kind[r] = "capabilities"
  /\ \/ Return(r, 429) /\ NoRecord
     \/ RefuseSampled(r)
     \/ token[r] \notin expired /\ Refuse(r, "error", 500)
     \/ token[r] \notin expired /\ Goto(r, "authorized") /\ NoRecord
  /\ UNCHANGED <<handler, world>>

\* Variant: the handler goes on when the sink refused the record.
RecordAllowUnchecked(r) ==
  /\ pc[r] = "authorized"
  /\ \E taken \in SinkTakes : Record(r, <<"allow", 0>>, taken)
  /\ Goto(r, IF kind[r] = "capabilities" THEN "cleared" ELSE "recorded")
  /\ UNCHANGED <<handler, world>>

RecordAllow(r) ==
  /\ pc[r] = "authorized"
  /\ \E taken \in SinkTakes :
       /\ Record(r, <<"allow", 0>>, taken)
       /\ IF taken \/ FailureMode = "open"
          THEN Goto(r, IF kind[r] = "capabilities" THEN "cleared" ELSE "recorded")
          ELSE Return(r, 503)
  /\ UNCHANGED <<handler, world>>

CheckBefore(r) ==
  /\ pc[r] = "recorded"
  /\ \/ ~tokenStillValid(r) /\ Deny(r)
     \/ tokenStillValid(r) /\ Goto(r, "checked") /\ NoRecord
  /\ UNCHANGED <<handler, world>>

FetchSecret(r) ==
  /\ pc[r] = "checked"
  /\ \/ Refuse(r, "error", 502)
     \/ /\ r \notin cancelled /\ ~BackendClosed
        /\ Goto(r, "holding") /\ NoRecord
  /\ UNCHANGED <<handler, world>>

\* Variant: the token is not looked up again after the secret has been fetched.
CheckAfterSkipped(r) ==
  /\ pc[r] = "holding"
  /\ Goto(r, "cleared") /\ NoRecord
  /\ UNCHANGED <<handler, world>>

CheckAfter(r) ==
  /\ pc[r] = "holding"
  /\ \/ ~tokenStillValid(r) /\ Deny(r)
     \/ tokenStillValid(r) /\ Goto(r, "cleared") /\ NoRecord
  /\ UNCHANGED <<handler, world>>

\* forward up to RoundTrip's first byte: the headers may not be rewritable, and
\* a request whose context is done is not sent.
Send(r) ==
  /\ pc[r] = "cleared" /\ kind[r] # "capabilities"
  /\ \/ /\ r \notin cancelled
        /\ used' = used \cup {r}
        /\ pc' = [pc EXCEPT ![r] = "waiting"]
        /\ UNCHANGED failed
     \/ /\ failed' = [failed EXCEPT ![r] = "transport"]
        /\ pc' = [pc EXCEPT ![r] = "closing"]
        /\ UNCHANGED used
  /\ NoRecord
  /\ UNCHANGED <<answer, ending, handler, world>>

\* RoundTrip, the response checks, the response guard and the first read of the
\* body all come before the status is written.  A Git body that breaks a bound
\* while it is streamed is an error of its own.
Respond(r) ==
  /\ pc[r] = "waiting"
  /\ \/ /\ r \notin cancelled
        /\ answer' = [answer EXCEPT ![r] = 200]
        /\ pc' = [pc EXCEPT ![r] = "committed"]
        /\ UNCHANGED failed
     \/ /\ \E e \in {"transport"} \cup (IF kind[r] = "git" THEN {"body"} ELSE {}) :
             failed' = [failed EXCEPT ![r] = e]
        /\ pc' = [pc EXCEPT ![r] = "closing"]
        /\ UNCHANGED answer
  /\ NoRecord
  /\ UNCHANGED <<ending, used, handler, world>>

\* The rest of the body is copied, whole or not.
Stream(r) ==
  /\ pc[r] = "committed"
  /\ \E e \in {"none", "transport"} : failed' = [failed EXCEPT ![r] = e]
  /\ pc' = [pc EXCEPT ![r] = "closing"]
  /\ NoRecord
  /\ UNCHANGED <<answer, ending, used, handler, world>>

\* The manifest is written.
Expose(r) ==
  /\ pc[r] = "cleared" /\ kind[r] = "capabilities"
  /\ answer' = [answer EXCEPT ![r] = 200]
  /\ \E e \in {"none", "transport"} : failed' = [failed EXCEPT ![r] = e]
  /\ pc' = [pc EXCEPT ![r] = "closing"]
  /\ NoRecord
  /\ UNCHANGED <<ending, used, handler, world>>

\* The status the client is left with when forward has returned.
FinalStatus(r) ==
  IF answer[r] # 0 THEN answer[r] ELSE IF failed[r] = "body" THEN 404 ELSE 502

\* Variant: the completion record reports an allowed request whatever happened.
CompleteAsAllowed(r) ==
  /\ pc[r] = "closing"
  /\ \E taken \in SinkTakes : Record(r, <<"allow", FinalStatus(r)>>, taken)
  /\ answer' = [answer EXCEPT ![r] = FinalStatus(r)]
  /\ ending' = [ending EXCEPT ![r] =
       IF failed[r] # "none" /\ answer[r] # 0 THEN "aborted" ELSE "whole"]
  /\ pc' = [pc EXCEPT ![r] = "done"]
  /\ UNCHANGED <<failed, used, handler, world>>

\* Variant: a response cut short ends like a complete one.
CompleteWithoutAbort(r) ==
  /\ pc[r] = "closing"
  /\ \E taken \in SinkTakes :
       Record(r, <<IF failed[r] = "none" THEN "allow" ELSE "error", FinalStatus(r)>>, taken)
  /\ answer' = [answer EXCEPT ![r] = FinalStatus(r)]
  /\ ending' = [ending EXCEPT ![r] = "whole"]
  /\ pc' = [pc EXCEPT ![r] = "done"]
  /\ UNCHANGED <<failed, used, handler, world>>

\* A response that failed after its status was written is aborted.
Complete(r) ==
  /\ pc[r] = "closing"
  /\ \E taken \in SinkTakes :
       Record(r, <<IF failed[r] = "none" THEN "allow" ELSE "error", FinalStatus(r)>>, taken)
  /\ answer' = [answer EXCEPT ![r] = FinalStatus(r)]
  /\ ending' = [ending EXCEPT ![r] =
       IF failed[r] # "none" /\ answer[r] # 0 THEN "aborted" ELSE "whole"]
  /\ pc' = [pc EXCEPT ![r] = "done"]
  /\ UNCHANGED <<failed, used, handler, world>>

(***************************************************************************)
(* What happens around the handlers.                                       *)
(***************************************************************************)
still == <<pc, kind, form, token, answer, failed, ending, trail, lost, used>>

\* The client goes away.
Cancel(r) ==
  /\ r \in InFlight \ cancelled
  /\ cancelled' = cancelled \cup {r}
  /\ UNCHANGED <<still, revoked, expired, phase, doomed>>

\* Variant: the deadline does not reach the outbound request's context.
LapseBeforeSending(r) ==
  /\ r \in InFlight \ cancelled
  /\ pc[r] \in BeforeLastCheck \ {"arrived"} /\ kind[r] # "capabilities"
  /\ token[r] \in expired
  /\ cancelled' = cancelled \cup {r}
  /\ UNCHANGED <<still, revoked, expired, phase, doomed>>

\* The deadline put on the context when the token was validated.  Discovery
\* puts none.
Lapse(r) ==
  /\ r \in InFlight \ cancelled
  /\ pc[r] # "arrived" /\ kind[r] # "capabilities" /\ token[r] \in expired
  /\ cancelled' = cancelled \cup {r}
  /\ UNCHANGED <<still, revoked, expired, phase, doomed>>

Overtaken(t) == {r \in Request : pc[r] \in BeforeLastCheck /\ token[r] = t}

Revoke(t) ==
  /\ t \notin revoked /\ ~StoreClosed
  /\ revoked' = revoked \cup {t}
  /\ doomed' = doomed \cup Overtaken(t)
  /\ UNCHANGED <<still, cancelled, expired, phase>>

Expire(t) ==
  /\ t \notin expired
  /\ expired' = expired \cup {t}
  /\ doomed' = doomed \cup Overtaken(t)
  /\ UNCHANGED <<still, cancelled, revoked, phase>>

\* SIGTERM stops the listener; then, when the requests have drained or ten
\* seconds have passed, runServe's deferred calls close the audit log, the
\* secret backend and the token store, in that order, under whatever handlers
\* are left.
Shutdown ==
  /\ phase < 5
  /\ phase' = phase + 1
  /\ UNCHANGED <<still, cancelled, revoked, expired, doomed>>

Exit ==
  /\ phase = 5
  /\ phase' = 6
  /\ pc' = [r \in Request |-> IF r \in InFlight THEN "cut" ELSE pc[r]]
  /\ UNCHANGED <<kind, form, token, answer, failed, ending, trail, lost, used,
                 cancelled, revoked, expired, doomed>>

Init ==
  /\ pc = [r \in Request |-> "idle"]
  /\ kind = [r \in Request |-> "http"]
  /\ form = [r \in Request |-> "proper"]
  /\ token = [r \in Request |-> CHOOSE t \in Token : TRUE]
  /\ answer = [r \in Request |-> 0]
  /\ failed = [r \in Request |-> "none"]
  /\ ending = [r \in Request |-> "open"]
  /\ cancelled = {} /\ revoked = {} /\ expired = {}
  /\ phase = 1
  /\ trail = [r \in Request |-> <<>>]
  /\ lost = {} /\ used = {} /\ doomed = {}

\* A handler's own progress: no client or upstream has to cooperate in it.
Progress(r) ==
  \/ Authenticate(r) \/ Admit(r) \/ Authorize(r) \/ Project(r) \/ RecordAllow(r)
  \/ CheckBefore(r) \/ FetchSecret(r) \/ CheckAfter(r) \/ Send(r) \/ Expose(r)
  \/ Complete(r)

Next ==
  \/ \E r \in Request : Arrive(r) \/ Progress(r) \/ Respond(r) \/ Stream(r)
                        \/ Cancel(r) \/ Lapse(r)
  \/ \E t \in Token : Revoke(t) \/ Expire(t)
  \/ Shutdown \/ Exit

Spec == Init /\ [][Next]_vars

\* Time passes, timers fire, and a call under a context that is done returns.
Fairness ==
  /\ \A r \in Request :
       /\ WF_vars(Progress(r)) /\ WF_vars(Lapse(r))
       /\ WF_vars(r \in cancelled /\ Respond(r))
       /\ WF_vars(r \in cancelled /\ Stream(r))
  /\ \A t \in Token : WF_vars(Expire(t))

FairSpec == Spec /\ Fairness

(***************************************************************************)
(* Properties.                                                             *)
(***************************************************************************)
\* Every handler is at a known point, the sets and trails are of known
\* requests, tokens and audit decisions, and a handler that has returned has
\* answered.
TypeOK ==
  /\ pc \in [Request -> Stage]
  /\ kind \in [Request -> Kind]
  /\ form \in [Request -> Form]
  /\ token \in [Request -> Token]
  /\ answer \in [Request -> {0, 200, 401, 404, 429, 500, 502, 503}]
  /\ failed \in [Request -> {"none", "transport", "body"}]
  /\ ending \in [Request -> {"open", "whole", "aborted"}]
  /\ cancelled \subseteq Request /\ lost \subseteq Request
  /\ used \subseteq Request /\ doomed \subseteq Request
  /\ revoked \subseteq Token /\ expired \subseteq Token
  /\ phase \in 1..6
  /\ \A r \in Request : trail[r] \in Seq({"allow", "deny", "error"} \X Nat)
  /\ \A r \in Request : pc[r] = "done" => answer[r] # 0

\* A request whose token was revoked or had expired before the handler's last
\* tokenStillValid (gateway.go:394, git.go:150), however late in the pipeline,
\* never takes the credential to the upstream, whatever it had already passed.
DoomedNeverUsed == doomed \cap used = {}

\* With fail-closed auditing, no secret is fetched, no upstream is called and no
\* manifest is exposed unless the sink has taken the request's authorization
\* record, as its first record, even while the process is shutting down
\* (gateway.go:360-372, git.go:118-128, capabilities.go:101-111).
AuthorityIsAudited ==
  FailureMode = "closed" =>
    \A r \in Request :
      (\/ r \in used \/ answer[r] = 200
       \/ pc[r] \in {"recorded", "checked", "holding", "cleared", "waiting", "committed"})
      => trail[r] # <<>> /\ trail[r][1] = <<"allow", 0>>

Last(s) == s[Len(s)]

\* When the sink took every record offered for a routed request, the request's
\* last record carries the status the client was given, and says "allow" exactly
\* when the client got the whole upstream response.
LastRecordIsAnswer ==
  \A r \in Request :
    pc[r] = "done" /\ r \notin lost /\ form[r] # "unroutable" /\ kind[r] # "capabilities" =>
      /\ trail[r] # <<>>
      /\ Last(trail[r])[2] = answer[r]
      /\ (Last(trail[r])[1] = "allow") <=> (answer[r] = 200 /\ ending[r] = "whole")

\* A client that sees an upstream response end normally has all of it: a copy
\* that failed after the status line is aborted (gateway.go:421, git.go:186,
\* capabilities.go:139), never finished quietly.
WholeMeansWhole ==
  \A r \in Request : answer[r] = 200 /\ ending[r] = "whole" => failed[r] = "none"

\* A status once written is never replaced by another one, in particular not by
\* the gateway's own 502 after the upstream's status was committed.
AnsweredOnce ==
  [][\A r \in Request : answer[r] # 0 => answer'[r] = answer[r]]_vars

\* Every request that arrives comes to an end, although the upstream may never
\* answer and the stream may never finish: the token's expiry ends it.
EveryRequestEnds ==
  \A r \in Request : pc[r] = "arrived" ~> pc[r] \in {"done", "cut"}
=============================================================================
