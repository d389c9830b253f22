------------------------------ MODULE Control ------------------------------
(***************************************************************************)
(* The administrative API of internal/control: mint, delegate and revoke   *)
(* over the Unix socket, each framed by audit records, beside the commands *)
(* of cmd/ff that call it and the shutdown of cmd/ff's runServe.           *)
(*                                                                         *)
(* The token store is kept to what its methods promise a caller (module    *)
(* TokenStore has the whole of it): a method may fail before it changes    *)
(* anything, or after the file was replaced but not synced, in which case  *)
(* the change is in force although the method reports an error.            *)
(***************************************************************************)
EXTENDS Naturals, Sequences, FiniteSets

CONSTANTS
  Call,            \* invocations of ff mint, ff delegate and ff revoke
  Token,
  Root,            \* a token minted before, with a bearer somebody holds
  None,
  FailureMode      \* audit.failure_mode: "closed" or "open"

ASSUME ControlAssumption ==
  /\ Root \in Token /\ None \notin Token /\ FailureMode \in {"closed", "open"}

VARIABLES
  pc,              \* where the handler of each call is
  op, target,      \* the request: operation, and the token it names
  issued,          \* the token the handler got from the store
  state,           \* of each token in the store: absent, live or revoked
  parent,          \* of each token in the store
  trail,           \* the records the sink took for each call, in order
  response,        \* what the handler left for the client
  client,          \* what the command has
  uncompensated,   \* tokens whose compensating revocation failed
  lapsed,          \* tokens that were revoked when they were last used to delegate
  phase            \* of runServe: 1 serving, 2 draining, 3 sink closed, 4 store closed, 5 gone

vars == <<pc, op, target, issued, state, parent, trail, response, client, uncompensated,
          lapsed, phase>>

store == <<state, parent, lapsed>>
request == <<op, target>>

Stage == {"idle", "arrived", "valid", "authorized", "mutated", "responding", "compensating", "done"}

\* The token and the ancestors it was delegated from.
Lineage(t) ==
  {a \in Token : \A S \in SUBSET Token :
     t \in S /\ (\A x \in S : parent[x] # None => parent[x] \in S) => a \in S}

\* validateLocked walks from the token to its root.
Usable(t) == \A a \in Lineage(t) : state[a] = "live"

StoreOpen == phase < 4

\* How a write of the store can end.
Outcome == IF StoreOpen THEN {"failed", "unsynced", "done"} ELSE {"failed"}

(***************************************************************************)
(* recordControl.                                                          *)
(***************************************************************************)
\* Whether the sink writes a record: a closed one never does.
SinkWrites == IF phase < 3 THEN BOOLEAN ELSE {FALSE}

\* Whether Record reports success to its caller.
Acknowledged(written) == written \/ FailureMode = "open"

Trail(c, entry, written) == trail' = IF written THEN [trail EXCEPT ![c] = Append(@, entry)] ELSE trail

Goto(c, stage) == pc' = [pc EXCEPT ![c] = stage]

Answer(c, answer) ==
  /\ Goto(c, "done")
  /\ response' = [response EXCEPT ![c] = answer]

(***************************************************************************)
(* The handlers.                                                           *)
(***************************************************************************)
Running(c, stage) == phase < 5 /\ pc[c] = stage

\* A request reaches the socket.
Arrive(c) ==
  /\ phase = 1 /\ pc[c] = "idle"
  /\ \E o \in {"mint", "delegate", "revoke"}, t \in Token :
       /\ op' = [op EXCEPT ![c] = o]
       /\ target' = [target EXCEPT ![c] = IF o = "mint" THEN None ELSE t]
  /\ Goto(c, "arrived")
  /\ client' = [client EXCEPT ![c] = "waiting"]
  /\ UNCHANGED <<issued, store, trail, response, uncompensated, phase>>

\* decodeJSON, the checks of the fields and, for a delegation, Validate of the
\* parent and filterGrants.
Check(c) ==
  /\ Running(c, "arrived")
  /\ \/ Answer(c, "rejected")
     \/ /\ op[c] = "delegate" => StoreOpen /\ Usable(target[c])
        /\ Goto(c, "valid") /\ UNCHANGED response
  /\ UNCHANGED <<request, issued, store, trail, client, uncompensated, phase>>

\* Variant: the operation goes ahead although its record was refused.
AuthorizeUnchecked(c) ==
  /\ Running(c, "valid")
  /\ \E written \in SinkWrites : Trail(c, "authorized", written)
  /\ Goto(c, "authorized")
  /\ UNCHANGED <<request, issued, store, response, client, uncompensated, phase>>

Authorize(c) ==
  /\ Running(c, "valid")
  /\ \E written \in SinkWrites :
       /\ Trail(c, "authorized", written)
       /\ \/ Acknowledged(written) /\ Goto(c, "authorized") /\ UNCHANGED response
          \/ ~Acknowledged(written) /\ Answer(c, "rejected")
  /\ UNCHANGED <<request, issued, store, client, uncompensated, phase>>

\* The store method failed: a best-effort record and an error.
Failed(c) ==
  /\ \E written \in SinkWrites : Trail(c, "failed", written)
  /\ Answer(c, "rejected")
  /\ UNCHANGED issued

\* store.Mint and store.Delegate draw a token that is in no record; an unsynced
\* write leaves a record whose bearer nobody was given.
Issue(c, from) ==
  \E t \in Token, outcome \in Outcome :
    /\ state[t] = "absent"
    /\ \/ outcome = "failed" /\ UNCHANGED store
       \/ /\ outcome # "failed"
          /\ state' = [state EXCEPT ![t] = "live"]
          /\ parent' = [parent EXCEPT ![t] = from]
          /\ lapsed' = IF from # None /\ ~Usable(from) THEN lapsed \cup {t} ELSE lapsed
    /\ \/ /\ outcome = "done"
          /\ issued' = [issued EXCEPT ![c] = t]
          /\ Goto(c, "mutated")
          /\ UNCHANGED <<trail, response>>
       \/ outcome # "done" /\ Failed(c)

Mint(c) ==
  /\ Running(c, "authorized") /\ op[c] = "mint"
  /\ Issue(c, None)
  /\ UNCHANGED <<request, client, uncompensated, phase>>

\* Variant: the store relies on the validation the handler did before.
DelegateUnchecked(c) ==
  /\ Running(c, "authorized") /\ op[c] = "delegate"
  /\ Issue(c, target[c])
  /\ UNCHANGED <<request, client, uncompensated, phase>>

\* store.Delegate validates the parent again, under its own lock.
Delegate(c) ==
  /\ Running(c, "authorized") /\ op[c] = "delegate"
  /\ \/ Usable(target[c]) /\ Issue(c, target[c])
     \/ ~Usable(target[c]) /\ Failed(c) /\ UNCHANGED store
  /\ UNCHANGED <<request, client, uncompensated, phase>>

\* revokeHash: the token and all that was delegated from it.
RevokeSubtree(t, outcome) ==
  /\ state[t] = "absent" => outcome = "failed"
  /\ state' = IF outcome = "failed" THEN state
              ELSE [d \in Token |-> IF t \in Lineage(d) /\ state[d] = "live" THEN "revoked" ELSE state[d]]

\* Variant: the store's error is not looked at.
RevokeUnchecked(c) ==
  /\ Running(c, "authorized") /\ op[c] = "revoke"
  /\ \E outcome \in Outcome : RevokeSubtree(target[c], outcome)
  /\ Goto(c, "mutated")
  /\ UNCHANGED <<request, issued, parent, lapsed, trail, response, client, uncompensated, phase>>

\* A revocation that finds the token inactive already is answered like one that
\* revoked it.
Revoke(c) ==
  /\ Running(c, "authorized") /\ op[c] = "revoke"
  /\ \E outcome \in Outcome :
       /\ RevokeSubtree(target[c], outcome)
       /\ \/ outcome = "done" /\ Goto(c, "mutated") /\ UNCHANGED <<trail, response, issued>>
          \/ outcome # "done" /\ Failed(c)
  /\ UNCHANGED <<request, parent, lapsed, client, uncompensated, phase>>

\* The completion record.  Without it an issued token is revoked again; a
\* revocation stays, and only its answer says that something is missing.
Complete(c) ==
  /\ Running(c, "mutated")
  /\ \E written \in SinkWrites :
       /\ Trail(c, "completed", written)
       /\ \/ Acknowledged(written) /\ Goto(c, "responding") /\ UNCHANGED response
          \/ ~Acknowledged(written) /\ op[c] = "revoke" /\ Answer(c, "rejected")
          \/ ~Acknowledged(written) /\ op[c] # "revoke" /\ Goto(c, "compensating") /\ UNCHANGED response
  /\ UNCHANGED <<request, issued, store, client, uncompensated, phase>>

\* Variant: a failed write of the response is not noticed.
RespondUnchecked(c) ==
  /\ Running(c, "responding")
  /\ \/ Answer(c, "accepted")
     \/ Answer(c, "torn")
  /\ UNCHANGED <<request, issued, store, trail, client, uncompensated, phase>>

\* writeJSON: the response is handed to the HTTP server, whole or not.
Respond(c) ==
  /\ Running(c, "responding")
  /\ \/ Answer(c, "accepted")
     \/ op[c] = "revoke" /\ Answer(c, "torn")
     \/ op[c] # "revoke" /\ Goto(c, "compensating") /\ UNCHANGED response
  /\ UNCHANGED <<request, issued, store, trail, client, uncompensated, phase>>

\* revokeIssuedToken, with a context of its own; its error is ignored.
Compensate(c) ==
  /\ Running(c, "compensating")
  /\ \E outcome \in Outcome :
       /\ RevokeSubtree(issued[c], outcome)
       /\ uncompensated' = IF outcome = "failed" THEN uncompensated \cup {issued[c]} ELSE uncompensated
  /\ Answer(c, "torn")
  /\ UNCHANGED <<request, issued, parent, lapsed, trail, client, phase>>

(***************************************************************************)
(* The command, and the server's end.                                      *)
(***************************************************************************)
serving == <<pc, request, issued, store, trail, response, uncompensated>>

\* The response arrives; the bearer is printed, or the command fails.
Receive(c) ==
  /\ client[c] = "waiting" /\ pc[c] = "done"
  /\ client' = [client EXCEPT ![c] = IF response[c] # "accepted" THEN "failed"
                                     ELSE IF op[c] = "revoke" THEN "revoked" ELSE "holding"]
  /\ UNCHANGED <<serving, phase>>

\* The client's five seconds are over, or the command is killed.
GiveUp(c) ==
  /\ client[c] \in {"waiting", "holding"}
  /\ client' = [client EXCEPT ![c] = "failed"]
  /\ UNCHANGED <<serving, phase>>

PrintBearer(c) ==
  /\ client[c] = "holding"
  /\ client' = [client EXCEPT ![c] = "printed"]
  /\ UNCHANGED <<serving, phase>>

\* runMint and runDelegate: the bearer could not be printed, so the command asks
\* for its revocation, as a call of its own.
PrintFails(c, d) ==
  /\ client[c] = "holding" /\ pc[d] = "idle" /\ phase = 1
  /\ op' = [op EXCEPT ![d] = "revoke"]
  /\ target' = [target EXCEPT ![d] = issued[c]]
  /\ Goto(d, "arrived")
  /\ client' = [client EXCEPT ![c] = "failed", ![d] = "waiting"]
  /\ UNCHANGED <<issued, store, trail, response, uncompensated, phase>>

\* runServe: Shutdown waits for the handlers up to its deadline; then the sink
\* and the store are closed, whoever still uses them, and the process ends.
Shutdown ==
  /\ phase < 5
  /\ phase' = phase + 1
  /\ UNCHANGED <<serving, client>>

Crash ==
  /\ phase < 4
  /\ phase' = 5
  /\ UNCHANGED <<serving, client>>

Init ==
  /\ pc = [c \in Call |-> "idle"]
  /\ op = [c \in Call |-> "none"] /\ target = [c \in Call |-> None]
  /\ issued = [c \in Call |-> None]
  /\ state = [t \in Token |-> IF t = Root THEN "live" ELSE "absent"]
  /\ parent = [t \in Token |-> None]
  /\ trail = [c \in Call |-> <<>>]
  /\ response = [c \in Call |-> "none"]
  /\ client = [c \in Call |-> "idle"]
  /\ uncompensated = {} /\ lapsed = {} /\ phase = 1

Handle(c) ==
  \/ Check(c) \/ Authorize(c) \/ Mint(c) \/ Delegate(c) \/ Revoke(c) \/ Complete(c)
  \/ Respond(c) \/ Compensate(c)

Next ==
  \/ \E c \in Call : Arrive(c) \/ Handle(c) \/ Receive(c) \/ GiveUp(c) \/ PrintBearer(c)
  \/ \E c, d \in Call : PrintFails(c, d)
  \/ Shutdown \/ Crash

Spec == Init /\ [][Next]_vars

-----------------------------------------------------------------------------
\* Every variable has its type.
TypeOK ==
  /\ pc \in [Call -> Stage]
  /\ op \in [Call -> {"none", "mint", "delegate", "revoke"}] /\ target \in [Call -> Token \cup {None}]
  /\ issued \in [Call -> Token \cup {None}]
  /\ state \in [Token -> {"absent", "live", "revoked"}] /\ parent \in [Token -> Token \cup {None}]
  /\ trail \in [Call -> Seq({"authorized", "completed", "failed"})]
  /\ response \in [Call -> {"none", "rejected", "accepted", "torn"}]
  /\ client \in [Call -> {"idle", "waiting", "holding", "printed", "revoked", "failed"}]
  /\ uncompensated \subseteq Token /\ lapsed \subseteq Token /\ phase \in 1..5

\* With a sink that fails closed, no token is issued and no bearer leaves the
\* server without its records: "authorized" comes before the store is asked,
\* "completed" before the response.  No two commands are given the same token.
BearerIsAudited ==
  /\ TypeOK
  /\ \A c, d \in Call : issued[c] # None /\ issued[d] = issued[c] => c = d
  /\ FailureMode = "closed" => \A c \in Call :
       /\ issued[c] # None => trail[c] # <<>> /\ Head(trail[c]) = "authorized"
       /\ client[c] \in {"holding", "printed"} => trail[c] = <<"authorized", "completed">>

\* A handler that issued a token and did not hand its bearer over has revoked it,
\* unless the store refused the revocation.
UndeliveredIsRevoked ==
  \A c \in Call :
    pc[c] = "done" /\ issued[c] # None /\ response[c] # "accepted"
      => state[issued[c]] = "revoked" \/ issued[c] \in uncompensated

\* No token is delegated from a parent that is revoked by then, although the
\* handler's own look at the parent may be long past.
DelegatedFromUsable == lapsed = {}

\* A command told that its token is revoked can rely on it.
RevokedMeansRevoked ==
  \A c \in Call : client[c] = "revoked" => ~Usable(target[c])
=============================================================================
