---------------------------- MODULE RunnerBroker ----------------------------
(***************************************************************************)
(* The credential broker of an agent run (internal/runner/broker.go), with *)
(* its Hive proxy (hive.go): the connections the sandbox opens through its *)
(* relay, the handlers that borrow the bearer, and Close, which cancels,   *)
(* drains and clears while they run.                                       *)
(*                                                                         *)
(* net/http is external: it accepts, runs one handler per request, and     *)
(* Shutdown closes the listener and waits for connections that are not     *)
(* idle, up to its deadline.                                               *)
(***************************************************************************)
EXTENDS Naturals, FiniteSets

CONSTANTS
  Run, Conn,
  Owner,                       \* the run whose sandbox opens the connection
  brokerMaxConnections,
  brokerMaxConcurrentRequests

ASSUME BrokerAssumption ==
  /\ Owner \in [Conn -> Run]
  /\ brokerMaxConnections \in Nat \ {0} /\ brokerMaxConcurrentRequests \in Nat \ {0}

VARIABLES
  broker,   \* how far the broker of each run has come
  serving,  \* runs whose Serve has not returned
  conn      \* where each connection is

brokerVars == <<broker, serving, conn>>

\* "made": NewBroker returned; "bound": listening; "draining": in Shutdown;
\* "drained": Shutdown returned; "hiveless": the Hive token cleared; "closed":
\* the bearer cleared as well; "gone": its process died.
BrokerStage ==
  {"none", "made", "bound", "draining", "drained", "hiveless", "closed", "gone"}

\* "queued" in the backlog; "new": no request read yet; "bearer" and "hive": a
\* handler with a copy of that credential; "copying": sending the response.
ConnStage == {"none", "queued", "new", "idle", "bearer", "hive", "copying", "shut"}

InHandler == {"bearer", "hive", "copying"}
Connected == {"new", "idle"} \cup InHandler

ConnsOf(r, stages) == {c \in Conn : Owner[c] = r /\ conn[c] \in stages}

Closing == {"draining", "drained", "hiveless", "closed"}

\* net/http closes the connection after a response once it is shutting down.
AfterResponse(c) == IF broker[Owner[c]] \in Closing THEN "shut" ELSE "idle"

Move(c, stage) ==
  /\ conn' = [conn EXCEPT ![c] = stage]
  /\ UNCHANGED <<broker, serving>>

(***************************************************************************)
(* Connections.                                                            *)
(***************************************************************************)
\* The sandbox's Relay dials the socket for a connection of the agent.
Dial(c) ==
  /\ conn[c] = "none"
  /\ Move(c, IF broker[Owner[c]] = "bound" THEN "queued" ELSE "shut")

\* limitedListener: a slot first, then a connection.
Accept(c) ==
  /\ conn[c] = "queued" /\ Owner[c] \in serving /\ broker[Owner[c]] = "bound"
  /\ Cardinality(ConnsOf(Owner[c], Connected)) < brokerMaxConnections
  /\ Move(c, "new")

\* Serve ends by itself: Accept failed with something other than a close.
ServeFails(r) ==
  /\ r \in serving /\ broker[r] = "bound"
  /\ serving' = serving \ {r}
  /\ UNCHANGED <<broker, conn>>

\* The credentials are copied under their locks unless they have been cleared.
route(r) == broker[r] # "closed"

authority(r) == broker[r] \notin {"hiveless", "closed"}

\* ServeHTTP up to the call upstream: an unsuitable request, a full broker and
\* a cleared credential are answered at once.
ServeHTTP(c) ==
  /\ conn[c] \in {"new", "idle"} /\ broker[Owner[c]] # "gone"
  /\ \/ Move(c, AfterResponse(c))
     \/ /\ Cardinality(ConnsOf(Owner[c], InHandler)) < brokerMaxConcurrentRequests
        /\ \/ route(Owner[c]) /\ Move(c, "bearer")
           \/ authority(Owner[c]) /\ Move(c, "hive")

\* validateHiveSend, validateHiveAck and the query checks, which read the
\* agent's body with the token already in hand: a request that breaks the Hive
\* policy is answered without a call.
HiveRefuses(c) ==
  /\ conn[c] = "hive"
  /\ Move(c, AfterResponse(c))

\* RoundTrip returns, with a response or an error, and the credential leaves
\* the request.
RoundTrip(c) ==
  /\ conn[c] \in {"bearer", "hive"}
  /\ \/ Move(c, "copying")
     \/ Move(c, AfterResponse(c))

\* copyBrokerResponseBody returns.
Copied(c) ==
  /\ conn[c] = "copying"
  /\ Move(c, AfterResponse(c))

\* The agent, the relay or a timeout of the server ends a connection no
\* handler works on.
HangUp(c) ==
  /\ conn[c] \in {"queued", "new", "idle"}
  /\ Move(c, "shut")

(***************************************************************************)
(* NewBroker, ListenUnix, Serve and Close.                                 *)
(***************************************************************************)
NewBroker(r) ==
  /\ broker' = [broker EXCEPT ![r] = "made"]
  /\ UNCHANGED <<serving, conn>>

\* The same broker, with the routes of a remote gateway's manifest.
NewBrokerFromManifest(r) == NewBroker(r)

ListenAndServe(r) ==
  /\ broker' = [broker EXCEPT ![r] = "bound"]
  /\ serving' = serving \cup {r}
  /\ UNCHANGED conn

\* Close cancels every handler's context and calls Shutdown, which closes the
\* listener; a broker that never listened has nothing to shut down.
BeginClose(r) ==
  /\ broker' = [broker EXCEPT ![r] = IF @ = "bound" THEN "draining" ELSE "drained"]
  /\ serving' = serving \ {r}
  /\ conn' = [c \in Conn |->
       IF Owner[c] = r /\ conn[c] = "queued" THEN "shut" ELSE conn[c]]

\* Shutdown returns, without an error when nothing is left that is not idle.
\* It takes a connection that sent nothing for five seconds for idle.
Shutdown(r, timedOut) ==
  /\ broker[r] = "draining"
  /\ timedOut \/ ConnsOf(r, InHandler) = {}
  /\ broker' = [broker EXCEPT ![r] = "drained"]
  /\ conn' = [c \in Conn |->
       IF Owner[c] = r /\ conn[c] \in {"new", "idle"} /\ ~timedOut THEN "shut" ELSE conn[c]]
  /\ UNCHANGED serving

\* hive.Clear, then the bearer and every route's copy of it.
ClearHive(r) ==
  /\ broker[r] = "drained"
  /\ broker' = [broker EXCEPT ![r] = "hiveless"]
  /\ UNCHANGED <<serving, conn>>

ClearBearer(r) ==
  /\ broker[r] = "hiveless"
  /\ broker' = [broker EXCEPT ![r] = "closed"]
  /\ UNCHANGED <<serving, conn>>

\* The process that holds the broker dies.
BrokerDies(r) ==
  /\ broker' = [broker EXCEPT ![r] = "gone"]
  /\ serving' = serving \ {r}
  /\ conn' = [c \in Conn |-> IF Owner[c] = r THEN "shut" ELSE conn[c]]

\* Nothing of the run can use a credential any more.
Disarmed(r) ==
  /\ broker[r] \in {"none", "closed", "gone"}
  /\ ConnsOf(r, {"bearer", "hive"}) = {}
=============================================================================
