---------------------------- MODULE GitExchange ----------------------------
(***************************************************************************)
(* One Git request through the gateway (internal/gateway/git.go,           *)
(* git_stream.go): classified, its body read through the metering reader   *)
(* while the receive-pack parser looks at it, judged by the policy, and    *)
(* sent upstream with the bytes the parser consumed replayed in front of   *)
(* the rest; then the response, through the filter for the credential.     *)
(* Tokens, audit records and secrets are the business of module Gateway;   *)
(* here they are one step that may refuse.                                 *)
(*                                                                         *)
(* External: the client, who sends any items and may end its body at any   *)
(* point; the upstream; net/http's transport, which reads the body while   *)
(* the response may already be on its way.                                 *)
(***************************************************************************)
EXTENDS ReceivePack, SecretFilter

CONSTANTS Item,        \* pkt-lines a client can send (see ReceivePack)
          Policies,    \* compiled policies: sequences of rules
          Repository,
          maximum,     \* MaxRequestBytes, in items
          MaxRead      \* bound: items of one read

ASSUME ExchangeAssumption ==
  /\ maximum \in Nat \ {0} /\ MaxRead \in Nat \ {0}
  /\ \A rules \in Policies : NewPolicyAccepts(rules)

\* What the words of a pkt-line have; capabilities come with their list only.
ASSUME ItemAssumption ==
  \A item \in Item :
    /\ item.type = "shallow" => item.format \in {"sha1", "sha256"}
    /\ item.type = "command" =>
         /\ item.listed \in BOOLEAN /\ item.capabilities \in SUBSET STRING
         /\ ~item.listed => item.capabilities = {}

VARIABLES stage,     \* how far serveGit is
          route,     \* preparedGitRoute
          rules,     \* the policy the grant selects
          body,      \* gitRequestBody, with what the client sent
          parse,     \* ParseReceivePackPrefix
          replay,    \* prefix bytes not yet sent upstream again
          up,        \* items the upstream has received
          upEnd,     \* how the body ended for the upstream
          reply      \* what became of the response

requestVars == <<route, rules, body, parse, replay, up, upEnd>>
vars == <<stage, requestVars, reply, filterVars>>

\* A request of which nothing has been read.
NoRoute == [phase |-> "rpc", service |-> "upload-pack", version |-> 0]

NoBody == [open |-> FALSE, gzip |-> FALSE, trailer |-> FALSE, sent |-> <<>>, closed |-> FALSE,
           spoiled |-> FALSE, buffered |-> <<>>, prefix |-> <<>>, count |-> 0, charged |-> 0,
           terminal |-> "nil", ended |-> "open"]

Data == [type |-> "data"]

\* What the client may send next: after the signature of a pack, and to
\* upload-pack, nothing is looked at any more.
ClientItem ==
  IF route.service = "upload-pack" \/ \E i \in 1..Len(body.sent) : body.sent[i].type = "PACK"
  THEN {Data} ELSE Item

(***************************************************************************)
(* Early endings.                                                          *)
(***************************************************************************)
End(outcome) == stage' = "ended" /\ reply' = outcome

\* deny, writeGeneric: nothing of an upstream response was written.
Refuse == End("refused")

(***************************************************************************)
(* classifyGitRequest: receive-pack has no version 2, so the RPC is        *)
(* refused and discovery goes on as version 0.                             *)
(***************************************************************************)
classifyGitRequest ==
  /\ stage = "classify"
  /\ \/ \E phase \in {"discovery", "rpc"}, service \in {"upload-pack", "receive-pack"}, version \in 0..2 :
          LET receive == service = "receive-pack"
          IN  /\ ~(receive /\ phase = "rpc" /\ version = 2)
              /\ route' = [phase |-> phase, service |-> service,
                           version |-> IF receive /\ version = 2 THEN 0 ELSE version]
              /\ stage' = IF phase = "discovery" THEN "preflight"
                          ELSE IF receive THEN "prepare" ELSE "judge"
              /\ UNCHANGED reply
     \/ Refuse /\ UNCHANGED route
  /\ UNCHANGED <<rules, body, parse, replay, up, upEnd, filterVars>>

(***************************************************************************)
(* authorizeGitRequest.                                                    *)
(***************************************************************************)
Operation == IF route.service = "receive-pack" THEN "push" ELSE "fetch"

Access == [repository |-> Repository, service |-> route.service,
           operation |-> Operation, version |-> route.version]

PolicyRequest(pack) ==
  [repository |-> Repository, service |-> route.service, operation |-> Operation,
   version |-> route.version, receivePack |-> pack]

\* What the compiled policy says: of the repository for discovery and for a
\* receive-pack body without commands, of the request otherwise.
Decide(policy) ==
  IF route.phase = "discovery" THEN CanAccessRepository(policy, Access)
  ELSE IF route.service = "upload-pack" THEN Evaluate(policy, PolicyRequest(NoReceivePack))
  ELSE IF parse.request.kind = "push" THEN Evaluate(policy, PolicyRequest(parse.request))
  ELSE CanAccessRepository(policy, Access)

Judge ==
  /\ stage \in {"preflight", "judge"}
  /\ \E policy \in Policies :
       /\ rules' = policy
       /\ IF Decide(policy) # "allowed" THEN Refuse
          ELSE /\ stage' = IF stage = "judge" /\ route.service = "upload-pack" THEN "prepare" ELSE "release"
               /\ UNCHANGED reply
  /\ UNCHANGED <<route, body, parse, replay, up, upEnd, filterVars>>

\* Content-Length above the maximum, an unknown encoding, or no gzip header.
prepareGitRequestBody ==
  /\ stage = "prepare"
  /\ \/ Refuse /\ UNCHANGED body
     \/ \E gzip, trailer \in BOOLEAN :
          /\ body' = [body EXCEPT !.open = TRUE, !.gzip = gzip, !.trailer = trailer]
          /\ stage' = IF route.service = "receive-pack" THEN "parse" ELSE "release"
          /\ UNCHANGED reply
  /\ UNCHANGED <<route, rules, parse, replay, up, upEnd, filterVars>>

(***************************************************************************)
(* gitMeteredReader.Read over countingBoundedReader and strictGzipReader.  *)
(***************************************************************************)
\* How the end of the decoded stream is reported: io.EOF, or an error for
\* data after the gzip member or for a trailer.
EndOfStream(junk) == IF junk THEN "gzip" ELSE IF body.trailer THEN "trailer" ELSE "eof"

\* Variant: the limit is the end of the body.
ProbeSkipped == body' = [body EXCEPT !.ended = "eof"]

\* At the limit one more byte is asked for: it is an error, not the end.
Probe ==
  \/ \E item \in ClientItem :
       body' = [body EXCEPT !.sent = Append(@, item), !.ended = "limit"]
  \/ \E junk \in {FALSE, body.gzip} :
       body' = [body EXCEPT !.closed = TRUE, !.spoiled = junk \/ body.trailer, !.ended = EndOfStream(junk)]
  \/ body' = [body EXCEPT !.ended = "failed"]

\* Items arrive and are charged before they are counted and handed on; an end
\* reported with them that is not io.EOF waits for the next call.
Delivered(items, err, junk) ==
  LET end == EndOfStream(junk)
      later == items # <<>> /\ end # "eof"
  IN  [body EXCEPT
        !.sent = @ \o items, !.buffered = @ \o items, !.count = @ + Len(items),
        !.charged = @ + Len(items),
        !.closed = err = "eof",
        !.spoiled = err = "eof" /\ (junk \/ body.trailer),
        !.terminal = IF err = "eof" /\ later THEN end ELSE "nil",
        !.ended = CASE err = "nil" -> "open"
                    [] err = "failed" -> "failed"
                    [] OTHER -> IF later THEN "open" ELSE end]

Metered(items) ==
  \/ /\ items # <<>>
     /\ \E err \in {"budget"} \cup (IF body.gzip THEN {"gzip"} ELSE {}) :
          body' = [body EXCEPT !.sent = @ \o items, !.ended = err]
  \/ \E err \in {"nil", "eof", "failed"}, junk \in {FALSE, body.gzip} :
       /\ items = <<>> => err # "nil"
       /\ junk => err = "eof"
       /\ body' = Delivered(items, err, junk)

Items(n) == {items \in [1..n -> ClientItem] : \A i \in 1..(n - 1) : items[i].type = "PACK" => items[i + 1] = Data}

Read ==
  \/ body.terminal # "nil" /\ body' = [body EXCEPT !.terminal = "nil", !.ended = body.terminal]
  \/ body.terminal = "nil" /\ body.count >= maximum /\ Probe
  \/ /\ body.terminal = "nil" /\ body.count < maximum
     /\ \E n \in 0..MaxRead : n <= maximum - body.count /\ \E items \in Items(n) : Metered(items)

\* bufio asks for more when it is empty, the transport likewise.
ReadBody ==
  /\ body.open /\ body.ended = "open" /\ body.buffered = <<>>
  /\ stage \in {"parse", "forward"}
  /\ IF stage = "parse" THEN parse.phase \notin {"done", "failed"} ELSE upEnd = "open" /\ replay = <<>>
  /\ Read
  /\ UNCHANGED <<stage, route, rules, parse, replay, up, upEnd, reply, filterVars>>

(***************************************************************************)
(* ParseReceivePackPrefix, then replayedGitBody.                           *)
(***************************************************************************)
ParseOne ==
  /\ stage = "parse" /\ parse.phase \notin {"done", "failed"} /\ body.buffered # <<>>
  /\ parse' = ParseItem(parse, Head(body.buffered))
  /\ body' = [body EXCEPT !.buffered = Tail(@), !.prefix = Append(@, Head(body.buffered))]
  /\ UNCHANGED <<stage, route, rules, replay, up, upEnd, reply, filterVars>>

ParseStops ==
  /\ stage = "parse" /\ parse.phase \notin {"done", "failed"}
  /\ body.buffered = <<>> /\ body.ended # "open"
  /\ parse' = IF body.ended = "eof" THEN ParseEnd(parse) ELSE Failed(parse)
  /\ UNCHANGED <<stage, route, rules, body, replay, up, upEnd, reply, filterVars>>

ParseReturns ==
  /\ stage = "parse" /\ parse.phase \in {"done", "failed"}
  /\ IF parse.phase = "failed" THEN Refuse ELSE stage' = "judge" /\ UNCHANGED reply
  /\ UNCHANGED <<requestVars, filterVars>>

(***************************************************************************)
(* The rest of serveGit up to forwardGit (module Gateway), and forwardGit. *)
(***************************************************************************)
Release ==
  /\ stage = "release"
  /\ \/ Refuse /\ UNCHANGED <<replay, upEnd>>
     \/ /\ stage' = "forward"
        /\ replay' = body.prefix
        /\ upEnd' = IF body.open THEN "open" ELSE "eof"
        /\ UNCHANGED reply
  /\ UNCHANGED <<route, rules, body, parse, up, filterVars>>

\* The transport sends what it has read.
Send ==
  /\ stage = "forward" /\ upEnd = "open"
  /\ \/ /\ replay # <<>>
        /\ up' = up \o replay /\ replay' = <<>> /\ UNCHANGED <<body, upEnd>>
     \/ /\ replay = <<>> /\ body.buffered # <<>>
        /\ up' = up \o body.buffered /\ body' = [body EXCEPT !.buffered = <<>>]
        /\ UNCHANGED <<replay, upEnd>>
     \/ /\ replay = <<>> /\ body.buffered = <<>> /\ body.ended # "open"
        /\ upEnd' = IF body.ended = "eof" THEN "eof" ELSE "broken"
        /\ UNCHANGED <<replay, up, body>>
  /\ UNCHANGED <<stage, route, rules, parse, reply, filterVars>>

\* RoundTrip fails, the status or type is wrong, or the guard refuses the
\* headers; or the response is to be passed on.  It may come before the body
\* was sent, and the transport may then send more of it; neither side looks at
\* the other, so the request is forgotten here.
RoundTrip ==
  /\ stage = "forward"
  /\ \/ Refuse /\ UNCHANGED requestVars
     \/ /\ stage' = "first" /\ UNCHANGED reply
        /\ route' = NoRoute /\ rules' = <<>> /\ body' = NoBody /\ parse' = StartParse
        /\ replay' = <<>> /\ up' = <<>> /\ upEnd' = "none"
  /\ UNCHANGED filterVars

Reading == stage \in {"first", "copy"}

\* The first read decides whether anything is committed.
Fill == Reading /\ ReadSource /\ UNCHANGED <<stage, requestVars, reply>>

Pass == Reading /\ ReadGives /\ stage' = "copy" /\ UNCHANGED <<requestVars, reply>>

ResponseEnds(err) ==
  /\ Reading /\ ReadEnds(err)
  /\ IF err = "eof" THEN IF stage = "first" THEN stage' = "copy" /\ UNCHANGED reply ELSE End("complete")
     ELSE End(IF stage = "first" THEN "refused" ELSE "aborted")
  /\ UNCHANGED requestVars

Reflected ==
  /\ Reading /\ ReadReflects /\ End(IF stage = "first" THEN "refused" ELSE "aborted")
  /\ UNCHANGED requestVars

\* Writing to a client that is gone.
WriteFails ==
  /\ stage = "copy" /\ End("aborted") /\ UNCHANGED <<requestVars, filterVars>>

(***************************************************************************)
(* Specification.                                                          *)
(***************************************************************************)
Init ==
  /\ stage = "classify" /\ reply = "none"
  /\ route = NoRoute /\ rules = <<>> /\ body = NoBody /\ parse = StartParse
  /\ replay = <<>> /\ up = <<>> /\ upEnd = "none"
  /\ FilterInit

Next ==
  \/ classifyGitRequest \/ Judge \/ prepareGitRequestBody
  \/ ReadBody \/ ParseOne \/ ParseStops \/ ParseReturns
  \/ Release \/ Send \/ RoundTrip \/ Fill \/ Pass
  \/ \E err \in {"eof", "failed", "noProgress"} : ResponseEnds(err)
  \/ Reflected \/ WriteFails

Spec == Init /\ [][Next]_vars

(***************************************************************************)
(* Properties.                                                             *)
(***************************************************************************)
\* git-receive-pack's own reading of what it received (external): the commands
\* before the first flush, with the capabilities of all of them.
Commands ==
  LET flushes == {i \in 1..Len(up) : up[i].type = "flush"}
      before == {i \in 1..Len(up) : \A f \in flushes : i < f}
  IN  {i \in before : flushes # {} /\ up[i].type = "command"}

AsUpstreamReads ==
  LET caps == UNION {up[i].capabilities : i \in Commands}
  IN  PolicyRequest([NoReceivePack EXCEPT
        !.kind = "push", !.format = FormatOf(caps), !.capabilities = caps,
        !.atomic = "atomic" \in caps, !.negotiated = "push-options" \in caps])

\* Every ref update that the upstream finds in the bytes forwarded to it is
\* matched by an allow and by no deny of the policy the request was judged by:
\* parsing, judging and replaying agree with what git-receive-pack reads
\* (ParseReceivePackPrefix, Policy.Evaluate, replayedGitBody).
UpdatesAreAuthorized ==
  \A i \in Commands :
    LET update == up[i].update
    IN  /\ Matching(rules, "allow", AsUpstreamReads, update) # {}
        /\ Matching(rules, "deny", AsUpstreamReads, update) = {}

\* A body that ends normally for the upstream is all the client sent, ended
\* normally there too, without trailer or data after the gzip member, is within
\* the limit, and each of its bytes was charged once, those that the parser read
\* first included (gitMeteredReader, countingBoundedReader, strictGzipReader).
BodyIsWhole ==
  upEnd = "eof" /\ body.open =>
    /\ up = body.sent /\ body.closed /\ ~body.spoiled
    /\ Len(up) <= maximum /\ body.charged = Len(up)

IsPrefix(s, t) == Len(s) <= Len(t) /\ s = SubSeq(t, 1, Len(s))

\* The client sees a prefix of the upstream's response, never one that has the
\* credential in it, nothing of it when the reply is a generic refusal, and an
\* ordinary end only after all of it (secretFilteringBody, forwardGit).
ResponseIsClean ==
  /\ IsPrefix(given, source.bytes)
  /\ ~Occurs(given, Secret)
  /\ reply = "refused" => given = <<>>
  /\ reply = "complete" => given = source.bytes /\ source.end = "eof"
=============================================================================
