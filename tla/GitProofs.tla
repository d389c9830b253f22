----------------------------- MODULE GitProofs ------------------------------
(***************************************************************************)
(* What the Git policy decides (GitPolicy), what the receive-pack parser   *)
(* makes of a body (ReceivePack), and what a Git request through the       *)
(* gateway sends upstream and gives back (GitExchange), for every policy,  *)
(* every body and all limits.                                              *)
(***************************************************************************)
EXTENDS GitExchange, Integers, TLAPS

-----------------------------------------------------------------------------
(* Sequences *)

\* Bodies with the same items are the same.
LEMMA SameSequence ==
  ASSUME NEW S, NEW s \in Seq(S), NEW t \in Seq(S), Len(s) = Len(t),
         \A i \in 1..Len(s) : s[i] = t[i]
  PROVE  s = t
OBVIOUS

\* What was read, followed by what is still to come: what is where.
LEMMA Joined ==
  ASSUME NEW S, NEW s \in Seq(S), NEW t \in Seq(S)
  PROVE  /\ s \o t \in Seq(S) /\ Len(s \o t) = Len(s) + Len(t)
         /\ \A i \in 1..(Len(s) + Len(t)) :
              (s \o t)[i] = IF i <= Len(s) THEN s[i] ELSE t[i - Len(s)]
OBVIOUS

\* Nothing before or after a body leaves the body.
LEMMA JoinedEmpty ==
  ASSUME NEW S, NEW s \in Seq(S)
  PROVE  s \o <<>> = s /\ <<>> \o s = s
OBVIOUS

\* A piece of a body: how long it is and what is in it.
LEMMA Piece ==
  ASSUME NEW S, NEW s \in Seq(S), NEW m \in 1..(Len(s) + 1), NEW n \in 0..Len(s), m <= n + 1
  PROVE  /\ SubSeq(s, m, n) \in Seq(S) /\ Len(SubSeq(s, m, n)) = n - m + 1
         /\ \A i \in 1..(n - m + 1) : SubSeq(s, m, n)[i] = s[m + i - 1]
OBVIOUS

-----------------------------------------------------------------------------
(* The Git engine *)

GitRequest(R, U) ==
  [repository : R, service : STRING, operation : STRING, version : Int,
   receivePack : [kind : STRING, format : STRING, updates : Seq(U), capabilities : SUBSET STRING,
                  options : Nat, negotiated : BOOLEAN, signed : BOOLEAN, atomic : BOOLEAN,
                  hasPack : BOOLEAN]]

\* A rule for all of a repository that lets a client in matches each update.
LEMMA WideMatchesAll ==
  ASSUME NEW rule, NEW request, NEW update,
         requestWide(rule), matchesRepositoryAccess(rule, request)
  PROVE  matches(rule, request, update)
BY Zenon DEF requestWide, matches

\* Discovery comes before the request itself and is decided without its refs:
\* what Evaluate will allow, CanAccessRepository has not kept out.
THEOREM DiscoveryAdmits ==
  ASSUME NEW R, NEW U, NEW request \in GitRequest(R, U), NEW policy,
         request.operation \in {"fetch", "push"},
         Evaluate(policy, request) = "allowed"
  PROVE  CanAccessRepository(policy, request) = "allowed"
<1>1. validatePolicyRequest(request)
  BY Zenon DEF Evaluate
<1>2. validateRepositoryAccessRequest(request)
  BY Zenon, <1>1 DEF validatePolicyRequest, validateRepositoryAccessRequest
<1>3. PICK update : /\ Matching(policy, "deny", request, update) = {}
                    /\ Matching(policy, "allow", request, update) # {}
  <2>1. CASE request.operation = "push"
    <3> DEFINE updates == request.receivePack.updates
    <3>1. 1 \in 1..Len(updates)
      <4>1. updates # <<>> /\ updates \in Seq(U)
        BY Zenon, <1>1, <2>1 DEF validatePolicyRequest, GitRequest
      <4> QED
        BY <4>1
    <3>2. EvaluatePush(policy, request) = "allowed"
      BY Zenon, <1>1, <2>1 DEF Evaluate
    <3>3. /\ Matching(policy, "deny", request, updates[1]) = {}
          /\ Matching(policy, "allow", request, updates[1]) # {}
      BY <3>1, <3>2, Zenon DEF EvaluatePush, Reason
    <3> QED
      BY Zenon, <3>3
  <2>2. CASE request.operation = "fetch"
    <3>1. Reason(Matching(policy, "deny", request, NoUpdate) # {},
                 Matching(policy, "allow", request, NoUpdate) # {}) = "allowed"
      BY Zenon, <1>1, <2>2 DEF Evaluate
    <3> QED
      BY Zenon, <3>1 DEF Reason
  <2> QED
    BY Zenon, <2>1, <2>2
<1>4. \E i \in 1..Len(policy) : policy[i].effect = "allow" /\ matchesRepositoryAccess(policy[i], request)
  BY Zenon, <1>3 DEF Matching, matches
<1>5. ~\E i \in 1..Len(policy) :
         policy[i].effect = "deny" /\ requestWide(policy[i]) /\ matchesRepositoryAccess(policy[i], request)
  BY Zenon, <1>3, WideMatchesAll DEF Matching
<1> QED
  BY Zenon, <1>2, <1>4, <1>5 DEF CanAccessRepository, Reason

\* A one-element sequence.
LEMMA Singleton ==
  ASSUME NEW x
  PROVE  Len(<<x>>) = 1 /\ <<x>>[1] = x /\ <<x>> # <<>>
<1>1. Len(<<x>>) = 1 /\ <<x>>[1] = x
  BY Zenon
<1>2. Len(<<>>) = 0
  BY Zenon
<1> QED
  BY Zenon, <1>1, <1>2

\* Updates are judged one by one: a push is allowed exactly when the pushes
\* of each of its updates alone are (Policy.Evaluate).  Adding an update to a
\* push never gets another one through.
THEOREM PushIsPerUpdate ==
  ASSUME NEW R, NEW U, NEW request \in GitRequest(R, U), NEW policy,
         request.operation = "push", validatePolicyRequest(request)
  PROVE  Evaluate(policy, request) = "allowed" <=>
           \A i \in 1..Len(request.receivePack.updates) :
             Evaluate(policy, [request EXCEPT !.receivePack.updates = <<@[i]>>]) = "allowed"
<1> DEFINE updates == request.receivePack.updates
           Alone(i) == [request EXCEPT !.receivePack.updates = <<@[i]>>]
<1>1. updates \in Seq(U) /\ updates # <<>>
  BY Zenon DEF GitRequest, validatePolicyRequest
<1>2. ASSUME NEW i \in 1..Len(updates)
      PROVE  /\ Alone(i).operation = "push" /\ Alone(i).service = request.service
             /\ Alone(i).repository = request.repository /\ Alone(i).version = request.version
             /\ Alone(i).receivePack = [request.receivePack EXCEPT !.updates = <<updates[i]>>]
             /\ Alone(i).receivePack.updates = <<updates[i]>>
  BY Zenon DEF GitRequest
<1>3. ASSUME NEW i \in 1..Len(updates)
      PROVE  /\ Alone(i).receivePack.kind = "push" /\ request.receivePack.kind = "push"
             /\ Alone(i).receivePack.format = request.receivePack.format
             /\ Alone(i).receivePack.capabilities = request.receivePack.capabilities
             /\ Alone(i).receivePack.options = request.receivePack.options
             /\ Alone(i).receivePack.negotiated = request.receivePack.negotiated
             /\ Alone(i).receivePack.signed = request.receivePack.signed
             /\ Alone(i).receivePack.atomic = request.receivePack.atomic
  BY Zenon, <1>2 DEF GitRequest, validatePolicyRequest
<1>4. ASSUME NEW i \in 1..Len(updates)
      PROVE  validatePolicyRequest(Alone(i))
  <2> HIDE DEF Alone
  <2>1. validateReceiveForPolicy(request.receivePack)
    BY Zenon DEF validatePolicyRequest
  <2>2. /\ Len(Alone(i).receivePack.updates) = 1
        /\ Alone(i).receivePack.updates[1] = updates[i]
        /\ Alone(i).receivePack.updates # <<>>
    <3>1. Alone(i).receivePack.updates = <<updates[i]>>
      BY <1>2, Zenon
    <3> QED
      BY Zenon, <3>1, Singleton
  <2>3. updates[i].kind \in UpdateKind
    BY Zenon, <2>1 DEF validateReceiveForPolicy
  <2>4. /\ \A j \in 1..Len(Alone(i).receivePack.updates) : j = 1
        /\ \A j \in 1..Len(Alone(i).receivePack.updates) : Alone(i).receivePack.updates[j].kind \in UpdateKind
    BY <2>2, <2>3
  <2>5. validateReceiveForPolicy(Alone(i).receivePack)
    BY Zenon, <1>3, <2>1, <2>4 DEF validateReceiveForPolicy
  <2>6. /\ request.repository # <<>> /\ request.version \in 0..2 /\ request.version # 2
        /\ request.service = "receive-pack"
    BY Zenon DEF validatePolicyRequest
  <2>7. /\ Alone(i).repository # <<>> /\ Alone(i).version \in 0..2 /\ Alone(i).version # 2
        /\ Alone(i).service = "receive-pack" /\ Alone(i).operation = "push"
        /\ Alone(i).receivePack.kind = "push"
    BY <1>2, <1>3, <2>6, Zenon
  <2> QED
    BY Zenon, <2>2, <2>5, <2>7 DEF validatePolicyRequest
<1>5. ASSUME NEW i \in 1..Len(updates), NEW rule
      PROVE  matches(rule, Alone(i), updates[i]) <=> matches(rule, request, updates[i])
  <2> HIDE DEF Alone
  <2>1. matchesRepositoryAccess(rule, Alone(i)) <=> matchesRepositoryAccess(rule, request)
    BY <1>2, Zenon DEF matchesRepositoryAccess
  <2>2. Alone(i).receivePack # NoReceivePack /\ request.receivePack # NoReceivePack
    BY <1>3 DEF NoReceivePack
  <2> QED
    BY Zenon, <1>3, <2>1, <2>2 DEF matches
<1>6. ASSUME NEW i \in 1..Len(updates), NEW effect
      PROVE  Matching(policy, effect, Alone(i), updates[i]) = Matching(policy, effect, request, updates[i])
  <2> HIDE DEF Alone
  <2> QED
    BY Zenon, <1>5 DEF Matching
<1>7. ASSUME NEW i \in 1..Len(updates)
      PROVE  Evaluate(policy, Alone(i)) = "allowed" <=>
               /\ Matching(policy, "deny", request, updates[i]) = {}
               /\ Matching(policy, "allow", request, updates[i]) # {}
  <2> HIDE DEF Alone
  <2>1. Evaluate(policy, Alone(i)) = EvaluatePush(policy, Alone(i))
    BY <1>2, <1>4, Zenon DEF Evaluate
  <2>2. Len(Alone(i).receivePack.updates) = 1 /\ Alone(i).receivePack.updates[1] = updates[i]
    <3>1. Alone(i).receivePack.updates = <<updates[i]>>
      BY <1>2, Zenon
    <3> QED
      BY Zenon, <3>1, Singleton
  <2>3. 1..Len(Alone(i).receivePack.updates) = {1}
    BY <2>2
  <2>4. EvaluatePush(policy, Alone(i)) =
          Reason(Matching(policy, "deny", Alone(i), updates[i]) # {},
                 Matching(policy, "allow", Alone(i), updates[i]) # {})
    <3> DEFINE single == Alone(i).receivePack.updates
    <3> HIDE DEF single
    <3>1. (\E j \in 1..Len(single) : Matching(policy, "deny", Alone(i), single[j]) # {})
            <=> Matching(policy, "deny", Alone(i), updates[i]) # {}
      BY Zenon, <2>2, <2>3 DEF single
    <3>2. (\A j \in 1..Len(single) : Matching(policy, "allow", Alone(i), single[j]) # {})
            <=> Matching(policy, "allow", Alone(i), updates[i]) # {}
      BY Zenon, <2>2, <2>3 DEF single
    <3> QED
      BY <3>1, <3>2, Zenon DEF EvaluatePush, Reason, single
  <2> QED
    BY Zenon, <1>6, <2>1, <2>4 DEF Reason
<1>8. Evaluate(policy, request) = "allowed" <=>
        \A i \in 1..Len(updates) :
          /\ Matching(policy, "deny", request, updates[i]) = {}
          /\ Matching(policy, "allow", request, updates[i]) # {}
  BY Zenon DEF Evaluate, EvaluatePush, Reason
<1> HIDE DEF Alone
<1>9. Evaluate(policy, request) = "allowed"
        <=> \A i \in 1..Len(updates) : Evaluate(policy, Alone(i)) = "allowed"
  BY <1>7, <1>8, Zenon
<1> QED
  BY Zenon, <1>9 DEF Alone

-----------------------------------------------------------------------------
(* The receive-pack parser *)

Format == {"sha1", "sha256"}

\* What a body consists of, and the updates it can ask for.
Line == Item \cup {Data}

Update == {item.update : item \in {i \in Item : i.type = "command"}}

\* What the parser relies on in a pkt-line.
LEMMA LineFacts ==
  ASSUME NEW item \in Line
  PROVE  /\ item.type = "shallow" => item.format \in Format
         /\ item.type = "command" =>
              /\ item.listed \in BOOLEAN /\ item.capabilities \in SUBSET STRING
              /\ ~item.listed => item.capabilities = {}
              /\ item.update \in Update
<1>1. CASE item \in Item
  BY Zenon, <1>1, ItemAssumption DEF Format, Update
<1>2. CASE item = Data
  BY Zenon, <1>2 DEF Data
<1> QED
  BY Zenon, <1>1, <1>2 DEF Line

\* ParseReceivePackPrefix on any body.
ParseNext ==
  /\ parse.phase \notin {"done", "failed"}
  /\ \/ \E item \in Line : parse' = ParseItem(parse, item)
     \/ parse' = ParseEnd(parse)

Parsing == parse = StartParse /\ [][ParseNext]_parse

Pack == [kind : {"push", "probe", "noop"}, format : Format, updates : Seq(Update),
         capabilities : SUBSET STRING, options : Nat, negotiated : BOOLEAN,
         signed : BOOLEAN, atomic : BOOLEAN, hasPack : BOOLEAN]

Parse == [phase : {"lines", "options", "signature", "end", "done", "failed"},
          carrier : BOOLEAN, shallows : Seq(Format), read : Nat, request : Pack]

\* What holds of the request while it is put together.
BeforeCommands(p) ==
  /\ p.request.updates = <<>> /\ p.request.options = 0 /\ ~p.request.hasPack
  /\ p.phase \in {"lines", "end", "done"}
  /\ (p.request.kind = "push") = (p.phase = "lines")

WithCommands(p) ==
  LET request == p.request
  IN  /\ request.kind = "push" /\ Len(request.updates) > 0
      /\ \A i \in 1..Len(request.updates) : request.updates[i].kind \in UpdateKind
      /\ p.phase = "lines" => request.options = 0
      /\ p.phase # "lines" =>
           /\ Distinct(request.updates)
           /\ request.negotiated = ("push-options" \in request.capabilities)
           /\ request.options # 0 => request.negotiated
      /\ p.phase = "options" => request.negotiated
      /\ p.phase = "signature" => NeedsPack(request.updates)
      /\ p.phase = "end" => ~NeedsPack(request.updates)
      /\ request.hasPack <=> p.phase = "done" /\ NeedsPack(request.updates)

ParseInv(p) ==
  /\ p \in Parse
  /\ p.phase = "failed" \/ IF p.carrier THEN WithCommands(p) ELSE BeforeCommands(p)

\* Requests stay requests under the assignments of the parser.
LEMMA PackUpdates ==
  ASSUME NEW a \in Pack, NEW u \in Seq(Update)
  PROVE  LET r == [a EXCEPT !.updates = u]
         IN  /\ r \in Pack /\ r.updates = u
             /\ r.kind = a.kind /\ r.options = a.options /\ r.hasPack = a.hasPack
BY Zenon DEF Pack

\* The same for Request.PushOptionsNegotiated.
LEMMA PackNegotiated ==
  ASSUME NEW a \in Pack, NEW b \in BOOLEAN
  PROVE  LET r == [a EXCEPT !.negotiated = b]
         IN  /\ r \in Pack /\ r.negotiated = b
             /\ r.kind = a.kind /\ r.updates = a.updates /\ r.capabilities = a.capabilities
             /\ r.options = a.options /\ r.hasPack = a.hasPack
BY Zenon DEF Pack

\* An error leaves nothing to promise.
LEMMA FailedInv ==
  ASSUME NEW p \in Parse
  PROVE  ParseInv(Failed(p))
<1>1. Failed(p) \in Parse /\ Failed(p).phase = "failed"
  BY Zenon DEF Failed, Parse
<1> QED
  BY Zenon, <1>1 DEF ParseInv

\* After the command list, and the push options if any, the parser looks for a
\* pack exactly when an update needs one.
LEMMA AfterCommandsInv ==
  ASSUME NEW p, ParseInv(p), p.carrier, p.phase \in {"lines", "options"},
         Distinct(p.request.updates),
         p.request.negotiated = ("push-options" \in p.request.capabilities),
         p.request.options # 0 => p.request.negotiated
  PROVE  ParseInv(AfterCommands(p))
<1> DEFINE q == AfterCommands(p)
<1>1. q \in Parse /\ q.carrier /\ q.request = p.request
  BY Zenon DEF AfterCommands, ParseInv, Parse
<1>2. q.phase = IF NeedsPack(p.request.updates) THEN "signature" ELSE "end"
  BY Zenon DEF AfterCommands, ParseInv, Parse
<1>3. WithCommands(p) /\ p.phase # "done"
  BY Zenon DEF ParseInv
<1> HIDE DEF q
<1>4. WithCommands(q)
  BY Zenon, <1>1, <1>2, <1>3 DEF WithCommands
<1> QED
  BY Zenon, <1>1, <1>2, <1>4 DEF ParseInv, q

\* The first command brings the capabilities and the first update.
LEMMA FirstCarrierInv ==
  ASSUME NEW p, NEW item \in Line, ParseInv(p), ~p.carrier, p.phase = "lines"
  PROVE  ParseInv(FirstCarrier(p, item))
<1> DEFINE caps == item.capabilities
           r == [p.request EXCEPT !.format = FormatOf(caps),
                                  !.capabilities = caps,
                                  !.atomic = "atomic" \in caps,
                                  !.updates = <<item.update>>]
           q == [p EXCEPT !.carrier = TRUE, !.request = r]
<1>1. p \in Parse /\ BeforeCommands(p)
  BY Zenon DEF ParseInv
<1>2. CASE FirstCarrier(p, item) = Failed(p)
  BY Zenon, <1>1, <1>2, FailedInv
<1>3. CASE FirstCarrier(p, item) = q /\ item.type = "command" /\ parseUpdate(item, FormatOf(caps))
  <2>1. FormatOf(caps) \in Format /\ item.update \in Update /\ <<item.update>> \in Seq(Update)
    BY <1>3, LineFacts DEF FormatOf, Format
  <2>2. p.request \in Pack /\ caps \in SUBSET STRING
    BY Zenon, <1>1, <1>3, LineFacts DEF Parse
  <2>3. /\ r \in Pack
        /\ r.updates = <<item.update>>
        /\ r.kind = p.request.kind /\ r.options = p.request.options /\ r.hasPack = p.request.hasPack
    <3>1. PICK b \in BOOLEAN :
            r = [p.request EXCEPT !.format = FormatOf(caps), !.capabilities = caps,
                                  !.atomic = b, !.updates = <<item.update>>]
      <4>1. ("atomic" \in caps) \in BOOLEAN
        OBVIOUS
      <4>2. WITNESS ("atomic" \in caps) \in BOOLEAN
      <4> QED
        BY Zenon
    <3> HIDE DEF r
    <3> QED
      BY <2>1, <2>2, <3>1, Zenon DEF Pack
  <2> HIDE DEF r
  <2>4. q \in Parse /\ q.carrier /\ q.phase = "lines" /\ q.request = r
    BY <1>1, <2>3, Zenon DEF Parse
  <2> HIDE DEF q
  <2>5. Len(r.updates) = 1 /\ r.updates[1] = item.update
    BY Zenon, <2>3, Singleton
  <2>6. \A i \in 1..Len(r.updates) : r.updates[i].kind \in UpdateKind
    BY <1>3, <2>5 DEF parseUpdate
  <2>7. r.kind = "push" /\ r.options = 0 /\ ~r.hasPack
    BY Zenon, <1>1, <2>2, <2>3 DEF BeforeCommands, Pack
  <2>8. WithCommands(q)
    BY <2>4, <2>5, <2>6, <2>7 DEF WithCommands
  <2> QED
    BY Zenon, <1>3, <2>4, <2>8 DEF ParseInv
<1> QED
  BY Zenon, <1>2, <1>3 DEF FirstCarrier

\* A later command adds one update.
LEMMA LaterCommandInv ==
  ASSUME NEW p, NEW item \in Line, ParseInv(p), p.carrier, p.phase = "lines"
  PROVE  ParseInv(LaterCommand(p, item))
<1> DEFINE r == [p.request EXCEPT !.updates = Append(@, item.update)]
           q == [p EXCEPT !.request = r]
<1>1. p \in Parse /\ WithCommands(p)
  BY Zenon DEF ParseInv
<1>2. CASE LaterCommand(p, item) = Failed(p)
  BY Zenon, <1>1, <1>2, FailedInv
<1>3. CASE LaterCommand(p, item) = q /\ item.type = "command" /\ parseUpdate(item, p.request.format)
  <2>1. p.request.updates \in Seq(Update) /\ item.update \in Update
    BY Zenon, <1>1, <1>3, LineFacts DEF Parse, Pack
  <2>2. /\ r \in Pack
        /\ r.updates = Append(p.request.updates, item.update)
        /\ r.kind = p.request.kind /\ r.options = p.request.options /\ r.hasPack = p.request.hasPack
    <3>1. p.request \in Pack /\ Append(p.request.updates, item.update) \in Seq(Update)
      BY <1>1, <2>1 DEF Parse
    <3> QED
      BY <3>1, PackUpdates, Zenon
  <2> HIDE DEF r
  <2>3. q \in Parse /\ q.carrier /\ q.phase = "lines" /\ q.request = r
    BY Zenon, <1>1, <2>2 DEF Parse
  <2> HIDE DEF q
  <2>4. item.update.kind \in UpdateKind
    BY Zenon, <1>3 DEF parseUpdate
  <2>5. Len(r.updates) > 0 /\ \A i \in 1..Len(r.updates) : r.updates[i].kind \in UpdateKind
    BY <1>1, <2>1, <2>2, <2>4 DEF WithCommands
  <2>6. WithCommands(q)
    BY <1>1, <2>2, <2>3, <2>5, Zenon DEF WithCommands
  <2> QED
    BY Zenon, <1>3, <2>3, <2>6 DEF ParseInv
<1> QED
  BY Zenon, <1>2, <1>3 DEF LaterCommand

\* A shallow line comes before any command.
LEMMA ShallowInv ==
  ASSUME NEW p, NEW item \in Line, ParseInv(p), ~p.carrier, p.phase = "lines",
         item.type = "shallow"
  PROVE  ParseInv(Shallow(p, item))
<1> DEFINE q == [p EXCEPT !.shallows = Append(@, item.format)]
<1>1. p \in Parse /\ BeforeCommands(p)
  BY Zenon DEF ParseInv
<1>2. q \in Parse /\ ~q.carrier /\ q.phase = p.phase /\ q.request = p.request
  <2>1. item.format \in Format
    BY Zenon, LineFacts
  <2> QED
    BY SMTT(30), <1>1, <2>1 DEF Parse
<1> HIDE DEF q
<1>3. ParseInv(q)
  BY Zenon, <1>1, <1>2 DEF ParseInv, BeforeCommands
<1> QED
  BY Zenon, <1>1, <1>3, FailedInv DEF Shallow, q

\* An option is only read when options were negotiated.
LEMMA PushOptionInv ==
  ASSUME NEW p, NEW item, ParseInv(p), p.phase = "options"
  PROVE  ParseInv(PushOption(p, item))
<1> DEFINE r == [p.request EXCEPT !.options = @ + 1]
           q == [p EXCEPT !.request = r]
<1>1. p \in Parse /\ p.carrier /\ WithCommands(p)
  BY Zenon DEF ParseInv, BeforeCommands
<1>2. /\ r \in Pack /\ r.kind = p.request.kind /\ r.updates = p.request.updates
      /\ r.capabilities = p.request.capabilities /\ r.negotiated = p.request.negotiated
      /\ r.hasPack = p.request.hasPack
  BY SMTT(30), <1>1 DEF Parse, Pack
<1> HIDE DEF r
<1>3. q \in Parse /\ q.carrier /\ q.phase = "options" /\ q.request = r
  BY Zenon, <1>1, <1>2 DEF Parse
<1> HIDE DEF q
<1>4. WithCommands(q)
  BY Zenon, <1>1, <1>2, <1>3 DEF WithCommands
<1>5. ParseInv(q)
  BY Zenon, <1>3, <1>4 DEF ParseInv
<1> QED
  BY Zenon, <1>1, <1>5, FailedInv DEF PushOption, q, r

\* The pack signature is only looked for when an update needs a pack.
LEMMA SignatureInv ==
  ASSUME NEW p, ParseInv(p), p.phase = "signature"
  PROVE  ParseInv(Signature(p))
<1> DEFINE q == Signature(p)
<1>1. p \in Parse /\ p.carrier /\ WithCommands(p)
  BY Zenon DEF ParseInv, BeforeCommands
<1>2. /\ q \in Parse /\ q.carrier /\ q.phase = "done" /\ q.request.hasPack
      /\ q.request.kind = p.request.kind
      /\ q.request.updates = p.request.updates
      /\ q.request.capabilities = p.request.capabilities
      /\ q.request.negotiated = p.request.negotiated
      /\ q.request.options = p.request.options
  BY <1>1, Zenon DEF Parse, Pack, Signature
<1> HIDE DEF q
<1>3. WithCommands(q)
  BY Zenon, <1>1, <1>2 DEF WithCommands
<1> QED
  BY Zenon, <1>2, <1>3 DEF ParseInv, q

\* The flush that ends the commands rejects duplicate refs (rejectDuplicateRefs).
LEMMA FlushInv ==
  ASSUME NEW p, ParseInv(p), p.phase \notin {"done", "failed"}
  PROVE  ParseInv(Flush(p))
<1>1. p \in Parse
  BY Zenon DEF ParseInv
<1>2. CASE p.phase = "lines" /\ ~p.carrier
  <2> DEFINE noop == p.shallows # <<>>
             r == [p.request EXCEPT !.kind = IF noop THEN "noop" ELSE "probe",
                                    !.format = IF noop THEN p.shallows[1] ELSE "sha1"]
             q == [p EXCEPT !.phase = "end", !.request = r]
  <2>1. BeforeCommands(p) /\ p.request \in Pack /\ p.shallows \in Seq(Format)
    BY Zenon, <1>2 DEF ParseInv, Parse
  <2>2. (IF noop THEN p.shallows[1] ELSE "sha1") \in Format
    BY <2>1 DEF Format
  <2>3. /\ r \in Pack /\ r.kind # "push" /\ r.updates = p.request.updates
        /\ r.options = p.request.options /\ r.hasPack = p.request.hasPack
    BY <2>1, <2>2, Zenon DEF Pack
  <2> HIDE DEF r
  <2>4. q \in Parse /\ ~q.carrier /\ q.phase = "end" /\ q.request = r
    BY <1>1, <1>2, <2>3, Zenon DEF Parse
  <2> HIDE DEF q
  <2>5. ParseInv(q)
    BY Zenon, <2>1, <2>3, <2>4 DEF ParseInv, BeforeCommands
  <2>6. Flush(p) = IF \E i \in 1..Len(p.shallows) : p.shallows[i] # p.shallows[1] THEN Failed(p) ELSE q
    BY <1>2, Zenon DEF Flush, q, r
  <2> QED
    BY Zenon, <1>1, <2>5, <2>6, FailedInv
<1>3. CASE p.phase = "lines" /\ p.carrier
  <2> DEFINE negotiated == "push-options" \in p.request.capabilities
             r == [p.request EXCEPT !.negotiated = negotiated]
             known == [p EXCEPT !.request = r]
             q == [known EXCEPT !.phase = "options"]
  <2>1. WithCommands(p) /\ p.request \in Pack
    BY Zenon, <1>3 DEF ParseInv, Parse
  <2>2. /\ r \in Pack /\ r.kind = p.request.kind /\ r.updates = p.request.updates
        /\ r.capabilities = p.request.capabilities /\ r.negotiated = negotiated
        /\ r.options = p.request.options /\ r.hasPack = p.request.hasPack
    <3>1. negotiated \in BOOLEAN
      OBVIOUS
    <3> QED
      BY <2>1, <3>1, PackNegotiated, Zenon
  <2> HIDE DEF r
  <2>3. known \in Parse /\ known.carrier /\ known.phase = "lines" /\ known.request = r
    BY Zenon, <1>1, <1>3, <2>2 DEF Parse
  <2> HIDE DEF known
  <2>4. q \in Parse /\ q.carrier /\ q.phase = "options" /\ q.request = r
    BY Zenon, <2>3 DEF Parse
  <2> HIDE DEF q
  <2>5. WithCommands(known)
    BY Zenon, <1>3, <2>1, <2>2, <2>3 DEF WithCommands
  <2>6. ParseInv(known)
    BY Zenon, <2>3, <2>5 DEF ParseInv
  <2>7. CASE ~Distinct(p.request.updates)
    BY Zenon, <1>1, <1>3, <2>7, FailedInv DEF Flush
  <2>8. CASE Distinct(p.request.updates) /\ negotiated
    <3>1. WithCommands(q)
      BY <1>3, <2>1, <2>2, <2>4, <2>8, Zenon DEF WithCommands
    <3>2. Flush(p) = q
      BY Zenon, <1>3, <2>8 DEF Flush, q, known, r
    <3> QED
      BY Zenon, <2>4, <3>1, <3>2 DEF ParseInv
  <2>9. CASE Distinct(p.request.updates) /\ ~negotiated
    <3>1. Flush(p) = AfterCommands(known)
      BY Zenon, <1>3, <2>9 DEF Flush, known, r
    <3>2. p.request.options = 0
      BY Zenon, <1>3, <2>1 DEF WithCommands
    <3> QED
      BY Zenon, <2>2, <2>3, <2>6, <2>9, <3>1, <3>2, AfterCommandsInv
  <2> QED
    BY Zenon, <2>7, <2>8, <2>9
<1>4. CASE p.phase = "options"
  <2>1. p.carrier /\ WithCommands(p)
    BY Zenon, <1>4 DEF ParseInv, BeforeCommands
  <2>2. Flush(p) = AfterCommands(p)
    BY Zenon, <1>4 DEF Flush
  <2> QED
    BY Zenon, <1>4, <2>1, <2>2, AfterCommandsInv DEF WithCommands
<1>5. CASE p.phase \notin {"lines", "options"}
  BY Zenon, <1>1, <1>5, FailedInv DEF Flush
<1> QED
  BY Zenon, <1>1, <1>2, <1>3, <1>4, <1>5 DEF Parse

\* Counting an item leaves the rest of the parse alone.
LEMMA CountedInv ==
  ASSUME NEW p, ParseInv(p)
  PROVE  LET next == [p EXCEPT !.read = @ + 1]
         IN  /\ ParseInv(next) /\ next.phase = p.phase /\ next.carrier = p.carrier
<1> DEFINE next == [p EXCEPT !.read = @ + 1]
<1>1. next \in Parse /\ next.phase = p.phase /\ next.carrier = p.carrier /\ next.request = p.request
  BY DEF ParseInv, Parse
<1> HIDE DEF next
<1>2. ParseInv(next)
  BY Zenon, <1>1 DEF ParseInv, WithCommands, BeforeCommands
<1> QED
  BY Zenon, <1>1, <1>2 DEF next

\* One pkt-line, whatever it is.
LEMMA ParseItemInv ==
  ASSUME NEW p, NEW item \in Line, ParseInv(p), p.phase \notin {"done", "failed"}
  PROVE  ParseInv(ParseItem(p, item))
<1> DEFINE next == [p EXCEPT !.read = @ + 1]
<1>1. /\ ParseInv(next) /\ next.phase = p.phase /\ next.carrier = p.carrier
      /\ next \in Parse /\ p \in Parse
  BY Zenon, CountedInv DEF ParseInv
<1> HIDE DEF next
<1>2. CASE p.read >= MaxPrefix \/ p.phase = "end"
  BY Zenon, <1>1, <1>2, FailedInv DEF ParseItem
<1> DEFINE going == ~(p.read >= MaxPrefix \/ p.phase = "end")
<1> HIDE DEF going
<1>3. CASE going /\ p.phase = "signature"
  BY <1>1, <1>3, FailedInv, SignatureInv, Zenon DEF ParseItem, next, going
<1>4. CASE going /\ p.phase # "signature" /\ item.type = "flush"
  BY <1>1, <1>4, FlushInv, Zenon DEF ParseItem, next, going
<1>5. CASE going /\ p.phase = "options" /\ item.type # "flush"
  BY <1>1, <1>5, PushOptionInv, Zenon DEF ParseItem, next, going
<1>6. CASE going /\ p.phase = "lines" /\ item.type # "flush"
  <2>1. CASE item.type = "shallow" /\ ~p.carrier
    BY <1>1, <1>6, <2>1, ShallowInv, Zenon DEF ParseItem, next, going
  <2>2. CASE item.type # "shallow" /\ ~p.carrier
    BY <1>1, <1>6, <2>2, FirstCarrierInv, Zenon DEF ParseItem, next, going
  <2>3. CASE p.carrier
    BY <1>1, <1>6, <2>3, LaterCommandInv, Zenon DEF ParseItem, next, going
  <2> QED
    BY Zenon, <2>1, <2>2, <2>3
<1> QED
  BY Zenon, <1>1, <1>2, <1>3, <1>4, <1>5, <1>6 DEF Parse, going

\* The end of the body (requireEOF).
LEMMA ParseEndInv ==
  ASSUME NEW p, ParseInv(p)
  PROVE  ParseInv(ParseEnd(p))
<1> DEFINE q == [p EXCEPT !.phase = "done"]
<1>1. p \in Parse
  BY Zenon DEF ParseInv
<1>2. CASE p.phase = "end"
  <2>1. q \in Parse /\ q.phase = "done" /\ q.carrier = p.carrier /\ q.request = p.request
    BY Zenon, <1>1 DEF Parse
  <2> HIDE DEF q
  <2>2. CASE p.carrier
    BY Zenon, <1>2, <2>1, <2>2 DEF ParseInv, WithCommands, ParseEnd, q
  <2>3. CASE ~p.carrier
    BY Zenon, <1>2, <2>1, <2>3 DEF ParseInv, BeforeCommands, ParseEnd, q
  <2> QED
    BY Zenon, <2>2, <2>3
<1>3. CASE p.phase # "end"
  BY Zenon, <1>1, <1>3, FailedInv DEF ParseEnd
<1> QED
  BY Zenon, <1>2, <1>3

\* Nothing has been read.
LEMMA StartInv == ParseInv(StartParse)
<1>1. [NoReceivePack EXCEPT !.kind = "push"] \in Pack
  <2>1. NoReceivePack \in [kind : {"none"}, format : Format, updates : Seq(Update),
                           capabilities : SUBSET STRING, options : Nat, negotiated : BOOLEAN,
                           signed : BOOLEAN, atomic : BOOLEAN, hasPack : BOOLEAN]
    BY DEF NoReceivePack, Format
  <2> QED
    BY Zenon, <2>1 DEF Pack
<1>2. StartParse \in Parse
  BY <1>1 DEF StartParse, Parse
<1>3. BeforeCommands(StartParse)
  BY Zenon DEF StartParse, BeforeCommands, NoReceivePack
<1>4. StartParse.carrier = FALSE
  BY Zenon DEF StartParse
<1> QED
  BY Zenon, <1>2, <1>3, <1>4 DEF ParseInv

\* A finished parse: its push is one Evaluate takes (validateReceiveForPolicy
\* finds nothing the parser let through), says whether a pack follows as its
\* updates need one, and a body without commands yields no updates.
ParsedIsValid ==
  parse.phase = "done" =>
    LET request == parse.request
    IN  IF request.kind = "push"
        THEN /\ request.updates # <<>> /\ validateReceiveForPolicy(request)
             /\ request.hasPack <=> NeedsPack(request.updates)
        ELSE request.kind \in {"probe", "noop"} /\ request.updates = <<>> /\ ~request.hasPack

\* Whatever the body, ParseReceivePackPrefix returns a request that the
\* policy's own validation accepts: the two files agree on what a push is.
THEOREM ParserAgreesWithPolicy == Parsing => []ParsedIsValid
<1>1. parse = StartParse => ParseInv(parse)
  BY Zenon, StartInv
<1>2. ParseInv(parse) /\ [ParseNext]_parse => ParseInv(parse)'
  <2> SUFFICES ASSUME ParseInv(parse), [ParseNext]_parse
               PROVE  ParseInv(parse')
    BY Zenon
  <2>1. CASE ParseNext
    BY Zenon, <2>1, ParseItemInv, ParseEndInv DEF ParseNext
  <2>2. CASE UNCHANGED parse
    BY Zenon, <2>2
  <2> QED
    BY Zenon, <2>1, <2>2
<1>3. ParseInv(parse) => ParsedIsValid
  <2> SUFFICES ASSUME ParseInv(parse), parse.phase = "done"
               PROVE  ParsedIsValid
    BY Zenon DEF ParsedIsValid
  <2>1. parse.request \in Pack
    BY Zenon DEF ParseInv, Parse
  <2>2. CASE parse.carrier
    <3>1. WithCommands(parse)
      BY Zenon, <2>2 DEF ParseInv
    <3>2. parse.request.updates # <<>>
      BY <3>1 DEF WithCommands
    <3>3. validateReceiveForPolicy(parse.request)
      BY Zenon, <2>1, <3>1 DEF WithCommands, validateReceiveForPolicy, Distinct, Pack, Format
    <3> QED
      BY Zenon, <3>1, <3>2, <3>3 DEF WithCommands, ParsedIsValid
  <2>3. CASE ~parse.carrier
    BY Zenon, <2>1, <2>3 DEF ParseInv, BeforeCommands, ParsedIsValid, Pack
  <2> QED
    BY Zenon, <2>2, <2>3
<1> QED
  BY <1>1, <1>2, <1>3, PTL DEF Parsing

-----------------------------------------------------------------------------
(* The request of an exchange *)

Stage == {"classify", "preflight", "prepare", "parse", "judge", "release", "forward",
          "first", "copy", "ended"}

Route == [phase : {"discovery", "rpc"}, service : {"upload-pack", "receive-pack"}, version : 0..2]

Body(S) ==
  [open : BOOLEAN, gzip : BOOLEAN, trailer : BOOLEAN, sent : Seq(S), closed : BOOLEAN,
   spoiled : BOOLEAN, buffered : Seq(S), prefix : Seq(S), count : Nat, charged : Nat,
   terminal : {"nil", "gzip", "trailer"},
   ended : {"open", "eof", "gzip", "trailer", "limit", "failed", "budget"}]

\* What the client of this service can send.
Sendable == IF route.service = "upload-pack" THEN {Data} ELSE Line

RequestTypes ==
  /\ stage \in Stage /\ route \in Route /\ upEnd \in {"none", "open", "eof", "broken"}
  /\ body \in Body(Sendable) /\ replay \in Seq(Sendable) /\ up \in Seq(Sendable)
  /\ ParseInv(parse)

\* When there is a body, and when it is on its way.
Stages ==
  /\ stage = "forward" => upEnd # "none"
  /\ upEnd # "none" => stage \in {"forward", "ended"}
  /\ stage \in {"judge", "prepare", "parse"} \/ body.open => route.phase = "rpc"
  /\ stage = "preflight" => route.phase = "discovery"
  /\ stage = "classify" => ~body.open
  /\ upEnd = "open" => body.open
  /\ ~body.open => body = NoBody /\ up = <<>> /\ replay = <<>>

\* What gitMeteredReader keeps of a body.
Metering(b) ==
  /\ b.count <= maximum /\ b.charged = b.count
  /\ b.ended = "eof" => b.closed /\ ~b.spoiled
  /\ b.ended \in {"open", "eof"} => b.count = Len(b.sent)

\* Nothing of a body is lost, repeated or moved while it is read, parsed,
\* replayed and sent.
Handed == IF upEnd = "none" THEN body.prefix ELSE up \o replay

Flow ==
  /\ Metering(body)
  /\ upEnd = "none" => up = <<>> /\ replay = <<>>
  /\ body.ended \in {"open", "eof"} => body.sent = Handed \o body.buffered
  /\ upEnd = "eof" /\ body.open => body.ended = "eof" /\ replay = <<>> /\ body.buffered = <<>>

\* The parser's bytes come first.
Replayed ==
  \/ upEnd = "none"
  \/ up = <<>> /\ replay = body.prefix
  \/ /\ replay = <<>> /\ Len(body.prefix) <= Len(up)
     /\ \A i \in 1..Len(body.prefix) : up[i] = body.prefix[i]

\* The lines before the first flush.
Heads(s) == {i \in 1..Len(s) : \A j \in 1..i : s[j].type # "flush"}

\* What the parser has made of the lines it has read.
Tracked(p, s) ==
  p.phase # "failed" =>
    /\ p.phase = "lines" => \A i \in 1..Len(s) : s[i].type # "flush"
    /\ p.phase # "lines" => \E i \in 1..Len(s) : s[i].type = "flush"
    /\ \A i \in Heads(s) :
         s[i].type = "command" =>
           /\ p.carrier /\ s[i].capabilities \subseteq p.request.capabilities
           /\ \E k \in 1..Len(p.request.updates) : p.request.updates[k] = s[i].update
    /\ p.carrier =>
         /\ \E i \in Heads(s) : s[i].type = "command" /\ s[i].capabilities = p.request.capabilities
         /\ p.request.format = FormatOf(p.request.capabilities)
         /\ p.request.atomic = ("atomic" \in p.request.capabilities)
    /\ ~p.request.signed

Judged ==
  route.service = "receive-pack" /\ route.phase = "rpc" =>
    /\ stage = "judge" => parse.phase = "done"
    /\ stage = "release" \/ upEnd # "none" => parse.phase = "done" /\ Decide(rules) = "allowed"

RequestInv ==
  RequestTypes /\ Stages /\ Flow /\ Replayed /\ Tracked(parse, body.prefix) /\ Judged

\* Moving an item from one buffer to the next keeps the bytes in order.
LEMMA MoveHead ==
  ASSUME NEW S, NEW p \in Seq(S), NEW b \in Seq(S), b # <<>>
  PROVE  /\ Head(b) \in S /\ Tail(b) \in Seq(S) /\ Append(p, Head(b)) \in Seq(S)
         /\ Append(p, Head(b)) \o Tail(b) = p \o b
<1>1. Head(b) \in S /\ Tail(b) \in Seq(S) /\ Append(p, Head(b)) \in Seq(S)
  OBVIOUS
<1> DEFINE l == Append(p, Head(b)) \o Tail(b)
           r == p \o b
<1>2. l \in Seq(S) /\ r \in Seq(S) /\ Len(l) = Len(r)
  BY <1>1
<1>3. \A i \in 1..Len(r) : l[i] = r[i]
  BY <1>1
<1>4. l = r
  BY Zenon, <1>2, <1>3, SameSequence
<1> QED
  BY Zenon, <1>1, <1>4

\* Items are some of what can be sent.
LEMMA ClientItems ==
  /\ ClientItem \subseteq Sendable /\ Sendable \subseteq Line
  /\ \A n \in Nat : \A items \in Items(n) : items \in Seq(Sendable) /\ Len(items) = n
<1>1. ClientItem \subseteq Sendable /\ Sendable \subseteq Line
  BY Zenon DEF ClientItem, Sendable, Line
<1>2. ASSUME NEW n \in Nat, NEW items \in Items(n)
      PROVE  items \in Seq(Sendable) /\ Len(items) = n
  <2>1. items \in [1..n -> Sendable]
    BY Zenon, <1>1 DEF Items
  <2> QED
    BY <2>1
<1> QED
  BY Zenon, <1>1, <1>2


\* What a read may do to a body: it keeps the books, and as long as the body has
\* not failed, what was sent and what waits to be handed on grow by the same.
ReadTo(b, c) ==
  /\ c \in Body(Sendable) /\ Metering(c)
  /\ c.open = b.open /\ c.prefix = b.prefix
  /\ c.ended \in {"open", "eof"} => c.sent = b.sent \o c.buffered

\* An error, now or kept for this call, hands on nothing.
LEMMA ReadErrors ==
  ASSUME NEW b \in Body(Sendable), NEW c \in Body(Sendable),
         b.ended = "open", b.buffered = <<>>, Metering(b),
         c.ended \notin {"open", "eof"},
         c.open = b.open, c.prefix = b.prefix, c.count = b.count, c.charged = b.charged
  PROVE  ReadTo(b, c)
BY Zenon DEF ReadTo, Metering, Body

\* gitMeteredReader.Read, with the readers under it.
LEMMA ReadStep ==
  ASSUME body \in Body(Sendable), Metering(body), body.ended = "open", body.buffered = <<>>, Read
  PROVE  ReadTo(body, body')
<1>1. CASE body.terminal # "nil" /\ body' = [body EXCEPT !.terminal = "nil", !.ended = body.terminal]
  <2>1. /\ body' \in Body(Sendable) /\ body'.ended = body.terminal
        /\ body'.open = body.open /\ body'.prefix = body.prefix
        /\ body'.count = body.count /\ body'.charged = body.charged
    BY Zenon, <1>1 DEF Body
  <2>2. body'.ended \notin {"open", "eof"}
    BY Zenon, <1>1, <2>1 DEF Body
  <2> QED
    BY Zenon, <2>1, <2>2, ReadErrors
<1>2. CASE body.terminal = "nil" /\ body.count >= maximum /\ Probe
  <2>1. ASSUME NEW item \in ClientItem,
               body' = [body EXCEPT !.sent = Append(@, item), !.ended = "limit"]
        PROVE  ReadTo(body, body')
    <3>1. item \in Sendable
      BY Zenon, ClientItems
    <3>2. Append(body.sent, item) \in Seq(Sendable)
      BY <3>1 DEF Body
    <3>3. /\ body' \in Body(Sendable) /\ body'.ended = "limit"
          /\ body'.open = body.open /\ body'.prefix = body.prefix
          /\ body'.count = body.count /\ body'.charged = body.charged
      BY Zenon, <2>1, <3>2 DEF Body
    <3> QED
      BY Zenon, <3>3, ReadErrors
  <2>2. ASSUME NEW junk \in {FALSE, body.gzip},
               body' = [body EXCEPT !.closed = TRUE, !.spoiled = junk \/ body.trailer,
                                    !.ended = EndOfStream(junk)]
        PROVE  ReadTo(body, body')
    <3>1. /\ EndOfStream(junk) \in {"gzip", "trailer", "eof"}
          /\ EndOfStream(junk) = "eof" => ~(junk \/ body.trailer)
          /\ (junk \/ body.trailer) \in BOOLEAN
      BY Zenon DEF EndOfStream
    <3> DEFINE bad == junk \/ body.trailer
               end == EndOfStream(junk)
    <3> HIDE DEF bad, end
    <3>2. bad \in BOOLEAN /\ end \in {"gzip", "trailer", "eof"} /\ (end = "eof" => ~bad)
      BY Zenon, <3>1 DEF bad, end
    <3>3. body' = [body EXCEPT !.closed = TRUE, !.spoiled = bad, !.ended = end]
      BY Zenon, <2>2 DEF bad, end
    <3>4. /\ body' \in Body(Sendable) /\ body'.ended = end /\ body'.closed /\ body'.spoiled = bad
          /\ body'.open = body.open /\ body'.prefix = body.prefix /\ body'.sent = body.sent
          /\ body'.buffered = body.buffered
          /\ body'.count = body.count /\ body'.charged = body.charged
      BY Zenon, <3>2, <3>3 DEF Body
    <3>5. body.sent = body.sent \o <<>>
      BY Zenon, JoinedEmpty DEF Body
    <3> QED
      BY Zenon, <3>2, <3>4, <3>5 DEF ReadTo, Metering
  <2>3. ASSUME body' = [body EXCEPT !.ended = "failed"]
        PROVE  ReadTo(body, body')
    <3>1. /\ body' \in Body(Sendable) /\ body'.ended = "failed"
          /\ body'.open = body.open /\ body'.prefix = body.prefix
          /\ body'.count = body.count /\ body'.charged = body.charged
      BY Zenon, <2>3 DEF Body
    <3> QED
      BY Zenon, <3>1, ReadErrors
  <2> QED
    BY Zenon, <1>2, <2>1, <2>2, <2>3 DEF Probe
<1>3. ASSUME NEW n \in 0..MaxRead, n <= maximum - body.count, NEW items \in Items(n), Metered(items)
      PROVE  ReadTo(body, body')
  <2>1. items \in Seq(Sendable) /\ Len(items) = n /\ n \in Nat
    BY ClientItems, ExchangeAssumption
  <2>2. body.sent \o items \in Seq(Sendable) /\ body.buffered \o items = items
    BY <2>1, JoinedEmpty DEF Body
  <2>3. ASSUME NEW err \in {"budget"} \cup (IF body.gzip THEN {"gzip"} ELSE {}),
               body' = [body EXCEPT !.sent = @ \o items, !.ended = err]
        PROVE  ReadTo(body, body')
    <3>1. err \in {"budget", "gzip"}
      BY Zenon
    <3>2. /\ body' \in Body(Sendable) /\ body'.ended = err
          /\ body'.open = body.open /\ body'.prefix = body.prefix
          /\ body'.count = body.count /\ body'.charged = body.charged
      BY Zenon, <2>2, <2>3, <3>1 DEF Body
    <3> QED
      BY Zenon, <3>1, <3>2, ReadErrors
  <2>4. ASSUME NEW err \in {"nil", "eof", "failed"}, NEW junk \in {FALSE, body.gzip},
               body' = Delivered(items, err, junk)
        PROVE  ReadTo(body, body')
    <3> DEFINE end == EndOfStream(junk)
               later == items # <<>> /\ end # "eof"
               closed == err = "eof"
               bad == err = "eof" /\ (junk \/ body.trailer)
               terminal == IF err = "eof" /\ later THEN end ELSE "nil"
               ended == CASE err = "nil" -> "open"
                          [] err = "failed" -> "failed"
                          [] OTHER -> IF later THEN "open" ELSE end
               count == body.count + Len(items)
               sent == body.sent \o items
    <3>1. /\ end \in {"gzip", "trailer", "eof"}
          /\ end = "eof" => ~(junk \/ body.trailer)
      BY Zenon DEF EndOfStream
    <3> HIDE DEF end
    <3>2. closed \in BOOLEAN /\ bad \in BOOLEAN
      BY Zenon
    <3>3. terminal \in {"nil", "gzip", "trailer"} /\ ended \in {"open", "failed", "gzip", "trailer", "eof"}
      BY Zenon, <3>1
    <3>4. ended = "eof" => closed /\ ~bad
      BY Zenon, <3>1
    <3>5. count \in Nat /\ count <= maximum
      BY <1>3, <2>1, ExchangeAssumption DEF Body, Metering
    <3>6. body.charged = body.count /\ body.count = Len(body.sent)
      BY Zenon DEF Metering
    <3>7. body' = [body EXCEPT !.sent = sent, !.buffered = items, !.count = count,
                               !.charged = count, !.closed = closed, !.spoiled = bad,
                               !.terminal = terminal, !.ended = ended]
      BY Zenon, <2>2, <2>4, <3>6 DEF end, Delivered
    <3>8. Len(sent) = count /\ sent \in Seq(Sendable)
      <4>1. body.sent \in Seq(Sendable)
        BY Zenon DEF Body
      <4>2. Len(sent) = Len(body.sent) + Len(items) /\ sent \in Seq(Sendable)
        BY <2>1, <4>1, Joined, Zenon
      <4> QED
        BY Zenon, <3>6, <4>2
    <3> HIDE DEF closed, bad, terminal, ended, count, sent
    <3>9. /\ body' \in Body(Sendable) /\ body'.ended = ended /\ body'.closed = closed
          /\ body'.spoiled = bad /\ body'.count = count /\ body'.charged = count
          /\ body'.open = body.open /\ body'.prefix = body.prefix
          /\ body'.sent = sent /\ body'.buffered = items
      BY ZenonT(60), <2>1, <3>2, <3>3, <3>5, <3>7, <3>8 DEF Body
    <3>10. body'.sent = body.sent \o body'.buffered
      BY Zenon, <3>9 DEF sent
    <3> QED
      BY Zenon, <3>4, <3>5, <3>8, <3>9, <3>10 DEF ReadTo, Metering
  <2> QED
    BY Zenon, <1>3, <2>3, <2>4 DEF Metered
<1> QED
  BY Zenon, <1>1, <1>2, <1>3 DEF Read

\* A parse that goes on with what it knows of the commands.
SameCommands(p, q) ==
  /\ q.carrier = p.carrier
  /\ q.request.updates = p.request.updates /\ q.request.capabilities = p.request.capabilities
  /\ p.carrier => q.request.format = p.request.format
  /\ q.request.atomic = p.request.atomic /\ q.request.signed = p.request.signed

\* A line more changes nothing of what came before the first flush.
LEMMA HeadsAppend ==
  ASSUME NEW s \in Seq(Line), NEW x \in Line
  PROVE  LET t == Append(s, x)
         IN  /\ t \in Seq(Line) /\ Len(t) = Len(s) + 1 /\ t[Len(t)] = x
             /\ \A i \in 1..Len(s) : t[i] = s[i]
             /\ \A i \in 1..Len(s) : i \in Heads(t) <=> i \in Heads(s)
             /\ Heads(s) \subseteq 1..Len(s) /\ Heads(t) \subseteq 1..Len(t)
             /\ Len(t) \in Heads(t) <=> x.type # "flush" /\ \A i \in 1..Len(s) : s[i].type # "flush"
<1> DEFINE t == Append(s, x)
<1>1. /\ t \in Seq(Line) /\ Len(t) = Len(s) + 1 /\ t[Len(t)] = x
      /\ \A i \in 1..Len(s) : t[i] = s[i]
  OBVIOUS
<1> HIDE DEF t
<1>2. \A i \in 1..Len(s) : i \in Heads(t) <=> i \in Heads(s)
  BY <1>1 DEF Heads
<1>3. Heads(s) \subseteq 1..Len(s) /\ Heads(t) \subseteq 1..Len(t)
  BY Zenon DEF Heads
<1>4. Len(t) \in Heads(t) <=> x.type # "flush" /\ \A i \in 1..Len(s) : s[i].type # "flush"
  BY <1>1 DEF Heads
<1> QED
  BY Zenon, <1>1, <1>2, <1>3, <1>4 DEF t

\* After the first flush the commands are known.
LEMMA TrackedPast ==
  ASSUME NEW p, NEW q, NEW s \in Seq(Line), NEW x \in Line,
         Tracked(p, s), p.phase # "failed", SameCommands(p, q), q.phase # "lines",
         p.phase # "lines" \/ x.type = "flush"
  PROVE  Tracked(q, Append(s, x))
<1> DEFINE t == Append(s, x)
<1>1. /\ t \in Seq(Line) /\ Len(t) = Len(s) + 1 /\ t[Len(t)] = x
      /\ \A i \in 1..Len(s) : t[i] = s[i]
      /\ \A i \in 1..Len(s) : i \in Heads(t) <=> i \in Heads(s)
      /\ Heads(s) \subseteq 1..Len(s) /\ Heads(t) \subseteq 1..Len(t)
      /\ Len(t) \in Heads(t) <=> x.type # "flush" /\ \A i \in 1..Len(s) : s[i].type # "flush"
  BY HeadsAppend, Zenon
<1> HIDE DEF t
<1>2. Len(s) \in Nat
  OBVIOUS
<1>3. \E i \in 1..Len(t) : t[i].type = "flush"
  <2>1. CASE p.phase # "lines"
    <3>1. PICK i \in 1..Len(s) : s[i].type = "flush"
      BY Zenon, <2>1 DEF Tracked
    <3>2. i \in 1..Len(t) /\ t[i] = s[i]
      BY <1>1, <1>2
    <3> QED
      BY Zenon, <3>1, <3>2
  <2>2. CASE x.type = "flush"
    BY <1>1, <1>2, <2>2
  <2> QED
    BY Zenon, <2>1, <2>2
<1>4. Len(t) \notin Heads(t)
  <2>1. p.phase # "lines" => \E i \in 1..Len(s) : s[i].type = "flush"
    BY Zenon DEF Tracked
  <2> QED
    BY <1>1, <2>1, Zenon
<1>5. Heads(t) = Heads(s) /\ \A i \in Heads(s) : t[i] = s[i]
  <2>1. \A i \in Heads(t) : i \in 1..Len(s)
    BY <1>1, <1>2, <1>4
  <2> QED
    BY Zenon, <1>1, <2>1
<1>6. ASSUME NEW i \in Heads(t), t[i].type = "command"
      PROVE  /\ q.carrier /\ t[i].capabilities \subseteq q.request.capabilities
             /\ \E k \in 1..Len(q.request.updates) : q.request.updates[k] = t[i].update
  BY <1>5, <1>6 DEF Tracked, SameCommands
<1>7. q.carrier =>
        /\ \E i \in Heads(t) : t[i].type = "command" /\ t[i].capabilities = q.request.capabilities
        /\ q.request.format = FormatOf(q.request.capabilities)
        /\ q.request.atomic = ("atomic" \in q.request.capabilities)
  BY <1>5 DEF Tracked, SameCommands
<1>8. ~q.request.signed
  BY Zenon DEF Tracked, SameCommands
<1> QED
  BY Zenon, <1>3, <1>6, <1>7, <1>8 DEF Tracked, t

\* A shallow line before the commands.
LEMMA TrackedShallow ==
  ASSUME NEW p, NEW q, NEW s \in Seq(Line), NEW x \in Line,
         Tracked(p, s), p.phase = "lines", SameCommands(p, q), q.phase = "lines",
         x.type = "shallow"
  PROVE  Tracked(q, Append(s, x))
<1> DEFINE t == Append(s, x)
<1>1. /\ t \in Seq(Line) /\ Len(t) = Len(s) + 1 /\ t[Len(t)] = x
      /\ \A i \in 1..Len(s) : t[i] = s[i]
      /\ \A i \in 1..Len(s) : i \in Heads(t) <=> i \in Heads(s)
      /\ Heads(s) \subseteq 1..Len(s) /\ Heads(t) \subseteq 1..Len(t)
  BY HeadsAppend, Zenon
<1> HIDE DEF t
<1>2. Len(s) \in Nat
  OBVIOUS
<1>3. \A i \in 1..Len(t) : i \in 1..Len(s) \/ i = Len(t)
  BY <1>1, <1>2
<1>4. \A i \in 1..Len(t) : t[i].type # "flush"
  BY Zenon, <1>1, <1>3 DEF Tracked
<1>5. \A i \in Heads(t) : t[i].type = "command" => i \in Heads(s) /\ t[i] = s[i]
  BY Zenon, <1>1, <1>3
<1>6. \A i \in Heads(s) : i \in Heads(t) /\ t[i] = s[i]
  BY Zenon, <1>1
<1> QED
  BY ZenonT(60), <1>4, <1>5, <1>6 DEF Tracked, SameCommands, t

\* The command that brings the capabilities is the first.
LEMMA TrackedFirst ==
  ASSUME NEW p, NEW q, NEW s \in Seq(Line), NEW x \in Line,
         Tracked(p, s), p.phase = "lines", ~p.carrier, q.phase = "lines",
         x.type = "command", q.request.updates = <<x.update>>,
         q.request.capabilities = x.capabilities,
         q.request.format = FormatOf(x.capabilities),
         q.request.atomic = ("atomic" \in x.capabilities),
         q.request.signed = p.request.signed, q.carrier
  PROVE  Tracked(q, Append(s, x))
<1> DEFINE t == Append(s, x)
<1>1. /\ t \in Seq(Line) /\ Len(t) = Len(s) + 1 /\ t[Len(t)] = x
      /\ \A i \in 1..Len(s) : t[i] = s[i]
      /\ \A i \in 1..Len(s) : i \in Heads(t) <=> i \in Heads(s)
      /\ Heads(s) \subseteq 1..Len(s) /\ Heads(t) \subseteq 1..Len(t)
      /\ Len(t) \in Heads(t) <=> x.type # "flush" /\ \A i \in 1..Len(s) : s[i].type # "flush"
  BY HeadsAppend, Zenon
<1> HIDE DEF t
<1>2. Len(s) \in Nat
  OBVIOUS
<1>3. \A i \in 1..Len(t) : i \in 1..Len(s) \/ i = Len(t)
  BY <1>1, <1>2
<1>4. \A i \in 1..Len(t) : t[i].type # "flush"
  BY <1>1, <1>3 DEF Tracked
<1>5. \A i \in Heads(t) : t[i].type = "command" => t[i] = x
  BY <1>1, <1>3 DEF Tracked
<1>6. Len(t) \in Heads(t)
  BY Zenon, <1>1 DEF Tracked
<1>7. \E k \in 1..Len(q.request.updates) : q.request.updates[k] = x.update
  BY Singleton
<1> QED
  BY <1>1, <1>4, <1>5, <1>6, <1>7 DEF Tracked, t

\* A later command brings no capabilities.
LEMMA TrackedLater ==
  ASSUME NEW p, NEW q, NEW s \in Seq(Line), NEW x \in Line,
         Tracked(p, s), p.phase = "lines", p.carrier, q.phase = "lines",
         x.type = "command", x.capabilities = {},
         p.request.updates \in Seq(Update), x.update \in Update,
         q.request.updates = Append(p.request.updates, x.update),
         q.request.capabilities = p.request.capabilities,
         q.request.format = p.request.format, q.request.atomic = p.request.atomic,
         q.request.signed = p.request.signed, q.carrier
  PROVE  Tracked(q, Append(s, x))
<1> DEFINE t == Append(s, x)
<1>1. /\ t \in Seq(Line) /\ Len(t) = Len(s) + 1 /\ t[Len(t)] = x
      /\ \A i \in 1..Len(s) : t[i] = s[i]
      /\ \A i \in 1..Len(s) : i \in Heads(t) <=> i \in Heads(s)
      /\ Heads(s) \subseteq 1..Len(s) /\ Heads(t) \subseteq 1..Len(t)
  BY HeadsAppend, Zenon
<1> HIDE DEF t
<1>2. Len(s) \in Nat
  OBVIOUS
<1>3. \A i \in 1..Len(t) : i \in 1..Len(s) \/ i = Len(t)
  BY <1>1, <1>2
<1>4. \A i \in 1..Len(t) : t[i].type # "flush"
  BY <1>1, <1>3 DEF Tracked
<1> DEFINE u == p.request.updates
           v == q.request.updates
<1>5. /\ \A k \in 1..Len(u) : k \in 1..Len(v) /\ v[k] = u[k]
      /\ \E k \in 1..Len(v) : v[k] = x.update
  <2>1. Len(v) = Len(u) + 1 /\ v[Len(v)] = x.update /\ Len(u) \in Nat /\ \A k \in 1..Len(u) : v[k] = u[k]
    OBVIOUS
  <2> HIDE DEF u, v
  <2>2. Len(v) \in 1..Len(v) /\ \A k \in 1..Len(u) : k \in 1..Len(v)
    BY <2>1
  <2> QED
    BY Zenon, <2>1, <2>2
<1> HIDE DEF u, v
<1>6. ASSUME NEW i \in Heads(t), t[i].type = "command"
      PROVE  /\ t[i].capabilities \subseteq q.request.capabilities
             /\ \E k \in 1..Len(v) : v[k] = t[i].update
  <2>1. CASE i = Len(t)
    BY Zenon, <1>1, <1>5, <2>1
  <2>2. CASE i \in 1..Len(s)
    <3>1. i \in Heads(s) /\ t[i] = s[i]
      BY Zenon, <1>1, <2>2
    <3>2. PICK k \in 1..Len(u) : u[k] = s[i].update
      BY <1>6, <3>1 DEF Tracked, u
    <3>3. s[i].capabilities \subseteq p.request.capabilities
      BY <1>6, <3>1 DEF Tracked
    <3> QED
      BY <1>5, <3>1, <3>2, <3>3
  <2> QED
    BY Zenon, <1>1, <1>3, <2>1, <2>2
<1>7. \E i \in Heads(t) : t[i].type = "command" /\ t[i].capabilities = q.request.capabilities
  <2>1. PICK i \in Heads(s) : s[i].type = "command" /\ s[i].capabilities = p.request.capabilities
    BY Zenon DEF Tracked
  <2>2. i \in Heads(t) /\ t[i] = s[i]
    BY Zenon, <1>1
  <2> QED
    BY <2>1, <2>2
<1>8. /\ p.request.format = FormatOf(p.request.capabilities)
      /\ p.request.atomic = ("atomic" \in p.request.capabilities)
      /\ ~p.request.signed
  BY Zenon DEF Tracked
<1> QED
  BY Zenon, <1>4, <1>6, <1>7, <1>8 DEF Tracked, t, v

\* An error leaves nothing to track.
LEMMA TrackedFailed ==
  ASSUME NEW p \in Parse, NEW s
  PROVE  Tracked(Failed(p), s)
BY Zenon DEF Tracked, Failed, Parse

\* What AfterCommands changes.
LEMMA AfterCommandsSame ==
  ASSUME NEW p \in Parse
  PROVE  SameCommands(p, AfterCommands(p)) /\ AfterCommands(p).phase \in {"signature", "end"}
BY Zenon DEF AfterCommands, SameCommands, Parse

\* The flush after the commands, and the one after the push options.
LEMMA TrackFlush ==
  ASSUME NEW p \in Parse, NEW s \in Seq(Line), NEW x \in Line, Tracked(p, s),
         p.phase \notin {"done", "failed"}, x.type = "flush"
  PROVE  Tracked(Flush(p), Append(s, x))
<1>1. Flush(p) = Failed(p) \/ (SameCommands(p, Flush(p)) /\ Flush(p).phase # "lines")
  <2>1. CASE p.phase = "lines" /\ ~p.carrier
    <3> DEFINE noop == p.shallows # <<>>
               kind == IF noop THEN "noop" ELSE "probe"
               format == IF noop THEN p.shallows[1] ELSE "sha1"
               r == [p.request EXCEPT !.kind = kind, !.format = format]
               q == [p EXCEPT !.phase = "end", !.request = r]
    <3>1. p.request \in Pack
      BY Zenon DEF Parse
    <3>2. Flush(p) = Failed(p) \/ Flush(p) = q
      BY <2>1, Zenon DEF Flush
    <3> HIDE DEF kind, format
    <3>3. /\ r.updates = p.request.updates /\ r.capabilities = p.request.capabilities
          /\ r.atomic = p.request.atomic /\ r.signed = p.request.signed
      BY Zenon, <3>1 DEF Pack
    <3> HIDE DEF r
    <3>4. q.phase = "end" /\ q.request = r /\ q.carrier = p.carrier
      BY Zenon DEF Parse
    <3> HIDE DEF q
    <3>5. SameCommands(p, q)
      BY Zenon, <2>1, <3>3, <3>4 DEF SameCommands
    <3> QED
      BY Zenon, <3>2, <3>4, <3>5
  <2>2. CASE p.phase = "lines" /\ p.carrier
    <3> DEFINE negotiated == "push-options" \in p.request.capabilities
               r == [p.request EXCEPT !.negotiated = negotiated]
               known == [p EXCEPT !.request = r]
               q == [known EXCEPT !.phase = "options"]
    <3>1. p.request \in Pack /\ negotiated \in BOOLEAN
      BY DEF Parse
    <3>2. \/ Flush(p) = Failed(p)
          \/ Flush(p) = q
          \/ Flush(p) = AfterCommands(known)
      BY Zenon, <2>2 DEF Flush
    <3> HIDE DEF negotiated
    <3>3. /\ r.updates = p.request.updates /\ r.capabilities = p.request.capabilities
          /\ r.atomic = p.request.atomic /\ r.signed = p.request.signed
          /\ r.format = p.request.format /\ r \in Pack
      BY <3>1, Zenon DEF Pack
    <3> HIDE DEF r
    <3>4. known \in Parse /\ known.request = r /\ known.carrier = p.carrier
      BY Zenon, <3>3 DEF Parse
    <3> HIDE DEF known
    <3>5. q.request = r /\ q.carrier = p.carrier /\ q.phase = "options"
      BY Zenon, <3>4 DEF Parse
    <3> HIDE DEF q
    <3>6. SameCommands(p, known) /\ SameCommands(p, q)
      BY Zenon, <3>3, <3>4, <3>5 DEF SameCommands
    <3>7. SameCommands(known, AfterCommands(known)) /\ AfterCommands(known).phase # "lines"
      BY Zenon, <3>4, AfterCommandsSame
    <3>8. SameCommands(p, AfterCommands(known))
      BY Zenon, <3>6, <3>7 DEF SameCommands
    <3> QED
      BY Zenon, <3>2, <3>5, <3>6, <3>7, <3>8
  <2>3. CASE p.phase = "options"
    BY Zenon, <2>3, AfterCommandsSame DEF Flush
  <2>4. CASE p.phase \notin {"lines", "options"}
    BY Zenon, <2>4 DEF Flush
  <2> QED
    BY Zenon, <2>1, <2>2, <2>3, <2>4 DEF Parse
<1>2. CASE Flush(p) = Failed(p)
  BY Zenon, <1>2, TrackedFailed
<1>3. CASE SameCommands(p, Flush(p)) /\ Flush(p).phase # "lines"
  BY Zenon, <1>3, TrackedPast
<1> QED
  BY Zenon, <1>1, <1>2, <1>3

\* A line of the command list.
LEMMA TrackLine ==
  ASSUME NEW p \in Parse, NEW s \in Seq(Line), NEW x \in Line, Tracked(p, s),
         p.phase = "lines", x.type # "flush"
  PROVE  /\ p.carrier => Tracked(LaterCommand(p, x), Append(s, x))
         /\ ~p.carrier => Tracked(FirstCarrier(p, x), Append(s, x))
         /\ ~p.carrier /\ x.type = "shallow" => Tracked(Shallow(p, x), Append(s, x))
<1>1. ASSUME p.carrier PROVE Tracked(LaterCommand(p, x), Append(s, x))
  <2> DEFINE u == Append(p.request.updates, x.update)
             q == [p EXCEPT !.request.updates = Append(@, x.update)]
  <2>1. CASE LaterCommand(p, x) = Failed(p)
    BY Zenon, <2>1, TrackedFailed
  <2>2. CASE LaterCommand(p, x) = q /\ x.type = "command" /\ ~x.listed
    <3>1. x.capabilities = {} /\ x.update \in Update
      BY Zenon, <2>2, LineFacts
    <3>2. p.request.updates \in Seq(Update) /\ p.request \in Pack
      BY Zenon DEF Parse, Pack
    <3>3. /\ q.request = [p.request EXCEPT !.updates = u]
          /\ q.phase = p.phase /\ q.carrier = p.carrier
      BY Zenon DEF Parse
    <3> HIDE DEF q, u
    <3>4. /\ q.request.updates = u /\ q.request.capabilities = p.request.capabilities
          /\ q.request.format = p.request.format /\ q.request.atomic = p.request.atomic
          /\ q.request.signed = p.request.signed
      BY Zenon, <3>2, <3>3 DEF Pack
    <3> QED
      BY Zenon, <1>1, <2>2, <3>1, <3>2, <3>3, <3>4, TrackedLater DEF u
  <2> QED
    BY Zenon, <2>1, <2>2 DEF LaterCommand
<1>2. ASSUME ~p.carrier PROVE Tracked(FirstCarrier(p, x), Append(s, x))
  <2> DEFINE caps == x.capabilities
             format == FormatOf(caps)
             atomic == "atomic" \in caps
             u == <<x.update>>
             r == [p.request EXCEPT !.format = format, !.capabilities = caps,
                                    !.atomic = atomic, !.updates = u]
             q == [p EXCEPT !.carrier = TRUE, !.request = r]
  <2>1. CASE FirstCarrier(p, x) = Failed(p)
    BY Zenon, <2>1, TrackedFailed
  <2>2. CASE FirstCarrier(p, x) = q /\ x.type = "command"
    <3>1. p.request \in Pack
      BY Zenon DEF Parse
    <3> HIDE DEF caps, format, atomic, u
    <3>2. /\ r.updates = u /\ r.capabilities = caps /\ r.format = format /\ r.atomic = atomic
          /\ r.signed = p.request.signed
      BY <3>1, Zenon DEF Pack
    <3> HIDE DEF r
    <3>3. q.request = r /\ q.phase = p.phase /\ q.carrier
      BY Zenon DEF Parse
    <3> HIDE DEF q
    <3> QED
      BY Zenon, <1>2, <2>2, <3>2, <3>3, TrackedFirst DEF caps, format, atomic, u
  <2> QED
    BY <2>1, <2>2, Zenon DEF FirstCarrier
<1>3. ASSUME ~p.carrier, x.type = "shallow" PROVE Tracked(Shallow(p, x), Append(s, x))
  <2> DEFINE q == [p EXCEPT !.shallows = Append(@, x.format)]
  <2>1. q.phase = p.phase /\ q.carrier = p.carrier /\ q.request = p.request
    BY Zenon DEF Parse
  <2> HIDE DEF q
  <2>2. SameCommands(p, q)
    BY Zenon, <2>1 DEF SameCommands
  <2>3. Tracked(q, Append(s, x))
    BY Zenon, <1>3, <2>1, <2>2, TrackedShallow
  <2> QED
    BY Zenon, <2>3, TrackedFailed DEF Shallow, q
<1> QED
  BY Zenon, <1>1, <1>2, <1>3

\* Whatever the parser reads next, it knows the commands before the first flush
\* as git-receive-pack will read them.
LEMMA TrackItem ==
  ASSUME NEW p, NEW s \in Seq(Line), NEW x \in Line, ParseInv(p), Tracked(p, s),
         p.phase \notin {"done", "failed"}
  PROVE  Tracked(ParseItem(p, x), Append(s, x))
<1> DEFINE next == [p EXCEPT !.read = @ + 1]
<1>1. p \in Parse
  BY Zenon DEF ParseInv
<1>2. /\ next \in Parse /\ next.phase = p.phase /\ next.carrier = p.carrier
      /\ next.request = p.request
  BY <1>1 DEF Parse
<1> HIDE DEF next
<1>3. Tracked(next, s)
  BY <1>2 DEF Tracked
<1> DEFINE going == ~(p.read >= MaxPrefix \/ p.phase = "end")
<1> HIDE DEF going
<1>4. CASE ~going
  BY Zenon, <1>1, <1>4, TrackedFailed DEF ParseItem, going
<1>5. CASE going /\ p.phase = "signature"
  <2>1. CASE x.type # "PACK"
    BY <1>2, <1>5, <2>1, TrackedFailed, Zenon DEF ParseItem, next, going
  <2>2. CASE x.type = "PACK"
    <3> DEFINE q == Signature(next)
    <3>1. q.phase = "done" /\ q.carrier = next.carrier /\ q.request = [next.request EXCEPT !.hasPack = TRUE]
      BY Zenon, <1>2 DEF Signature, Parse
    <3>2. SameCommands(next, q)
      <4>1. next.request \in Pack
        BY Zenon, <1>2 DEF Parse
      <4> HIDE DEF q
      <4> QED
        BY Zenon, <3>1, <4>1 DEF SameCommands, Pack
    <3>3. Tracked(q, Append(s, x))
      <4> HIDE DEF q
      <4> QED
        BY Zenon, <1>2, <1>3, <1>5, <3>1, <3>2, TrackedPast
    <3>4. ParseItem(p, x) = q
      BY <1>5, <2>2, Zenon DEF ParseItem, next, going
    <3> QED
      BY Zenon, <3>3, <3>4
  <2> QED
    BY Zenon, <2>1, <2>2
<1>6. CASE going /\ p.phase # "signature" /\ x.type = "flush"
  <2>1. ParseItem(p, x) = Flush(next)
    BY <1>6, Zenon DEF ParseItem, next, going
  <2> QED
    BY Zenon, <1>2, <1>3, <1>6, <2>1, TrackFlush
<1>7. CASE going /\ p.phase = "options" /\ x.type # "flush"
  <2>1. ParseItem(p, x) = PushOption(next, x)
    BY <1>7, Zenon DEF ParseItem, next, going
  <2> DEFINE q == [next EXCEPT !.request.options = @ + 1]
  <2>2. q.phase = "options" /\ q.carrier = next.carrier
        /\ q.request = [next.request EXCEPT !.options = @ + 1]
    BY Zenon, <1>2, <1>7 DEF Parse
  <2> HIDE DEF q
  <2>3. SameCommands(next, q)
    <3>1. next.request \in Pack
      BY Zenon, <1>2 DEF Parse
    <3> QED
      BY Zenon, <2>2, <3>1 DEF SameCommands, Pack
  <2>4. Tracked(q, Append(s, x))
    BY Zenon, <1>2, <1>3, <1>7, <2>2, <2>3, TrackedPast
  <2> QED
    BY Zenon, <1>2, <2>1, <2>4, TrackedFailed DEF PushOption, q
<1>8. CASE going /\ p.phase = "lines" /\ x.type # "flush"
  <2>1. ParseItem(p, x) =
          IF p.carrier THEN LaterCommand(next, x)
          ELSE IF x.type = "shallow" THEN Shallow(next, x) ELSE FirstCarrier(next, x)
    BY <1>8, Zenon DEF ParseItem, next, going
  <2> QED
    BY Zenon, <1>2, <1>3, <1>8, <2>1, TrackLine
<1> QED
  BY Zenon, <1>1, <1>4, <1>5, <1>6, <1>7, <1>8 DEF Parse, going

\* The end of the body.
LEMMA TrackEnd ==
  ASSUME NEW p, NEW s, ParseInv(p), Tracked(p, s)
  PROVE  Tracked(ParseEnd(p), s)
<1> DEFINE q == [p EXCEPT !.phase = "done"]
<1>1. p \in Parse
  BY Zenon DEF ParseInv
<1>2. q.phase = "done" /\ q.carrier = p.carrier /\ q.request = p.request
  BY Zenon, <1>1 DEF Parse
<1> HIDE DEF q
<1>3. p.phase = "end" => Tracked(q, s)
  BY <1>2 DEF Tracked
<1> QED
  BY Zenon, <1>1, <1>3, TrackedFailed DEF ParseEnd, q

\* Before the client has sent anything.
LEMMA EmptyBody ==
  ASSUME NEW S
  PROVE  /\ NoBody \in Body(S) /\ <<>> \in Seq(S) /\ Metering(NoBody)
         /\ ~NoBody.open /\ NoBody.prefix = <<>> /\ NoBody.sent = <<>> /\ NoBody.buffered = <<>>
         /\ <<>> \o <<>> = <<>>
<1>1. <<>> \in Seq(S) /\ Len(<<>>) = 0 /\ <<>> \o <<>> = <<>>
  OBVIOUS
<1>2. /\ ~NoBody.open /\ NoBody.prefix = <<>> /\ NoBody.sent = <<>> /\ NoBody.buffered = <<>>
      /\ NoBody.count = 0 /\ NoBody.charged = 0 /\ NoBody.ended = "open"
  BY Zenon DEF NoBody
<1>3. NoBody \in Body(S)
  BY Zenon, <1>1 DEF NoBody, Body
<1>4. Metering(NoBody)
  BY <1>1, <1>2, ExchangeAssumption DEF Metering
<1> QED
  BY Zenon, <1>1, <1>2, <1>3, <1>4

\* Nothing read yet, nothing known.
LEMMA TrackedStart == Tracked(StartParse, <<>>)
<1>1. StartParse.phase = "lines" /\ StartParse.carrier = FALSE /\ ~StartParse.request.signed
  BY Zenon DEF StartParse, NoReceivePack
<1>2. Len(<<>>) = 0 /\ Heads(<<>>) = {}
  BY DEF Heads
<1> QED
  BY <1>1, <1>2 DEF Tracked

\* A request of which nothing is known, and one whose response has begun.
Fresh ==
  /\ stage \in {"classify", "first"} /\ route \in Route /\ body = NoBody /\ parse = StartParse
  /\ replay = <<>> /\ up = <<>> /\ upEnd = "none"

\* Such a request has the invariant.
LEMMA FreshInv == Fresh => RequestInv
<1> SUFFICES ASSUME Fresh PROVE RequestInv
  BY Zenon
<1>1. RequestTypes
  BY Zenon, EmptyBody, StartInv DEF RequestTypes, Fresh, Stage
<1>2. Stages
  BY Zenon, EmptyBody DEF Stages, Fresh
<1>3. Flow
  BY Zenon, EmptyBody DEF Flow, Fresh, Handed
<1>4. Replayed /\ Judged
  BY Zenon DEF Replayed, Judged, Fresh
<1>5. Tracked(parse, body.prefix)
  BY Zenon, EmptyBody, TrackedStart DEF Fresh
<1> QED
  BY Zenon, <1>1, <1>2, <1>3, <1>4, <1>5 DEF RequestInv

\* The first state.
LEMMA RequestStarts == Init => RequestInv
<1>1. NoRoute \in Route
  BY DEF NoRoute, Route
<1> QED
  BY Zenon, <1>1, FreshInv DEF Init, Fresh

\* Only the stage moves, and not to one that promises more.
LEMMA StageMoves ==
  ASSUME RequestInv, UNCHANGED requestVars, stage' \in {"ended", "first", "copy"},
         stage' # "ended" => upEnd = "none"
  PROVE  RequestInv'
<1>1. /\ route' = route /\ rules' = rules /\ body' = body /\ parse' = parse /\ replay' = replay
      /\ up' = up /\ upEnd' = upEnd
  BY Zenon DEF requestVars
<1>2. RequestTypes'
  BY Zenon, <1>1 DEF RequestInv, RequestTypes, Sendable, Stage
<1>3. Stages'
  BY Zenon, <1>1 DEF RequestInv, Stages
<1>4. (Flow /\ Replayed /\ Tracked(parse, body.prefix))'
  BY Zenon, <1>1 DEF RequestInv, Flow, Handed, Replayed
<1>5. Judged'
  BY Zenon, <1>1 DEF RequestInv, Judged, Decide, Access, PolicyRequest, Operation
<1> QED
  BY Zenon, <1>2, <1>3, <1>4, <1>5 DEF RequestInv

\* A refusal ends the request where it is.
LEMMA RefuseInv ==
  ASSUME RequestInv, Refuse, UNCHANGED requestVars
  PROVE  RequestInv'
BY Zenon, StageMoves DEF Refuse, End

\* classifyGitRequest
LEMMA ClassifyInv ==
  ASSUME RequestInv, classifyGitRequest
  PROVE  RequestInv'
<1> DEFINE kept == UNCHANGED <<rules, body, parse, replay, up, upEnd>>
<1>1. stage = "classify" /\ kept
  BY Zenon DEF classifyGitRequest
<1>2. CASE Refuse /\ UNCHANGED route
  BY Zenon, <1>1, <1>2, RefuseInv DEF requestVars
<1>3. ASSUME NEW phase \in {"discovery", "rpc"}, NEW service \in {"upload-pack", "receive-pack"},
             NEW version \in 0..2,
             LET receive == service = "receive-pack"
             IN  /\ route' = [phase |-> phase, service |-> service,
                              version |-> IF receive /\ version = 2 THEN 0 ELSE version]
                 /\ stage' = IF phase = "discovery" THEN "preflight"
                             ELSE IF receive THEN "prepare" ELSE "judge"
      PROVE  RequestInv'
  <2>1. route' \in Route /\ route'.phase = phase /\ route'.service = service
    BY <1>3 DEF Route
  <2>2. /\ phase = "discovery" => stage' = "preflight"
        /\ phase = "rpc" /\ service = "receive-pack" => stage' = "prepare"
        /\ phase = "rpc" /\ service = "upload-pack" => stage' = "judge"
    BY Zenon, <1>3
  <2>3. /\ ~body.open /\ body = NoBody /\ up = <<>> /\ replay = <<>> /\ upEnd = "none"
        /\ body' = body /\ up' = up /\ replay' = replay /\ upEnd' = upEnd /\ parse' = parse
    BY Zenon, <1>1 DEF RequestInv, Stages
  <2>4. RequestTypes'
    <3>1. body' \in Body(Sendable') /\ replay' \in Seq(Sendable') /\ up' \in Seq(Sendable')
      BY Zenon, <2>3, EmptyBody
    <3> QED
      BY Zenon, <2>1, <2>2, <2>3, <3>1 DEF RequestInv, RequestTypes, Stage
  <2>5. Stages'
    BY Zenon, <2>1, <2>2, <2>3 DEF Stages
  <2>6. (Flow /\ Replayed /\ Tracked(parse, body.prefix))'
    BY Zenon, <2>3 DEF RequestInv, Flow, Handed, Replayed
  <2>7. Judged'
    BY Zenon, <2>1, <2>2, <2>3 DEF Judged
  <2> QED
    BY Zenon, <2>4, <2>5, <2>6, <2>7 DEF RequestInv
<1> QED
  BY <1>2, <1>3 DEF classifyGitRequest

\* authorizeGitRequest
LEMMA JudgeInv ==
  ASSUME RequestInv, Judge
  PROVE  RequestInv'
<1>1. /\ stage \in {"preflight", "judge"} /\ upEnd = "none"
      /\ UNCHANGED <<route, body, parse, replay, up, upEnd>>
  BY Zenon DEF Judge, RequestInv, Stages
<1>2. PICK policy \in Policies :
        /\ rules' = policy
        /\ IF Decide(policy) # "allowed" THEN Refuse
           ELSE stage' = IF stage = "judge" /\ route.service = "upload-pack" THEN "prepare" ELSE "release"
  BY Zenon DEF Judge
<1>3. Decide(policy) = "allowed" => Decide(rules)' = "allowed"
  BY Zenon, <1>1, <1>2 DEF Decide, Access, PolicyRequest, Operation
<1>4. \/ stage' = "ended"
      \/ stage' = "prepare" /\ stage = "judge" /\ route.service = "upload-pack"
      \/ stage' = "release" /\ Decide(policy) = "allowed"
  BY Zenon, <1>2 DEF Refuse, End
<1>5. RequestTypes'
  BY Zenon, <1>1, <1>4 DEF RequestInv, RequestTypes, Sendable, Stage
<1>6. Stages'
  BY Zenon, <1>1, <1>4 DEF RequestInv, Stages
<1>7. (Flow /\ Replayed /\ Tracked(parse, body.prefix))'
  BY Zenon, <1>1 DEF RequestInv, Flow, Handed, Replayed
<1>8. Judged'
  <2>1. route.service = "receive-pack" /\ route.phase = "rpc" => parse.phase = "done"
    BY Zenon, <1>1 DEF RequestInv, Stages, Judged
  <2> QED
    BY Zenon, <1>1, <1>3, <1>4, <2>1 DEF Judged
<1> QED
  BY Zenon, <1>5, <1>6, <1>7, <1>8 DEF RequestInv

\* prepareGitRequestBody
LEMMA PrepareInv ==
  ASSUME RequestInv, prepareGitRequestBody
  PROVE  RequestInv'
<1>1. /\ stage = "prepare" /\ upEnd = "none" /\ route.phase = "rpc"
      /\ UNCHANGED <<route, rules, parse, replay, up, upEnd>>
  BY Zenon DEF prepareGitRequestBody, RequestInv, Stages
<1>2. CASE Refuse /\ UNCHANGED body
  BY Zenon, <1>1, <1>2, RefuseInv DEF requestVars
<1>3. ASSUME NEW gzip \in BOOLEAN, NEW trailer \in BOOLEAN,
             body' = [body EXCEPT !.open = TRUE, !.gzip = gzip, !.trailer = trailer],
             stage' = IF route.service = "receive-pack" THEN "parse" ELSE "release"
      PROVE  RequestInv'
  <2>1. body \in Body(Sendable)
    BY Zenon DEF RequestInv, RequestTypes
  <2>2. /\ body' \in Body(Sendable) /\ body'.open
        /\ body'.sent = body.sent /\ body'.buffered = body.buffered /\ body'.prefix = body.prefix
        /\ body'.count = body.count /\ body'.charged = body.charged /\ body'.ended = body.ended
        /\ body'.closed = body.closed /\ body'.spoiled = body.spoiled
    BY <1>3, <2>1 DEF Body
  <2>3. RequestTypes'
    BY Zenon, <1>1, <1>3, <2>2 DEF RequestInv, RequestTypes, Sendable, Stage
  <2>4. Stages'
    BY Zenon, <1>1, <1>3, <2>2 DEF RequestInv, Stages
  <2>5. Flow'
    BY Zenon, <1>1, <2>2 DEF RequestInv, Flow, Handed, Metering
  <2>6. (Replayed /\ Tracked(parse, body.prefix))'
    BY Zenon, <1>1, <2>2 DEF RequestInv, Replayed
  <2>7. Judged'
    BY Zenon, <1>1, <1>3 DEF Judged
  <2> QED
    BY Zenon, <2>3, <2>4, <2>5, <2>6, <2>7 DEF RequestInv
<1> QED
  BY Zenon, <1>2, <1>3 DEF prepareGitRequestBody

\* A read by the parser or by the transport.
LEMMA ReadBodyInv ==
  ASSUME RequestInv, ReadBody
  PROVE  RequestInv'
<1>1. /\ body.open /\ body.ended = "open" /\ body.buffered = <<>> /\ Read
      /\ UNCHANGED <<stage, route, rules, parse, replay, up, upEnd>>
      /\ body \in Body(Sendable) /\ Metering(body)
  BY Zenon DEF ReadBody, RequestInv, RequestTypes, Flow
<1>2. ReadTo(body, body')
  BY Zenon, <1>1, ReadStep
<1>3. RequestTypes'
  BY Zenon, <1>1, <1>2 DEF RequestInv, RequestTypes, Sendable, ReadTo
<1>4. Stages'
  BY Zenon, <1>1, <1>2 DEF RequestInv, Stages, ReadTo
<1>5. Flow'
  <2>1. body.sent = Handed
    <3>1. Handed \in Seq(Sendable)
      BY Zenon, <1>1, Joined DEF RequestInv, RequestTypes, Handed, Body
    <3>2. body.sent = Handed \o <<>>
      BY Zenon, <1>1 DEF RequestInv, Flow
    <3> QED
      BY Zenon, <3>1, <3>2, JoinedEmpty
  <2>2. Handed' = Handed
    BY Zenon, <1>1, <1>2 DEF Handed, ReadTo
  <2>3. ~(upEnd = "eof")
    BY Zenon, <1>1 DEF RequestInv, Flow
  <2> QED
    BY Zenon, <1>1, <1>2, <2>1, <2>2, <2>3 DEF RequestInv, Flow, ReadTo
<1>6. (Replayed /\ Tracked(parse, body.prefix))'
  BY Zenon, <1>1, <1>2 DEF RequestInv, Replayed, ReadTo
<1>7. Judged'
  BY Zenon, <1>1 DEF RequestInv, Judged, Decide, Access, PolicyRequest, Operation
<1> QED
  BY Zenon, <1>3, <1>4, <1>5, <1>6, <1>7 DEF RequestInv

\* The parser takes the next item, and keeps it for the upstream.
LEMMA ParseOneInv ==
  ASSUME RequestInv, ParseOne
  PROVE  RequestInv'
<1> DEFINE x == Head(body.buffered)
<1>1. /\ stage = "parse" /\ parse.phase \notin {"done", "failed"} /\ body.buffered # <<>>
      /\ parse' = ParseItem(parse, x)
      /\ body' = [body EXCEPT !.buffered = Tail(@), !.prefix = Append(@, x)]
      /\ UNCHANGED <<stage, route, rules, replay, up, upEnd>>
  BY Zenon DEF ParseOne
<1>2. upEnd = "none" /\ body \in Body(Sendable) /\ ParseInv(parse) /\ Tracked(parse, body.prefix)
  BY Zenon, <1>1 DEF RequestInv, Stages, RequestTypes
<1>3. body.buffered \in Seq(Sendable) /\ body.prefix \in Seq(Sendable)
  BY Zenon, <1>2 DEF Body
<1>4. /\ x \in Sendable /\ Tail(body.buffered) \in Seq(Sendable)
      /\ Append(body.prefix, x) \in Seq(Sendable)
      /\ Append(body.prefix, x) \o Tail(body.buffered) = body.prefix \o body.buffered
  BY <1>1, <1>3, MoveHead
<1>5. x \in Line /\ body.prefix \in Seq(Line)
  BY <1>3, <1>4, ClientItems
<1> HIDE DEF x
<1>6. /\ body' \in Body(Sendable) /\ body'.open = body.open
      /\ body'.sent = body.sent /\ body'.buffered = Tail(body.buffered)
      /\ body'.prefix = Append(body.prefix, x)
      /\ body'.count = body.count /\ body'.charged = body.charged /\ body'.ended = body.ended
      /\ body'.closed = body.closed /\ body'.spoiled = body.spoiled
  BY Zenon, <1>1, <1>2, <1>4 DEF Body
<1>7. RequestTypes'
  <2>1. ParseInv(parse')
    BY Zenon, <1>1, <1>2, <1>5, ParseItemInv
  <2> QED
    BY Zenon, <1>1, <1>6, <2>1 DEF RequestInv, RequestTypes, Sendable
<1>8. Stages'
  <2>1. body.open
    BY Zenon, <1>1, EmptyBody DEF RequestInv, Stages
  <2> QED
    BY Zenon, <1>1, <1>6, <2>1 DEF RequestInv, Stages
<1>9. Flow'
  BY <1>1, <1>2, <1>4, <1>6 DEF RequestInv, Flow, Handed, Metering
<1>10. Tracked(parse, body.prefix)'
  BY Zenon, <1>1, <1>2, <1>5, <1>6, TrackItem
<1>11. Replayed' /\ Judged'
  BY Zenon, <1>1, <1>2 DEF Replayed, Judged
<1> QED
  BY Zenon, <1>7, <1>8, <1>9, <1>10, <1>11 DEF RequestInv

\* The parser meets the end of the body.
LEMMA ParseStopsInv ==
  ASSUME RequestInv, ParseStops
  PROVE  RequestInv'
<1>1. /\ stage = "parse" /\ UNCHANGED <<stage, route, rules, body, replay, up, upEnd>>
      /\ parse' = ParseEnd(parse) \/ parse' = Failed(parse)
  BY Zenon DEF ParseStops
<1>2. ParseInv(parse) /\ Tracked(parse, body.prefix) /\ parse \in Parse /\ upEnd = "none"
  BY Zenon, <1>1 DEF RequestInv, RequestTypes, ParseInv, Stages
<1>3. ParseInv(parse') /\ Tracked(parse', body.prefix)
  BY <1>1, <1>2, ParseEndInv, FailedInv, TrackEnd, TrackedFailed
<1>4. RequestTypes'
  BY Zenon, <1>1, <1>3 DEF RequestInv, RequestTypes, Sendable
<1>5. Stages' /\ Flow' /\ Replayed'
  BY Zenon, <1>1 DEF RequestInv, Stages, Flow, Handed, Replayed
<1>6. Judged'
  BY Zenon, <1>1, <1>2 DEF Judged
<1> QED
  BY Zenon, <1>1, <1>3, <1>4, <1>5, <1>6 DEF RequestInv

\* ParseReceivePackPrefix returns.
LEMMA ParseReturnsInv ==
  ASSUME RequestInv, ParseReturns
  PROVE  RequestInv'
<1>1. CASE Refuse
  BY Zenon, <1>1, RefuseInv DEF ParseReturns
<1>2. CASE stage' = "judge"
  <2>1. stage = "parse" /\ parse.phase = "done"
    BY Zenon, <1>2 DEF ParseReturns, Refuse, End
  <2>2. /\ route' = route /\ rules' = rules /\ body' = body /\ parse' = parse /\ replay' = replay
        /\ up' = up /\ upEnd' = upEnd
    BY Zenon DEF ParseReturns, requestVars
  <2>3. RequestTypes'
    BY Zenon, <1>2, <2>2 DEF RequestInv, RequestTypes, Sendable, Stage
  <2>4. Stages'
    BY Zenon, <1>2, <2>1, <2>2 DEF RequestInv, Stages
  <2>5. (Flow /\ Replayed /\ Tracked(parse, body.prefix))'
    BY Zenon, <2>2 DEF RequestInv, Flow, Handed, Replayed
  <2>6. Judged'
    BY Zenon, <1>2, <2>1, <2>2 DEF RequestInv, Stages, Judged
  <2> QED
    BY Zenon, <2>3, <2>4, <2>5, <2>6 DEF RequestInv
<1> QED
  BY Zenon, <1>1, <1>2 DEF ParseReturns

\* The request goes out, with the parser's bytes to be sent first.
LEMMA ReleaseInv ==
  ASSUME RequestInv, Release
  PROVE  RequestInv'
<1>1. CASE Refuse /\ UNCHANGED <<replay, upEnd>>
  BY Zenon, <1>1, RefuseInv DEF Release, requestVars
<1>2. CASE /\ stage' = "forward" /\ replay' = body.prefix
           /\ upEnd' = IF body.open THEN "open" ELSE "eof"
  <2>1. stage = "release" /\ UNCHANGED <<route, rules, body, parse, up>>
    BY Zenon DEF Release
  <2>2. /\ upEnd = "none" /\ up = <<>> /\ body \in Body(Sendable)
        /\ upEnd' \in {"open", "eof"} /\ (upEnd' = "eof" => ~body.open)
    BY Zenon, <1>2, <2>1 DEF RequestInv, Stages, Flow, RequestTypes
  <2>3. body.prefix \in Seq(Sendable)
    BY Zenon, <2>2 DEF Body
  <2>4. RequestTypes'
    BY Zenon, <1>2, <2>1, <2>2, <2>3 DEF RequestInv, RequestTypes, Sendable, Stage
  <2>5. Stages'
    <3>1. ~body.open => body.prefix = <<>>
      BY Zenon, EmptyBody DEF RequestInv, Stages
    <3> QED
      BY Zenon, <1>2, <2>1, <2>2, <3>1 DEF RequestInv, Stages
  <2>6. Flow'
    <3>1. Handed' = Handed
      <4>1. <<>> \o body.prefix = body.prefix
        BY Zenon, <2>3, JoinedEmpty
      <4> QED
        BY Zenon, <1>2, <2>1, <2>2, <4>1 DEF Handed
    <3> QED
      BY Zenon, <1>2, <2>1, <2>2, <3>1 DEF RequestInv, Flow
  <2>7. Replayed' /\ Tracked(parse, body.prefix)'
    BY Zenon, <1>2, <2>1, <2>2 DEF RequestInv, Replayed
  <2>8. Judged'
    BY Zenon, <1>2, <2>1, <2>2 DEF RequestInv, Judged, Decide, Access, PolicyRequest, Operation
  <2> QED
    BY Zenon, <2>4, <2>5, <2>6, <2>7, <2>8 DEF RequestInv
<1> QED
  BY Zenon, <1>1, <1>2 DEF Release

\* What has been sent stays in front of what is sent next.
LEMMA SentFirst ==
  ASSUME NEW S, NEW p \in Seq(S), NEW u \in Seq(S), NEW b \in Seq(S),
         Len(p) <= Len(u), \A i \in 1..Len(p) : u[i] = p[i]
  PROVE  /\ u \o b \in Seq(S) /\ Len(p) <= Len(u \o b)
         /\ \A i \in 1..Len(p) : (u \o b)[i] = p[i]
OBVIOUS

\* replayedGitBody, read by the transport.
LEMMA SendInv ==
  ASSUME RequestInv, Send
  PROVE  RequestInv'
<1>1. stage = "forward" /\ upEnd = "open" /\ UNCHANGED <<stage, route, rules, parse>>
  BY Zenon DEF Send
<1>2. /\ body \in Body(Sendable) /\ replay \in Seq(Sendable) /\ up \in Seq(Sendable)
      /\ body.buffered \in Seq(Sendable) /\ body.prefix \in Seq(Sendable)
  BY Zenon DEF RequestInv, RequestTypes, Body
<1>3. body.open
  BY Zenon, <1>1 DEF RequestInv, Stages
<1>4. Judged'
  <2>1. upEnd # "none" /\ (Judged => Decide(rules)' = Decide(rules))
    BY Zenon, <1>1 DEF Decide, Access, PolicyRequest, Operation
  <2> QED
    BY Zenon, <1>1, <2>1 DEF RequestInv, Judged
<1>5. CASE replay # <<>> /\ up' = up \o replay /\ replay' = <<>> /\ UNCHANGED <<body, upEnd>>
  <2>1. up = <<>> /\ replay = body.prefix
    BY Zenon, <1>1, <1>5 DEF RequestInv, Replayed
  <2>2. up' = replay /\ up' \o <<>> = up' /\ up \o replay = up'
    BY Zenon, <1>2, <1>5, <2>1, JoinedEmpty
  <2>3. RequestTypes' /\ Stages'
    BY <1>1, <1>2, <1>3, <1>5, <2>2 DEF RequestInv, RequestTypes, Stages, Sendable
  <2>4. Flow'
    BY Zenon, <1>1, <1>5, <2>2 DEF RequestInv, Flow, Handed
  <2>5. Replayed'
    BY <1>2, <1>5, <2>1, <2>2 DEF Replayed
  <2>6. Tracked(parse, body.prefix)'
    BY Zenon, <1>1, <1>5 DEF RequestInv
  <2> QED
    BY Zenon, <1>4, <2>3, <2>4, <2>5, <2>6 DEF RequestInv
<1>6. CASE /\ replay = <<>> /\ body.buffered # <<>>
           /\ up' = up \o body.buffered /\ body' = [body EXCEPT !.buffered = <<>>]
           /\ UNCHANGED <<replay, upEnd>>
  <2>1. /\ body' \in Body(Sendable) /\ body'.open = body.open
        /\ body'.sent = body.sent /\ body'.buffered = <<>> /\ body'.prefix = body.prefix
        /\ body'.count = body.count /\ body'.charged = body.charged /\ body'.ended = body.ended
        /\ body'.closed = body.closed /\ body'.spoiled = body.spoiled
    BY Zenon, <1>2, <1>6 DEF Body
  <2>2. up' \in Seq(Sendable)
    BY Zenon, <1>2, <1>6, Joined
  <2>3. (up' \o <<>>) \o <<>> = up' /\ up \o <<>> = up
    BY Zenon, <1>2, <2>2, JoinedEmpty
  <2>4. RequestTypes' /\ Stages'
    BY Zenon, <1>1, <1>2, <1>3, <1>6, <2>1, <2>2 DEF RequestInv, RequestTypes, Stages, Sendable
  <2>5. Flow'
    BY Zenon, <1>1, <1>6, <2>1, <2>3 DEF RequestInv, Flow, Handed, Metering
  <2>6. Replayed'
    <3>1. Len(body.prefix) <= Len(up) /\ \A i \in 1..Len(body.prefix) : up[i] = body.prefix[i]
      BY <1>1, <1>2, <1>6 DEF RequestInv, Replayed
    <3>2. Len(body.prefix) <= Len(up') /\ \A i \in 1..Len(body.prefix) : up'[i] = body.prefix[i]
      BY <1>2, <1>6, <3>1, SentFirst
    <3> QED
      BY <1>6, <2>1, <3>2 DEF Replayed
  <2>7. Tracked(parse, body.prefix)'
    BY Zenon, <1>1, <2>1 DEF RequestInv
  <2> QED
    BY Zenon, <1>4, <2>4, <2>5, <2>6, <2>7 DEF RequestInv
<1>7. CASE /\ replay = <<>> /\ body.buffered = <<>> /\ body.ended # "open"
           /\ upEnd' = IF body.ended = "eof" THEN "eof" ELSE "broken"
           /\ UNCHANGED <<replay, up, body>>
  <2>1. RequestTypes' /\ Stages'
    BY Zenon, <1>1, <1>2, <1>3, <1>7 DEF RequestInv, RequestTypes, Stages, Sendable
  <2>2. Flow'
    BY Zenon, <1>1, <1>7 DEF RequestInv, Flow, Handed
  <2>3. Replayed' /\ Tracked(parse, body.prefix)'
    BY Zenon, <1>1, <1>7 DEF RequestInv, Replayed
  <2> QED
    BY Zenon, <1>4, <2>1, <2>2, <2>3 DEF RequestInv
<1> QED
  BY Zenon, <1>5, <1>6, <1>7 DEF Send

\* The response is there, or there is none.
LEMMA RoundTripInv ==
  ASSUME RequestInv, RoundTrip
  PROVE  RequestInv'
<1>1. CASE Refuse /\ UNCHANGED requestVars
  BY Zenon, <1>1, RefuseInv
<1>2. CASE /\ stage' = "first" /\ route' = NoRoute /\ body' = NoBody /\ parse' = StartParse
           /\ replay' = <<>> /\ up' = <<>> /\ upEnd' = "none"
  <2>1. NoRoute \in Route
    BY DEF NoRoute, Route
  <2>2. Fresh'
    BY Zenon, <1>2, <2>1 DEF Fresh
  <2> QED
    BY <2>2, FreshInv, PTL
<1> QED
  BY Zenon, <1>1, <1>2 DEF RoundTrip

\* While the response is copied the request is left alone.
LEMMA RespondInv ==
  ASSUME RequestInv,
         Fill \/ Pass \/ (\E err \in {"eof", "failed", "noProgress"} : ResponseEnds(err))
         \/ Reflected \/ WriteFails
  PROVE  RequestInv'
<1>1. /\ stage \in {"first", "copy"} /\ UNCHANGED requestVars
      /\ stage' \in {"first", "copy", "ended"}
  BY Zenon DEF Fill, Pass, ResponseEnds, Reflected, WriteFails, Reading, End
<1>2. upEnd = "none"
  BY Zenon, <1>1 DEF RequestInv, Stages
<1> QED
  BY Zenon, <1>1, <1>2, StageMoves

\* Every step of an exchange.
LEMMA RequestStep == RequestInv /\ [Next]_vars => RequestInv'
<1> SUFFICES ASSUME RequestInv, [Next]_vars PROVE RequestInv'
  BY Zenon
<1>1. CASE UNCHANGED vars
  <2>1. /\ stage' = stage /\ route' = route /\ rules' = rules /\ body' = body /\ parse' = parse
        /\ replay' = replay /\ up' = up /\ upEnd' = upEnd
    BY Zenon, <1>1 DEF vars, requestVars
  <2> QED
    BY ZenonT(60), <2>1 DEF RequestInv, RequestTypes, Sendable, Stages, Flow, Handed, Replayed, Judged,
                Decide, Access, PolicyRequest, Operation
<1>2. CASE Next
  BY Zenon, <1>2, ClassifyInv, JudgeInv, PrepareInv, ReadBodyInv, ParseOneInv, ParseStopsInv,
     ParseReturnsInv, ReleaseInv, SendInv, RoundTripInv, RespondInv DEF Next
<1> QED
  BY Zenon, <1>1, <1>2

\* The whole body, once: gitMeteredReader, the parser's buffer, the replay and
\* the transport hand on exactly what the client sent, and charge it once.
THEOREM BodyArrivesWhole == Spec => []BodyIsWhole
<1>1. RequestInv => BodyIsWhole
  <2> SUFFICES ASSUME RequestInv, upEnd = "eof", body.open
               PROVE  /\ up = body.sent /\ body.closed /\ ~body.spoiled
                      /\ Len(up) <= maximum /\ body.charged = Len(up)
    BY Zenon DEF BodyIsWhole
  <2>1. /\ body.ended = "eof" /\ replay = <<>> /\ body.buffered = <<>>
        /\ Metering(body) /\ body.sent = (up \o <<>>) \o <<>>
    BY Zenon DEF RequestInv, Flow, Handed
  <2>2. up \in Seq(Sendable)
    BY Zenon DEF RequestInv, RequestTypes
  <2>3. body.sent = up
    BY Zenon, <2>1, <2>2, JoinedEmpty
  <2> QED
    BY Zenon, <2>1, <2>3 DEF Metering
<1> QED
  BY <1>1, RequestStarts, RequestStep, PTL DEF Spec

\* A rule sees no more of a push than its format, its signature, and whether it
\* is atomic and has push options.
LEMMA MatchesAlike ==
  ASSUME NEW rule, NEW update, NEW a, NEW b,
         a.kind = "push", b.kind = "push", a.format = b.format, a.signed = b.signed,
         a.atomic = b.atomic, a.negotiated = b.negotiated
  PROVE  matches(rule, PolicyRequest(a), update) <=> matches(rule, PolicyRequest(b), update)
<1> DEFINE p == PolicyRequest(a)
           q == PolicyRequest(b)
<1>1. p.receivePack = a /\ q.receivePack = b
  BY Zenon DEF PolicyRequest
<1>2. matchesRepositoryAccess(rule, p) <=> matchesRepositoryAccess(rule, q)
  BY Zenon DEF PolicyRequest, matchesRepositoryAccess
<1>3. a # NoReceivePack /\ b # NoReceivePack
  BY DEF NoReceivePack
<1> HIDE DEF p, q
<1>4. matches(rule, p, update) <=> matches(rule, q, update)
  BY Zenon, <1>1, <1>2, <1>3 DEF matches
<1> QED
  BY Zenon, <1>4 DEF p, q

\* The commands git-receive-pack finds are lines the parser saw before the flush.
LEMMA CommandsAreHeads ==
  ASSUME RequestInv, Commands # {}
  PROVE  /\ route.service = "receive-pack" /\ route.phase = "rpc" /\ upEnd # "none"
         /\ Commands = {i \in Heads(body.prefix) : body.prefix[i].type = "command"}
         /\ \A i \in Commands : up[i] = body.prefix[i]
<1>1. up \in Seq(Sendable) /\ body \in Body(Sendable) /\ route \in Route
  BY Zenon DEF RequestInv, RequestTypes
<1>2. PICK c \in 1..Len(up) : up[c].type = "command"
  BY Zenon DEF Commands
<1>3. up # <<>>
  BY <1>1, <1>2
<1>4. body.open /\ upEnd # "none" /\ route.phase = "rpc"
  BY Zenon, <1>3 DEF RequestInv, Stages, Flow
<1>5. route.service = "receive-pack"
  <2>1. CASE route.service = "upload-pack"
    <3>1. up[c] = Data
      BY <1>1, <1>2, <2>1 DEF Sendable
    <3> QED
      BY <1>2, <3>1 DEF Data
  <2> QED
    BY Zenon, <1>1, <2>1 DEF Route
<1> DEFINE s == body.prefix
<1>6. Len(s) \in Nat /\ Len(up) \in Nat
  BY <1>1 DEF Body
<1>7. Len(s) <= Len(up) /\ \A i \in 1..Len(s) : up[i] = s[i]
  BY Zenon, <1>3, <1>4 DEF RequestInv, Replayed
<1>8. \E f \in 1..Len(s) : s[f].type = "flush"
  BY Zenon, <1>4, <1>5 DEF RequestInv, Judged, Tracked
<1> HIDE DEF s
<1>9. ASSUME NEW i \in Commands
      PROVE  i \in Heads(s) /\ s[i].type = "command" /\ up[i] = s[i]
  <2>1. PICK f \in 1..Len(s) : s[f].type = "flush"
    BY Zenon, <1>8
  <2>2. /\ i \in 1..Len(up) /\ up[i].type = "command"
        /\ \A g \in 1..Len(up) : up[g].type = "flush" => i < g
    BY Zenon DEF Commands
  <2>3. f \in 1..Len(up) /\ up[f].type = "flush"
    BY <1>6, <1>7, <2>1
  <2>4. i \in 1..Len(s)
    BY <1>6, <2>2, <2>3
  <2>5. \A j \in 1..i : s[j].type # "flush"
    BY <1>6, <1>7, <2>2, <2>4
  <2> QED
    BY Zenon, <1>7, <2>2, <2>4, <2>5 DEF Heads
<1>10. ASSUME NEW i \in Heads(s), s[i].type = "command"
       PROVE  i \in Commands
  <2>1. i \in 1..Len(s) /\ \A j \in 1..i : s[j].type # "flush"
    BY Zenon DEF Heads
  <2>2. i \in 1..Len(up) /\ up[i].type = "command"
    BY <1>6, <1>7, <1>10, <2>1
  <2>3. ASSUME NEW g \in 1..Len(up), up[g].type = "flush"
        PROVE  i < g
    <3>1. CASE g <= i
      <4>1. g \in 1..Len(s) /\ g \in 1..i
        BY <1>6, <2>1, <3>1
      <4> QED
        BY Zenon, <1>7, <2>1, <2>3, <4>1
    <3> QED
      BY <1>6, <2>1, <3>1
  <2>4. {g \in 1..Len(up) : up[g].type = "flush"} # {}
    BY <1>6, <1>7, <1>8
  <2> QED
    BY Zenon, <2>2, <2>3, <2>4 DEF Commands
<1> QED
  BY Zenon, <1>4, <1>5, <1>9, <1>10 DEF s, Commands

\* What the upstream reads and what the policy was asked about are the same push.
LEMMA UpstreamReadsTheSame ==
  ASSUME RequestInv, Commands # {}
  PROVE  LET asked == parse.request
         IN  /\ parse.phase = "done" /\ parse.carrier /\ asked.kind = "push"
             /\ \A i \in Commands : \E k \in 1..Len(asked.updates) : asked.updates[k] = up[i].update
             /\ \A policy, effect, update :
                  Matching(policy, effect, AsUpstreamReads, update)
                    = Matching(policy, effect, PolicyRequest(asked), update)
<1> DEFINE asked == parse.request
           s == body.prefix
           caps == UNION {up[i].capabilities : i \in Commands}
           read == [NoReceivePack EXCEPT
                     !.kind = "push", !.format = FormatOf(caps), !.capabilities = caps,
                     !.atomic = "atomic" \in caps, !.negotiated = "push-options" \in caps]
<1>1. /\ route.service = "receive-pack" /\ route.phase = "rpc" /\ upEnd # "none"
      /\ Commands = {i \in Heads(s) : s[i].type = "command"}
      /\ \A i \in Commands : up[i] = s[i]
  BY Zenon, CommandsAreHeads
<1>2. parse.phase = "done" /\ Tracked(parse, s) /\ ParseInv(parse)
  BY Zenon, <1>1 DEF RequestInv, Judged, RequestTypes
<1>3. parse.carrier
  BY Zenon, <1>1, <1>2 DEF Tracked
<1>4. asked.kind = "push" /\ asked.negotiated = ("push-options" \in asked.capabilities)
  BY Zenon, <1>2, <1>3 DEF ParseInv, WithCommands
<1>5. /\ asked.format = FormatOf(asked.capabilities) /\ ~asked.signed
      /\ asked.atomic = ("atomic" \in asked.capabilities)
      /\ asked \in Pack
  BY Zenon, <1>2, <1>3 DEF Tracked, ParseInv, Parse
<1>6. caps = asked.capabilities
  <2>1. \A i \in Commands : up[i].capabilities \subseteq asked.capabilities
    BY Zenon, <1>1, <1>2 DEF Tracked
  <2>2. \E i \in Commands : up[i].capabilities = asked.capabilities
    BY <1>1, <1>2, <1>3 DEF Tracked
  <2> QED
    BY Zenon, <2>1, <2>2
<1>7. ASSUME NEW i \in Commands
      PROVE  \E k \in 1..Len(asked.updates) : asked.updates[k] = up[i].update
  <2>1. i \in Heads(s) /\ s[i].type = "command" /\ up[i] = s[i]
    BY Zenon, <1>1
  <2>2. parse.phase # "failed"
    BY <1>2
  <2>3. \E k \in 1..Len(parse.request.updates) : parse.request.updates[k] = s[i].update
    BY Zenon, <1>2, <2>1, <2>2 DEF Tracked
  <2> QED
    BY Zenon, <2>1, <2>3
<1>8. AsUpstreamReads = PolicyRequest(read)
  BY Zenon DEF AsUpstreamReads
<1> HIDE DEF caps
<1>9. /\ read.kind = "push" /\ read.format = FormatOf(caps) /\ read.signed = FALSE
      /\ read.atomic = ("atomic" \in caps) /\ read.negotiated = ("push-options" \in caps)
  BY Zenon DEF NoReceivePack
<1> HIDE DEF read, asked
<1>10. /\ asked.kind = read.kind /\ asked.format = read.format /\ asked.signed = read.signed
       /\ asked.atomic = read.atomic /\ asked.negotiated = read.negotiated
  BY Zenon, <1>4, <1>5, <1>6, <1>9 DEF Pack
<1>11. ASSUME NEW rule, NEW update
       PROVE  matches(rule, PolicyRequest(read), update) <=> matches(rule, PolicyRequest(asked), update)
  BY Zenon, <1>4, <1>10, MatchesAlike
<1>12. ASSUME NEW policy, NEW effect, NEW update
       PROVE  Matching(policy, effect, AsUpstreamReads, update)
                = Matching(policy, effect, PolicyRequest(asked), update)
  BY Zenon, <1>8, <1>11 DEF Matching
<1> QED
  BY Zenon, <1>2, <1>3, <1>4, <1>7, <1>12 DEF asked

\* What the upstream is asked to change, the policy has allowed: whatever the
\* client sends and however it is cut into reads, the updates git-receive-pack
\* finds are the ones ParseReceivePackPrefix found and Policy.Evaluate judged.
THEOREM OnlyAuthorizedUpdates == Spec => []UpdatesAreAuthorized
<1>1. RequestInv => UpdatesAreAuthorized
  <2> SUFFICES ASSUME RequestInv, NEW i \in Commands
               PROVE  /\ Matching(rules, "allow", AsUpstreamReads, up[i].update) # {}
                      /\ Matching(rules, "deny", AsUpstreamReads, up[i].update) = {}
    BY Zenon DEF UpdatesAreAuthorized
  <2> DEFINE asked == parse.request
             request == PolicyRequest(asked)
  <2>1. /\ asked.kind = "push"
        /\ \E k \in 1..Len(asked.updates) : asked.updates[k] = up[i].update
        /\ \A effect, update : Matching(rules, effect, AsUpstreamReads, update)
                                 = Matching(rules, effect, request, update)
    BY Zenon, UpstreamReadsTheSame
  <2>2. Decide(rules) = "allowed" /\ route.service = "receive-pack" /\ route.phase = "rpc"
    BY Zenon, CommandsAreHeads DEF RequestInv, Judged
  <2>3. Evaluate(rules, request) = "allowed" /\ request.operation = "push" /\ request.receivePack = asked
    BY Zenon, <2>1, <2>2 DEF Decide, PolicyRequest, Operation
  <2> HIDE DEF request, asked
  <2>4. EvaluatePush(rules, request) = "allowed"
    BY Zenon, <2>3 DEF Evaluate
  <2>5. \A k \in 1..Len(asked.updates) :
          /\ Matching(rules, "deny", request, asked.updates[k]) = {}
          /\ Matching(rules, "allow", request, asked.updates[k]) # {}
    BY <2>3, <2>4, Zenon DEF EvaluatePush, Reason
  <2> QED
    BY ZenonT(60), <2>1, <2>5
<1> QED
  BY <1>1, RequestStarts, RequestStep, PTL DEF Spec

-----------------------------------------------------------------------------
(* The response of an exchange *)

FilterTypes ==
  /\ source \in [bytes : Seq(Byte), end : {"open", "eof", "failed"}]
  /\ filter \in [pending : Seq(Byte), terminalErr : {"nil", "eof", "failed", "noProgress"},
                 found : BOOLEAN, idle : Nat]
  /\ given \in Seq(Byte)

\* The first n bytes of v end with the first m of p.
Ends(p, v, n, m) == m <= n /\ \A j \in 1..m : v[n - m + j] = p[j]

\* s begins with g.
Begins(g, s) == Len(g) <= Len(s) /\ \A i \in 1..Len(g) : g[i] = s[i]

\* The credential does not begin at byte i, whatever follows.
Differs(s, i) == \E j \in 1..Len(Secret) : i + j - 1 <= Len(s) /\ s[i + j - 1] # Secret[j]

\* Nothing follows that would be given.
Closed == source.end # "open" \/ filter.terminalErr # "nil" \/ stage = "ended"

\* No byte given can be the first one of the credential: it is not, or the
\* response ends before the credential could.
Harmless(s, closed, n) ==
  \A i \in 1..n : Differs(s, i) \/ (closed /\ i + Len(Secret) - 1 > Len(s))

\* What has become of the bytes that came.
Passed ==
  /\ Begins(given, source.bytes)
  /\ ~filter.found => source.bytes = given \o filter.pending
  /\ Harmless(source.bytes, Closed, Len(given))

\* The caller's view of the reader.
Replies ==
  /\ filter.found => stage = "ended"
  /\ filter.terminalErr \in {"eof", "failed"} => source.end = filter.terminalErr
  /\ stage \notin {"copy", "ended"} => given = <<>>
  /\ stage # "ended" => reply = "none"
  /\ reply = "refused" => given = <<>>
  /\ reply = "complete" => given = source.bytes /\ source.end = "eof"

ResponseInv == FilterTypes /\ Passed /\ Replies

\* Nothing is known of a response before the first read.
LEMMA ResponseStarts == Init => ResponseInv
<1> SUFFICES ASSUME Init PROVE ResponseInv
  BY Zenon
<1>1. /\ source = [bytes |-> <<>>, end |-> "open"] /\ given = <<>>
      /\ filter = [pending |-> <<>>, terminalErr |-> "nil", found |-> FALSE, idle |-> 0]
      /\ stage = "classify" /\ reply = "none"
  BY Zenon DEF Init, FilterInit
<1>2. <<>> \in Seq(Byte) /\ Len(<<>>) = 0 /\ <<>> \o <<>> = <<>>
  OBVIOUS
<1>3. FilterTypes
  BY Zenon, <1>1, <1>2 DEF FilterTypes
<1>4. /\ source.bytes = <<>> /\ source.end = "open" /\ filter.pending = <<>>
      /\ filter.found = FALSE /\ filter.terminalErr = "nil"
  BY Zenon, <1>1
<1>5. Passed
  BY <1>1, <1>2, <1>4 DEF Passed, Begins, Harmless
<1>6. Replies
  BY Zenon, <1>1, <1>4 DEF Replies
<1> QED
  BY Zenon, <1>3, <1>5, <1>6 DEF ResponseInv

\* Harmless bytes stay so when the response goes on, and when it is closed.
LEMMA StaysHarmless ==
  ASSUME NEW s \in Seq(Byte), NEW t \in Seq(Byte), NEW c \in BOOLEAN, NEW d \in BOOLEAN,
         NEW n \in Nat, Harmless(s, c, n), Begins(s, t),
         c => d /\ t = s
  PROVE  Harmless(t, d, n)
<1> SUFFICES ASSUME NEW i \in 1..n PROVE Differs(t, i) \/ (d /\ i + Len(Secret) - 1 > Len(t))
  BY Zenon DEF Harmless
<1>1. Len(s) \in Nat /\ Len(t) \in Nat /\ Len(Secret) \in Nat
  BY FilterAssumption
<1>2. CASE Differs(s, i)
  <2>1. PICK j \in 1..Len(Secret) : i + j - 1 <= Len(s) /\ s[i + j - 1] # Secret[j]
    BY Zenon, <1>2 DEF Differs
  <2>2. i + j - 1 \in 1..Len(s) /\ i + j - 1 <= Len(t)
    BY <1>1, <2>1 DEF Begins
  <2>3. t[i + j - 1] # Secret[j]
    BY Zenon, <2>1, <2>2 DEF Begins
  <2> QED
    BY Zenon, <2>2, <2>3 DEF Differs
<1>3. CASE c /\ i + Len(Secret) - 1 > Len(s)
  BY Zenon, <1>3
<1> QED
  BY Zenon, <1>2, <1>3 DEF Harmless

\* A step that leaves the reader alone.
LEMMA ReaderIdle ==
  ASSUME ResponseInv, UNCHANGED filterVars, stage # "ended",
         \/ /\ stage' = "ended" /\ reply' \in {"refused", "aborted"}
            /\ reply' = "refused" => stage # "copy"
         \/ /\ stage' # "ended" /\ reply' = reply
            /\ stage' = "copy" <=> stage = "copy"
  PROVE  ResponseInv'
<1>1. source' = source /\ filter' = filter /\ given' = given
  BY Zenon DEF filterVars
<1>2. FilterTypes'
  BY Zenon, <1>1 DEF ResponseInv, FilterTypes
<1>3. Passed'
  <2>1. /\ source.bytes \in Seq(Byte) /\ Len(given) \in Nat
        /\ Begins(source.bytes, source.bytes)
    BY DEF ResponseInv, FilterTypes, Begins
  <2>2. Closed \in BOOLEAN /\ Closed' \in BOOLEAN /\ (Closed => Closed')
    BY Zenon, <1>1 DEF Closed
  <2>3. Harmless(source.bytes, Closed', Len(given))
    BY Zenon, <2>1, <2>2, StaysHarmless DEF ResponseInv, Passed
  <2> QED
    BY Zenon, <1>1, <2>3 DEF ResponseInv, Passed
<1>4. Replies'
  BY Zenon, <1>1 DEF ResponseInv, Replies
<1> QED
  BY Zenon, <1>2, <1>3, <1>4 DEF ResponseInv

\* Up to the response the reader does not run.
LEMMA RequestStepsIdle ==
  ASSUME ResponseInv,
         \/ classifyGitRequest \/ Judge \/ prepareGitRequestBody \/ ReadBody \/ ParseOne
         \/ ParseStops \/ ParseReturns \/ Release \/ Send \/ RoundTrip \/ WriteFails
  PROVE  ResponseInv'
<1>1. UNCHANGED filterVars
  BY Zenon DEF classifyGitRequest, Judge, prepareGitRequestBody, ReadBody, ParseOne, ParseStops,
         ParseReturns, Release, Send, RoundTrip, WriteFails
<1>2. CASE WriteFails
  BY Zenon, <1>1, <1>2, ReaderIdle DEF WriteFails, End
<1>3. CASE ReadBody \/ ParseOne \/ ParseStops \/ Send
  BY Zenon, <1>1, <1>3, ReaderIdle DEF ReadBody, ParseOne, ParseStops, Send
<1>4. CASE classifyGitRequest \/ Judge \/ prepareGitRequestBody \/ ParseReturns \/ Release \/ RoundTrip
  <2>1. stage \notin {"copy", "ended"}
    BY Zenon, <1>4 DEF classifyGitRequest, Judge, prepareGitRequestBody, ParseReturns, Release, RoundTrip
  <2>2. \/ stage' = "ended" /\ reply' = "refused"
        \/ stage' \notin {"copy", "ended"} /\ reply' = reply
    <3>1. CASE classifyGitRequest
      BY Zenon, <3>1 DEF classifyGitRequest, Refuse, End
    <3>2. CASE Judge
      BY Zenon, <3>2 DEF Judge, Refuse, End
    <3>3. CASE prepareGitRequestBody \/ ParseReturns
      BY Zenon, <3>3 DEF prepareGitRequestBody, ParseReturns, Refuse, End
    <3>4. CASE Release \/ RoundTrip
      BY Zenon, <3>4 DEF Release, RoundTrip, Refuse, End
    <3> QED
      BY Zenon, <1>4, <3>1, <3>2, <3>3, <3>4
  <2> QED
    BY Zenon, <1>1, <2>1, <2>2, ReaderIdle
<1> QED
  BY Zenon, <1>2, <1>3, <1>4

\* A sequence cut in two.
LEMMA Cut ==
  ASSUME NEW p \in Seq(Byte), NEW n \in 0..Len(p)
  PROVE  /\ SubSeq(p, 1, n) \in Seq(Byte) /\ Len(SubSeq(p, 1, n)) = n
         /\ SubSeq(p, n + 1, Len(p)) \in Seq(Byte)
         /\ SubSeq(p, 1, n) \o SubSeq(p, n + 1, Len(p)) = p
<1> DEFINE front == SubSeq(p, 1, n)
           rest == SubSeq(p, n + 1, Len(p))
<1>1. Len(p) \in Nat /\ n \in Nat /\ n <= Len(p)
  OBVIOUS
<1>2. front \in Seq(Byte) /\ Len(front) = n /\ \A i \in 1..n : front[i] = p[i]
  <2>1. 1 \in 1..(Len(p) + 1) /\ n \in 0..Len(p) /\ 1 <= n + 1 /\ n - 1 + 1 = n
    BY <1>1
  <2>2. /\ front \in Seq(Byte) /\ Len(front) = n - 1 + 1
        /\ \A i \in 1..(n - 1 + 1) : front[i] = p[1 + i - 1]
    BY <2>1, Piece, Zenon
  <2> HIDE DEF front
  <2>3. ASSUME NEW i \in 1..n PROVE front[i] = p[i]
    <3>1. 1 + i - 1 = i
      BY <1>1
    <3> QED
      BY Zenon, <2>1, <2>2, <3>1
  <2> QED
    BY Zenon, <2>1, <2>2, <2>3
<1>3. /\ rest \in Seq(Byte) /\ Len(rest) = Len(p) - n
      /\ \A i \in 1..(Len(p) - n) : rest[i] = p[n + i]
  <2>1. /\ n + 1 \in 1..(Len(p) + 1) /\ Len(p) \in 0..Len(p) /\ n + 1 <= Len(p) + 1
        /\ Len(p) - (n + 1) + 1 = Len(p) - n
    BY <1>1
  <2>2. /\ rest \in Seq(Byte) /\ Len(rest) = Len(p) - (n + 1) + 1
        /\ \A i \in 1..(Len(p) - (n + 1) + 1) : rest[i] = p[(n + 1) + i - 1]
    BY <2>1, Piece, Zenon
  <2> HIDE DEF rest
  <2>3. ASSUME NEW i \in 1..(Len(p) - n) PROVE rest[i] = p[n + i]
    <3>1. (n + 1) + i - 1 = n + i
      BY <1>1
    <3> QED
      BY Zenon, <2>1, <2>2, <3>1
  <2> QED
    BY Zenon, <2>1, <2>2, <2>3
<1> HIDE DEF front, rest
<1>4. /\ front \o rest \in Seq(Byte) /\ Len(front \o rest) = Len(p)
      /\ \A i \in 1..Len(p) : (front \o rest)[i] = IF i <= n THEN front[i] ELSE rest[i - n]
  BY <1>1, <1>2, <1>3, Joined
<1>5. ASSUME NEW i \in 1..Len(p) PROVE (front \o rest)[i] = p[i]
  BY <1>1, <1>2, <1>3, <1>4
<1>6. front \o rest = p
  BY Zenon, <1>4, <1>5, SameSequence
<1> QED
  BY Zenon, <1>2, <1>3, <1>6 DEF front, rest

\* Reading on behind what was given.
LEMMA BeginsConcat ==
  ASSUME NEW g \in Seq(Byte), NEW p \in Seq(Byte)
  PROVE  /\ g \o p \in Seq(Byte) /\ Len(g \o p) = Len(g) + Len(p) /\ Begins(g, g \o p)
         /\ \A a \in 1..Len(p) : (g \o p)[Len(g) + a] = p[a]
BY DEF Begins

\* A beginning of a beginning.
LEMMA BeginsBegins ==
  ASSUME NEW f \in Seq(Byte), NEW g \in Seq(Byte), NEW s \in Seq(Byte), Begins(f, g), Begins(g, s)
  PROVE  Begins(f, s)
BY DEF Begins

\* No occurrence among the bytes pending.
LEMMA NoOccurrence ==
  ASSUME NEW p \in Seq(Byte), ~Occurs(p, Secret), NEW a \in 1..Len(p),
         a + Len(Secret) - 1 <= Len(p)
  PROVE  \E j \in 1..Len(Secret) : p[a + j - 1] # Secret[j]
<1> SUFFICES ASSUME \A j \in 1..Len(Secret) : p[a + j - 1] = Secret[j] PROVE FALSE
  BY Zenon
<1> DEFINE L == Len(Secret)
           i == a - 1
           b == SubSeq(p, i + 1, i + L)
<1>1. Secret \in Seq(Byte) /\ L \in Nat /\ Len(p) \in Nat /\ L > 0
  BY FilterAssumption
<1> HIDE DEF L
<1>2. i \in 0..(Len(p) - L) /\ i + 1 = a /\ i \in Nat
  BY <1>1 DEF L
<1> HIDE DEF i
<1>3. i + 1 \in 1..(Len(p) + 1) /\ i + L \in 0..Len(p) /\ i + 1 <= i + L + 1
  BY <1>1, <1>2
<1>4. /\ b \in Seq(Byte) /\ Len(b) = (i + L) - (i + 1) + 1
      /\ \A j \in 1..((i + L) - (i + 1) + 1) : b[j] = p[(i + 1) + j - 1]
  BY <1>3, Piece
<1>5. (i + L) - (i + 1) + 1 = L
  BY <1>1, <1>2
<1> HIDE DEF b
<1>6. Len(b) = Len(Secret) /\ \A j \in 1..Len(b) : b[j] = Secret[j]
  BY Zenon, <1>2, <1>4, <1>5 DEF L
<1>7. b = Secret
  BY Zenon, <1>1, <1>4, <1>6, SameSequence
<1> QED
  BY Zenon, <1>2, <1>7 DEF Occurs, b, L

\* Bytes that Read hands out are harmless: there is no credential in what is
\* pending, and what could be the beginning of one is kept back.
LEMMA GivenHarmless ==
  ASSUME NEW g \in Seq(Byte), NEW p \in Seq(Byte), ~Occurs(p, Secret), NEW n \in 0..Len(p),
         NEW closed \in BOOLEAN, Harmless(g \o p, closed, Len(g)),
         ~closed => \A m \in Nat : m < Len(Secret) /\ Ends(Secret, p, Len(p), m) => m + n <= Len(p)
  PROVE  Harmless(g \o p, closed, Len(g) + n)
<1> DEFINE s == g \o p
           L == Len(Secret)
<1>1. /\ s \in Seq(Byte) /\ Len(s) = Len(g) + Len(p)
      /\ \A a \in 1..Len(p) : s[Len(g) + a] = p[a]
  BY Zenon, BeginsConcat
<1> HIDE DEF s
<1>2. L \in Nat /\ Len(g) \in Nat /\ Len(p) \in Nat
  BY FilterAssumption
<1> HIDE DEF L
<1>3. ASSUME NEW i \in 1..(Len(g) + n), ~Differs(s, i)
      PROVE  closed /\ i + L - 1 > Len(s)
  <2>1. CASE i <= Len(g)
    <3>1. i \in 1..Len(g)
      BY <1>2, <2>1
    <3> QED
      BY Zenon, <1>3, <3>1 DEF Harmless, s, L
  <2>2. CASE i > Len(g)
    <3> DEFINE a == i - Len(g)
    <3>1. a \in 1..n /\ a \in 1..Len(p) /\ i = Len(g) + a
      BY <1>2, <2>2
    <3> HIDE DEF a
    <3>2. ASSUME NEW j \in 1..L, a + j - 1 <= Len(p)
          PROVE  p[a + j - 1] = Secret[j]
      <4>1. a + j - 1 \in 1..Len(p) /\ i + j - 1 = Len(g) + (a + j - 1) /\ i + j - 1 <= Len(s)
        BY <1>1, <1>2, <3>1, <3>2
      <4>2. s[i + j - 1] = Secret[j]
        BY Zenon, <1>3, <4>1 DEF Differs, L
      <4> QED
        BY Zenon, <1>1, <4>1, <4>2
    <3>3. a + L - 1 > Len(p)
      <4>1. CASE a + L - 1 <= Len(p)
        <5>1. PICK j \in 1..L : p[a + j - 1] # Secret[j]
          BY Zenon, <3>1, <4>1, NoOccurrence DEF L
        <5>2. a + j - 1 <= Len(p)
          BY <1>2, <3>1, <4>1
        <5> QED
          BY Zenon, <3>2, <5>1, <5>2
      <4> QED
        BY <1>2, <3>1, <4>1
    <3>4. i + L - 1 > Len(s)
      BY <1>1, <1>2, <3>1, <3>3
    <3>5. closed
      <4>1. CASE ~closed
        <5> DEFINE m == Len(p) - a + 1
        <5>1. m \in Nat /\ m < L /\ m <= Len(p) /\ Len(p) - m = a - 1
          BY <1>2, <3>1, <3>3
        <5>2. ASSUME NEW j \in 1..m
              PROVE  p[Len(p) - m + j] = Secret[j]
          <6>1. j \in 1..L /\ a + j - 1 <= Len(p) /\ Len(p) - m + j = a + j - 1
            BY <1>2, <3>1, <5>1
          <6> HIDE DEF m
          <6> QED
            BY Zenon, <3>2, <6>1
        <5> HIDE DEF m
        <5>3. Ends(Secret, p, Len(p), m)
          BY Zenon, <5>1, <5>2 DEF Ends
        <5>4. m + n <= Len(p)
          BY Zenon, <4>1, <5>1, <5>3 DEF L
        <5> QED
          BY <1>2, <3>1, <5>1, <5>4
      <4> QED
        BY Zenon, <4>1
    <3> QED
      BY Zenon, <3>4, <3>5
  <2> QED
    BY <1>2, <2>1, <2>2
<1> QED
  BY Zenon, <1>3 DEF Harmless, s, L

\* Three pieces of a response in order.
LEMMA ThreePieces ==
  ASSUME NEW a \in Seq(Byte), NEW b \in Seq(Byte), NEW c \in Seq(Byte)
  PROVE  (a \o b) \o c = a \o (b \o c)
OBVIOUS

\* The reader asks its source for more.
LEMMA FillInv ==
  ASSUME ResponseInv, Fill
  PROVE  ResponseInv'
<1>1. /\ stage \in {"first", "copy"} /\ stage' = stage /\ reply' = reply /\ given' = given
      /\ ~filter.found /\ filter.terminalErr = "nil"
  BY Zenon DEF Fill, Reading, ReadSource
<1>2. PICK bytes \in Chunk, err \in {"nil", "eof", "failed"} :
        LET idle == IF bytes = <<>> /\ err = "nil" THEN filter.idle + 1
                    ELSE IF bytes # <<>> THEN 0 ELSE filter.idle
        IN  /\ source.end # "open" => bytes = <<>> /\ err = source.end
            /\ source' = [bytes |-> source.bytes \o bytes,
                          end |-> IF err = "nil" THEN source.end ELSE err]
            /\ filter' = [filter EXCEPT
                           !.pending = @ \o bytes, !.idle = idle,
                           !.terminalErr = IF err # "nil" THEN err
                                           ELSE IF idle >= MaxIdle THEN "noProgress" ELSE "nil"]
  BY ZenonT(60) DEF Fill, ReadSource
<1> DEFINE idle == IF bytes = <<>> /\ err = "nil" THEN filter.idle + 1
                   ELSE IF bytes # <<>> THEN 0 ELSE filter.idle
           s == source.bytes
           p == filter.pending
           end == IF err = "nil" THEN source.end ELSE err
           terminal == IF err # "nil" THEN err ELSE IF idle >= MaxIdle THEN "noProgress" ELSE "nil"
<1>3. bytes \in Seq(Byte)
  BY DEF Chunk
<1>4. /\ s \in Seq(Byte) /\ p \in Seq(Byte) /\ given \in Seq(Byte)
      /\ source.end \in {"open", "eof", "failed"} /\ filter.idle \in Nat
  BY Zenon DEF ResponseInv, FilterTypes
<1>5. idle \in Nat /\ end \in {"open", "eof", "failed"} /\ terminal \in {"nil", "eof", "failed", "noProgress"}
  BY <1>2, <1>4
<1>6. /\ terminal \in {"eof", "failed"} => end = terminal
      /\ source.end # "open" => end # "open"
  BY Zenon, <1>2, <1>4
<1>7. filter' = [filter EXCEPT !.pending = p \o bytes, !.idle = idle, !.terminalErr = terminal]
  BY Zenon, <1>2
<1> HIDE DEF end, terminal, idle
<1>8. s \o bytes \in Seq(Byte) /\ p \o bytes \in Seq(Byte) /\ Begins(s, s \o bytes)
  BY Zenon, <1>3, <1>4, BeginsConcat
<1>9. /\ source' = [bytes |-> s \o bytes, end |-> end]
      /\ source'.bytes = s \o bytes /\ source'.end = end
  BY Zenon, <1>2 DEF end
<1>10. /\ filter' \in [pending : Seq(Byte), terminalErr : {"nil", "eof", "failed", "noProgress"},
                       found : BOOLEAN, idle : Nat]
       /\ filter'.pending = p \o bytes /\ filter'.terminalErr = terminal /\ filter'.found = filter.found
  BY Zenon, <1>5, <1>7, <1>8 DEF ResponseInv, FilterTypes
<1>11. FilterTypes'
  BY Zenon, <1>1, <1>4, <1>5, <1>8, <1>9, <1>10 DEF FilterTypes
<1>12. Passed'
  <2>1. Begins(given', source'.bytes)
    BY Zenon, <1>1, <1>4, <1>8, <1>9, BeginsBegins DEF ResponseInv, Passed
  <2>2. source'.bytes = given' \o filter'.pending
    <3>1. s = given \o p
      BY Zenon, <1>1 DEF ResponseInv, Passed
    <3>2. (given \o p) \o bytes = given \o (p \o bytes)
      BY <1>3, <1>4, ThreePieces
    <3> QED
      BY Zenon, <1>1, <1>9, <1>10, <3>1, <3>2
  <2>3. Harmless(source'.bytes, Closed', Len(given'))
    <3>1. Closed \in BOOLEAN /\ Closed' \in BOOLEAN /\ Len(given) \in Nat
      BY <1>4 DEF Closed
    <3>2. Closed => Closed' /\ s \o bytes = s
      <4>1. Closed => source.end # "open"
        BY Zenon, <1>1 DEF Closed
      <4>2. source.end # "open" => s \o bytes = s
        BY Zenon, <1>2, <1>4, JoinedEmpty
      <4> QED
        BY Zenon, <1>6, <1>9, <4>1, <4>2 DEF Closed
    <3>3. Harmless(s, Closed, Len(given))
      BY Zenon DEF ResponseInv, Passed
    <3>4. Harmless(s \o bytes, Closed', Len(given))
      <4> DEFINE c == Closed
                 d == Closed'
                 t == s \o bytes
      <4>1. /\ s \in Seq(Byte) /\ t \in Seq(Byte) /\ c \in BOOLEAN /\ d \in BOOLEAN
            /\ Len(given) \in Nat /\ Harmless(s, c, Len(given)) /\ Begins(s, t)
            /\ c => d /\ t = s
        BY Zenon, <1>4, <1>8, <3>1, <3>2, <3>3
      <4> HIDE DEF c, d, t, s
      <4>2. Harmless(t, d, Len(given))
        BY Zenon, <4>1, StaysHarmless
      <4> QED
        BY Zenon, <4>2 DEF c, d, t
    <3> QED
      BY Zenon, <1>1, <1>9, <3>4
  <2> QED
    BY Zenon, <2>1, <2>2, <2>3 DEF Passed
<1>13. Replies'
  BY Zenon, <1>1, <1>6, <1>9, <1>10 DEF ResponseInv, Replies
<1> QED
  BY Zenon, <1>11, <1>12, <1>13 DEF ResponseInv

\* The credential is there: ErrSecretReflection.
LEMMA ReflectedInv ==
  ASSUME ResponseInv, Reflected
  PROVE  ResponseInv'
<1>1. /\ stage \in {"first", "copy"} /\ source' = source /\ given' = given
      /\ filter' = [filter EXCEPT !.found = TRUE, !.pending = <<>>]
      /\ stage' = "ended" /\ reply' = IF stage = "first" THEN "refused" ELSE "aborted"
  BY Zenon DEF Reflected, Reading, ReadReflects, End
<1>2. /\ filter' \in [pending : Seq(Byte), terminalErr : {"nil", "eof", "failed", "noProgress"},
                      found : BOOLEAN, idle : Nat]
      /\ filter'.found /\ filter'.terminalErr = filter.terminalErr
  <2>1. <<>> \in Seq(Byte)
    OBVIOUS
  <2> QED
    BY Zenon, <1>1, <2>1 DEF ResponseInv, FilterTypes
<1>3. FilterTypes'
  BY Zenon, <1>1, <1>2 DEF ResponseInv, FilterTypes
<1>4. Passed'
  <2>1. Closed \in BOOLEAN /\ Closed' \in BOOLEAN /\ Closed'
    BY Zenon, <1>1 DEF Closed
  <2>2. /\ source.bytes \in Seq(Byte) /\ Len(given) \in Nat
        /\ Begins(source.bytes, source.bytes)
    BY DEF ResponseInv, FilterTypes, Begins
  <2>3. Harmless(source.bytes, Closed', Len(given))
    BY Zenon, <2>1, <2>2, StaysHarmless DEF ResponseInv, Passed
  <2> QED
    BY Zenon, <1>1, <1>2, <2>3 DEF ResponseInv, Passed
<1>5. Replies'
  BY Zenon, <1>1, <1>2 DEF ResponseInv, Replies
<1> QED
  BY Zenon, <1>3, <1>4, <1>5 DEF ResponseInv

-----------------------------------------------------------------------------
(* The overlap of a response with the credential *)

W == INSTANCE WellFoundedInduction

\* A set of numbers that is not empty has a least one.
LEMMA LeastNumber ==
  ASSUME NEW T \in SUBSET Nat, T # {}
  PROVE  \E n \in T : \A k \in T : n <= k
<1>1. PICK n \in T : \A k \in T : ~(<<k, n>> \in W!OpToRel(<, Nat))
  BY Zenon, W!WFMin, W!NatLessThanWellFounded
<1>2. ASSUME NEW k \in T PROVE n <= k
  <2>1. <<k, n>> \notin W!OpToRel(<, Nat)
    BY Zenon, <1>1
  <2>2. n \in Nat /\ k \in Nat
    BY Zenon
  <2>3. ~(k < n)
    BY Zenon, <2>1, <2>2 DEF W!OpToRel
  <2> QED
    BY <2>2, <2>3
<1> QED
  BY Zenon, <1>2

\* An ending of an ending, and an ending beside a longer one.
LEMMA EndsOfEnds ==
  ASSUME NEW p, NEW v, NEW n \in Nat, NEW m \in Nat, NEW k \in Nat, Ends(p, v, n, m), k <= m
  PROVE  Ends(p, v, n, k) <=> Ends(p, p, m, k)
<1>1. k <= n /\ m <= n
  BY DEF Ends
<1>2. ASSUME NEW j \in 1..k
      PROVE  v[n - k + j] = p[m - k + j]
  <2>1. m - k + j \in 1..m /\ n - m + (m - k + j) = n - k + j
    OBVIOUS
  <2>2. v[n - m + (m - k + j)] = p[m - k + j]
    BY Zenon, <2>1 DEF Ends
  <2> QED
    BY Zenon, <2>1, <2>2
<1> QED
  BY Zenon, <1>1, <1>2 DEF Ends

\* One byte more.
LEMMA EndsNext ==
  ASSUME NEW p, NEW v, NEW n \in Nat, NEW m \in Nat
  PROVE  Ends(p, v, n + 1, m + 1) <=> Ends(p, v, n, m) /\ v[n + 1] = p[m + 1]
<1>1. ASSUME Ends(p, v, n + 1, m + 1)
      PROVE  Ends(p, v, n, m) /\ v[n + 1] = p[m + 1]
  <2>1. m <= n
    BY <1>1 DEF Ends
  <2>2. ASSUME NEW j \in 1..(m + 1) PROVE v[n - m + j] = p[j]
    <3>1. (n + 1) - (m + 1) + j = n - m + j
      OBVIOUS
    <3>2. v[(n + 1) - (m + 1) + j] = p[j]
      BY Zenon, <1>1 DEF Ends
    <3> QED
      BY Zenon, <3>1, <3>2
  <2>3. v[n - m + (m + 1)] = p[m + 1] /\ n - m + (m + 1) = n + 1
    BY <2>2
  <2>4. \A j \in 1..m : v[n - m + j] = p[j]
    BY <2>2
  <2> QED
    BY Zenon, <2>1, <2>3, <2>4 DEF Ends
<1>2. ASSUME Ends(p, v, n, m), v[n + 1] = p[m + 1]
      PROVE  Ends(p, v, n + 1, m + 1)
  <2>1. m + 1 <= n + 1
    BY <1>2 DEF Ends
  <2>2. ASSUME NEW j \in 1..(m + 1)
        PROVE  v[(n + 1) - (m + 1) + j] = p[j]
    <3>1. (n + 1) - (m + 1) + j = n - m + j
      OBVIOUS
    <3>2. CASE j = m + 1
      <4>1. n - m + j = n + 1
        BY <3>2
      <4> QED
        BY Zenon, <1>2, <3>1, <3>2, <4>1
    <3>3. CASE j \in 1..m
      BY Zenon, <1>2, <3>1, <3>3 DEF Ends
    <3> QED
      BY <3>2, <3>3
  <2> QED
    BY Zenon, <2>1, <2>2 DEF Ends
<1> QED
  BY Zenon, <1>1, <1>2

\* The failure function, up to n: the longest proper ending that is a beginning.
Borders(p, failure, n) ==
  \A k \in 1..n :
    /\ failure[k] \in 0..(k - 1) /\ Ends(p, p, k, failure[k])
    /\ \A m \in 0..(k - 1) : Ends(p, p, k, m) => m <= failure[k]

\* The inner loop as a function: the code's, as far as matched.
IsFall(f, p, failure, matched, c) ==
  f = [m \in 0..matched |-> IF m > 0 /\ c # p[m + 1] THEN f[failure[m]] ELSE m]

\* The loop is well defined: failure[m] < m.
LEMMA FallExists ==
  ASSUME NEW p, NEW failure, NEW c, NEW M \in Nat, Borders(p, failure, M)
  PROVE  \E f : IsFall(f, p, failure, M, c)
<1> DEFINE T == {n \in Nat : n <= M /\ ~\E f : IsFall(f, p, failure, n, c)}
<1>1. SUFFICES ASSUME T # {} PROVE FALSE
  BY <1>1
<1>2. PICK n \in T : \A k \in T : n <= k
  BY Zenon, <1>1, LeastNumber
<1>3. n \in Nat /\ n <= M /\ ~\E f : IsFall(f, p, failure, n, c)
  BY Zenon
<1>4. CASE n = 0
  <2> DEFINE g == [m \in 0..0 |-> 0]
  <2>1. g = [m \in 0..0 |-> IF m > 0 /\ c # p[m + 1] THEN g[failure[m]] ELSE m]
    OBVIOUS
  <2> HIDE DEF g
  <2>2. IsFall(g, p, failure, 0, c)
    BY Zenon, <2>1 DEF IsFall
  <2> QED
    BY Zenon, <1>3, <1>4, <2>2
<1>5. CASE n > 0
  <2>1. n - 1 \in Nat /\ n - 1 <= M /\ n - 1 \notin T
    BY <1>2, <1>3, <1>5
  <2>2. PICK g : IsFall(g, p, failure, n - 1, c)
    BY Zenon, <2>1
  <2>3. g = [m \in 0..(n - 1) |-> IF m > 0 /\ c # p[m + 1] THEN g[failure[m]] ELSE m]
    BY SMTT(30), <2>2 DEF IsFall
  <2> DEFINE h == [m \in 0..n |-> IF m > 0 /\ c # p[m + 1] THEN g[failure[m]] ELSE m]
  <2>4. \A m \in 0..(n - 1) : h[m] = g[m]
    <3>1. \A m \in 0..(n - 1) : g[m] = IF m > 0 /\ c # p[m + 1] THEN g[failure[m]] ELSE m
      BY <2>3, Zenon
    <3>2. \A m \in 0..(n - 1) : m \in 0..n
      BY <1>3
    <3> QED
      BY Zenon, <3>1, <3>2
  <2>5. \A m \in 1..n : failure[m] \in 0..(n - 1)
    <3>1. ASSUME NEW m \in 1..n PROVE failure[m] \in 0..(n - 1)
      <4>1. m \in 1..M
        BY <1>3
      <4>2. failure[m] \in 0..(m - 1)
        BY Zenon, <4>1 DEF Borders
      <4> QED
        BY <1>3, <4>2
    <3> QED
      BY Zenon, <3>1
  <2>6. h = [m \in 0..n |-> IF m > 0 /\ c # p[m + 1] THEN h[failure[m]] ELSE m]
    <3>1. \A m \in 0..n : m > 0 => h[failure[m]] = g[failure[m]]
      <4> HIDE DEF h
      <4> QED
        BY <1>3, <2>4, <2>5
    <3>2. \A m \in 0..n : (IF m > 0 /\ c # p[m + 1] THEN g[failure[m]] ELSE m)
                            = IF m > 0 /\ c # p[m + 1] THEN h[failure[m]] ELSE m
      <4> HIDE DEF h
      <4> QED
        BY Zenon, <3>1
    <3> QED
      BY <3>2, Zenon
  <2> HIDE DEF h
  <2>7. IsFall(h, p, failure, n, c)
    BY Zenon, <2>6 DEF IsFall
  <2> QED
    BY Zenon, <1>3, <2>7
<1> QED
  BY <1>3, <1>4, <1>5

\* Where the loop stops: at the longest beginning that ends the m bytes matched
\* and goes on with c, or at none.
Fallen(p, c, m, k) ==
  /\ k \in 0..m /\ Ends(p, p, m, k) /\ (k = 0 \/ c = p[k + 1])
  /\ \A l \in 0..m : l > k /\ Ends(p, p, m, l) => c # p[l + 1]

\* It does, by induction on what is matched.
LEMMA FallStops ==
  ASSUME NEW p, NEW failure, NEW c, NEW M \in Nat, Borders(p, failure, M),
         NEW f, IsFall(f, p, failure, M, c)
  PROVE  Fallen(p, c, M, f[M])
<1> DEFINE T == {n \in Nat : n <= M /\ ~Fallen(p, c, n, f[n])}
<1>1. SUFFICES ASSUME T # {} PROVE FALSE
  BY <1>1
<1>2. PICK n \in T : \A k \in T : n <= k
  BY Zenon, <1>1, LeastNumber
<1>3. n \in Nat /\ n <= M /\ ~Fallen(p, c, n, f[n])
  BY Zenon
<1>4. f[n] = IF n > 0 /\ c # p[n + 1] THEN f[failure[n]] ELSE n
  <2>1. f = [m \in 0..M |-> IF m > 0 /\ c # p[m + 1] THEN f[failure[m]] ELSE m]
    BY SMTT(30) DEF IsFall
  <2>2. n \in 0..M
    BY <1>3
  <2> QED
    BY <2>1, <2>2, Zenon
<1>5. CASE ~(n > 0 /\ c # p[n + 1])
  <2>1. f[n] = n /\ Ends(p, p, n, n)
    <3>1. f[n] = n
      BY Zenon, <1>4, <1>5
    <3>2. Ends(p, p, n, n)
      BY <1>3 DEF Ends
    <3> QED  BY Zenon, <3>1, <3>2
  <2> QED
    BY <1>3, <1>5, <2>1 DEF Fallen
<1>6. CASE n > 0 /\ c # p[n + 1]
  <2> DEFINE b == failure[n]
             k == f[b]
  <2>1. /\ b \in 0..(n - 1) /\ Ends(p, p, n, b)
        /\ \A m \in 0..(n - 1) : Ends(p, p, n, m) => m <= b
    BY <1>3, <1>6 DEF Borders
  <2>2. f[n] = k
    BY Zenon, <1>4, <1>6
  <2> HIDE DEF b
  <2>3. Fallen(p, c, b, k)
    <3>1. b \in Nat /\ b <= M /\ ~(n <= b)
      BY <1>3, <2>1
    <3> QED  BY Zenon, <1>2, <3>1
  <2> HIDE DEF k
  <2>4. b \in Nat /\ k \in Nat /\ k <= b /\ b < n
    <3>1. k \in 0..b
      BY Zenon, <2>3 DEF Fallen
    <3> QED  BY <1>3, <2>1, <3>1
  <2>5. Ends(p, p, n, k)
    BY Zenon, <1>3, <2>1, <2>3, <2>4, EndsOfEnds DEF Fallen
  <2>6. ASSUME NEW l \in 0..n, l > k, Ends(p, p, n, l)
        PROVE  c # p[l + 1]
    <3>1. CASE l = n
      BY Zenon, <1>6, <3>1
    <3>2. CASE l # n
      <4>1. l \in 0..(n - 1) /\ l \in Nat
        BY <1>3, <3>2
      <4>2. l <= b
        BY Zenon, <2>1, <2>6, <4>1
      <4>3. Ends(p, p, b, l)
        BY Zenon, <1>3, <2>1, <2>4, <2>6, <4>1, <4>2, EndsOfEnds
      <4>4. l \in 0..b
        BY <2>4, <4>1, <4>2
      <4> QED
        BY Zenon, <2>3, <2>6, <4>3, <4>4 DEF Fallen
    <3> QED
      BY Zenon, <3>1, <3>2
  <2>7. Fallen(p, c, n, k)
    <3>1. k \in 0..n
      BY <1>3, <2>4
    <3>2. k = 0 \/ c = p[k + 1]
      BY Zenon, <2>3 DEF Fallen
    <3> QED  BY Zenon, <2>5, <2>6, <3>1, <3>2 DEF Fallen
  <2> QED
    BY Zenon, <1>3, <2>2, <2>7
<1> QED
  BY Zenon, <1>3, <1>5, <1>6

\* One byte of the automaton.  Before it, matched bytes of the pattern end the
\* text and, among the beginnings shorter than bound, no longer ones do; after
\* it the same holds of what Advance returns, and of those up to bound.
LEMMA AdvanceIsLongest ==
  ASSUME NEW p, NEW failure, NEW v, NEW n \in Nat, NEW matched \in Nat, NEW bound \in Nat,
         Borders(p, failure, matched), Ends(p, v, n, matched),
         \A m \in Nat : m < bound /\ Ends(p, v, n, m) => m <= matched
  PROVE  LET next == Advance(p, failure, matched, v[n + 1])
         IN  /\ next \in 0..(matched + 1) /\ Ends(p, v, n + 1, next)
             /\ \A m \in Nat : m <= bound /\ Ends(p, v, n + 1, m) => m <= next
<1> DEFINE c == v[n + 1]
           fall == CHOOSE f : f = [m \in 0..matched |-> IF m > 0 /\ c # p[m + 1] THEN f[failure[m]] ELSE m]
           k == fall[matched]
           next == IF c = p[k + 1] THEN k + 1 ELSE k
<1>1. Advance(p, failure, matched, c) = next
  BY Zenon DEF Advance
<1>2. IsFall(fall, p, failure, matched, c)
  <2> HIDE DEF c
  <2>1. \E f : IsFall(f, p, failure, matched, c)
    BY Zenon, FallExists
  <2>2. fall = [m \in 0..matched |-> IF m > 0 /\ c # p[m + 1] THEN fall[failure[m]] ELSE m]
    BY <2>1, Zenon DEF IsFall
  <2> HIDE DEF fall
  <2> QED
    BY Zenon, <2>2 DEF IsFall
<1> HIDE DEF fall
<1>3. Fallen(p, c, matched, k)
  BY Zenon, <1>2, FallStops
<1> HIDE DEF k, c
<1>4. k \in Nat /\ k <= matched /\ Ends(p, p, matched, k)
  BY <1>3 DEF Fallen
<1>5. Ends(p, v, n, k)
  BY Zenon, <1>4, EndsOfEnds
<1>6. next \in 0..(matched + 1)
  BY <1>4
<1>7. Ends(p, v, n + 1, next)
  <2>1. CASE c = p[k + 1]
    BY Zenon, <1>4, <1>5, <2>1, EndsNext DEF c
  <2>2. CASE c # p[k + 1]
    <3>1. next = 0
      BY Zenon, <1>3, <2>2 DEF Fallen
    <3> QED
      BY <3>1 DEF Ends
  <2> QED
    BY Zenon, <2>1, <2>2
<1>8. ASSUME NEW m \in Nat, m <= bound, Ends(p, v, n + 1, m)
      PROVE  m <= next
  <2>1. CASE m = 0
    BY <1>6, <2>1
  <2>2. CASE m > 0
    <3> DEFINE l == m - 1
    <3>1. l \in Nat /\ l < bound /\ m = l + 1
      BY <1>8, <2>2
    <3> HIDE DEF l
    <3>2. Ends(p, v, n, l) /\ c = p[l + 1]
      BY <1>8, <3>1, EndsNext DEF c
    <3>3. l <= matched
      BY Zenon, <3>1, <3>2
    <3>4. Ends(p, p, matched, l)
      BY Zenon, <3>1, <3>2, <3>3, EndsOfEnds
    <3>5. ~(l > k)
      BY <1>3, <3>1, <3>2, <3>3, <3>4 DEF Fallen
    <3> QED
      BY <1>4, <3>1, <3>2, <3>5
  <2> QED
    BY <2>1, <2>2
<1> HIDE DEF next
<1> QED
  BY Zenon, <1>1, <1>6, <1>7, <1>8 DEF c

-----------------------------------------------------------------------------
\* The failure function, one entry at a time.
IsUpTo(f, p, N) ==
  f = [n \in 1..N |->
        IF n = 1 THEN <<0>>
        ELSE Append(f[n - 1], Advance(p, f[n - 1], f[n - 1][n - 1], p[n]))]

\* The loop of prefixFailure is well defined.
LEMMA UpToExists ==
  ASSUME NEW p, NEW N \in Nat
  PROVE  \E f : IsUpTo(f, p, N)
<1> DEFINE T == {n \in Nat : ~\E f : IsUpTo(f, p, n)}
<1>1. SUFFICES ASSUME T # {} PROVE FALSE
  BY Zenon, <1>1
<1>2. PICK n \in T : \A k \in T : n <= k
  BY Zenon, <1>1, LeastNumber
<1>3. n \in Nat /\ ~\E f : IsUpTo(f, p, n)
  BY Zenon
<1>4. CASE n = 0
  <2> DEFINE g == [m \in 1..0 |-> <<0>>]
  <2>1. g = [m \in 1..0 |-> IF m = 1 THEN <<0>>
                            ELSE Append(g[m - 1], Advance(p, g[m - 1], g[m - 1][m - 1], p[m]))]
    OBVIOUS
  <2> HIDE DEF g
  <2>2. IsUpTo(g, p, 0)
    BY Zenon, <2>1 DEF IsUpTo
  <2> QED
    BY Zenon, <1>3, <1>4, <2>2
<1>5. CASE n > 0
  <2>1. n - 1 \in Nat /\ n - 1 \notin T
    BY <1>2, <1>3, <1>5
  <2>2. PICK g : IsUpTo(g, p, n - 1)
    BY Zenon, <2>1
  <2> DEFINE step(m, s) == IF m = 1 THEN <<0>> ELSE Append(s, Advance(p, s, s[m - 1], p[m]))
             h == [m \in 1..n |-> step(m, g[m - 1])]
  <2>3. g = [m \in 1..(n - 1) |-> step(m, g[m - 1])]
    BY <2>2, Zenon DEF IsUpTo
  <2> HIDE DEF step
  <2>4. \A m \in 1..(n - 1) : h[m] = g[m]
    <3>1. \A m \in 1..(n - 1) : g[m] = step(m, g[m - 1])
      BY <2>3, Zenon
    <3>2. \A m \in 1..(n - 1) : m \in 1..n
      BY <1>3
    <3> QED
      BY <3>1, <3>2, Zenon
  <2>5. h = [m \in 1..n |-> step(m, h[m - 1])]
    <3>1. \A m \in 1..n : step(m, g[m - 1]) = step(m, h[m - 1])
      <4> SUFFICES ASSUME NEW m \in 1..n PROVE step(m, g[m - 1]) = step(m, h[m - 1])
        BY Zenon
      <4> HIDE DEF h
      <4>1. CASE m = 1
        BY <4>1, Zenon DEF step
      <4>2. CASE m # 1
        <5>1. m - 1 \in 1..(n - 1)
          BY <1>3, <4>2
        <5>2. h[m - 1] = g[m - 1]
          BY Zenon, <2>4, <5>1
        <5> QED
          BY <5>2, Zenon
      <4> QED
        BY Zenon, <4>1, <4>2
    <3> QED
      BY <3>1, Zenon
  <2> HIDE DEF h
  <2>6. IsUpTo(h, p, n)
    BY <2>5, Zenon DEF IsUpTo, step
  <2> QED
    BY Zenon, <1>3, <2>6
<1> QED
  BY <1>3, <1>4, <1>5

\* An entry more leaves the earlier ones.
LEMMA BordersExtend ==
  ASSUME NEW p, NEW n \in Nat, NEW s \in Seq(Nat), Len(s) = n, Borders(p, s, n),
         NEW k \in 0..n, Ends(p, p, n + 1, k),
         \A m \in Nat : m <= n /\ Ends(p, p, n + 1, m) => m <= k
  PROVE  /\ Append(s, k) \in Seq(Nat) /\ Len(Append(s, k)) = n + 1
         /\ Borders(p, Append(s, k), n + 1)
<1> DEFINE t == Append(s, k)
<1>1. t \in Seq(Nat) /\ Len(t) = n + 1 /\ t[n + 1] = k /\ \A i \in 1..n : t[i] = s[i]
  OBVIOUS
<1> HIDE DEF t
<1>2. ASSUME NEW i \in 1..(n + 1)
      PROVE  /\ t[i] \in 0..(i - 1) /\ Ends(p, p, i, t[i])
             /\ \A m \in 0..(i - 1) : Ends(p, p, i, m) => m <= t[i]
  <2>1. CASE i \in 1..n
    BY Zenon, <1>1, <2>1 DEF Borders
  <2>2. CASE i = n + 1
    <3>1. i - 1 = n /\ t[i] = k
      BY <1>1, <2>2
    <3> QED
      BY <2>2, <3>1
  <2> QED
    BY <2>1, <2>2
<1>3. Borders(p, t, n + 1)
  BY Zenon, <1>2 DEF Borders
<1> QED
  BY Zenon, <1>1, <1>3 DEF t

\* prefixFailure computes the failure function of the pattern.
LEMMA FailureIsRight ==
  ASSUME NEW p, Len(p) \in Nat, Len(p) > 0
  PROVE  Borders(p, prefixFailure(p), Len(p))
<1> DEFINE N == Len(p)
           upTo == CHOOSE f : f = [n \in 1..N |->
                     IF n = 1 THEN <<0>>
                     ELSE Append(f[n - 1], Advance(p, f[n - 1], f[n - 1][n - 1], p[n]))]
<1>1. prefixFailure(p) = upTo[N]
  BY Zenon DEF prefixFailure
<1>2. upTo = [n \in 1..N |->
               IF n = 1 THEN <<0>>
               ELSE Append(upTo[n - 1], Advance(p, upTo[n - 1], upTo[n - 1][n - 1], p[n]))]
  <2>1. PICK f : f = [n \in 1..N |->
                  IF n = 1 THEN <<0>>
                  ELSE Append(f[n - 1], Advance(p, f[n - 1], f[n - 1][n - 1], p[n]))]
    BY UpToExists, ZenonT(60) DEF IsUpTo
  <2> QED
    BY <2>1, Zenon
<1> HIDE DEF upTo
<1> DEFINE Right(n) == upTo[n] \in Seq(Nat) /\ Len(upTo[n]) = n /\ Borders(p, upTo[n], n)
           T == {n \in Nat : n \in 1..N /\ ~Right(n)}
<1>3. T = {}
  <2>1. SUFFICES ASSUME T # {} PROVE FALSE
    BY Zenon, <2>1
  <2>2. PICK n \in T : \A k \in T : n <= k
    BY Zenon, <2>1, LeastNumber
  <2>3. n \in Nat /\ n \in 1..N /\ ~Right(n)
    BY Zenon
  <2>4. upTo[n] = IF n = 1 THEN <<0>>
                  ELSE Append(upTo[n - 1], Advance(p, upTo[n - 1], upTo[n - 1][n - 1], p[n]))
    BY <1>2, <2>3, Zenon
  <2>5. CASE n = 1
    <3>1. <<0>> \in Seq(Nat) /\ Len(<<0>>) = 1 /\ <<0>>[1] = 0
      OBVIOUS
    <3>2. upTo[1] = <<0>>
      BY Zenon, <2>4, <2>5
    <3>3. Borders(p, upTo[1], 1)
      BY <3>1, <3>2 DEF Borders, Ends
    <3> QED
      BY Zenon, <2>3, <2>5, <3>1, <3>2, <3>3
  <2>6. CASE n > 1
    <3> DEFINE s == upTo[n - 1]
               b == s[n - 1]
               k == Advance(p, s, b, p[n])
    <3>1. n - 1 \in Nat /\ n - 1 \in 1..N /\ n - 1 > 0 /\ (n - 1) + 1 = n
      BY <2>3, <2>6
    <3>2. Right(n - 1)
      BY <2>2, <2>3, <3>1
    <3>3. upTo[n] = Append(s, k)
      BY <2>4, <2>6
    <3> HIDE DEF k, s
    <3>4. s \in Seq(Nat) /\ Len(s) = n - 1 /\ Borders(p, s, n - 1)
      BY Zenon, <3>2 DEF s
    <3>5. /\ b \in 0..(n - 2) /\ b \in Nat /\ Ends(p, p, n - 1, b)
          /\ \A m \in Nat : m < n - 1 /\ Ends(p, p, n - 1, m) => m <= b
      <4>1. n - 1 \in 1..(n - 1) /\ (n - 1) - 1 = n - 2
        BY <3>1
      <4>2. /\ b \in 0..(n - 2) /\ Ends(p, p, n - 1, b)
            /\ \A m \in 0..(n - 2) : Ends(p, p, n - 1, m) => m <= b
        BY Zenon, <3>4, <4>1 DEF Borders
      <4>3. \A m \in Nat : m < n - 1 => m \in 0..(n - 2)
        BY <3>1
      <4> QED
        BY <4>2, <4>3
    <3> HIDE DEF b
    <3>6. Borders(p, s, b)
      <4>1. \A i \in 1..b : i \in 1..(n - 1)
        BY <3>1, <3>5
      <4> QED
        BY <3>4, <4>1, Zenon DEF Borders
    <3>7. /\ k \in 0..(b + 1) /\ Ends(p, p, n, k)
          /\ \A m \in Nat : m <= n - 1 /\ Ends(p, p, n, m) => m <= k
      <4> DEFINE d == n - 1
      <4>1. d \in Nat /\ n = d + 1
        BY Zenon, <3>1
      <4>2. /\ b \in Nat /\ Borders(p, s, b) /\ Ends(p, p, d, b)
            /\ \A m \in Nat : m < d /\ Ends(p, p, d, m) => m <= b
        BY Zenon, <3>5, <3>6
      <4> HIDE DEF d
      <4>3. LET next == Advance(p, s, b, p[d + 1])
            IN  /\ next \in 0..(b + 1) /\ Ends(p, p, d + 1, next)
                /\ \A m \in Nat : m <= d /\ Ends(p, p, d + 1, m) => m <= next
        BY Zenon, <4>1, <4>2, AdvanceIsLongest
      <4>4. k = Advance(p, s, b, p[d + 1])
        BY Zenon, <4>1 DEF k
      <4>5. n - 1 = d
        BY Zenon DEF d
      <4> QED
        BY Zenon, <4>1, <4>3, <4>4, <4>5
    <3>8. k \in 0..(n - 1)
      BY <3>1, <3>5, <3>7
    <3>9. /\ Append(s, k) \in Seq(Nat) /\ Len(Append(s, k)) = n
          /\ Borders(p, Append(s, k), n)
      BY <3>1, <3>4, <3>7, <3>8, BordersExtend
    <3> QED
      BY Zenon, <2>3, <3>3, <3>9
  <2> QED
    BY <2>3, <2>5, <2>6
<1>4. Right(N)
  BY <1>3
<1> QED
  BY Zenon, <1>1, <1>4

\* The loop of suffixPrefixOverlap.
IsScan(f, v, p, failure, N) ==
  f = [k \in 0..N |->
        IF k = 0 THEN 0
        ELSE LET next == Advance(p, failure, f[k - 1], v[k])
             IN  IF next = Len(p) THEN failure[next] ELSE next]

\* It is well defined.
LEMMA ScanExists ==
  ASSUME NEW v, NEW p, NEW failure, NEW N \in Nat
  PROVE  \E f : IsScan(f, v, p, failure, N)
<1> DEFINE T == {n \in Nat : ~\E f : IsScan(f, v, p, failure, n)}
<1>1. SUFFICES ASSUME T # {} PROVE FALSE
  BY Zenon, <1>1
<1>2. PICK n \in T : \A k \in T : n <= k
  BY Zenon, <1>1, LeastNumber
<1>3. n \in Nat /\ ~\E f : IsScan(f, v, p, failure, n)
  BY Zenon
<1> DEFINE step(k, m) == IF k = 0 THEN 0
                         ELSE LET next == Advance(p, failure, m, v[k])
                              IN  IF next = Len(p) THEN failure[next] ELSE next
<1>4. \A f, m : IsScan(f, v, p, failure, m) <=> f = [k \in 0..m |-> step(k, f[k - 1])]
  BY Zenon DEF IsScan
<1>5. \A m : step(0, m) = 0
  BY Zenon
<1> HIDE DEF step
<1>6. CASE n = 0
  <2> DEFINE g == [k \in 0..0 |-> 0]
  <2>1. \A k \in 0..0 : step(k, g[k - 1]) = 0
    BY <1>5
  <2>2. g = [k \in 0..0 |-> step(k, g[k - 1])]
    BY <2>1, Zenon
  <2> HIDE DEF g
  <2> QED
    BY Zenon, <1>3, <1>4, <1>6, <2>2
<1>7. CASE n > 0
  <2>1. n - 1 \in Nat /\ n - 1 \notin T
    BY <1>2, <1>3, <1>7
  <2>2. PICK g : IsScan(g, v, p, failure, n - 1)
    BY Zenon, <2>1
  <2> DEFINE h == [k \in 0..n |-> step(k, g[k - 1])]
  <2>3. g = [k \in 0..(n - 1) |-> step(k, g[k - 1])]
    BY <1>4, <2>2
  <2>4. \A k \in 0..(n - 1) : h[k] = g[k]
    <3>1. \A k \in 0..(n - 1) : g[k] = step(k, g[k - 1])
      BY <2>3, Zenon
    <3>2. \A k \in 0..(n - 1) : k \in 0..n
      BY <1>3
    <3> QED
      BY <3>1, <3>2, Zenon
  <2>5. \A k \in 0..n : step(k, g[k - 1]) = step(k, h[k - 1])
    <3> SUFFICES ASSUME NEW k \in 0..n PROVE step(k, g[k - 1]) = step(k, h[k - 1])
      BY Zenon
    <3> HIDE DEF h
    <3>1. CASE k = 0
      BY Zenon, <1>5, <3>1
    <3>2. CASE k # 0
      <4>1. k - 1 \in 0..(n - 1)
        BY <1>3, <3>2
      <4>2. h[k - 1] = g[k - 1]
        BY Zenon, <2>4, <4>1
      <4> QED
        BY <4>2, Zenon
    <3> QED
      BY Zenon, <3>1, <3>2
  <2>6. h = [k \in 0..n |-> step(k, h[k - 1])]
    BY <2>5, Zenon
  <2> HIDE DEF h
  <2> QED
    BY Zenon, <1>3, <1>4, <2>6
<1> QED
  BY <1>3, <1>6, <1>7

\* The longest beginning of the pattern, short of all of it, that ends the first
\* k bytes of the text.
Longest(p, v, k, o) ==
  /\ o \in 0..(Len(p) - 1) /\ Ends(p, v, k, o)
  /\ \A m \in Nat : m < Len(p) /\ Ends(p, v, k, m) => m <= o

\* One byte of the scan, and back to a border when the pattern is complete.
LEMMA ScanStep ==
  ASSUME NEW p, NEW failure, NEW v, Len(p) \in Nat, Len(p) > 0, Borders(p, failure, Len(p)),
         NEW k \in Nat, NEW m, Longest(p, v, k, m)
  PROVE  LET next == Advance(p, failure, m, v[k + 1])
         IN  Longest(p, v, k + 1, IF next = Len(p) THEN failure[next] ELSE next)
<1> DEFINE next == Advance(p, failure, m, v[k + 1])
<1>1. m \in Nat /\ m < Len(p) /\ Ends(p, v, k, m)
  BY DEF Longest
<1>2. Borders(p, failure, m)
  <2>1. \A i \in 1..m : i \in 1..Len(p)
    BY <1>1
  <2> QED
    BY <2>1, Zenon DEF Borders
<1>3. /\ next \in 0..(m + 1) /\ Ends(p, v, k + 1, next)
      /\ \A l \in Nat : l <= Len(p) /\ Ends(p, v, k + 1, l) => l <= next
  <2>1. \A l \in Nat : l < Len(p) /\ Ends(p, v, k, l) => l <= m
    BY Zenon DEF Longest
  <2> QED
    BY Zenon, <1>1, <1>2, <2>1, AdvanceIsLongest
<1> HIDE DEF next
<1>4. CASE next # Len(p)
  <2>1. next \in 0..(Len(p) - 1)
    BY <1>1, <1>3, <1>4
  <2>2. \A l \in Nat : l < Len(p) /\ Ends(p, v, k + 1, l) => l <= next
    BY <1>3
  <2>3. Longest(p, v, k + 1, next)
    BY Zenon, <1>3, <2>1, <2>2 DEF Longest
  <2> QED
    BY Zenon, <1>4, <2>3 DEF next
<1>5. CASE next = Len(p)
  <2> DEFINE L == Len(p)
             b == failure[L]
  <2>1. /\ b \in 0..(L - 1) /\ Ends(p, p, L, b)
        /\ \A l \in 0..(L - 1) : Ends(p, p, L, l) => l <= b
    <3>1. L \in 1..L
      OBVIOUS
    <3> QED
      BY Zenon, <3>1 DEF Borders
  <2>2. Ends(p, v, k + 1, L)
    BY Zenon, <1>3, <1>5
  <2> HIDE DEF b
  <2>3. Ends(p, v, k + 1, b)
    BY <2>1, <2>2, EndsOfEnds
  <2>4. ASSUME NEW l \in Nat, l < L, Ends(p, v, k + 1, l)
        PROVE  l <= b
    <3>1. Ends(p, p, L, l) /\ l \in 0..(L - 1)
      BY <2>2, <2>4, EndsOfEnds
    <3> QED
      BY Zenon, <2>1, <3>1
  <2>5. Longest(p, v, k + 1, b)
    BY Zenon, <2>1, <2>3, <2>4 DEF Longest
  <2> QED
    BY Zenon, <1>5, <2>5 DEF next, b
<1> QED
  BY Zenon, <1>4, <1>5

\* suffixPrefixOverlap with the table of prefixFailure returns the length of the
\* longest end of the value with which the pattern begins, short of the whole
\* pattern: no end of a pending response that could still become the credential
\* is longer.
THEOREM OverlapIsLongest ==
  ASSUME NEW S, NEW p \in Seq(S), p # <<>>, NEW v \in Seq(S)
  PROVE  Longest(p, v, Len(v), suffixPrefixOverlap(v, p, prefixFailure(p)))
<1> DEFINE failure == prefixFailure(p)
           N == Len(v)
           matched == CHOOSE f : f = [k \in 0..N |->
                        IF k = 0 THEN 0
                        ELSE LET next == Advance(p, failure, f[k - 1], v[k])
                             IN  IF next = Len(p) THEN failure[next] ELSE next]
<1>1. Len(p) \in Nat /\ Len(p) > 0 /\ N \in Nat
  OBVIOUS
<1>2. Borders(p, failure, Len(p))
  BY Zenon, <1>1, FailureIsRight
<1> HIDE DEF failure
<1>3. suffixPrefixOverlap(v, p, failure) = matched[N]
  BY Zenon DEF suffixPrefixOverlap
<1>4. matched = [k \in 0..N |->
                  IF k = 0 THEN 0
                  ELSE LET next == Advance(p, failure, matched[k - 1], v[k])
                       IN  IF next = Len(p) THEN failure[next] ELSE next]
  <2>1. \E f : IsScan(f, v, p, failure, N)
    BY Zenon, <1>1, ScanExists
  <2> QED
    BY <2>1, Zenon DEF IsScan
<1> HIDE DEF matched, N
<1> DEFINE T == {k \in Nat : k <= N /\ ~Longest(p, v, k, matched[k])}
<1>5. T = {}
  <2>1. SUFFICES ASSUME T # {} PROVE FALSE
    BY Zenon, <2>1
  <2>2. PICK k \in T : \A i \in T : k <= i
    BY Zenon, <2>1, LeastNumber
  <2>3. k \in Nat /\ k \in 0..N /\ ~Longest(p, v, k, matched[k])
    BY <1>1
  <2>4. matched[k] = IF k = 0 THEN 0
                     ELSE LET next == Advance(p, failure, matched[k - 1], v[k])
                          IN  IF next = Len(p) THEN failure[next] ELSE next
    BY <1>4, <2>3, Zenon
  <2>5. CASE k = 0
    <3>1. matched[0] = 0
      BY Zenon, <2>4, <2>5
    <3>2. Longest(p, v, 0, 0)
      BY <1>1 DEF Longest, Ends
    <3> QED
      BY Zenon, <2>3, <2>5, <3>1, <3>2
  <2>6. CASE k > 0
    <3> DEFINE i == k - 1
    <3>1. i \in Nat /\ k = i + 1 /\ i <= N /\ i \notin T
      BY <1>1, <2>2, <2>3, <2>6
    <3>2. Longest(p, v, i, matched[i])
      BY Zenon, <3>1
    <3>3. matched[k] = LET next == Advance(p, failure, matched[i], v[k])
                       IN  IF next = Len(p) THEN failure[next] ELSE next
      BY <2>4, <2>6
    <3> HIDE DEF i
    <3>4. LET next == Advance(p, failure, matched[i], v[i + 1])
          IN  Longest(p, v, i + 1, IF next = Len(p) THEN failure[next] ELSE next)
      BY Zenon, <1>1, <1>2, <3>1, <3>2, ScanStep
    <3> QED
      BY Zenon, <2>3, <3>1, <3>3, <3>4
  <2> QED
    BY <2>3, <2>5, <2>6
<1>6. Longest(p, v, N, matched[N])
  BY <1>1, <1>5
<1> QED
  BY Zenon, <1>3, <1>6 DEF failure, N

-----------------------------------------------------------------------------
(* What of a response is given back *)

\* What Read keeps back.
LEMMA SafeKeeps ==
  ASSUME ResponseInv
  PROVE  LET p == filter.pending
         IN  /\ Safe(filter) \in Int /\ Safe(filter) <= Len(p)
             /\ filter.terminalErr # "nil" => Safe(filter) = Len(p)
             /\ filter.terminalErr = "nil" =>
                  \A m \in Nat : m < Len(Secret) /\ Ends(Secret, p, Len(p), m) => m + Safe(filter) <= Len(p)
<1> DEFINE p == filter.pending
           o == suffixPrefixOverlap(p, Secret, Failure)
<1>1. p \in Seq(Byte) /\ Len(p) \in Nat
  BY DEF ResponseInv, FilterTypes
<1>2. Longest(Secret, p, Len(p), o)
  BY Zenon, <1>1, OverlapIsLongest, FilterAssumption DEF Failure
<1>3. Safe(filter) = Len(p) - (IF filter.terminalErr # "nil" THEN 0 ELSE o)
  BY Zenon DEF Safe
<1>4. o \in Nat /\ \A m \in Nat : m < Len(Secret) /\ Ends(Secret, p, Len(p), m) => m <= o
  <2>1. Len(Secret) \in Nat
    BY FilterAssumption
  <2> QED
    BY <1>2, <2>1 DEF Longest
<1> HIDE DEF o, p
<1>5. CASE filter.terminalErr # "nil"
  <2>1. Safe(filter) = Len(p)
    BY <1>1, <1>3, <1>5
  <2> QED
    BY <1>1, <1>5, <2>1 DEF p
<1>6. CASE filter.terminalErr = "nil"
  <2>1. Safe(filter) = Len(p) - o
    BY Zenon, <1>3, <1>6
  <2>2. Safe(filter) \in Int /\ Safe(filter) <= Len(p)
    BY <1>1, <1>4, <2>1
  <2>3. ASSUME NEW m \in Nat, m < Len(Secret), Ends(Secret, p, Len(p), m)
        PROVE  m + Safe(filter) <= Len(p)
    <3>1. m <= o
      BY Zenon, <1>4, <2>3
    <3> QED
      BY <1>1, <1>4, <2>1, <3>1
  <2> QED
    BY Zenon, <1>6, <2>2, <2>3 DEF p
<1> QED
  BY Zenon, <1>5, <1>6

\* The reader hands out bytes.
LEMMA PassInv ==
  ASSUME ResponseInv, Pass
  PROVE  ResponseInv'
<1>1. /\ stage \in {"first", "copy"} /\ stage' = "copy" /\ reply' = reply /\ source' = source
      /\ ~filter.found /\ ~Occurs(filter.pending, Secret) /\ Safe(filter) > 0
  BY Zenon DEF Pass, Reading, ReadGives
<1> DEFINE s == source.bytes
           p == filter.pending
<1>2. PICK n \in Nat :
        /\ n <= Safe(filter)
        /\ given' = given \o SubSeq(p, 1, n)
        /\ filter' = [filter EXCEPT !.pending = SubSeq(@, n + 1, Len(@))]
  <2>1. PICK room \in 1..MaxChunk :
          LET n == IF Safe(filter) > room THEN room ELSE Safe(filter)
          IN  /\ given' = given \o SubSeq(filter.pending, 1, n)
              /\ filter' = [filter EXCEPT !.pending = SubSeq(@, n + 1, Len(@))]
    BY Zenon DEF Pass, ReadGives
  <2> DEFINE n == IF Safe(filter) > room THEN room ELSE Safe(filter)
  <2>2. n \in Nat /\ n <= Safe(filter)
    BY <1>1, SafeKeeps, FilterAssumption
  <2> QED
    BY Zenon, <2>1, <2>2
<1> DEFINE front == SubSeq(p, 1, n)
           rest == SubSeq(p, n + 1, Len(p))
<1>3. s \in Seq(Byte) /\ p \in Seq(Byte) /\ given \in Seq(Byte) /\ Len(p) \in Nat /\ Len(given) \in Nat
  BY DEF ResponseInv, FilterTypes
<1>4. n \in 0..Len(p)
  BY <1>2, <1>3, SafeKeeps
<1>5. /\ front \in Seq(Byte) /\ Len(front) = n /\ rest \in Seq(Byte) /\ front \o rest = p
  BY Zenon, <1>3, <1>4, Cut
<1>6. filter' = [filter EXCEPT !.pending = rest] /\ given' = given \o front
  BY Zenon, <1>2
<1> HIDE DEF front, rest
<1>7. /\ given' \in Seq(Byte) /\ Len(given') = Len(given) + n
  BY Zenon, <1>3, <1>5, <1>6, BeginsConcat
<1>8. /\ filter' \in [pending : Seq(Byte), terminalErr : {"nil", "eof", "failed", "noProgress"},
                      found : BOOLEAN, idle : Nat]
      /\ filter'.pending = rest /\ filter'.terminalErr = filter.terminalErr
      /\ filter'.found = filter.found
  BY Zenon, <1>5, <1>6 DEF ResponseInv, FilterTypes
<1>9. FilterTypes'
  BY Zenon, <1>1, <1>7, <1>8 DEF ResponseInv, FilterTypes
<1>10. Passed'
  <2>1. s = given \o p
    BY Zenon, <1>1 DEF ResponseInv, Passed
  <2>2. s = given' \o rest
    <3>1. (given \o front) \o rest = given \o (front \o rest)
      BY Zenon, <1>3, <1>5, ThreePieces
    <3> QED
      BY Zenon, <1>5, <1>6, <2>1, <3>1
  <2>3. Begins(given', s)
    BY Zenon, <1>5, <1>7, <2>2, BeginsConcat
  <2>4. Closed \in BOOLEAN /\ Closed' = Closed
    BY Zenon, <1>1, <1>8 DEF Closed
  <2>5. ~Closed => \A m \in Nat : m < Len(Secret) /\ Ends(Secret, p, Len(p), m) => m + n <= Len(p)
    <3>1. ASSUME filter.terminalErr = "nil", NEW m \in Nat, m < Len(Secret), Ends(Secret, p, Len(p), m)
          PROVE  m + n <= Len(p)
      <4>1. m + Safe(filter) <= Len(p) /\ Safe(filter) \in Int
        BY Zenon, <3>1, SafeKeeps
      <4> QED
        BY <1>2, <1>3, <4>1
    <3> QED
      BY Zenon, <3>1 DEF Closed
  <2>6. Harmless(given \o p, Closed, Len(given) + n)
    BY Zenon, <1>1, <1>3, <1>4, <2>1, <2>4, <2>5, GivenHarmless DEF ResponseInv, Passed
  <2> QED
    BY Zenon, <1>1, <1>7, <1>8, <2>1, <2>2, <2>3, <2>4, <2>6 DEF Passed
<1>11. Replies'
  BY Zenon, <1>1, <1>8 DEF ResponseInv, Replies
<1> QED
  BY Zenon, <1>9, <1>10, <1>11 DEF ResponseInv

\* The reader returns the error of its source, or gives up waiting.
LEMMA ResponseEndsInv ==
  ASSUME ResponseInv, NEW err \in {"eof", "failed", "noProgress"}, ResponseEnds(err)
  PROVE  ResponseInv'
<1>1. /\ stage \in {"first", "copy"} /\ source' = source /\ given' = given
      /\ ~filter.found /\ Safe(filter) = 0 /\ filter.terminalErr = err
      /\ filter' = [filter EXCEPT !.terminalErr = "nil"]
  BY Zenon DEF ResponseEnds, Reading, ReadEnds
<1>2. /\ filter' \in [pending : Seq(Byte), terminalErr : {"nil", "eof", "failed", "noProgress"},
                      found : BOOLEAN, idle : Nat]
      /\ filter'.pending = filter.pending /\ filter'.terminalErr = "nil"
      /\ filter'.found = filter.found
  BY SMTT(30), <1>1 DEF ResponseInv, FilterTypes
<1>3. \/ stage' = "copy" /\ stage = "first" /\ err = "eof" /\ reply' = reply
      \/ stage' = "ended" /\ err = "eof" /\ reply' = "complete"
      \/ stage' = "ended" /\ reply' = "aborted"
      \/ stage' = "ended" /\ stage = "first" /\ reply' = "refused"
  BY Zenon, <1>1 DEF ResponseEnds, End
<1>4. /\ source.bytes \in Seq(Byte) /\ filter.pending \in Seq(Byte) /\ given \in Seq(Byte)
      /\ Len(given) \in Nat
  BY DEF ResponseInv, FilterTypes
<1>5. FilterTypes'
  BY Zenon, <1>1, <1>2 DEF ResponseInv, FilterTypes
<1>6. Passed'
  <2>1. Closed \in BOOLEAN /\ Closed' \in BOOLEAN /\ Closed'
    <3>1. err = "eof" => source.end = "eof"
      BY Zenon, <1>1 DEF ResponseInv, Replies
    <3> QED
      BY Zenon, <1>1, <1>3, <3>1 DEF Closed
  <2>2. Begins(source.bytes, source.bytes)
    BY <1>4 DEF Begins
  <2>3. Harmless(source.bytes, Closed', Len(given))
    BY ZenonT(60), <1>4, <2>1, <2>2, StaysHarmless DEF ResponseInv, Passed
  <2> QED
    BY Zenon, <1>1, <1>2, <2>3 DEF ResponseInv, Passed
<1>7. Replies'
  <2>1. err = "eof" => given = source.bytes /\ source.end = "eof"
    <3>1. Len(filter.pending) = 0
      BY Zenon, <1>1, SafeKeeps
    <3>2. filter.pending = <<>>
      BY <1>4, <3>1
    <3>3. source.bytes = given \o <<>>
      BY Zenon, <1>1, <3>2 DEF ResponseInv, Passed
    <3> QED
      BY Zenon, <1>1, <1>4, <3>3, JoinedEmpty DEF ResponseInv, Replies
  <2> QED
    BY Zenon, <1>1, <1>2, <1>3, <2>1 DEF ResponseInv, Replies
<1> QED
  BY Zenon, <1>5, <1>6, <1>7 DEF ResponseInv

\* Every step of an exchange.
LEMMA ResponseStep == ResponseInv /\ [Next]_vars => ResponseInv'
<1> SUFFICES ASSUME ResponseInv, [Next]_vars PROVE ResponseInv'
  BY Zenon
<1>1. CASE UNCHANGED vars
  <2>1. stage' = stage /\ reply' = reply /\ source' = source /\ filter' = filter /\ given' = given
    BY Zenon, <1>1 DEF vars, filterVars
  <2> QED
    BY Zenon, <2>1 DEF ResponseInv, FilterTypes, Passed, Closed, Replies
<1>2. CASE Next
  BY Zenon, <1>2, RequestStepsIdle, FillInv, PassInv, ResponseEndsInv, ReflectedInv DEF Next
<1> QED
  BY Zenon, <1>1, <1>2

\* The response the client sees: whatever the upstream sends, in whatever pieces,
\* the credential is not in it, and it ends normally only when it is complete.
THEOREM ResponseStaysClean == Spec => []ResponseIsClean
<1>1. ResponseInv => ResponseIsClean
  <2> SUFFICES ASSUME ResponseInv PROVE ResponseIsClean
    BY Zenon
  <2> DEFINE s == source.bytes
             L == Len(Secret)
  <2>1. /\ s \in Seq(Byte) /\ given \in Seq(Byte) /\ Len(s) \in Nat /\ Len(given) \in Nat
        /\ Begins(given, s) /\ Harmless(s, Closed, Len(given))
    BY DEF ResponseInv, FilterTypes, Passed
  <2>2. L \in Nat /\ L > 0 /\ Secret \in Seq(Byte)
    BY FilterAssumption
  <2>3. IsPrefix(given, s)
    <3> DEFINE b == SubSeq(s, 1, Len(given))
    <3>1. Len(given) \in 0..Len(s)
      BY <2>1 DEF Begins
    <3>2. b \in Seq(Byte) /\ Len(b) = Len(given)
      BY Zenon, <2>1, <3>1, Cut
    <3>3. \A i \in 1..Len(given) : b[i] = s[i]
      BY <2>1, <3>1
    <3> HIDE DEF b
    <3>4. b = given
      BY Zenon, <2>1, <3>2, <3>3, SameSequence DEF Begins
    <3> QED
      BY <3>1, <3>4 DEF IsPrefix, b
  <2>4. ~Occurs(given, Secret)
    <3> SUFFICES ASSUME NEW i \in 0..(Len(given) - L), SubSeq(given, i + 1, i + L) = Secret
                 PROVE  FALSE
      BY Zenon DEF Occurs
    <3>1. i + 1 \in 1..Len(given) /\ i + L <= Len(given) /\ Len(given) <= Len(s) /\ i \in Nat
      BY <2>1, <2>2 DEF Begins
    <3>2. ASSUME NEW j \in 1..L PROVE s[(i + 1) + j - 1] = Secret[j]
      <4>1. (i + 1) + j - 1 = i + j /\ i + j \in 1..Len(given)
        BY <2>1, <2>2, <3>1
      <4>2. SubSeq(given, i + 1, i + L)[j] = given[i + j]
        <5>1. i + 1 \in 1..(Len(given) + 1) /\ i + L \in 0..Len(given) /\ i + 1 <= i + L + 1
          BY <2>1, <2>2, <3>1
        <5>2. \A k \in 1..((i + L) - (i + 1) + 1) :
                SubSeq(given, i + 1, i + L)[k] = given[(i + 1) + k - 1]
          BY Zenon, <2>1, <5>1, Piece
        <5>3. j \in 1..((i + L) - (i + 1) + 1)
          BY <2>2, <3>1
        <5> QED
          BY Zenon, <4>1, <5>2, <5>3
      <4> QED
        BY Zenon, <2>1, <4>1, <4>2 DEF Begins
    <3>3. ~Differs(s, i + 1)
      BY Zenon, <3>2 DEF Differs
    <3>4. (i + 1) + L - 1 > Len(s)
      BY Zenon, <2>1, <3>1, <3>3 DEF Harmless
    <3> QED
      BY <2>1, <2>2, <3>1, <3>4
  <2>5. /\ reply = "refused" => given = <<>>
        /\ reply = "complete" => given = s /\ source.end = "eof"
    BY Zenon DEF ResponseInv, Replies
  <2> QED
    BY Zenon, <2>3, <2>4, <2>5 DEF ResponseIsClean
<1> QED
  BY <1>1, ResponseStarts, ResponseStep, PTL DEF Spec
=============================================================================
