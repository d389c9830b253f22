---------------------------- MODULE ReceivePack ----------------------------
(***************************************************************************)
(* ParseReceivePackPrefix (internal/gitadapter/receive.go, pktline.go) as  *)
(* a machine that is fed one pkt-line at a time.  It ends with a request   *)
(* for the policy or with an error; push certificates are refused, as the  *)
(* gateway always asks for (AllowPushCertificates is false).               *)
(*                                                                         *)
(* An item of a body is a pkt-line by what it says:                        *)
(*   "flush"    0000;      "marker"  0001 or 0002;                         *)
(*   "broken"   no pkt-line, or a line the protocol has no use for;        *)
(*   "shallow"  with the format of its object id;                          *)
(*   "command"  an update, with the capabilities after its NUL, if any;    *)
(*   "cert"     the first line of a push certificate;                      *)
(*   "option"   a push option;                                             *)
(*   "PACK"     the signature of the pack, and "data" what follows.        *)
(***************************************************************************)
EXTENDS GitPolicy

CONSTANTS MaxPrefix, MaxCommands, MaxShallowOIDs, MaxPushOptions, MaxCapabilities

ASSUME ParseAssumption ==
  {MaxPrefix, MaxCommands, MaxShallowOIDs, MaxPushOptions, MaxCapabilities} \subseteq Nat

\* Capabilities parseCapabilities knows; any other one is refused.
KnownCapability ==
  {"report-status", "report-status-v2", "delete-refs", "side-band-64k", "quiet", "atomic",
   "push-options", "ofs-delta", "push-cert", "sha1", "sha256", "agent", "session-id"}

\* The state of a parse: phase is "lines", "options", "signature", "end", or
\* one of the two ways it stops, "done" and "failed".
StartParse == [phase |-> "lines", carrier |-> FALSE, shallows |-> <<>>, read |-> 0,
               request |-> [NoReceivePack EXCEPT !.kind = "push"]]

Failed(parse) == [parse EXCEPT !.phase = "failed"]

\* "object-format=sha1" and "object-format=sha256" are one capability each, and
\* a name may not come twice, so never both.
parseCapabilities(caps) ==
  /\ Cardinality(caps) <= MaxCapabilities
  /\ caps \subseteq KnownCapability
  /\ ~({"report-status", "report-status-v2"} \subseteq caps)
  /\ ~({"sha1", "sha256"} \subseteq caps)

FormatOf(caps) == IF "sha256" \in caps THEN "sha256" ELSE "sha1"

\* parseUpdate: the object ids fit the format and are not both zero, and the
\* ref is well-formed.
parseUpdate(item, format) == item.format = format /\ item.update.kind \in UpdateKind

\* A command with the capability list, before any other.
FirstCarrier(parse, item) ==
  IF /\ item.type = "command" /\ item.listed
     /\ parseCapabilities(item.capabilities)
     /\ \A i \in 1..Len(parse.shallows) : parse.shallows[i] = FormatOf(item.capabilities)
     /\ parseUpdate(item, FormatOf(item.capabilities))
  THEN [parse EXCEPT
         !.carrier = TRUE,
         !.request = [@ EXCEPT !.format = FormatOf(item.capabilities),
                               !.capabilities = item.capabilities,
                               !.atomic = "atomic" \in item.capabilities,
                               !.updates = <<item.update>>]]
  ELSE Failed(parse)

\* Variant: the capability list of a later command is passed over.
LaterCommandListed(parse, item) ==
  IF /\ item.type = "command"
     /\ Len(parse.request.updates) < MaxCommands
     /\ parseUpdate(item, parse.request.format)
  THEN [parse EXCEPT !.request.updates = Append(@, item.update)]
  ELSE Failed(parse)

LaterCommand(parse, item) ==
  IF /\ item.type = "command" /\ ~item.listed
     /\ Len(parse.request.updates) < MaxCommands
     /\ parseUpdate(item, parse.request.format)
  THEN [parse EXCEPT !.request.updates = Append(@, item.update)]
  ELSE Failed(parse)

Shallow(parse, item) ==
  IF Len(parse.shallows) < MaxShallowOIDs
  THEN [parse EXCEPT !.shallows = Append(@, item.format)]
  ELSE Failed(parse)

\* rejectDuplicateRefs, and whether a pack has to follow.
Distinct(updates) ==
  \A i, j \in 1..Len(updates) : updates[i].ref = updates[j].ref => i = j

NeedsPack(updates) == \E i \in 1..Len(updates) : updates[i].kind # "delete"

AfterCommands(parse) ==
  [parse EXCEPT !.phase = IF NeedsPack(parse.request.updates) THEN "signature" ELSE "end"]

\* The flush that ends the command list, or a body without commands.
Flush(parse) ==
  LET updates == parse.request.updates
      negotiated == "push-options" \in parse.request.capabilities
      noop == parse.shallows # <<>>
      known == [parse EXCEPT !.request.negotiated = negotiated]
  IN  CASE parse.phase = "lines" /\ ~parse.carrier ->
             IF \E i \in 1..Len(parse.shallows) : parse.shallows[i] # parse.shallows[1]
             THEN Failed(parse)
             ELSE [parse EXCEPT
                    !.phase = "end",
                    !.request = [@ EXCEPT !.kind = IF noop THEN "noop" ELSE "probe",
                                          !.format = IF noop THEN parse.shallows[1] ELSE "sha1"]]
        [] parse.phase = "lines" /\ parse.carrier ->
             IF ~Distinct(updates) THEN Failed(parse)
             ELSE IF negotiated THEN [known EXCEPT !.phase = "options"]
             ELSE AfterCommands(known)
        [] parse.phase = "options" -> AfterCommands(parse)
        [] OTHER -> Failed(parse)

\* What may be read as a push option: any printable line.
Printable(item) ==
  item.type \in {"option", "shallow"} \/ (item.type = "command" /\ ~item.listed)

PushOption(parse, item) ==
  IF Printable(item) /\ parse.request.options < MaxPushOptions
  THEN [parse EXCEPT !.request.options = @ + 1]
  ELSE Failed(parse)

Signature(parse) == [parse EXCEPT !.phase = "done", !.request.hasPack = TRUE]

\* One item of the body.
ParseItem(parse, item) ==
  LET next == [parse EXCEPT !.read = @ + 1]
  IN  IF parse.read >= MaxPrefix \/ parse.phase = "end" THEN Failed(parse)
      ELSE IF parse.phase = "signature"
           THEN IF item.type = "PACK" THEN Signature(next) ELSE Failed(next)
      ELSE IF item.type = "flush" THEN Flush(next)
      ELSE IF parse.phase = "options" THEN PushOption(next, item)
      ELSE IF parse.carrier THEN LaterCommand(next, item)
      ELSE IF item.type = "shallow" THEN Shallow(next, item)
      ELSE FirstCarrier(next, item)

\* The body ends: where requireEOF expects it, or too early.
ParseEnd(parse) == IF parse.phase = "end" THEN [parse EXCEPT !.phase = "done"] ELSE Failed(parse)
=============================================================================
