----------------------------- MODULE SSHProofs ------------------------------
(***************************************************************************)
(* Proofs about SSHSession for any finite set of sessions, any tokens and  *)
(* workloads and any caps: the counts of the concurrency manager, what a   *)
(* dial presupposes, what a handler leaves behind and what it records.     *)
(*                                                                         *)
(* Then about SSHRelay, the relay inside one of those sessions, for any    *)
(* policy, any limits and any amount of output: what the target runs, and  *)
(* what has crossed to the guest when the relay returns.                   *)
(***************************************************************************)
EXTENDS SSHSession, SSHRelay, FiniteSetTheorems, TLAPS

\* The stages after the lookup that allows the dial, and after the dial.
Cleared == {"cleared", "dialled", "handshaking", "relaying", "joining", "leaving"}
Watched == {"handshaking", "relaying", "joining", "leaving"}

\* Where a connection to the target can exist, and be open.
UpstreamInv(s) ==
  /\ pc[s] \in BeforeDialCheck \cup {"idle", "cleared"} => upstream[s] = "none"
  /\ pc[s] \in {"joining", "done"} => upstream[s] # "open"

\* A doomed session stays before its last lookup, and what passed the record has it.
AuthorityInv(s) ==
  /\ pc[s] \in Cleared \cup {"idle"} => s \notin doomed
  /\ upstream[s] # "none" => s \notin doomed
  /\ s \in doomed => token[s] \in dead
  /\ FailureMode = "closed" =>
       /\ pc[s] \in Cleared \cup {"recorded", "checked", "parsed"} => s \in recorded
       /\ upstream[s] # "none" => s \in recorded

\* The watching goroutine runs from the commit on, and is joined.
MonitorInv(s) ==
  /\ pc[s] \notin Watched \cup {"done"} => monitor[s] = "off"
  /\ pc[s] \in Watched => monitor[s] # "off"
  /\ pc[s] = "done" => monitor[s] \in {"off", "done"}
  /\ s \in told => monitor[s] \in {"aborting", "done"}

\* What ended a session, and what is recorded of it.
ReasonInv(s) ==
  /\ pc[s] \notin {"joining", "done"} => result[s] = "none"
  /\ reason[s] = "token_invalidated" => s \in told
  /\ pc[s] = "done" /\ s \in told /\ result[s] # "none" => reason[s] = "token_invalidated"

SessionInv(s) == UpstreamInv(s) /\ AuthorityInv(s) /\ MonitorInv(s) /\ ReasonInv(s)

HeldBy(t) == {s \in Holding : token[s] = t}
HeldFor(w) == {s \in Holding : WorkloadOf[token[s]] = w}

Counts ==
  /\ total = Cardinality(Holding) /\ total <= maxConcurrentSSHSessions
  /\ \A t \in Token :
       byToken[t] = Cardinality(HeldBy(t)) /\ byToken[t] <= maxConcurrentSSHSessionsPerToken
  /\ \A w \in Workload :
       byWorkload[w] = Cardinality(HeldFor(w)) /\ byWorkload[w] <= maxConcurrentSSHSessionsPerWorkload

IInv == TypeOK /\ Counts /\ \A s \in Session : SessionInv(s)

\* Every variable but the manager's has its type.
Typed ==
  /\ pc \in [Session -> Stage] /\ token \in [Session -> Token]
  /\ context \in [Session -> {"live", "cancelled", "deadline"}]
  /\ due \subseteq Session /\ dead \subseteq Token /\ doomed \subseteq Session
  /\ upstream \in [Session -> {"none", "open", "closed"}]
  /\ monitor \in [Session -> {"off", "waiting", "looking", "aborting", "done"}]
  /\ told \subseteq Session /\ recorded \subseteq Session
  /\ result \in [Session -> {"none", "completed", "limit", "deadline", "transport"}]
  /\ reason \in [Session -> {"none", "denied", "busy", "limited", "no deadline", "unaudited",
        "no key", "no upstream", "response_flush", "ssh_handshake", "token_invalidated",
        "completed", "limit", "deadline", "transport"}]

SlotsTyped == total \in Nat /\ byToken \in [Token -> Nat] /\ byWorkload \in [Workload -> Nat]

\* The type invariant, in two parts.
LEMMA TypeParts == TypeOK <=> Typed /\ SlotsTyped
  BY Zenon DEF TypeOK, Typed, SlotsTyped

-----------------------------------------------------------------------------
(* The counts of sshConcurrencyManager *)

\* The sessions that hold slots are finitely many.
LEMMA HoldingFinite ==
  /\ IsFiniteSet(Holding) /\ Cardinality(Holding) \in Nat
  /\ \A t : IsFiniteSet(HeldBy(t)) /\ Cardinality(HeldBy(t)) \in Nat
  /\ \A w : IsFiniteSet(HeldFor(w)) /\ Cardinality(HeldFor(w)) \in Nat
  <1>1. ASSUME NEW T \in SUBSET Session PROVE IsFiniteSet(T) /\ Cardinality(T) \in Nat
    BY Zenon, BindingAssumption, FS_Subset, FS_CardinalityType
  <1>2. Holding \in SUBSET Session
    BY Zenon DEF Holding
  <1>3. \A t : HeldBy(t) \in SUBSET Session
    BY Zenon, <1>2 DEF HeldBy
  <1>4. \A w : HeldFor(w) \in SUBSET Session
    BY Zenon, <1>2 DEF HeldFor
  <1> HIDE DEF Holding, HeldBy, HeldFor
  <1> QED  BY Zenon, <1>1, <1>2, <1>3, <1>4

\* A step that neither takes nor gives back a slot.
LEMMA CountsKept ==
    ASSUME SlotsTyped, Counts, token' = token, UNCHANGED slots, Holding' = Holding
    PROVE  SlotsTyped' /\ Counts'
  <1>1. \A t : HeldBy(t)' = HeldBy(t)
    BY Zenon DEF HeldBy
  <1>2. \A w : HeldFor(w)' = HeldFor(w)
    BY Zenon DEF HeldFor
  <1> QED  BY Zenon, <1>1, <1>2 DEF SlotsTyped, Counts, slots

\* acquire: the session counts, once everywhere, and the caps are kept.
LEMMA CountsTaken ==
    ASSUME Typed, SlotsTyped, Counts, NEW s \in Session, s \notin Holding, token' = token,
           Available(token[s]), take(token[s]), Holding' = Holding \cup {s}
    PROVE  SlotsTyped' /\ Counts'
  <1>1. PICK k \in Token, v \in Workload : k = token[s] /\ v = WorkloadOf[token[s]]
    BY BindingAssumption, Zenon DEF Typed
  <1>2. SlotsTyped'
    BY <1>1 DEF SlotsTyped, take
  <1>3. total' = Cardinality(Holding') /\ total' <= maxConcurrentSSHSessions
    <2>1. Cardinality(Holding \cup {s}) = Cardinality(Holding) + 1
      BY HoldingFinite, FS_AddElement, Zenon
    <2>2. total' = total + 1 /\ total < maxConcurrentSSHSessions
      BY Zenon DEF take, Available
    <2> QED  BY <2>1, <2>2, CapAssumption DEF SlotsTyped, Counts
  <1>4. ASSUME NEW t \in Token
        PROVE  byToken'[t] = Cardinality(HeldBy(t)') /\ byToken'[t] <= maxConcurrentSSHSessionsPerToken
    <2>1. CASE t = k
      <3>1. HeldBy(t)' = HeldBy(t) \cup {s} /\ s \notin HeldBy(t)
        BY Zenon, <1>1, <2>1 DEF HeldBy
      <3>2. Cardinality(HeldBy(t) \cup {s}) = Cardinality(HeldBy(t)) + 1
        BY <3>1, HoldingFinite, FS_AddElement, Zenon
      <3>3. byToken'[t] = byToken[t] + 1 /\ byToken[t] < maxConcurrentSSHSessionsPerToken
        BY Zenon, <2>1, <1>1 DEF take, Available, SlotsTyped
      <3> QED  BY <3>1, <3>2, <3>3, CapAssumption DEF SlotsTyped, Counts
    <2>2. CASE t # k
      <3>1. HeldBy(t)' = HeldBy(t)
        BY Zenon, <1>1, <2>2 DEF HeldBy
      <3>2. byToken'[t] = byToken[t]
        BY Zenon, <1>1, <2>2 DEF take, SlotsTyped
      <3> QED  BY Zenon, <3>1, <3>2 DEF Counts
    <2> QED  BY Zenon, <2>1, <2>2
  <1>5. ASSUME NEW w \in Workload
        PROVE  byWorkload'[w] = Cardinality(HeldFor(w)') /\ byWorkload'[w] <= maxConcurrentSSHSessionsPerWorkload
    <2>1. CASE w = v
      <3>1. HeldFor(w)' = HeldFor(w) \cup {s} /\ s \notin HeldFor(w)
        BY Zenon, <1>1, <2>1 DEF HeldFor
      <3>2. Cardinality(HeldFor(w) \cup {s}) = Cardinality(HeldFor(w)) + 1
        BY <3>1, HoldingFinite, FS_AddElement, Zenon
      <3>3. byWorkload'[w] = byWorkload[w] + 1 /\ byWorkload[w] < maxConcurrentSSHSessionsPerWorkload
        BY Zenon, <2>1, <1>1 DEF take, Available, SlotsTyped
      <3> QED  BY <3>1, <3>2, <3>3, CapAssumption DEF SlotsTyped, Counts
    <2>2. CASE w # v
      <3>1. HeldFor(w)' = HeldFor(w)
        BY Zenon, <1>1, <2>2 DEF HeldFor
      <3>2. byWorkload'[w] = byWorkload[w]
        BY Zenon, <1>1, <2>2 DEF take, SlotsTyped
      <3> QED  BY Zenon, <3>1, <3>2 DEF Counts
    <2> QED  BY Zenon, <2>1, <2>2
  <1> QED  BY Zenon, <1>2, <1>3, <1>4, <1>5 DEF Counts

\* release: the session no longer counts, anywhere, and no count goes below zero.
LEMMA CountsReleased ==
    ASSUME Typed, SlotsTyped, Counts, NEW s \in Session, s \in Holding, token' = token,
           release(token[s]), Holding' = Holding \ {s}
    PROVE  SlotsTyped' /\ Counts'
  <1>1. PICK k \in Token, v \in Workload : k = token[s] /\ v = WorkloadOf[token[s]]
    BY BindingAssumption, Zenon DEF Typed
  <1>2. /\ Cardinality(Holding \ {s}) = Cardinality(Holding) - 1
        /\ Cardinality(Holding \ {s}) \in Nat
    BY Zenon, HoldingFinite, FS_RemoveElement, FS_CardinalityType
  <1>3. /\ HeldBy(k)' = HeldBy(k) \ {s} /\ HeldFor(v)' = HeldFor(v) \ {s}
        /\ s \in HeldBy(k) /\ s \in HeldFor(v)
    BY Zenon, <1>1 DEF HeldBy, HeldFor
  <1>4. /\ Cardinality(HeldBy(k) \ {s}) = Cardinality(HeldBy(k)) - 1
        /\ Cardinality(HeldBy(k) \ {s}) \in Nat
    BY Zenon, <1>3, HoldingFinite, FS_RemoveElement, FS_CardinalityType
  <1>5. /\ Cardinality(HeldFor(v) \ {s}) = Cardinality(HeldFor(v)) - 1
        /\ Cardinality(HeldFor(v) \ {s}) \in Nat
    BY Zenon, <1>3, HoldingFinite, FS_RemoveElement, FS_CardinalityType
  <1>6. /\ total' = total - 1 /\ total = Cardinality(Holding)
        /\ byToken[k] = Cardinality(HeldBy(k)) /\ byWorkload[v] = Cardinality(HeldFor(v))
        /\ byToken' = [byToken EXCEPT ![k] = byToken[k] - 1]
        /\ byWorkload' = [byWorkload EXCEPT ![v] = byWorkload[v] - 1]
    BY Zenon, <1>1 DEF release, Counts
  <1>7. SlotsTyped'
    BY <1>1, <1>2, <1>4, <1>5, <1>6 DEF SlotsTyped
  <1>8. total' = Cardinality(Holding') /\ total' <= maxConcurrentSSHSessions
    BY <1>2, <1>6, CapAssumption DEF SlotsTyped, Counts
  <1>9. ASSUME NEW t \in Token
        PROVE  byToken'[t] = Cardinality(HeldBy(t)') /\ byToken'[t] <= maxConcurrentSSHSessionsPerToken
    <2>1. CASE t = k
      <3>1. byToken[k] <= maxConcurrentSSHSessionsPerToken /\ byToken[k] \in Nat
        BY Zenon, <1>1 DEF Counts, SlotsTyped
      <3>2. byToken'[k] = byToken[k] - 1
        BY Zenon, <1>1, <1>6 DEF SlotsTyped
      <3>3. byToken'[k] = Cardinality(HeldBy(k)')
        BY Zenon, <1>3, <1>4, <1>6, <3>2
      <3>4. byToken'[k] <= maxConcurrentSSHSessionsPerToken
        BY <3>1, <3>2, CapAssumption
      <3> QED  BY Zenon, <2>1, <3>3, <3>4
    <2>2. CASE t # k
      <3>1. HeldBy(t)' = HeldBy(t)
        BY Zenon, <1>1, <2>2 DEF HeldBy
      <3>2. byToken'[t] = byToken[t]
        BY Zenon, <1>6, <2>2 DEF SlotsTyped
      <3> QED  BY Zenon, <3>1, <3>2 DEF Counts
    <2> QED  BY Zenon, <2>1, <2>2
  <1>10. ASSUME NEW w \in Workload
         PROVE  byWorkload'[w] = Cardinality(HeldFor(w)') /\ byWorkload'[w] <= maxConcurrentSSHSessionsPerWorkload
    <2>1. CASE w = v
      <3>1. byWorkload[v] <= maxConcurrentSSHSessionsPerWorkload /\ byWorkload[v] \in Nat
        BY Zenon, <1>1 DEF Counts, SlotsTyped
      <3>2. byWorkload'[v] = byWorkload[v] - 1
        BY Zenon, <1>1, <1>6 DEF SlotsTyped
      <3>3. byWorkload'[v] = Cardinality(HeldFor(v)')
        BY Zenon, <1>3, <1>5, <1>6, <3>2
      <3>4. byWorkload'[v] <= maxConcurrentSSHSessionsPerWorkload
        BY <3>1, <3>2, CapAssumption
      <3> QED  BY Zenon, <2>1, <3>3, <3>4
    <2>2. CASE w # v
      <3>1. HeldFor(w)' = HeldFor(w)
        BY Zenon, <1>1, <2>2 DEF HeldFor
      <3>2. byWorkload'[w] = byWorkload[w]
        BY Zenon, <1>6, <2>2 DEF SlotsTyped
      <3> QED  BY Zenon, <3>1, <3>2 DEF Counts
    <2> QED  BY Zenon, <2>1, <2>2
  <1> QED  BY Zenon, <1>7, <1>8, <1>9, <1>10 DEF Counts

-----------------------------------------------------------------------------
(* Steps of one session *)

\* Nothing the invariant says of the session changed, but its token may have lapsed.
Same(s) ==
  /\ pc'[s] = pc[s] /\ upstream'[s] = upstream[s] /\ monitor'[s] = monitor[s]
  /\ result'[s] = result[s] /\ reason'[s] = reason[s]
  /\ s \in told' <=> s \in told
  /\ s \in recorded' <=> s \in recorded
  /\ s \in doomed' <=> s \in doomed

\* What holds of a session is not disturbed by the steps of others.
LEMMA OtherSession ==
    ASSUME NEW s \in Session, SessionInv(s), Same(s), token' = token, dead \subseteq dead'
    PROVE  SessionInv(s)'
  <1>1. UpstreamInv(s)'
    BY Zenon DEF SessionInv, UpstreamInv, Same
  <1>2. AuthorityInv(s)'
    BY Zenon DEF SessionInv, AuthorityInv, Same
  <1>3. MonitorInv(s)'
    BY Zenon DEF SessionInv, MonitorInv, Same
  <1>4. ReasonInv(s)'
    BY Zenon DEF SessionInv, ReasonInv, Same
  <1> QED  BY Zenon, <1>1, <1>2, <1>3, <1>4 DEF SessionInv

\* A step of one session that takes and gives back no slot.
LEMMA Combine ==
    ASSUME IInv, NEW s \in Session, Typed', SessionInv(s)', token' = token, dead \subseteq dead',
           \A d \in Session : d # s => Same(d), SlotsTyped' /\ Counts'
    PROVE  IInv'
  <1>1. ASSUME NEW d \in Session PROVE SessionInv(d)'
    <2>1. CASE d = s
      BY Zenon, <2>1
    <2>2. CASE d # s
      BY Zenon, <2>2, OtherSession DEF IInv
    <2> QED  BY Zenon, <2>1, <2>2
  <1> QED  BY <1>1, TypeParts, Zenon DEF IInv, TypeOK, Typed, SlotsTyped

\* A handler that moves on between two stages on the same side of its slot.
LEMMA CountsMoving ==
    ASSUME IInv, NEW s \in Session, NEW stage, Goto(s, stage), UNCHANGED slots, token' = token,
           pc[s] \in {"idle", "arrived", "known", "done"} <=> stage \in {"idle", "arrived", "known", "done"}
    PROVE  SlotsTyped' /\ Counts'
  <1>1. pc \in [Session -> Stage]
    BY Zenon DEF IInv, TypeOK
  <1>2. Holding' = Holding
    BY Zenon, <1>1 DEF Holding, Goto
  <1> QED  BY Zenon, <1>2, CountsKept, TypeParts DEF IInv

\* A handler that returns gives its slot back.
LEMMA CountsReturning ==
    ASSUME IInv, NEW s \in Session, Goto(s, "done"), s \in Holding, release(token[s]), token' = token
    PROVE  SlotsTyped' /\ Counts'
  <1>1. pc \in [Session -> Stage]
    BY Zenon DEF IInv, TypeOK
  <1>2. Holding' = Holding \ {s}
    BY Zenon, <1>1 DEF Holding, Goto
  <1> QED  BY Zenon, <1>2, CountsReleased, TypeParts DEF IInv

\* A refusal before the response is committed: the slot, if there is one, the
\* connection and the context are given back.
LEMMA RefuseInv ==
    ASSUME IInv, NEW s \in Session, pc[s] \in BeforeDialCheck \cup {"cleared", "dialled"},
           NEW why \in {"denied", "busy", "limited", "no deadline", "unaudited", "no key",
                        "no upstream", "response_flush"},
           Refuse(s, why)
    PROVE  IInv'
  <1>a. /\ Goto(s, "done") /\ reason' = [reason EXCEPT ![s] = why]
        /\ context' = [context EXCEPT ![s] = IF @ = "live" THEN "cancelled" ELSE @]
        /\ upstream' = [upstream EXCEPT ![s] = IF @ = "open" THEN "closed" ELSE @]
        /\ IF s \in Holding THEN release(token[s]) ELSE UNCHANGED slots
        /\ UNCHANGED <<token, monitor, told, result, recorded, due, dead, doomed>>
    BY Zenon DEF Refuse, watch, around
  <1>t. Typed
    BY TypeParts, Zenon DEF IInv
  <1>1. Typed'
    BY <1>a, <1>t, Zenon DEF Typed, Goto, Stage
  <1>2. SlotsTyped' /\ Counts'
    <2>1. CASE s \in Holding
      BY <1>a, <2>1, CountsReturning, Zenon
    <2>2. CASE s \notin Holding
      <3>1. pc[s] \in {"arrived", "known"}
        BY <2>2, Zenon DEF Holding, BeforeDialCheck
      <3> QED  BY <1>a, <2>2, <3>1, CountsMoving, Zenon
    <2> QED  BY <2>1, <2>2, Zenon
  <1>3. \A d \in Session : d # s => Same(d)
    BY <1>a, <1>t, Zenon DEF Same, Typed, Goto
  <1>4. SessionInv(s)'
    <2>1. /\ pc'[s] = "done" /\ reason'[s] = why
          /\ upstream'[s] = IF upstream[s] = "open" THEN "closed" ELSE upstream[s]
      BY <1>a, <1>t, Zenon DEF Typed, Goto
    <2>2. pc[s] \notin Watched \cup {"done", "idle", "joining"} /\ SessionInv(s)
      BY Zenon DEF BeforeDialCheck, Watched, IInv
    <2>3. UpstreamInv(s)'
      BY <2>1, Zenon DEF UpstreamInv, BeforeDialCheck
    <2>4. AuthorityInv(s)'
      BY <1>a, <2>1, <2>2, Zenon DEF SessionInv, AuthorityInv, Cleared
    <2>5. MonitorInv(s)'
      BY <1>a, <2>1, <2>2, Zenon DEF SessionInv, MonitorInv, Watched
    <2>6. ReasonInv(s)'
      BY <1>a, <2>1, <2>2, Zenon DEF SessionInv, ReasonInv
    <2> QED  BY <2>3, <2>4, <2>5, <2>6, Zenon DEF SessionInv
  <1> QED  BY <1>a, <1>1, <1>2, <1>3, <1>4, Combine, Zenon

\* A handler that moves on and changes nothing else; past the last lookup only
\* with a token that has not lapsed.
LEMMA ProceedInv ==
    ASSUME IInv, NEW s \in Session, NEW stage, Proceed(s, stage),
           \/ pc[s] = "arrived" /\ stage = "known"
           \/ pc[s] = "slotted" /\ stage = "admitted"
           \/ pc[s] = "recorded" /\ stage = "checked"
           \/ pc[s] = "checked" /\ stage = "parsed"
           \/ pc[s] = "parsed" /\ stage = "cleared" /\ token[s] \notin dead
           \/ pc[s] = "handshaking" /\ stage = "relaying"
    PROVE  IInv'
  <1>a. /\ Goto(s, stage) /\ UNCHANGED slots
        /\ UNCHANGED <<token, context, upstream, monitor, told, result, recorded, reason, due, dead, doomed>>
    BY Zenon DEF Proceed, watch, around
  <1>t. Typed
    BY Zenon, TypeParts DEF IInv
  <1>1. Typed'
    BY <1>a, <1>t, Zenon DEF Typed, Goto, Stage
  <1>2. SlotsTyped' /\ Counts'
    BY Zenon, <1>a, CountsMoving
  <1>3. \A d \in Session : d # s => Same(d)
    BY <1>a, <1>t, Zenon DEF Same, Typed, Goto
  <1>4. SessionInv(s)'
    <2>1. pc'[s] = stage /\ SessionInv(s)
      BY <1>a, <1>t, Zenon DEF Typed, Goto, IInv
    <2>2. UpstreamInv(s)'
      BY Zenon, <1>a, <2>1 DEF SessionInv, UpstreamInv, BeforeDialCheck
    <2>3. AuthorityInv(s)'
      BY Zenon, <1>a, <2>1 DEF SessionInv, AuthorityInv, Cleared
    <2>4. MonitorInv(s)'
      BY Zenon, <1>a, <2>1 DEF SessionInv, MonitorInv, Watched
    <2>5. ReasonInv(s)'
      BY Zenon, <1>a, <2>1 DEF SessionInv, ReasonInv
    <2> QED  BY Zenon, <2>2, <2>3, <2>4, <2>5 DEF SessionInv
  <1> QED  BY Zenon, <1>a, <1>1, <1>2, <1>3, <1>4, Combine

\* A request for a session arrives, its token perhaps lapsed already.
LEMMA ArriveInv ==
    ASSUME IInv, NEW s \in Session, Arrive(s)
    PROVE  IInv'
  <1>a. /\ pc[s] = "idle" /\ Goto(s, "arrived") /\ UNCHANGED slots
        /\ doomed' = IF token[s] \in dead THEN doomed \cup {s} ELSE doomed
        /\ UNCHANGED <<token, context, upstream, monitor, told, result, recorded, reason, due, dead>>
    BY Zenon DEF Arrive, watch
  <1>t. Typed
    BY Zenon, TypeParts DEF IInv
  <1>1. Typed'
    BY <1>a, <1>t, Zenon DEF Typed, Goto, Stage
  <1>2. SlotsTyped' /\ Counts'
    BY Zenon, <1>a, CountsMoving
  <1>3. \A d \in Session : d # s => Same(d)
    BY <1>a, <1>t, Zenon DEF Same, Typed, Goto
  <1>4. SessionInv(s)'
    <2>1. pc'[s] = "arrived" /\ SessionInv(s)
      BY <1>a, <1>t, Zenon DEF Typed, Goto, IInv
    <2>2. upstream[s] = "none"
      BY Zenon, <1>a, <2>1 DEF SessionInv, UpstreamInv
    <2>3. UpstreamInv(s)'
      BY Zenon, <1>a, <2>1, <2>2 DEF UpstreamInv
    <2>4. AuthorityInv(s)'
      BY Zenon, <1>a, <2>1, <2>2 DEF SessionInv, AuthorityInv, Cleared
    <2>5. MonitorInv(s)'
      BY Zenon, <1>a, <2>1 DEF SessionInv, MonitorInv, Watched
    <2>6. ReasonInv(s)'
      BY Zenon, <1>a, <2>1 DEF SessionInv, ReasonInv
    <2> QED  BY Zenon, <2>3, <2>4, <2>5, <2>6 DEF SessionInv
  <1> QED  BY Zenon, <1>a, <1>1, <1>2, <1>3, <1>4, Combine

\* The slots are asked for.
LEMMA AcquireInv ==
    ASSUME IInv, NEW s \in Session, Acquire(s)
    PROVE  IInv'
  <1>1. CASE ~Available(token[s]) /\ Refuse(s, "busy")
    BY <1>1, RefuseInv, Zenon DEF Acquire, BeforeDialCheck
  <1>2. CASE /\ Available(token[s]) /\ take(token[s]) /\ Goto(s, "slotted")
             /\ UNCHANGED <<token, context, upstream, watch, result, recorded, reason, around>>
    <2>a. /\ pc[s] = "known"
          /\ UNCHANGED <<token, context, upstream, monitor, told, result, recorded, reason, due, dead, doomed>>
      BY Zenon, <1>2 DEF Acquire, watch, around
    <2>t. Typed /\ SlotsTyped /\ Counts
      BY Zenon, TypeParts DEF IInv
    <2>1. Typed'
      BY <1>2, <2>a, <2>t, Zenon DEF Typed, Goto, Stage
    <2>2. SlotsTyped' /\ Counts'
      <3>1. s \notin Holding /\ Holding' = Holding \cup {s}
        BY <1>2, <2>a, <2>t, Zenon DEF Holding, Goto, Typed
      <3> QED  BY Zenon, <1>2, <2>a, <2>t, <3>1, CountsTaken
    <2>3. \A d \in Session : d # s => Same(d)
      BY <1>2, <2>a, <2>t, Zenon DEF Same, Typed, Goto
    <2>4. SessionInv(s)'
      <3>1. pc'[s] = "slotted" /\ SessionInv(s)
        BY <1>2, <2>t, Zenon DEF Typed, Goto, IInv
      <3>2. UpstreamInv(s)'
        BY Zenon, <2>a, <3>1 DEF SessionInv, UpstreamInv, BeforeDialCheck
      <3>3. AuthorityInv(s)'
        BY Zenon, <2>a, <3>1 DEF SessionInv, AuthorityInv, Cleared
      <3>4. MonitorInv(s)'
        BY Zenon, <2>a, <3>1 DEF SessionInv, MonitorInv, Watched
      <3>5. ReasonInv(s)'
        BY Zenon, <2>a, <3>1 DEF SessionInv, ReasonInv
      <3> QED  BY Zenon, <3>2, <3>3, <3>4, <3>5 DEF SessionInv
    <2> QED  BY Zenon, <2>a, <2>1, <2>2, <2>3, <2>4, Combine
  <1> QED  BY Zenon, <1>1, <1>2 DEF Acquire

\* The authorization record.
LEMMA RecordAllowInv ==
    ASSUME IInv, NEW s \in Session, RecordAllow(s)
    PROVE  IInv'
  <1>1. CASE FailureMode = "closed" /\ Refuse(s, "unaudited")
    BY <1>1, RefuseInv, Zenon DEF RecordAllow, BeforeDialCheck
  <1>2. CASE /\ Goto(s, "recorded")
             /\ recorded' \in {recorded \cup {s}} \cup (IF FailureMode = "open" THEN {recorded} ELSE {})
             /\ UNCHANGED <<token, slots, context, upstream, watch, result, reason, around>>
    <2>a. /\ pc[s] = "admitted" /\ UNCHANGED slots
          /\ recorded' = recorded \cup {s} \/ (FailureMode = "open" /\ recorded' = recorded)
          /\ UNCHANGED <<token, context, upstream, monitor, told, result, reason, due, dead, doomed>>
      BY Zenon, <1>2 DEF RecordAllow, watch, around
    <2>t. Typed
      BY Zenon, TypeParts DEF IInv
    <2>1. Typed'
      BY <1>2, <2>a, <2>t, Zenon DEF Typed, Goto, Stage
    <2>2. SlotsTyped' /\ Counts'
      BY Zenon, <1>2, <2>a, CountsMoving
    <2>3. \A d \in Session : d # s => Same(d)
      <3>1. pc \in [Session -> Stage] /\ pc' = [pc EXCEPT ![s] = "recorded"]
        BY <1>2, <2>t, Zenon DEF Typed, Goto
      <3>2. \A d \in Session : d # s => pc'[d] = pc[d] /\ (d \in recorded' <=> d \in recorded)
        BY Zenon, <2>a, <3>1
      <3> QED  BY Zenon, <2>a, <3>2 DEF Same
    <2>4. SessionInv(s)'
      <3>1. pc'[s] = "recorded" /\ SessionInv(s)
        BY <1>2, <2>t, Zenon DEF Typed, Goto, IInv
      <3>2. UpstreamInv(s)'
        BY Zenon, <2>a, <3>1 DEF SessionInv, UpstreamInv, BeforeDialCheck
      <3>3. AuthorityInv(s)'
        BY Zenon, <2>a, <3>1 DEF SessionInv, AuthorityInv, Cleared
      <3>4. MonitorInv(s)'
        BY Zenon, <2>a, <3>1 DEF SessionInv, MonitorInv, Watched
      <3>5. ReasonInv(s)'
        BY Zenon, <2>a, <3>1 DEF SessionInv, ReasonInv
      <3> QED  BY Zenon, <3>2, <3>3, <3>4, <3>5 DEF SessionInv
    <2> QED  BY Zenon, <2>a, <2>1, <2>2, <2>3, <2>4, Combine
  <1> QED  BY Zenon, <1>1, <1>2 DEF RecordAllow

\* The connection to the target is opened.
LEMMA DialInv ==
    ASSUME IInv, NEW s \in Session, Dial(s)
    PROVE  IInv'
  <1>1. CASE Refuse(s, "no upstream")
    BY <1>1, RefuseInv, Zenon DEF Dial
  <1>2. CASE /\ Goto(s, "dialled") /\ upstream' = [upstream EXCEPT ![s] = "open"]
             /\ UNCHANGED <<token, slots, context, watch, result, recorded, reason, around>>
    <2>a. /\ pc[s] = "cleared" /\ UNCHANGED slots
          /\ UNCHANGED <<token, context, monitor, told, result, recorded, reason, due, dead, doomed>>
      BY <1>2, Zenon DEF Dial, watch, around
    <2>t. Typed
      BY Zenon, TypeParts DEF IInv
    <2>1. Typed'
      BY <1>2, <2>a, <2>t, Zenon DEF Typed, Goto, Stage
    <2>2. SlotsTyped' /\ Counts'
      BY Zenon, <1>2, <2>a, CountsMoving
    <2>3. \A d \in Session : d # s => Same(d)
      BY <1>2, <2>a, <2>t, Zenon DEF Same, Typed, Goto
    <2>4. SessionInv(s)'
      <3>1. pc'[s] = "dialled" /\ SessionInv(s)
        BY <1>2, <2>t, Zenon DEF Typed, Goto, IInv
      <3>2. UpstreamInv(s)'
        BY Zenon, <2>a, <3>1 DEF UpstreamInv, BeforeDialCheck
      <3>3. AuthorityInv(s)'
        BY Zenon, <2>a, <3>1 DEF SessionInv, AuthorityInv, Cleared
      <3>4. MonitorInv(s)'
        BY Zenon, <2>a, <3>1 DEF SessionInv, MonitorInv, Watched
      <3>5. ReasonInv(s)'
        BY Zenon, <2>a, <3>1 DEF SessionInv, ReasonInv
      <3> QED  BY Zenon, <3>2, <3>3, <3>4, <3>5 DEF SessionInv
    <2> QED  BY Zenon, <2>a, <2>1, <2>2, <2>3, <2>4, Combine
  <1> QED  BY <1>1, <1>2, Zenon DEF Dial

\* The third lookup, the flush, and the start of the watching goroutine.
LEMMA CommitInv ==
    ASSUME IInv, NEW s \in Session, Commit(s)
    PROVE  IInv'
  <1>1. CASE Refuse(s, "denied") \/ Refuse(s, "response_flush")
    BY <1>1, RefuseInv, Zenon DEF Commit
  <1>2. CASE /\ Goto(s, "handshaking") /\ monitor' = [monitor EXCEPT ![s] = "waiting"]
             /\ UNCHANGED <<token, slots, context, upstream, told, result, recorded, reason, around>>
    <2>a. /\ pc[s] = "dialled" /\ UNCHANGED slots
          /\ UNCHANGED <<token, context, upstream, told, result, recorded, reason, due, dead, doomed>>
      BY Zenon, <1>2 DEF Commit, around
    <2>t. Typed
      BY Zenon, TypeParts DEF IInv
    <2>1. Typed'
      BY <1>2, <2>a, <2>t, Zenon DEF Typed, Goto, Stage
    <2>2. SlotsTyped' /\ Counts'
      BY Zenon, <1>2, <2>a, CountsMoving
    <2>3. \A d \in Session : d # s => Same(d)
      BY <1>2, <2>a, <2>t, Zenon DEF Same, Typed, Goto
    <2>4. SessionInv(s)'
      <3>1. pc'[s] = "handshaking" /\ monitor'[s] = "waiting" /\ SessionInv(s)
        BY <1>2, <2>t, Zenon DEF Typed, Goto, IInv
      <3>2. UpstreamInv(s)'
        BY Zenon, <2>a, <3>1 DEF UpstreamInv, BeforeDialCheck
      <3>3. AuthorityInv(s)'
        BY Zenon, <2>a, <3>1 DEF SessionInv, AuthorityInv, Cleared
      <3>4. MonitorInv(s)'
        BY Zenon, <2>a, <3>1 DEF SessionInv, MonitorInv, Watched
      <3>5. ReasonInv(s)'
        BY Zenon, <2>a, <3>1 DEF SessionInv, ReasonInv
      <3> QED  BY Zenon, <3>2, <3>3, <3>4, <3>5 DEF SessionInv
    <2> QED  BY Zenon, <2>a, <2>1, <2>2, <2>3, <2>4, Combine
  <1> QED  BY Zenon, <1>1, <1>2 DEF Commit

\* The watching goroutine: its ticks, its lookups and its abort.
LEMMA MonitorStepInv ==
    ASSUME IInv, NEW s \in Session, Monitor(s)
    PROVE  IInv'
  <1>a. UNCHANGED slots /\ UNCHANGED <<pc, token, result, recorded, reason, due, dead, doomed>>
    BY Zenon DEF Monitor, MonitorTick, MonitorLook, MonitorAbort, MonitorStop, handling, around
  <1>t. Typed /\ SessionInv(s)
    BY Zenon, TypeParts DEF IInv
  <1>b. monitor[s] \in {"waiting", "looking", "aborting"}
    BY Zenon DEF Monitor, MonitorTick, MonitorLook, MonitorAbort, MonitorStop
  <1>c. pc[s] \in Watched
    BY Zenon, <1>b, <1>t DEF SessionInv, MonitorInv
  <1>d. \/ /\ told' = told /\ upstream' = upstream
           /\ \/ monitor' = [monitor EXCEPT ![s] = "looking"] /\ monitor[s] = "waiting"
              \/ monitor' = [monitor EXCEPT ![s] = "done"] /\ monitor[s] = "waiting"
              \/ monitor' = [monitor EXCEPT ![s] = "waiting"] /\ monitor[s] = "looking"
        \/ monitor' = [monitor EXCEPT ![s] = "aborting"] /\ told' = told \cup {s} /\ upstream' = upstream
        \/ /\ monitor' = [monitor EXCEPT ![s] = "done"] /\ told' = told
           /\ upstream' = [upstream EXCEPT ![s] = "closed"] /\ monitor[s] = "aborting"
    BY Zenon DEF Monitor, MonitorTick, MonitorLook, MonitorAbort, MonitorStop
  <1>e. context' \in [Session -> {"live", "cancelled", "deadline"}]
    <2>1. \/ context' = context
          \/ context' = [context EXCEPT ![s] = IF @ = "live" THEN "cancelled" ELSE @]
      BY Zenon DEF Monitor, MonitorTick, MonitorLook, MonitorAbort, MonitorStop
    <2>2. context \in [Session -> {"live", "cancelled", "deadline"}]
      BY <1>t, Zenon DEF Typed
    <2> QED  BY Zenon, <2>1, <2>2
  <1>f. /\ monitor \in [Session -> {"off", "waiting", "looking", "aborting", "done"}]
        /\ upstream \in [Session -> {"none", "open", "closed"}] /\ told \subseteq Session
    BY <1>t, Zenon DEF Typed
  <1>1. Typed'
    <2>1. monitor' \in [Session -> {"off", "waiting", "looking", "aborting", "done"}]
      <3>1. PICK m \in {"waiting", "looking", "aborting", "done"} : monitor' = [monitor EXCEPT ![s] = m]
        BY <1>d, Zenon
      <3> QED  BY Zenon, <1>f, <3>1
    <2>2. told' \subseteq Session
      <3>1. told' = told \/ told' = told \cup {s}
        BY <1>d, Zenon
      <3> QED  BY Zenon, <1>f, <3>1
    <2>3. upstream' \in [Session -> {"none", "open", "closed"}]
      <3>1. upstream' = upstream \/ upstream' = [upstream EXCEPT ![s] = "closed"]
        BY <1>d, Zenon
      <3> QED  BY Zenon, <1>f, <3>1
    <2> QED  BY <1>a, <1>e, <1>t, <2>1, <2>2, <2>3, Zenon DEF Typed
  <1>2. SlotsTyped' /\ Counts'
    <2>1. Holding' = Holding
      BY Zenon, <1>a DEF Holding
    <2> QED  BY Zenon, <1>a, <2>1, CountsKept, TypeParts DEF IInv
  <1>3. \A d \in Session : d # s => Same(d)
    <2>1. \A d \in Session : d # s => monitor'[d] = monitor[d]
      BY Zenon, <1>d, <1>f
    <2>2. \A d \in Session : d # s => upstream'[d] = upstream[d] /\ (d \in told' <=> d \in told)
      BY Zenon, <1>d, <1>f
    <2> QED  BY Zenon, <1>a, <2>1, <2>2 DEF Same
  <1>4. SessionInv(s)'
    <2>1. \/ /\ monitor'[s] \in {"waiting", "looking", "done"} /\ told' = told /\ s \notin told
             /\ upstream'[s] = upstream[s]
          \/ monitor'[s] = "aborting" /\ upstream'[s] = upstream[s]
          \/ /\ monitor'[s] = "done" /\ told' = told /\ upstream'[s] = "closed"
      BY <1>d, <1>t, Zenon DEF Typed, SessionInv, MonitorInv
    <2>2. told \subseteq told'
      BY Zenon, <1>d
    <2>3. UpstreamInv(s)'
      BY Zenon, <1>a, <1>c, <1>t, <2>1 DEF SessionInv, UpstreamInv, Watched, BeforeDialCheck
    <2>4. AuthorityInv(s)'
      BY Zenon, <1>a, <1>c, <1>t, <2>1 DEF SessionInv, AuthorityInv, Watched, Cleared
    <2>5. MonitorInv(s)'
      BY Zenon, <1>a, <1>c, <2>1 DEF MonitorInv, Watched
    <2>6. ReasonInv(s)'
      BY Zenon, <1>a, <1>c, <1>t, <2>2 DEF SessionInv, ReasonInv, Watched
    <2> QED  BY Zenon, <2>3, <2>4, <2>5, <2>6 DEF SessionInv
  <1> QED  BY Zenon, <1>a, <1>1, <1>2, <1>3, <1>4, Combine

\* The guest handshake fails.
LEMMA HandshakeFailsInv ==
    ASSUME IInv, NEW s \in Session, HandshakeFails(s)
    PROVE  IInv'
  <1>a. /\ pc[s] = "handshaking" /\ Goto(s, "leaving") /\ UNCHANGED slots
        /\ UNCHANGED <<token, upstream, monitor, told, result, recorded, due, dead, doomed>>
        /\ context' = [context EXCEPT ![s] = IF @ = "live" THEN "cancelled" ELSE @]
        /\ \/ s \in told /\ reason' = [reason EXCEPT ![s] = "token_invalidated"]
           \/ reason' = [reason EXCEPT ![s] = "ssh_handshake"]
    BY Zenon DEF HandshakeFails, watch, around
  <1>t. Typed /\ SessionInv(s)
    BY Zenon, TypeParts DEF IInv
  <1>1. Typed'
    BY <1>a, <1>t, Zenon DEF Typed, Goto, Stage
  <1>2. SlotsTyped' /\ Counts'
    BY Zenon, <1>a, CountsMoving
  <1>3. \A d \in Session : d # s => Same(d)
    <2>1. pc \in [Session -> Stage] /\ pc' = [pc EXCEPT ![s] = "leaving"]
      BY <1>a, <1>t, Zenon DEF Typed, Goto
    <2>2. DOMAIN reason = Session
      BY <1>t, Zenon DEF Typed
    <2>3. \A d \in Session : d # s => pc'[d] = pc[d] /\ reason'[d] = reason[d]
      BY <1>a, <2>1, <2>2, Zenon
    <2> QED  BY Zenon, <1>a, <2>3 DEF Same
  <1>4. SessionInv(s)'
    <2>1. pc'[s] = "leaving" /\ (s \in told \/ reason'[s] = "ssh_handshake")
      BY <1>a, <1>t, Zenon DEF Typed, Goto
    <2>2. UpstreamInv(s)'
      BY Zenon, <2>1 DEF UpstreamInv, BeforeDialCheck
    <2>3. AuthorityInv(s)'
      BY Zenon, <1>a, <1>t, <2>1 DEF SessionInv, AuthorityInv, Cleared
    <2>4. MonitorInv(s)'
      BY Zenon, <1>a, <1>t, <2>1 DEF SessionInv, MonitorInv, Watched
    <2>5. ReasonInv(s)'
      BY Zenon, <1>a, <1>t, <2>1 DEF SessionInv, ReasonInv
    <2> QED  BY Zenon, <2>2, <2>3, <2>4, <2>5 DEF SessionInv
  <1> QED  BY Zenon, <1>a, <1>1, <1>2, <1>3, <1>4, Combine

\* relaySSHConnection returns, having closed both connections.
LEMMA RelayReturnsInv ==
    ASSUME IInv, NEW s \in Session, NEW outcome \in {"completed", "limit", "transport"},
           RelayReturns(s, outcome)
    PROVE  IInv'
  <1>a. /\ pc[s] = "relaying" /\ Goto(s, "joining") /\ UNCHANGED slots
        /\ result' = [result EXCEPT ![s] = IF outcome # "limit" /\ context[s] = "deadline"
                                           THEN "deadline" ELSE outcome]
        /\ context' = [context EXCEPT ![s] = IF @ = "live" THEN "cancelled" ELSE @]
        /\ upstream' = [upstream EXCEPT ![s] = "closed"]
        /\ UNCHANGED <<token, monitor, told, recorded, reason, due, dead, doomed>>
    BY Zenon DEF RelayReturns, watch, around
  <1>t. Typed /\ SessionInv(s)
    BY Zenon, TypeParts DEF IInv
  <1>1. Typed'
    BY <1>a, <1>t, Zenon DEF Typed, Goto, Stage
  <1>2. SlotsTyped' /\ Counts'
    BY Zenon, <1>a, CountsMoving
  <1>3. \A d \in Session : d # s => Same(d)
    <2>1. pc \in [Session -> Stage] /\ pc' = [pc EXCEPT ![s] = "joining"]
      BY <1>a, <1>t, Zenon DEF Typed, Goto
    <2>2. DOMAIN upstream = Session /\ DOMAIN result = Session
      BY <1>t, Zenon DEF Typed
    <2>3. \A d \in Session : d # s => /\ pc'[d] = pc[d] /\ upstream'[d] = upstream[d]
                                      /\ result'[d] = result[d]
      BY Zenon, <1>a, <2>1, <2>2
    <2> QED  BY Zenon, <1>a, <2>3 DEF Same
  <1>4. SessionInv(s)'
    <2>1. pc'[s] = "joining" /\ upstream'[s] = "closed"
      BY <1>a, <1>t, Zenon DEF Typed, Goto
    <2>2. UpstreamInv(s)'
      BY Zenon, <2>1 DEF UpstreamInv, BeforeDialCheck
    <2>3. AuthorityInv(s)'
      BY Zenon, <1>a, <1>t, <2>1 DEF SessionInv, AuthorityInv, Cleared
    <2>4. MonitorInv(s)'
      BY Zenon, <1>a, <1>t, <2>1 DEF SessionInv, MonitorInv, Watched
    <2>5. ReasonInv(s)'
      BY Zenon, <1>a, <1>t, <2>1 DEF SessionInv, ReasonInv
    <2> QED  BY Zenon, <2>2, <2>3, <2>4, <2>5 DEF SessionInv
  <1> QED  BY Zenon, <1>a, <1>1, <1>2, <1>3, <1>4, Combine

\* The handler joins the watching goroutine, records how the session ended, and
\* gives its slot back.
LEMMA JoinInv ==
    ASSUME IInv, NEW s \in Session, Join(s)
    PROVE  IInv'
  <1>a. /\ pc[s] = "joining" /\ monitor[s] = "done" /\ Goto(s, "done") /\ release(token[s])
        /\ reason' = [reason EXCEPT ![s] = IF s \in told THEN "token_invalidated" ELSE result[s]]
        /\ UNCHANGED <<token, context, upstream, monitor, told, result, recorded, due, dead, doomed>>
    BY Zenon DEF Join, Finish, watch, around
  <1>t. Typed /\ SessionInv(s)
    BY Zenon, TypeParts DEF IInv
  <1>1. Typed'
    BY <1>a, <1>t, Zenon DEF Typed, Goto, Stage
  <1>2. SlotsTyped' /\ Counts'
    BY Zenon, <1>a, CountsReturning DEF Holding
  <1>3. \A d \in Session : d # s => Same(d)
    BY <1>a, <1>t, Zenon DEF Same, Typed, Goto
  <1>4. SessionInv(s)'
    <2>1. pc'[s] = "done" /\ reason'[s] = IF s \in told THEN "token_invalidated" ELSE result[s]
      BY <1>a, <1>t, Zenon DEF Typed, Goto
    <2>2. UpstreamInv(s)'
      BY Zenon, <1>a, <1>t, <2>1 DEF SessionInv, UpstreamInv, BeforeDialCheck
    <2>3. AuthorityInv(s)'
      BY Zenon, <1>a, <1>t, <2>1 DEF SessionInv, AuthorityInv, Cleared
    <2>4. MonitorInv(s)'
      BY Zenon, <1>a, <1>t, <2>1 DEF SessionInv, MonitorInv, Watched
    <2>5. ReasonInv(s)'
      <3>1. result[s] # "token_invalidated"
        BY <1>t, Zenon DEF Typed
      <3> QED  BY Zenon, <1>a, <2>1, <3>1 DEF ReasonInv
    <2> QED  BY Zenon, <2>2, <2>3, <2>4, <2>5 DEF SessionInv
  <1> QED  BY Zenon, <1>a, <1>1, <1>2, <1>3, <1>4, Combine

\* The deferred calls after a failed handshake.
LEMMA LeaveInv ==
    ASSUME IInv, NEW s \in Session, Leave(s)
    PROVE  IInv'
  <1>a. /\ pc[s] = "leaving" /\ monitor[s] = "done" /\ Goto(s, "done") /\ release(token[s])
        /\ upstream' = [upstream EXCEPT ![s] = "closed"]
        /\ UNCHANGED <<token, context, reason, monitor, told, result, recorded, due, dead, doomed>>
    BY Zenon DEF Leave, Finish, watch, around
  <1>t. Typed /\ SessionInv(s)
    BY Zenon, TypeParts DEF IInv
  <1>1. Typed'
    BY <1>a, <1>t, Zenon DEF Typed, Goto, Stage
  <1>2. SlotsTyped' /\ Counts'
    BY Zenon, <1>a, CountsReturning DEF Holding
  <1>3. \A d \in Session : d # s => Same(d)
    BY <1>a, <1>t, Zenon DEF Same, Typed, Goto
  <1>4. SessionInv(s)'
    <2>1. pc'[s] = "done" /\ upstream'[s] = "closed"
      BY <1>a, <1>t, Zenon DEF Typed, Goto
    <2>2. UpstreamInv(s)'
      BY Zenon, <2>1 DEF UpstreamInv, BeforeDialCheck
    <2>3. AuthorityInv(s)'
      BY Zenon, <1>a, <1>t, <2>1 DEF SessionInv, AuthorityInv, Cleared
    <2>4. MonitorInv(s)'
      BY Zenon, <1>a, <1>t, <2>1 DEF SessionInv, MonitorInv, Watched
    <2>5. ReasonInv(s)'
      BY Zenon, <1>a, <1>t, <2>1 DEF SessionInv, ReasonInv
    <2> QED  BY Zenon, <2>2, <2>3, <2>4, <2>5 DEF SessionInv
  <1> QED  BY Zenon, <1>a, <1>1, <1>2, <1>3, <1>4, Combine

\* The client goes away, or the session's time is over.
LEMMA ContextEndsInv ==
    ASSUME IInv, NEW s \in Session, ClientLeaves(s) \/ Deadline(s)
    PROVE  IInv'
  <1>a. /\ UNCHANGED slots
        /\ UNCHANGED <<pc, token, upstream, monitor, told, result, recorded, reason, dead, doomed>>
    BY Zenon DEF ClientLeaves, Deadline, serving, watch, around
  <1>b. \/ context' = [context EXCEPT ![s] = "cancelled"] /\ due' = due
        \/ /\ context' = [context EXCEPT ![s] = IF @ = "live" /\ pc[s] \in Timed THEN "deadline" ELSE @]
           /\ due' = due \cup {s}
    BY Zenon DEF ClientLeaves, Deadline, around
  <1>t. Typed
    BY Zenon, TypeParts DEF IInv
  <1>1. Typed'
    <2>1. context' \in [Session -> {"live", "cancelled", "deadline"}]
      <3>1. context \in [Session -> {"live", "cancelled", "deadline"}]
        BY <1>t, Zenon DEF Typed
      <3> QED  BY Zenon, <1>b, <3>1
    <2>2. due' \subseteq Session
      BY <1>b, <1>t, Zenon DEF Typed
    <2> QED  BY <1>a, <1>t, <2>1, <2>2, Zenon DEF Typed
  <1>2. SlotsTyped' /\ Counts'
    <2>1. Holding' = Holding
      BY Zenon, <1>a DEF Holding
    <2> QED  BY Zenon, <1>a, <2>1, CountsKept, TypeParts DEF IInv
  <1>3. \A d \in Session : SessionInv(d)'
    BY <1>a DEF IInv, SessionInv, UpstreamInv, AuthorityInv, MonitorInv, ReasonInv
  <1> QED  BY <1>1, <1>2, <1>3, TypeParts, Zenon DEF IInv, TypeOK, Typed, SlotsTyped

\* A token lapses: the sessions it dooms have not passed their last lookup.
LEMMA LapseInv ==
    ASSUME IInv, NEW t \in Token, Lapse(t)
    PROVE  IInv'
  <1>a. /\ UNCHANGED slots /\ dead' = dead \cup {t}
        /\ doomed' = doomed \cup {s \in Session : token[s] = t /\ pc[s] \in BeforeDialCheck}
        /\ UNCHANGED <<pc, token, context, due, upstream, monitor, told, result, recorded, reason>>
    BY Zenon DEF Lapse, serving, watch
  <1>t. Typed
    BY Zenon, TypeParts DEF IInv
  <1>1. Typed'
    BY <1>a, <1>t, Zenon DEF Typed
  <1>2. SlotsTyped' /\ Counts'
    <2>1. Holding' = Holding
      BY Zenon, <1>a DEF Holding
    <2> QED  BY Zenon, <1>a, <2>1, CountsKept, TypeParts DEF IInv
  <1>3. ASSUME NEW s \in Session PROVE SessionInv(s)'
    <2>1. SessionInv(s)
      BY Zenon DEF IInv
    <2>2. UpstreamInv(s)' /\ MonitorInv(s)' /\ ReasonInv(s)'
      BY Zenon, <1>a, <2>1 DEF SessionInv, UpstreamInv, MonitorInv, ReasonInv
    <2>3. AuthorityInv(s)'
      <3>1. s \in doomed' => s \in doomed \/ (token[s] = t /\ pc[s] \in BeforeDialCheck)
        BY Zenon, <1>a
      <3>2. pc[s] \in BeforeDialCheck => upstream[s] = "none" /\ pc[s] \notin Cleared \cup {"idle"}
        BY Zenon, <2>1 DEF SessionInv, UpstreamInv, BeforeDialCheck, Cleared
      <3> QED  BY Zenon, <1>a, <2>1, <3>1, <3>2 DEF SessionInv, AuthorityInv
    <2> QED  BY Zenon, <2>2, <2>3 DEF SessionInv
  <1> QED  BY <1>1, <1>2, <1>3, Zenon DEF IInv, TypeOK, Typed, SlotsTyped

\* The steps of a handler: each one is a refusal, a move on, or one of the above.
LEMMA HandleInv ==
    ASSUME IInv, NEW s \in Session, Handle(s)
    PROVE  IInv'
  <1>1. CASE Authenticate(s)
    <2>1. pc[s] = "arrived" /\ (Refuse(s, "denied") \/ Proceed(s, "known"))
      BY Zenon, <1>1 DEF Authenticate
    <2> QED  BY <2>1, RefuseInv, ProceedInv, Zenon DEF BeforeDialCheck
  <1>2. CASE Admit(s)
    <2>1. /\ pc[s] = "slotted"
          /\ (\E why \in {"limited", "denied", "no deadline"} : Refuse(s, why)) \/ Proceed(s, "admitted")
      BY <1>2, Zenon DEF Admit
    <2> QED  BY <2>1, RefuseInv, ProceedInv, Zenon DEF BeforeDialCheck
  <1>3. CASE CheckFirst(s)
    <2>1. pc[s] = "recorded" /\ (Refuse(s, "denied") \/ Proceed(s, "checked"))
      BY Zenon, <1>3 DEF CheckFirst, Check
    <2> QED  BY <2>1, RefuseInv, ProceedInv, Zenon DEF BeforeDialCheck
  <1>4. CASE FetchKey(s)
    <2>1. pc[s] = "checked" /\ (Refuse(s, "no key") \/ Proceed(s, "parsed"))
      BY <1>4, Zenon DEF FetchKey
    <2> QED  BY <2>1, RefuseInv, ProceedInv, Zenon DEF BeforeDialCheck
  <1>5. CASE CheckSecond(s)
    <2>1. pc[s] = "parsed" /\ (Refuse(s, "denied") \/ (token[s] \notin dead /\ Proceed(s, "cleared")))
      BY Zenon, <1>5 DEF CheckSecond, Check, tokenStillValid
    <2> QED  BY <2>1, RefuseInv, ProceedInv, Zenon DEF BeforeDialCheck
  <1>6. CASE Handshake(s)
    <2>1. pc[s] = "handshaking" /\ Proceed(s, "relaying")
      BY Zenon, <1>6 DEF Handshake
    <2> QED  BY Zenon, <2>1, ProceedInv
  <1>7. CASE RelayStopped(s)
    BY Zenon, <1>7, RelayReturnsInv DEF RelayStopped
  <1> QED
    BY Zenon, <1>1, <1>2, <1>3, <1>4, <1>5, <1>6, <1>7, AcquireInv, RecordAllowInv, DialInv, CommitInv,
       HandshakeFailsInv, JoinInv, LeaveInv DEF Handle

-----------------------------------------------------------------------------
(* What holds of every behaviour *)

\* Before the first session nothing is held, dialled, watched or recorded.
LEMMA InitInv == Init => IInv
  <1> SUFFICES ASSUME Init PROVE IInv
    BY Zenon
  <1>1. TypeOK
    BY Zenon, BindingAssumption DEF Init, TypeOK, Stage
  <1>2. Holding = {} /\ (\A t : HeldBy(t) = {}) /\ (\A w : HeldFor(w) = {})
    BY Zenon DEF Init, Holding, HeldBy, HeldFor
  <1>3. Counts
    <2>1. Cardinality({}) = 0
      BY Zenon, FS_EmptySet
    <2>2. /\ 0 <= maxConcurrentSSHSessions /\ 0 <= maxConcurrentSSHSessionsPerToken
          /\ 0 <= maxConcurrentSSHSessionsPerWorkload
      BY CapAssumption
    <2>3. /\ total = 0
          /\ \A t \in Token : byToken[t] = 0
          /\ \A w \in Workload : byWorkload[w] = 0
      BY Zenon DEF Init
    <2> QED  BY Zenon, <1>2, <2>1, <2>2, <2>3 DEF Counts
  <1>4. ASSUME NEW s \in Session PROVE SessionInv(s)
    BY Zenon DEF Init, SessionInv, UpstreamInv, AuthorityInv, MonitorInv, ReasonInv, BeforeDialCheck,
           Cleared, Watched
  <1> QED  BY Zenon, <1>1, <1>3, <1>4 DEF IInv

\* Every step keeps the inductive invariant.
LEMMA NextInv == IInv /\ [Next]_vars => IInv'
  <1> SUFFICES ASSUME IInv, [Next]_vars PROVE IInv'
    BY Zenon
  <1>1. CASE UNCHANGED vars
    <2>1. Holding' = Holding /\ UNCHANGED slots /\ Typed' /\ token' = token
      BY <1>1, TypeParts, Zenon DEF vars, Holding, slots, IInv, Typed
    <2>2. SlotsTyped' /\ Counts'
      BY Zenon, <2>1, CountsKept, TypeParts DEF IInv
    <2>3. \A s \in Session : SessionInv(s)'
      BY <1>1 DEF vars, IInv, SessionInv, UpstreamInv, AuthorityInv, MonitorInv, ReasonInv
    <2> QED  BY <2>1, <2>2, <2>3, Zenon DEF IInv, TypeOK, Typed, SlotsTyped
  <1>2. ASSUME NEW s \in Session,
               Arrive(s) \/ Handle(s) \/ RelayEnds(s) \/ Monitor(s) \/ ClientLeaves(s) \/ Deadline(s)
        PROVE  IInv'
    <2>1. CASE RelayEnds(s)
      BY Zenon, <2>1, RelayReturnsInv DEF RelayEnds
    <2> QED  BY Zenon, <1>2, <2>1, ArriveInv, HandleInv, MonitorStepInv, ContextEndsInv
  <1> QED  BY Zenon, <1>1, <1>2, LapseInv DEF Next

\* The inductive invariant of serveSSH, its slots and its watching goroutine.
THEOREM Invariance == Spec => []IInv
  BY InitInv, NextInv, PTL DEF Spec

\* The counts of sshConcurrencyManager are those of the sessions that hold a slot,
\* on every path out of serveSSH, and stay within the three caps.
THEOREM ExactSlots == Spec => []SlotsExact
  <1>1. IInv => SlotsExact
    BY Zenon DEF IInv, SlotsExact, Counts, HeldBy, HeldFor
  <1> QED  BY <1>1, Invariance, PTL

\* serveSSH never dials for a session whose token lapsed before the lookup that
\* follows the key's retrieval, nor, failing closed, for one without its record.
THEOREM AuthorizedDial == Spec => []DialIsAuthorized
  <1>1. IInv => DialIsAuthorized
    BY Zenon DEF IInv, SessionInv, AuthorityInv, DialIsAuthorized
  <1> QED  BY <1>1, Invariance, PTL

\* A serveSSH that has returned has closed the connection to the target and joined
\* the goroutine that watched the token.
THEOREM NoLeftovers == Spec => []NothingLeftBehind
  <1>1. IInv => NothingLeftBehind
    BY Zenon DEF IInv, SessionInv, UpstreamInv, MonitorInv, NothingLeftBehind
  <1> QED  BY <1>1, Invariance, PTL

\* The completion record names the token's invalidation for the relayed sessions the
\* watching goroutine ended, and for no session it did not end.
THEOREM RecordedInvalidation == Spec => []InvalidationRecorded
  <1>1. IInv => InvalidationRecorded
    BY Zenon DEF IInv, SessionInv, ReasonInv, InvalidationRecorded
  <1> QED  BY <1>1, Invariance, PTL

(***************************************************************************)
(* The relay of one session.                                               *)
(***************************************************************************)
Program == {"shell", "exec"}
Early == {"waiting", "opening", "accepting"}

\* The variables the argument is about have their types.
RelayTyped ==
  /\ relayPc \in Early \cup {"output", "reply", "requests", "joining", "returned"}
  /\ worker \in [Worker -> {"off", "running", "done"}]
  /\ replied \in Nat
  /\ answered \in BOOLEAN
  /\ forwarding \in [type : RequestType, wantReply : BOOLEAN, accepted : BOOLEAN,
                     step : {"idle", "send", "acted", "refused", "answer", "notify", "failed", "failing"}]
  /\ state \in [started : BOOLEAN, pty : BOOLEAN, notified : BOOLEAN]
  /\ output \in [Stream -> [arrived : Nat, passed : Nat]]
  /\ target \in [programs : Nat, kinds : SUBSET RequestType, exits : {0, 1}, exitPassed : {"no", "yes", "lost"}]

\* The workers of a session run from Accept on, and the relay waits for both
\* streams to end before it looks for the reply.
StageInv ==
  /\ relayPc \in Early => \A w \in Worker \ {"globals"} : worker[w] = "off"
  /\ relayPc \in {"output", "reply", "requests"} => \A w \in Worker \ {"globals"} : worker[w] # "off"
  /\ relayPc \in {"reply", "requests"} => \A s \in Stream : worker[s] = "done"

\* A program that runs is accounted for by the request state, or by the request
\* in hand; if its answer was lost, the target cannot be asked for another.  What
\* it was asked for, the policy allows.
ProgramInv ==
  /\ worker["client"] = "off" => forwarding.step = "idle" /\ target.programs = 0 /\ ~state.started
  /\ forwarding.step = "send" /\ forwarding.type \in Program => forwarding.type \in Policy /\ ~state.started
  /\ forwarding.step = "send" /\ forwarding.type = "pty-req" => "pty" \in Policy
  /\ target.programs \in {0, 1}
  /\ target.programs = 1 =>
       state.started \/ (forwarding.step = "acted" /\ forwarding.type \in Program) \/ ~TargetListens
  /\ target.kinds \cap Program \subseteq Policy
  /\ "pty-req" \in target.kinds => "pty" \in Policy

\* A stream that ended while the guest listens has been passed on whole, and no
\* exit status is lost while it does; none comes after the target's requests ended.
OutputInv ==
  /\ \A s \in Stream : worker[s] = "done" /\ GuestListens => output[s].passed = output[s].arrived
  /\ worker["upstream"] = "done" => ~TargetListens /\ (target.exits = 1 => target.exitPassed # "no")
  /\ target.exitPassed = "lost" => ~GuestListens
  /\ worker["upstream"] = "off" => target.exitPassed = "no"

\* What the relay is told of the start request's reply, and when.
ReplyInv ==
  /\ state.notified \/ forwarding.step = "notify" => answered
  /\ state.started => answered \/ ~GuestListens \/ (forwarding.step = "answer" /\ Starts)
  /\ worker["client"] = "done" => forwarding.step \in {"idle", "failing"}
  /\ replied > 0 \/ relayPc = "requests" =>
       state.notified \/ worker["client"] = "done" \/ forwarding.step = "failing"

RelayIInv == RelayTyped /\ StageInv /\ ProgramInv /\ OutputInv /\ ReplyInv

\* The relay returns once its workers have ended.
LEMMA RelayJoinInv ==
    ASSUME RelayIInv, JoinWorkers
    PROVE  RelayIInv'
  <1> USE DEF Worker, Stream
  <1>1. RelayTyped'
    BY DEF RelayIInv, RelayTyped, Early, JoinWorkers, RequestType
  <1>2. StageInv'
    BY Zenon DEF RelayIInv, RelayTyped, StageInv, Early, JoinWorkers
  <1>3. ProgramInv'
    BY Zenon DEF RelayIInv, RelayTyped, ProgramInv, GuestListens, TargetListens, Program, JoinWorkers, StageInv, Early
  <1>4. OutputInv'
    BY DEF RelayIInv, RelayTyped, OutputInv, GuestListens, TargetListens, JoinWorkers, StageInv, Early
  <1>5. ReplyInv'
    BY Zenon DEF RelayIInv, RelayTyped, ReplyInv, Starts, GuestListens, JoinWorkers, ProgramInv, StageInv, Early,
       Program
  <1> QED  BY Zenon, <1>1, <1>2, <1>3, <1>4, <1>5 DEF RelayIInv

\* A channel is asked for, refused, or nobody asks any more.
LEMMA WaitForChannelInv ==
    ASSUME RelayIInv, WaitForChannel
    PROVE  RelayIInv'
  <1> USE DEF Worker, Stream
  <1>1. RelayTyped'
    BY DEF RelayIInv, RelayTyped, Early, WaitForChannel, Return,
       Allowed, Exhausted, RequestType
  <1>2. StageInv'
    BY Zenon DEF RelayIInv, RelayTyped, StageInv, Early, WaitForChannel, Return,
       Allowed, Exhausted
  <1>3. ProgramInv'
    BY DEF RelayIInv, RelayTyped, ProgramInv, GuestListens, TargetListens, Program, WaitForChannel,
       Return, Allowed, Exhausted, StageInv, Early
  <1>4. OutputInv'
    BY Zenon DEF RelayIInv, RelayTyped, OutputInv, GuestListens, TargetListens, WaitForChannel, Return,
       Allowed, Exhausted, StageInv, Early
  <1>5. ReplyInv'
    BY Zenon DEF RelayIInv, RelayTyped, ReplyInv, Starts, GuestListens, WaitForChannel, Return,
       Allowed, Exhausted, ProgramInv, StageInv, Early, Program
  <1> QED  BY Zenon, <1>1, <1>2, <1>3, <1>4, <1>5 DEF RelayIInv

\* The target's channel is opened, or the relay gives up.
LEMMA OpenChannelInv ==
    ASSUME RelayIInv, OpenChannel
    PROVE  RelayIInv'
  <1> USE DEF Worker, Stream
  <1>1. RelayTyped'
    BY DEF RelayIInv, RelayTyped, Early, OpenChannel, Return
  <1>2. StageInv'
    BY Zenon DEF RelayIInv, RelayTyped, StageInv, Early, OpenChannel, Return
  <1>3. ProgramInv'
    BY DEF RelayIInv, RelayTyped, ProgramInv, GuestListens, TargetListens, Program, OpenChannel,
       Return, StageInv, Early
  <1>4. OutputInv'
    BY DEF RelayIInv, RelayTyped, OutputInv, GuestListens, TargetListens, OpenChannel, Return,
       StageInv, Early
  <1>5. ReplyInv'
    BY Zenon DEF RelayIInv, RelayTyped, ReplyInv, Starts, GuestListens, OpenChannel, Return,
       ProgramInv, StageInv, Early, Program
  <1> QED  BY Zenon, <1>1, <1>2, <1>3, <1>4, <1>5 DEF RelayIInv

\* The guest's channel is accepted and the workers start: nothing has been
\* passed on yet.
LEMMA AcceptInv ==
    ASSUME RelayIInv, Accept
    PROVE  RelayIInv'
  <1> USE DEF Worker, Stream
  <1>1. RelayTyped'
    <2>1. worker' \in [Worker -> {"off", "running", "done"}]
      BY DEF RelayIInv, RelayTyped, Accept, StartWorkers
    <2> QED  BY <2>1 DEF RelayIInv, RelayTyped, Early, Accept, Return
  <1>2. StageInv'
    BY DEF RelayIInv, RelayTyped, StageInv, Early, Accept, Return, StartWorkers
  <1>3. ProgramInv'
    <2>1. forwarding.step = "idle" /\ target.programs = 0 /\ ~state.started
      BY Zenon DEF RelayIInv, ProgramInv, Accept, StageInv, Early
    <2>2. UNCHANGED <<forwarding, target, state>>
      BY Zenon DEF Accept
    <2> QED  BY <2>1, <2>2 DEF RelayIInv, ProgramInv
  <1>4. OutputInv'
    BY DEF RelayIInv, RelayTyped, OutputInv, GuestListens, TargetListens, Accept, Return,
       StartWorkers, StageInv, Early
  <1>5. ReplyInv'
    BY DEF RelayIInv, RelayTyped, ReplyInv, Starts, GuestListens, Accept, Return,
       StartWorkers, ProgramInv, StageInv, Early, Program
  <1> QED  BY Zenon, <1>1, <1>2, <1>3, <1>4, <1>5 DEF RelayIInv

\* A select sees the context, the limiter or an error of a worker.
LEMMA InterruptedInv ==
    ASSUME RelayIInv, Interrupted
    PROVE  RelayIInv'
  <1> USE DEF Worker, Stream
  <1>1. RelayTyped'
    BY DEF RelayIInv, RelayTyped, Early, Interrupted, Waiting, Return,
       RequestType
  <1>2. StageInv'
    BY Zenon DEF RelayIInv, RelayTyped, StageInv, Early, Interrupted, Waiting, Return
  <1>3. ProgramInv'
    BY Zenon DEF RelayIInv, RelayTyped, ProgramInv, GuestListens, TargetListens, Program, Interrupted,
       Waiting, Return, StageInv, Early
  <1>4. OutputInv'
    BY Zenon DEF RelayIInv, RelayTyped, OutputInv, GuestListens, TargetListens, Interrupted, Waiting,
       Return, StageInv, Early
  <1>5. ReplyInv'
    BY Zenon DEF RelayIInv, RelayTyped, ReplyInv, Starts, GuestListens, Interrupted, Waiting,
       Return, ProgramInv, StageInv, Early, Program
  <1> QED  BY Zenon, <1>1, <1>2, <1>3, <1>4, <1>5 DEF RelayIInv

\* A select of relaySSHSession sees what it waits for: the end of both streams,
\* the reply, the end of the target's requests.
LEMMA RelayProceedInv ==
    ASSUME RelayIInv, NextPhase
    PROVE  RelayIInv'
  <1> USE DEF Worker, Stream
  <1>1. RelayTyped'
    BY DEF RelayIInv, RelayTyped, Early, NextPhase, Return, outputDone,
       Ended, RequestType
  <1>2. StageInv'
    BY DEF RelayIInv, RelayTyped, StageInv, Early, NextPhase, Return, outputDone,
       Ended
  <1>3. ProgramInv'
    BY Zenon DEF RelayIInv, RelayTyped, ProgramInv, GuestListens, TargetListens, Program, NextPhase, Return,
       outputDone, Ended, StageInv, Early
  <1>4. OutputInv'
    BY DEF RelayIInv, RelayTyped, OutputInv, GuestListens, TargetListens, NextPhase, Return,
       outputDone, Ended, StageInv, Early
  <1>5. ReplyInv'
    BY DEF RelayIInv, RelayTyped, ReplyInv, Starts, GuestListens, NextPhase, Return,
       outputDone, Ended, ProgramInv, StageInv, Early, Program
  <1> QED  BY Zenon, <1>1, <1>2, <1>3, <1>4, <1>5 DEF RelayIInv

\* A global request is refused.
LEMMA GlobalsInv ==
    ASSUME RelayIInv, Globals
    PROVE  RelayIInv'
  <1> USE DEF Worker, Stream
  <1>1. RelayTyped'
    BY DEF RelayIInv, RelayTyped, Early, Globals, Allowed, Exhausted,
       Becomes, RequestType
  <1>2. StageInv'
    BY DEF RelayIInv, RelayTyped, StageInv, Early, Globals, Allowed, Exhausted,
       Becomes
  <1>3. ProgramInv'
    BY DEF RelayIInv, RelayTyped, ProgramInv, GuestListens, TargetListens, Program, Globals, Allowed,
       Exhausted, Becomes, StageInv, Early
  <1>4. OutputInv'
    BY DEF RelayIInv, RelayTyped, OutputInv, GuestListens, TargetListens, Globals, Allowed,
       Exhausted, Becomes, StageInv, Early
  <1>5. ReplyInv'
    BY DEF RelayIInv, RelayTyped, ReplyInv, Starts, GuestListens, Globals, Allowed,
       Exhausted, Becomes, ProgramInv, StageInv, Early, Program
  <1> QED  BY Zenon, <1>1, <1>2, <1>3, <1>4, <1>5 DEF RelayIInv

\* A further channel is rejected.
LEMMA ExtrasInv ==
    ASSUME RelayIInv, Extras
    PROVE  RelayIInv'
  <1> USE DEF Worker, Stream
  <1>1. RelayTyped'
    BY DEF RelayIInv, RelayTyped, Early, Extras, Allowed, Exhausted,
       Becomes, RequestType
  <1>2. StageInv'
    BY DEF RelayIInv, RelayTyped, StageInv, Early, Extras, Allowed, Exhausted,
       Becomes
  <1>3. ProgramInv'
    BY DEF RelayIInv, RelayTyped, ProgramInv, GuestListens, TargetListens, Program, Extras, Allowed,
       Exhausted, Becomes, StageInv, Early
  <1>4. OutputInv'
    BY DEF RelayIInv, RelayTyped, OutputInv, GuestListens, TargetListens, Extras, Allowed,
       Exhausted, Becomes, StageInv, Early
  <1>5. ReplyInv'
    BY DEF RelayIInv, RelayTyped, ReplyInv, Starts, GuestListens, Extras, Allowed,
       Exhausted, Becomes, ProgramInv, StageInv, Early, Program
  <1> QED  BY Zenon, <1>1, <1>2, <1>3, <1>4, <1>5 DEF RelayIInv

\* The guest's input ends.
LEMMA InputInv ==
    ASSUME RelayIInv, Input
    PROVE  RelayIInv'
  <1> USE DEF Worker, Stream
  <1>1. RelayTyped'
    BY DEF RelayIInv, RelayTyped, Early, Input, Becomes, Fails, RequestType
  <1>2. StageInv'
    BY DEF RelayIInv, RelayTyped, StageInv, Early, Input, Becomes, Fails
  <1>3. ProgramInv'
    BY DEF RelayIInv, RelayTyped, ProgramInv, GuestListens, TargetListens, Program, Input, Becomes,
       Fails, StageInv, Early
  <1>4. OutputInv'
    BY DEF RelayIInv, RelayTyped, OutputInv, GuestListens, TargetListens, Input, Becomes, Fails,
       StageInv, Early
  <1>5. ReplyInv'
    BY DEF RelayIInv, RelayTyped, ReplyInv, Starts, GuestListens, Input, Becomes, Fails,
       ProgramInv, StageInv, Early, Program
  <1> QED  BY Zenon, <1>1, <1>2, <1>3, <1>4, <1>5 DEF RelayIInv

\* A request of the guest is refused, sent on or the last one; a program is sent
\* on only while none has started.
LEMMA TakeRequestInv ==
    ASSUME RelayIInv, TakeRequest
    PROVE  RelayIInv'
  <1> USE DEF Worker, Stream
  <1>a. /\ forwarding.step = "idle" /\ worker["client"] = "running"
        /\ UNCHANGED <<relayPc, worker, replied, open, answered, state, output, target>>
    BY Zenon DEF TakeRequest
  <1>b. CASE forwarding' = [Idle EXCEPT !.step = "failed"] \/ forwarding' = [Idle EXCEPT !.step = "answer"]
    <2>1. forwarding' \in [type : RequestType, wantReply : BOOLEAN, accepted : BOOLEAN,
                          step : {"failed", "answer"}]
      BY Zenon, <1>b DEF Idle, RequestType
    <2>2. RelayTyped'
      BY <1>a, <2>1 DEF RelayIInv, RelayTyped
    <2>3. StageInv' /\ OutputInv'
      BY Zenon, <1>a DEF RelayIInv, StageInv, OutputInv, GuestListens, TargetListens
    <2>4. ProgramInv'
      BY Zenon, <1>a, <2>1 DEF RelayIInv, ProgramInv, TargetListens
    <2>5. ReplyInv'
      BY Zenon, <1>a, <2>1 DEF RelayIInv, ReplyInv, GuestListens
    <2> QED  BY Zenon, <2>2, <2>3, <2>4, <2>5 DEF RelayIInv
  <1>c. ASSUME NEW type \in RequestType, NEW wantReply \in BOOLEAN, validateClientSSHRequest(type, wantReply),
               forwarding' = [type |-> type, step |-> "send", wantReply |-> wantReply, accepted |-> FALSE]
        PROVE  RelayIInv'
    <2>1. /\ forwarding' \in [type : RequestType, wantReply : BOOLEAN, accepted : BOOLEAN, step : {"send"}]
          /\ forwarding'.type = type
      BY Zenon, <1>c
    <2>2. /\ type \in Program => type \in Policy /\ ~state.started
          /\ type = "pty-req" => "pty" \in Policy
      BY Zenon, <1>c DEF validateClientSSHRequest, Program
    <2>3. RelayTyped'
      BY <1>a, <2>1 DEF RelayIInv, RelayTyped
    <2>4. StageInv' /\ OutputInv'
      BY Zenon, <1>a DEF RelayIInv, StageInv, OutputInv, GuestListens, TargetListens
    <2>5. ProgramInv'
      BY Zenon, <1>a, <2>1, <2>2 DEF RelayIInv, ProgramInv, TargetListens
    <2>6. ReplyInv'
      BY Zenon, <1>a, <2>1 DEF RelayIInv, ReplyInv, GuestListens
    <2> QED  BY Zenon, <2>3, <2>4, <2>5, <2>6 DEF RelayIInv
  <1> QED  BY Zenon, <1>b, <1>c DEF TakeRequest

\* The target acts on the request in hand: the first program, since the request
\* was validated when none had started.
LEMMA TargetDecidesInv ==
    ASSUME RelayIInv, TargetDecides
    PROVE  RelayIInv'
  <1> USE DEF Worker, Stream
  <1>1. RelayTyped'
    <2>1. PICK acts \in BOOLEAN :
            /\ forwarding' = [forwarding EXCEPT !.step = IF acts THEN "acted" ELSE "refused"]
            /\ target' = IF acts
                         THEN [target EXCEPT
                                 !.programs = IF forwarding.type \in {"shell", "exec"} THEN @ + 1 ELSE @,
                                 !.kinds = @ \cup {forwarding.type}]
                         ELSE target
      BY Zenon DEF TargetDecides
    <2>2. forwarding' \in [type : RequestType, wantReply : BOOLEAN, accepted : BOOLEAN,
                          step : {"idle", "send", "acted", "refused", "answer", "notify", "failed", "failing"}]
      BY <2>1 DEF RelayIInv, RelayTyped
    <2>3. target' \in [programs : Nat, kinds : SUBSET RequestType, exits : {0, 1}, exitPassed : {"no", "yes", "lost"}]
      <3>1. target.programs + 1 \in Nat /\ target.kinds \cup {forwarding.type} \in SUBSET RequestType
        BY DEF RelayIInv, RelayTyped
      <3> QED  BY Zenon, <2>1, <3>1 DEF RelayIInv, RelayTyped
    <2> QED  BY Zenon, <2>2, <2>3 DEF RelayIInv, RelayTyped, TargetDecides
  <1>2. StageInv'
    BY DEF RelayIInv, RelayTyped, StageInv, Early, TargetDecides
  <1>3. ProgramInv'
    BY DEF RelayIInv, RelayTyped, ProgramInv, GuestListens, TargetListens, Program, TargetDecides, StageInv,
       Early
  <1>4. OutputInv'
    BY DEF RelayIInv, RelayTyped, OutputInv, GuestListens, TargetListens, TargetDecides, StageInv, Early
  <1>5. ReplyInv'
    BY Zenon DEF RelayIInv, RelayTyped, ReplyInv, Starts, GuestListens, TargetDecides, ProgramInv,
       StageInv, Early, Program
  <1> QED  BY Zenon, <1>1, <1>2, <1>3, <1>4, <1>5 DEF RelayIInv

\* The target's answer arrives, or is lost with its leg or its channel.
LEMMA SendRequestInv ==
    ASSUME RelayIInv, SendRequest
    PROVE  RelayIInv'
  <1> USE DEF Worker, Stream
  <1>1. RelayTyped'
    <2>1. forwarding' \in [type : RequestType, wantReply : BOOLEAN, accepted : BOOLEAN,
                       step : {"idle", "send", "acted", "refused", "answer", "notify", "failed", "failing"}]
      <3>1. PICK accepted \in BOOLEAN :
              forwarding' = [forwarding EXCEPT !.step = "answer", !.accepted = accepted]
        BY Zenon DEF SendRequest
      <3> QED  BY <3>1, Zenon DEF RelayIInv, RelayTyped
    <2>2. state' \in [started : BOOLEAN, pty : BOOLEAN, notified : BOOLEAN]
      <3>1. PICK pty \in BOOLEAN, started \in BOOLEAN :
              state' = [state EXCEPT !.pty = pty, !.started = started]
        BY Zenon DEF SendRequest
      <3> QED  BY <3>1, Zenon DEF RelayIInv, RelayTyped
    <2> QED  BY <2>1, <2>2 DEF RelayIInv, RelayTyped, SendRequest
  <1>2. StageInv'
    BY DEF RelayIInv, RelayTyped, StageInv, Early, SendRequest
  <1>3. ProgramInv'
    BY DEF RelayIInv, RelayTyped, ProgramInv, GuestListens, TargetListens, Program, SendRequest, StageInv,
       Early
  <1>4. OutputInv'
    BY DEF RelayIInv, RelayTyped, OutputInv, GuestListens, TargetListens, SendRequest, StageInv, Early
  <1>5. ReplyInv'
    BY DEF RelayIInv, RelayTyped, ReplyInv, Starts, GuestListens, SendRequest, ProgramInv, StageInv,
       Early, Program
  <1> QED  BY Zenon, <1>1, <1>2, <1>3, <1>4, <1>5 DEF RelayIInv

\* The reply crosses to the guest, and then the relay is to be told.
LEMMA AnswerInv ==
    ASSUME RelayIInv, Answer
    PROVE  RelayIInv'
  <1> USE DEF Worker, Stream
  <1>a. /\ forwarding.step = "answer" /\ worker["client"] = "running"
        /\ UNCHANGED <<relayPc, worker, replied, open, state, output, target>>
    BY Zenon DEF Answer
  <1>b. forwarding' \in [type : RequestType, wantReply : BOOLEAN, accepted : BOOLEAN, step : {"idle", "notify"}]
    <2>1. forwarding' = Idle \/ forwarding' = [Idle EXCEPT !.step = "notify"]
      BY Zenon DEF Answer
    <2>2. CASE forwarding' = Idle
      BY Zenon, <2>2 DEF Idle, RequestType
    <2>3. CASE forwarding' = [Idle EXCEPT !.step = "notify"]
      BY Zenon, <2>3 DEF Idle, RequestType
    <2> QED  BY Zenon, <2>1, <2>2, <2>3
  <1>c. /\ answered' \in BOOLEAN
        /\ answered => answered'
        /\ Starts => answered' \/ ~GuestListens
        /\ forwarding'.step = "notify" => answered'
    BY Zenon DEF Answer, Idle
  <1>1. RelayTyped'
    BY <1>a, <1>b, <1>c DEF RelayIInv, RelayTyped
  <1>2. StageInv' /\ OutputInv'
    BY Zenon, <1>a DEF RelayIInv, StageInv, OutputInv, GuestListens, TargetListens
  <1>3. ProgramInv'
    BY Zenon, <1>a, <1>b DEF RelayIInv, ProgramInv, TargetListens
  <1>4. ReplyInv'
    BY Zenon, <1>a, <1>b, <1>c DEF RelayIInv, ReplyInv, GuestListens
  <1> QED  BY Zenon, <1>1, <1>2, <1>3, <1>4 DEF RelayIInv

\* The relay is told that the reply to a start request crossed.
LEMMA NotifyInv ==
    ASSUME RelayIInv, Notify
    PROVE  RelayIInv'
  <1> USE DEF Worker, Stream
  <1>a. /\ forwarding.step = "notify" /\ worker["client"] = "running"
        /\ state' = [state EXCEPT !.notified = TRUE] /\ forwarding' = Idle
        /\ replied' = replied + 1
        /\ UNCHANGED <<relayPc, worker, open, answered, output, target>>
    BY Zenon DEF Notify, Reports
  <1>b. /\ state' \in [started : BOOLEAN, pty : BOOLEAN, notified : {TRUE}]
        /\ state'.started = state.started
    BY Zenon, <1>a DEF RelayIInv, RelayTyped
  <1>c. forwarding' \in [type : RequestType, wantReply : BOOLEAN, accepted : BOOLEAN, step : {"idle"}]
    BY Zenon, <1>a DEF Idle, RequestType
  <1>1. RelayTyped'
    <2>1. state' \in [started : BOOLEAN, pty : BOOLEAN, notified : BOOLEAN]
      BY Zenon, <1>a DEF RelayIInv, RelayTyped
    <2>2. forwarding' \in [type : RequestType, wantReply : BOOLEAN, accepted : BOOLEAN,
                          step : {"idle", "send", "acted", "refused", "answer", "notify", "failed", "failing"}]
      BY Zenon, <1>a DEF Idle, RequestType
    <2>3. replied' \in Nat
      BY <1>a DEF RelayIInv, RelayTyped
    <2> QED  BY Zenon, <1>a, <2>1, <2>2, <2>3 DEF RelayIInv, RelayTyped
  <1>2. StageInv' /\ OutputInv'
    BY Zenon, <1>a DEF RelayIInv, StageInv, OutputInv, GuestListens, TargetListens
  <1>3. ProgramInv'
    BY Zenon, <1>a, <1>b, <1>c DEF RelayIInv, ProgramInv, TargetListens
  <1>4. ReplyInv'
    BY Zenon, <1>a, <1>b, <1>c DEF RelayIInv, ReplyInv, GuestListens
  <1> QED  BY Zenon, <1>1, <1>2, <1>3, <1>4 DEF RelayIInv

\* forwardClientSSHRequests ends, and its deferred send happens.
LEMMA ClientEndsInv ==
    ASSUME RelayIInv, ClientEnds
    PROVE  RelayIInv'
  <1> USE DEF Worker, Stream
  <1>1. RelayTyped'
    BY DEF RelayIInv, RelayTyped, Early, ClientEnds, LastReport, Reports, Becomes, Fails,
       RequestType
  <1>2. StageInv'
    BY DEF RelayIInv, RelayTyped, StageInv, Early, ClientEnds, LastReport, Reports, Becomes, Fails
  <1>3. ProgramInv'
    BY DEF RelayIInv, RelayTyped, ProgramInv, GuestListens, TargetListens, Program, ClientEnds,
       LastReport, Reports, Becomes, Fails, StageInv, Early
  <1>4. OutputInv'
    BY DEF RelayIInv, RelayTyped, OutputInv, GuestListens, TargetListens, ClientEnds, LastReport, Reports, Becomes,
       Fails, StageInv, Early
  <1>5. ReplyInv'
    BY DEF RelayIInv, RelayTyped, ReplyInv, Starts, GuestListens, ClientEnds, LastReport, Reports, Becomes,
       Fails, ProgramInv, StageInv, Early, Program
  <1> QED  BY Zenon, <1>1, <1>2, <1>3, <1>4, <1>5 DEF RelayIInv

\* The exit status is passed on, then the target's requests end.
LEMMA RelayUpstreamInv ==
    ASSUME RelayIInv, Upstream
    PROVE  RelayIInv'
  <1> USE DEF Worker, Stream
  <1>1. RelayTyped'
    BY DEF RelayIInv, RelayTyped, Early, Upstream, Becomes, RequestType
  <1>2. StageInv'
    BY DEF RelayIInv, RelayTyped, StageInv, Early, Upstream, Becomes
  <1>3. ProgramInv'
    BY DEF RelayIInv, RelayTyped, ProgramInv, GuestListens, TargetListens, Program, Upstream, Becomes,
       StageInv, Early
  <1>4. OutputInv'
    BY DEF RelayIInv, RelayTyped, OutputInv, GuestListens, TargetListens, Upstream, Becomes, StageInv,
       Early
  <1>5. ReplyInv'
    BY DEF RelayIInv, RelayTyped, ReplyInv, Starts, GuestListens, Upstream, Becomes,
       ProgramInv, StageInv, Early, Program
  <1> QED  BY Zenon, <1>1, <1>2, <1>3, <1>4, <1>5 DEF RelayIInv

\* The guest closes its channel.
LEMMA GuestEndsInv ==
    ASSUME RelayIInv, GuestEnds
    PROVE  RelayIInv'
  <1> USE DEF Worker, Stream
  <1>1. RelayTyped'
    BY DEF RelayIInv, RelayTyped, GuestEnds
  <1>2. StageInv'
    BY DEF RelayIInv, RelayTyped, StageInv, Early, GuestEnds
  <1>3. ProgramInv'
    BY Zenon DEF RelayIInv, RelayTyped, ProgramInv, GuestListens, TargetListens, Program, GuestEnds, StageInv, Early
  <1>4. OutputInv'
    BY DEF RelayIInv, RelayTyped, OutputInv, GuestListens, TargetListens, GuestEnds, StageInv, Early
  <1>5. ReplyInv'
    BY Zenon DEF RelayIInv, RelayTyped, ReplyInv, Starts, GuestListens, GuestEnds, ProgramInv, StageInv,
       Early, Program
  <1> QED  BY Zenon, <1>1, <1>2, <1>3, <1>4, <1>5 DEF RelayIInv

\* The target sends output or its exit status, or closes its channel.
LEMMA TargetActsInv ==
    ASSUME RelayIInv, TargetActs
    PROVE  RelayIInv'
  <1> USE DEF Worker, Stream
  <1>1. RelayTyped'
    <2>1. target' \in [programs : Nat, kinds : SUBSET RequestType, exits : {0, 1}, exitPassed : {"no", "yes", "lost"}]
      <3>1. target' = target \/ target' = [target EXCEPT !.exits = 1]
        BY Zenon DEF TargetActs
      <3> QED  BY <3>1, Zenon DEF RelayIInv, RelayTyped
    <2>2. output' \in [Stream -> [arrived : Nat, passed : Nat]]
      BY DEF RelayIInv, RelayTyped, TargetActs
    <2> QED  BY <2>1, <2>2 DEF RelayIInv, RelayTyped, TargetActs
  <1>2. StageInv'
    BY DEF RelayIInv, RelayTyped, StageInv, Early, TargetActs
  <1>3. ProgramInv'
    BY DEF RelayIInv, RelayTyped, ProgramInv, GuestListens, TargetListens, Program, TargetActs, StageInv,
       Early
  <1>4. OutputInv'
    BY DEF RelayIInv, RelayTyped, OutputInv, GuestListens, TargetListens, TargetActs, StageInv, Early
  <1>5. ReplyInv'
    BY Zenon DEF RelayIInv, RelayTyped, ReplyInv, Starts, GuestListens, TargetActs, ProgramInv, StageInv,
       Early, Program
  <1> QED  BY Zenon, <1>1, <1>2, <1>3, <1>4, <1>5 DEF RelayIInv

\* The deadline passes, or the monitor found the token invalid.
LEMMA RelayContextEndsInv ==
    ASSUME RelayIInv, ContextEnds
    PROVE  RelayIInv'
  <1> USE DEF Worker, Stream
  <1>1. RelayTyped'
    BY DEF RelayIInv, RelayTyped, Early, ContextEnds, RequestType
  <1>2. StageInv'
    BY DEF RelayIInv, RelayTyped, StageInv, Early, ContextEnds
  <1>3. ProgramInv'
    BY Zenon DEF RelayIInv, RelayTyped, ProgramInv, GuestListens, TargetListens, Program, ContextEnds, StageInv,
       Early
  <1>4. OutputInv'
    BY DEF RelayIInv, RelayTyped, OutputInv, GuestListens, TargetListens, ContextEnds, StageInv, Early
  <1>5. ReplyInv'
    BY Zenon DEF RelayIInv, RelayTyped, ReplyInv, Starts, GuestListens, ContextEnds, ProgramInv, StageInv,
       Early, Program
  <1> QED  BY Zenon, <1>1, <1>2, <1>3, <1>4, <1>5 DEF RelayIInv

\* A stream is passed on, and ends only when all of it that arrived has been, or
\* the guest is gone.
LEMMA PassInv ==
    ASSUME RelayIInv, NEW s \in Stream, Pass(s)
    PROVE  RelayIInv'
  <1> USE DEF Worker, Stream
  <1>1. RelayTyped'
    BY DEF RelayIInv, RelayTyped, Early, Pass, Becomes, Fails, RequestType
  <1>2. StageInv'
    BY DEF RelayIInv, RelayTyped, StageInv, Early, Pass, Becomes, Fails
  <1>3. ProgramInv'
    BY DEF RelayIInv, RelayTyped, ProgramInv, GuestListens, TargetListens, Program, Pass, Becomes,
       Fails, StageInv, Early
  <1>4. OutputInv'
    BY DEF RelayIInv, RelayTyped, OutputInv, GuestListens, TargetListens, Pass, Becomes, Fails,
       StageInv, Early
  <1>5. ReplyInv'
    BY DEF RelayIInv, RelayTyped, ReplyInv, Starts, GuestListens, Pass, Becomes, Fails,
       ProgramInv, StageInv, Early, Program
  <1> QED  BY Zenon, <1>1, <1>2, <1>3, <1>4, <1>5 DEF RelayIInv

\* A leg closes.
LEMMA LegClosesInv ==
    ASSUME RelayIInv, NEW leg \in {"guest", "target"}, LegCloses(leg)
    PROVE  RelayIInv'
  <1> USE DEF Worker, Stream
  <1>1. RelayTyped'
    BY DEF RelayIInv, RelayTyped, Early, LegCloses, RequestType
  <1>2. StageInv'
    BY DEF RelayIInv, RelayTyped, StageInv, Early, LegCloses
  <1>3. ProgramInv'
    BY Zenon DEF RelayIInv, RelayTyped, ProgramInv, GuestListens, TargetListens, Program, LegCloses, StageInv, Early
  <1>4. OutputInv'
    BY DEF RelayIInv, RelayTyped, OutputInv, GuestListens, TargetListens, LegCloses, StageInv, Early
  <1>5. ReplyInv'
    BY Zenon DEF RelayIInv, RelayTyped, ReplyInv, Starts, GuestListens, LegCloses, ProgramInv, StageInv,
       Early, Program
  <1> QED  BY Zenon, <1>1, <1>2, <1>3, <1>4, <1>5 DEF RelayIInv

\* The relay begins with no program, no output and nothing to reply to.
LEMMA RelayInitInv == RelayInit => RelayIInv
  <1> SUFFICES ASSUME RelayInit PROVE RelayIInv
    BY Zenon
  <1> USE DEF Worker, Stream
  <1>1. RelayTyped
    BY Zenon DEF RelayInit, RelayTyped, Early, Idle, RequestType
  <1>2. StageInv /\ OutputInv
    BY Zenon DEF RelayInit, StageInv, OutputInv, Early
  <1>3. ProgramInv /\ ReplyInv
    BY DEF RelayInit, ProgramInv, ReplyInv, Idle
  <1> QED  BY Zenon, <1>1, <1>2, <1>3 DEF RelayIInv

\* Every step keeps the inductive invariant.
LEMMA RelayNextInv == RelayIInv /\ [RelayNext]_relayVars => RelayIInv'
  <1> SUFFICES ASSUME RelayIInv, [RelayNext]_relayVars PROVE RelayIInv'
    BY Zenon
  <1>1. CASE UNCHANGED relayVars
    BY <1>1 DEF relayVars, RelayIInv, RelayTyped, StageInv, ProgramInv, OutputInv, ReplyInv,
       GuestListens, TargetListens, Starts
  <1>2. CASE Relay
    BY Zenon, <1>2, RelayJoinInv, WaitForChannelInv, OpenChannelInv, AcceptInv, InterruptedInv,
       RelayProceedInv DEF Relay
  <1>3. CASE Work
    BY Zenon, <1>3, InputInv, RelayUpstreamInv, TakeRequestInv, SendRequestInv, AnswerInv, NotifyInv,
       ClientEndsInv, PassInv, GlobalsInv, ExtrasInv DEF Work
  <1> QED
    BY Zenon, <1>1, <1>2, <1>3, TargetDecidesInv, GuestEndsInv, TargetActsInv,
       RelayContextEndsInv, LegClosesInv DEF RelayNext

\* The inductive invariant of relaySSHConnection and its workers.
THEOREM RelayInvariance == RelaySpec => []RelayIInv
  BY RelayInitInv, RelayNextInv, PTL DEF RelaySpec

\* However the answer to a start request was lost, the target runs at most one
\* program for a session, each program it runs is one the policy allows, and it gives
\* a terminal only where the policy allows one (validateClientSSHRequest,
\* forwardClientSSHRequests).
THEOREM AtMostOneProgram == RelaySpec => []OneProgram
  <1>1. RelayIInv => OneProgram
    BY DEF RelayIInv, ProgramInv, OneProgram, Program
  <1> QED  BY <1>1, RelayInvariance, PTL

\* A relay that returns nil while the guest's channel is open has passed on all
\* output, the exit status and the reply to the start request before it tears
\* anything down (the three selects of relaySSHSession).
THEOREM OrderlyReturn == RelaySpec => OrderlyEnd
  <1> DEFINE Ordered ==
        relayResult' # relayResult /\ relayResult' = "nil" /\ GuestListens =>
          /\ \A s \in Stream : output[s].passed = output[s].arrived
          /\ target.exits = 1 => target.exitPassed = "yes"
          /\ state.started => answered
  <1>1. RelayIInv /\ [RelayNext]_relayVars => [Ordered]_relayVars
    <2> SUFFICES ASSUME RelayIInv, RelayNext, relayResult' # relayResult, relayResult' = "nil", GuestListens
                 PROVE  /\ \A s \in Stream : output[s].passed = output[s].arrived
                        /\ target.exits = 1 => target.exitPassed = "yes"
                        /\ state.started => answered
      BY Zenon
    <2>1. relayPc = "requests" /\ worker["upstream"] = "done"
      <3>1. CASE Relay
        BY Zenon, <3>1 DEF Relay, JoinWorkers, WaitForChannel, OpenChannel,
           Accept, Interrupted, NextPhase, Return
      <3>2. CASE Work
        BY <3>2, Zenon DEF Work, Globals, Extras, Input, Upstream, TakeRequest,
           SendRequest, Answer, Notify, ClientEnds, Pass
      <3>3. CASE TargetDecides \/ GuestEnds
        BY <3>3, Zenon DEF TargetDecides, GuestEnds
      <3>4. CASE TargetActs \/ ContextEnds \/ \E leg \in {"guest", "target"} : LegCloses(leg)
        BY <3>4, Zenon DEF TargetActs, ContextEnds, LegCloses
      <3> QED  BY <3>1, <3>2, <3>3, <3>4, Zenon DEF RelayNext
    <2>2. \A s \in Stream : output[s].passed = output[s].arrived
      BY Zenon, <2>1 DEF RelayIInv, StageInv, OutputInv
    <2>3. target.exits = 1 => target.exitPassed = "yes"
      BY Zenon, <2>1 DEF RelayIInv, RelayTyped, OutputInv
    <2>4. state.started => answered
      BY Zenon, <2>1 DEF RelayIInv, RelayTyped, ReplyInv
    <2> QED  BY Zenon, <2>2, <2>3, <2>4
  <1>2. RelaySpec => [][Ordered]_relayVars
    BY <1>1, RelayInvariance, PTL DEF RelaySpec
  <1> QED  BY Zenon, <1>2 DEF OrderlyEnd
=============================================================================
