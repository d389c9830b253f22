--------------------------- MODULE GatewayProofs ---------------------------
(***************************************************************************)
(* Proofs about Gateway for any set of requests and tokens.                *)
(***************************************************************************)
EXTENDS Gateway, TLAPS

Entry == {"allow", "deny", "error"} \X Nat

\* The states without the trails.
Typed ==
  /\ pc \in [Request -> Stage]
  /\ kind \in [Request -> Kind]
  /\ form \in [Request -> Form]
  /\ token \in [Request -> Token]
  /\ answer \in [Request -> {0, 200, 401, 404, 429, 500, 502, 503}]
  /\ failed \in [Request -> {"none", "transport", "body"}]
  /\ ending \in [Request -> {"open", "whole", "aborted"}]
  /\ cancelled \subseteq Request /\ lost \subseteq Request
  /\ used \subseteq Request /\ doomed \subseteq Request
  /\ revoked \subseteq Token /\ expired \subseteq Token
  /\ phase \in 1..6

\* What a handler has told the client, by stage.
AnswerInv ==
  \A r \in Request :
    /\ pc[r] \notin {"committed", "closing", "done", "cut"} => answer[r] = 0
    /\ pc[r] = "committed" => answer[r] = 200
    /\ pc[r] = "closing" => answer[r] \in {0, 200} /\ (failed[r] = "none" => answer[r] = 200)
    /\ pc[r] = "done" => answer[r] # 0
    /\ ending[r] # "open" => pc[r] = "done"
    /\ answer[r] = 200 /\ ending[r] = "whole" => failed[r] = "none"

\* Where a doomed request can be, and where one that was sent.
DoomInv ==
  \A r \in Request :
    /\ r \in used => pc[r] \notin BeforeLastCheck \cup {"idle", "cleared"}
    /\ r \in doomed =>
         /\ token[r] \in revoked \cup expired
         /\ pc[r] # "idle" /\ r \notin used
         /\ pc[r] = "cleared" => kind[r] = "capabilities"

\* What the trail holds, by stage.
TrailInv ==
  /\ trail \in [Request -> Seq(Entry)]
  /\ \A r \in Request :
       pc[r] \in {"idle", "arrived", "known", "admitted", "authorized"} => trail[r] = <<>>
  /\ AuthorityIsAudited
  /\ LastRecordIsAnswer

IInv == Typed /\ AnswerInv /\ DoomInv /\ TrailInv

-----------------------------------------------------------------------------
\* The handlers start idle.
LEMMA InitHolds == Init => IInv
  BY SMTT(30), TokenAssumption
  DEF Init, IInv, Typed, AnswerInv, DoomInv, TrailInv, AuthorityIsAudited, LastRecordIsAnswer,
      Entry, Stage, Kind, Form, BeforeLastCheck

\* Typed, by action.
LEMMA TypedStep == Typed /\ [Next]_vars => Typed'
  <1> SUFFICES ASSUME Typed, [Next]_vars PROVE Typed'
    BY Zenon
  <1> USE DEF Typed, Stage, Kind, Form
  <1>1. ASSUME NEW r \in Request, Arrive(r) PROVE Typed'
    BY SMTT(30), <1>1 DEF Arrive
  <1>2. ASSUME NEW r \in Request, Authenticate(r) PROVE Typed'
    BY <1>2 DEF Authenticate, Deny, Refuse, RefuseSampled, Return, Goto, Record, NoRecord, handler, world
  <1>3. ASSUME NEW r \in Request, Admit(r) PROVE Typed'
    BY <1>3 DEF Admit, Refuse, Return, Goto, Record, NoRecord, handler, world
  <1>4. ASSUME NEW r \in Request, Authorize(r) PROVE Typed'
    BY <1>4 DEF Authorize, Refuse, Return, Goto, Record, NoRecord, handler, world
  <1>5. ASSUME NEW r \in Request, Project(r) PROVE Typed'
    BY <1>5 DEF Project, Refuse, RefuseSampled, Return, Goto, Record, NoRecord, handler, world
  <1>6. ASSUME NEW r \in Request, RecordAllow(r) PROVE Typed'
    BY <1>6 DEF RecordAllow, Return, Goto, Record, handler, world
  <1>7. ASSUME NEW r \in Request, CheckBefore(r) PROVE Typed'
    BY <1>7 DEF CheckBefore, Deny, Refuse, RefuseSampled, Return, Goto, Record, NoRecord, handler, world
  <1>8. ASSUME NEW r \in Request, FetchSecret(r) PROVE Typed'
    BY <1>8 DEF FetchSecret, BackendClosed, Refuse, Return, Goto, Record, NoRecord, handler, world
  <1>9. ASSUME NEW r \in Request, CheckAfter(r) PROVE Typed'
    BY <1>9 DEF CheckAfter, Deny, Refuse, RefuseSampled, Return, Goto, Record, NoRecord, handler, world
  <1>10. ASSUME NEW r \in Request, Send(r) \/ Respond(r) \/ Stream(r) \/ Expose(r) PROVE Typed'
    BY <1>10 DEF Send, Respond, Stream, Expose, NoRecord, handler, world
  <1>11. ASSUME NEW r \in Request, Complete(r) PROVE Typed'
    BY <1>11 DEF Complete, FinalStatus, Record, handler, world
  <1>12. ASSUME NEW r \in Request, Cancel(r) \/ Lapse(r) PROVE Typed'
    BY <1>12 DEF Cancel, Lapse, still
  <1>13. ASSUME NEW t \in Token, Revoke(t) \/ Expire(t) PROVE Typed'
    BY <1>13 DEF Revoke, Expire, Overtaken, StoreClosed, still
  <1>14. ASSUME Shutdown \/ Exit PROVE Typed'
    BY <1>14 DEF Shutdown, Exit, still
  <1>15. CASE UNCHANGED vars
    <2> HIDE DEF Typed
    <2>1. /\ pc' = pc /\ kind' = kind /\ form' = form /\ token' = token
          /\ answer' = answer /\ failed' = failed /\ ending' = ending
          /\ cancelled' = cancelled /\ lost' = lost /\ used' = used /\ doomed' = doomed
          /\ revoked' = revoked /\ expired' = expired /\ phase' = phase
      BY Zenon, <1>15 DEF vars
    <2> QED  BY <2>1 DEF Typed
  <1> QED
    BY <1>1, <1>2, <1>3, <1>4, <1>5, <1>6, <1>7, <1>8, <1>9, <1>10, <1>11, <1>12, <1>13, <1>14,
       <1>15 DEF Next, Progress
\* A status is written once, after every check, and a cut copy is not whole.
LEMMA AnswerStep == Typed /\ AnswerInv /\ [Next]_vars => AnswerInv'
  <1> SUFFICES ASSUME Typed, AnswerInv, [Next]_vars PROVE AnswerInv'
    BY Zenon
  <1>0. /\ pc \in [Request -> Stage]
        /\ answer \in [Request -> {0, 200, 401, 404, 429, 500, 502, 503}]
        /\ failed \in [Request -> {"none", "transport", "body"}]
        /\ ending \in [Request -> {"open", "whole", "aborted"}]
    BY Zenon DEF Typed
  <1> USE <1>0 DEF AnswerInv
  <1>1. ASSUME NEW r \in Request, Arrive(r) PROVE AnswerInv'
    BY SMTT(30), <1>1 DEF Arrive
  <1>2. ASSUME NEW r \in Request, Authenticate(r) PROVE AnswerInv'
    BY <1>2 DEF Authenticate, Deny, Refuse, RefuseSampled, Return, Goto, handler, world
  <1>3. ASSUME NEW r \in Request, Admit(r) PROVE AnswerInv'
    BY <1>3 DEF Admit, Refuse, Return, Goto, handler, world
  <1>4. ASSUME NEW r \in Request, Authorize(r) PROVE AnswerInv'
    BY <1>4 DEF Authorize, Refuse, Return, Goto, handler, world
  <1>5. ASSUME NEW r \in Request, Project(r) PROVE AnswerInv'
    BY <1>5 DEF Project, Refuse, RefuseSampled, Return, Goto, handler, world
  <1>6. ASSUME NEW r \in Request, RecordAllow(r) PROVE AnswerInv'
    BY <1>6 DEF RecordAllow, Return, Goto, handler, world
  <1>7. ASSUME NEW r \in Request, CheckBefore(r) PROVE AnswerInv'
    BY <1>7 DEF CheckBefore, Deny, Refuse, RefuseSampled, Return, Goto, handler, world
  <1>8. ASSUME NEW r \in Request, FetchSecret(r) PROVE AnswerInv'
    BY <1>8 DEF FetchSecret, BackendClosed, Refuse, Return, Goto, handler, world
  <1>9. ASSUME NEW r \in Request, CheckAfter(r) PROVE AnswerInv'
    BY <1>9 DEF CheckAfter, Deny, Refuse, RefuseSampled, Return, Goto, handler, world
  <1>10. ASSUME NEW r \in Request, Send(r) \/ Respond(r) \/ Stream(r) \/ Expose(r) PROVE AnswerInv'
    BY <1>10 DEF Send, Respond, Stream, Expose, handler, world
  <1>11. ASSUME NEW r \in Request, Complete(r) PROVE AnswerInv'
    BY <1>11 DEF Complete, FinalStatus, handler, world
  <1>12. ASSUME NEW r \in Request, Cancel(r) \/ Lapse(r) PROVE AnswerInv'
    BY <1>12 DEF Cancel, Lapse, still
  <1>13. ASSUME NEW t \in Token, Revoke(t) \/ Expire(t) PROVE AnswerInv'
    BY <1>13 DEF Revoke, Expire, Overtaken, StoreClosed, still
  <1>14. ASSUME Shutdown \/ Exit PROVE AnswerInv'
    BY <1>14 DEF Shutdown, Exit, InFlight, still
  <1>15. CASE UNCHANGED vars
    <2> HIDE <1>0 DEF AnswerInv
    <2>1. pc' = pc /\ answer' = answer /\ failed' = failed /\ ending' = ending
      BY Zenon, <1>15 DEF vars
    <2> QED  BY <2>1 DEF AnswerInv
  <1> QED
    BY <1>1, <1>2, <1>3, <1>4, <1>5, <1>6, <1>7, <1>8, <1>9, <1>10, <1>11, <1>12, <1>13, <1>14,
       <1>15 DEF Next, Progress
\* A doomed request does not get past the last check, and only what got past
\* it is sent.
LEMMA DoomStep == Typed /\ DoomInv /\ [Next]_vars => DoomInv'
  <1> SUFFICES ASSUME Typed, DoomInv, [Next]_vars PROVE DoomInv'
    BY Zenon
  <1>0. /\ pc \in [Request -> Stage] /\ kind \in [Request -> Kind]
        /\ token \in [Request -> Token]
    BY Zenon DEF Typed
  <1> USE <1>0 DEF DoomInv, BeforeLastCheck
  <1>1. ASSUME NEW r \in Request, Arrive(r) PROVE DoomInv'
    BY SMTT(30), <1>1 DEF Arrive
  <1>2. ASSUME NEW r \in Request, Authenticate(r) PROVE DoomInv'
    BY <1>2 DEF Authenticate, Deny, Refuse, RefuseSampled, Return, Goto, handler, world
  <1>3. ASSUME NEW r \in Request, Admit(r) PROVE DoomInv'
    BY <1>3 DEF Admit, Refuse, Return, Goto, handler, world
  <1>4. ASSUME NEW r \in Request, Authorize(r) PROVE DoomInv'
    BY <1>4 DEF Authorize, Refuse, Return, Goto, handler, world
  <1>5. ASSUME NEW r \in Request, Project(r) PROVE DoomInv'
    BY <1>5 DEF Project, Refuse, RefuseSampled, Return, Goto, handler, world
  <1>6. ASSUME NEW r \in Request, RecordAllow(r) PROVE DoomInv'
    BY <1>6 DEF RecordAllow, Return, Goto, handler, world
  <1>7. ASSUME NEW r \in Request, CheckBefore(r) PROVE DoomInv'
    BY <1>7 DEF CheckBefore, Deny, Refuse, RefuseSampled, Return, Goto, handler, world
  <1>8. ASSUME NEW r \in Request, FetchSecret(r) PROVE DoomInv'
    BY <1>8 DEF FetchSecret, BackendClosed, Refuse, Return, Goto, handler, world
  <1>9. ASSUME NEW r \in Request, CheckAfter(r) PROVE DoomInv'
    BY <1>9 DEF CheckAfter, tokenStillValid, Validate, StoreClosed, Deny, Refuse, RefuseSampled, Return, Goto, handler, world
  <1>10. ASSUME NEW r \in Request, Send(r) \/ Respond(r) \/ Stream(r) \/ Expose(r) PROVE DoomInv'
    BY <1>10 DEF Send, Respond, Stream, Expose, handler, world
  <1>11. ASSUME NEW r \in Request, Complete(r) PROVE DoomInv'
    BY <1>11 DEF Complete, FinalStatus, handler, world
  <1>12. ASSUME NEW r \in Request, Cancel(r) \/ Lapse(r) PROVE DoomInv'
    BY <1>12 DEF Cancel, Lapse, still
  <1>13. ASSUME NEW t \in Token, Revoke(t) \/ Expire(t) PROVE DoomInv'
    BY <1>13 DEF Revoke, Expire, Overtaken, StoreClosed, still
  <1>14. ASSUME Shutdown \/ Exit PROVE DoomInv'
    BY <1>14 DEF Shutdown, Exit, InFlight, still
  <1>15. CASE UNCHANGED vars
    <2> HIDE <1>0 DEF DoomInv
    <2>1. /\ pc' = pc /\ kind' = kind /\ token' = token /\ used' = used
          /\ doomed' = doomed /\ revoked' = revoked /\ expired' = expired
      BY Zenon, <1>15 DEF vars
    <2> QED  BY Zenon, <2>1 DEF DoomInv
  <1> QED
    BY <1>1, <1>2, <1>3, <1>4, <1>5, <1>6, <1>7, <1>8, <1>9, <1>10, <1>11, <1>12, <1>13, <1>14,
       <1>15 DEF Next, Progress
-----------------------------------------------------------------------------
(* Trails *)

\* What appending to a trail keeps and adds.
LEMMA AppendFacts ==
  ASSUME NEW s \in Seq(Entry), NEW e \in Entry
  PROVE  /\ Append(s, e) \in Seq(Entry) /\ Append(s, e) # <<>>
         /\ Last(Append(s, e)) = e
         /\ s # <<>> => Append(s, e)[1] = s[1]
         /\ s = <<>> => Append(s, e)[1] = e
  <1>1. Append(s, e) \in Seq(Entry) /\ Append(s, e) # <<>>
    <2>1. Append(s, e) \in Seq(Entry)
      OBVIOUS
    <2>2. Len(Append(s, e)) = Len(s) + 1 /\ Len(s) \in Nat
      OBVIOUS
    <2> QED
      BY <2>1, <2>2
  <1>2. Last(Append(s, e)) = e
    BY DEF Last
  <1>3. s # <<>> => Append(s, e)[1] = s[1]
    OBVIOUS
  <1>4. s = <<>> => Append(s, e)[1] = e
    OBVIOUS
  <1> QED
    BY Zenon, <1>1, <1>2, <1>3, <1>4

\* What Record does to the trails: it leaves the other requests alone; a record
\* that was taken is the last one, and one that was not is remembered in lost.
Recorded(r, e) ==
  /\ trail' \in [Request -> Seq(Entry)]
  /\ \A q \in Request \ {r} : trail'[q] = trail[q] /\ (q \in lost' => q \in lost)
  /\ \A q \in Request : q \notin lost' => q \notin lost
  /\ trail[r] # <<>> => trail'[r] # <<>> /\ trail'[r][1] = trail[r][1]
  /\ r \notin lost' => trail'[r] # <<>> /\ Last(trail'[r]) = e

\* Record does that whether or not the sink takes the record.
LEMMA RecordFacts ==
  ASSUME trail \in [Request -> Seq(Entry)], NEW r \in Request, NEW e \in Entry,
         \E taken \in SinkTakes : Record(r, e, taken)
  PROVE  Recorded(r, e)
  <1>1. PICK taken \in BOOLEAN : Record(r, e, taken)
    BY Zenon DEF SinkTakes
  <1>2. CASE taken = TRUE
    <2>1. trail' = [trail EXCEPT ![r] = Append(trail[r], e)] /\ lost' = lost
      BY Zenon, <1>1, <1>2 DEF Record
    <2>2. trail'[r] = Append(trail[r], e) /\ \A q \in Request \ {r} : trail'[q] = trail[q]
      BY Zenon, <2>1
    <2>3. trail[r] \in Seq(Entry)
      BY Zenon
    <2>4. trail' \in [Request -> Seq(Entry)]
      BY Zenon, <2>1, <2>3, AppendFacts
    <2> QED
      BY <2>1, <2>2, <2>3, <2>4, AppendFacts DEF Recorded
  <1>3. CASE taken = FALSE
    <2>1. trail' = trail /\ lost' = lost \cup {r}
      BY Zenon, <1>1, <1>3 DEF Record
    <2> QED
      BY Zenon, <2>1 DEF Recorded
  <1> QED
    BY <1>2, <1>3, Zenon

\* A record taken into an empty trail is its first.
LEMMA FirstRecord ==
  ASSUME trail \in [Request -> Seq(Entry)], NEW r \in Request, NEW e \in Entry,
         Record(r, e, TRUE), trail[r] = <<>>
  PROVE  trail'[r] # <<>> /\ trail'[r][1] = e
  <1>1. trail' = [trail EXCEPT ![r] = Append(trail[r], e)]
    BY Zenon DEF Record
  <1>2. trail'[r] = Append(trail[r], e) /\ trail[r] \in Seq(Entry)
    BY Zenon, <1>1
  <1> QED
    BY <1>2, AppendFacts

\* A refused request leaves the trails in order.
LEMMA RefuseTrail ==
  ASSUME IInv, NEW r \in Request, NEW d \in {"deny", "error"},
         NEW st \in {401, 404, 429, 500, 502}, Refuse(r, d, st), UNCHANGED handler
  PROVE  TrailInv'
  <1> DEFINE e == <<d, st>>
  <1>1. e \in Entry /\ e[1] = d /\ e[2] = st
    BY DEF Entry
  <1>2. \E taken \in SinkTakes : Record(r, e, taken)
    BY DEF Refuse
  <1> HIDE DEF e
  <1>3. /\ trail \in [Request -> Seq(Entry)]
        /\ pc' = [pc EXCEPT ![r] = "done"] /\ answer' = [answer EXCEPT ![r] = st]
        /\ ending' = [ending EXCEPT ![r] = "whole"] /\ used' = used
        /\ kind' = kind /\ form' = form
    BY DEF Refuse, Return, handler, IInv, TrailInv
  <1>4. Recorded(r, e)
    BY <1>1, <1>2, <1>3, RecordFacts
  <1>6. \A q \in Request :
          pc'[q] \in {"idle", "arrived", "known", "admitted", "authorized"} => trail'[q] = <<>>
    BY <1>3, <1>4 DEF Recorded, IInv, Typed, TrailInv
  <1>7. AuthorityIsAudited'
    BY <1>3, <1>4 DEF Recorded, IInv, Typed, TrailInv, AuthorityIsAudited
  <1>8. LastRecordIsAnswer'
    BY <1>1, <1>3, <1>4 DEF Recorded, IInv, Typed, TrailInv, LastRecordIsAnswer
  <1> QED
    BY <1>4, <1>6, <1>7, <1>8 DEF Recorded, TrailInv

\* A sampled discovery denial leaves the trails in order.
LEMMA SampledTrail ==
  ASSUME IInv, NEW r \in Request, RefuseSampled(r), UNCHANGED handler, kind[r] = "capabilities"
  PROVE  TrailInv'
  <1> DEFINE e == <<"deny", 404>>
  <1>1. e \in Entry
    BY DEF Entry
  <1>2. NoRecord \/ \E taken \in SinkTakes : Record(r, e, taken)
    BY DEF RefuseSampled
  <1> HIDE DEF e
  <1>3. /\ trail \in [Request -> Seq(Entry)]
        /\ pc' = [pc EXCEPT ![r] = "done"] /\ answer' = [answer EXCEPT ![r] = 404]
        /\ ending' = [ending EXCEPT ![r] = "whole"] /\ used' = used
        /\ kind' = kind /\ form' = form
    BY DEF RefuseSampled, Return, handler, IInv, TrailInv
  <1>4. CASE NoRecord
    BY <1>3, <1>4 DEF NoRecord, IInv, Typed, TrailInv, AuthorityIsAudited, LastRecordIsAnswer
  <1>5. CASE \E taken \in SinkTakes : Record(r, e, taken)
    <2>1. Recorded(r, e)
      BY Zenon, <1>1, <1>3, <1>5, RecordFacts
    <2>2. \A q \in Request :
            pc'[q] \in {"idle", "arrived", "known", "admitted", "authorized"} => trail'[q] = <<>>
      BY <1>3, <2>1 DEF Recorded, IInv, Typed, TrailInv
    <2>3. AuthorityIsAudited'
      BY <1>3, <2>1 DEF Recorded, IInv, Typed, TrailInv, AuthorityIsAudited
    <2>4. LastRecordIsAnswer'
      BY <1>3, <2>1 DEF Recorded, IInv, Typed, TrailInv, LastRecordIsAnswer
    <2> QED
      BY Zenon, <2>1, <2>2, <2>3, <2>4 DEF Recorded, TrailInv
  <1> QED
    BY Zenon, <1>2, <1>4, <1>5

\* Deny is one of the two.
LEMMA DenyTrail ==
  ASSUME IInv, NEW r \in Request, Deny(r), UNCHANGED handler
  PROVE  TrailInv'
  <1>1. CASE kind[r] = "capabilities"
    BY <1>1, SampledTrail DEF Deny
  <1>2. CASE kind[r] # "capabilities"
    BY <1>2, RefuseTrail DEF Deny
  <1> QED
    BY Zenon, <1>1, <1>2

\* So does a step to the next stage, if authority was recorded before.
LEMMA GotoTrail ==
  ASSUME IInv, NEW r \in Request, NEW stage \in Stage, Goto(r, stage), NoRecord,
         UNCHANGED handler,
         stage \in {"known", "admitted", "authorized"} =>
           pc[r] \in {"arrived", "known", "admitted"},
         stage \notin {"known", "admitted", "authorized"} =>
           stage \in {"checked", "holding", "cleared"} /\ pc[r] \in {"recorded", "checked", "holding"}
  PROVE  TrailInv'
  BY DEF Goto, NoRecord, handler, IInv, Typed, TrailInv, AuthorityIsAudited, LastRecordIsAnswer

\* And an answer without a record, to what is not audited one for one.
LEMMA SilentTrail ==
  ASSUME IInv, NEW r \in Request, NEW st \in {404, 429}, Return(r, st), NoRecord,
         UNCHANGED handler, form[r] = "unroutable" \/ kind[r] = "capabilities"
  PROVE  TrailInv'
  BY DEF Return, NoRecord, handler, IInv, Typed, TrailInv, AuthorityIsAudited, LastRecordIsAnswer

\* The authorization record comes first, or the handler stops, unless auditing
\* fails open.
LEMMA AllowTrail ==
  ASSUME IInv, NEW r \in Request, RecordAllow(r)
  PROVE  TrailInv'
  <1> DEFINE e == <<"allow", 0>>
  <1>1. e \in Entry
    BY Zenon DEF Entry
  <1>2. PICK taken \in SinkTakes :
          /\ Record(r, e, taken)
          /\ IF taken \/ FailureMode = "open"
             THEN Goto(r, IF kind[r] = "capabilities" THEN "cleared" ELSE "recorded")
             ELSE Return(r, 503)
    BY Zenon DEF RecordAllow
  <1>3. pc[r] = "authorized" /\ trail \in [Request -> Seq(Entry)] /\ trail[r] = <<>>
    BY DEF RecordAllow, IInv, TrailInv
  <1>4. kind' = kind /\ form' = form
    BY Zenon DEF RecordAllow, handler
  <1> HIDE DEF e
  <1>5. Recorded(r, e)
    BY <1>1, <1>2, <1>3, RecordFacts
  <1>6. CASE taken = TRUE
    <2>1. trail'[r] # <<>> /\ trail'[r][1] = e
      BY <1>1, <1>2, <1>3, <1>6, FirstRecord, Zenon
    <2>2. Goto(r, IF kind[r] = "capabilities" THEN "cleared" ELSE "recorded")
      BY <1>2, <1>6
    <2>3. e = <<"allow", 0>>
      BY Zenon DEF e
    <2> QED
      BY SMTT(30), <1>3, <1>4, <1>5, <2>1, <2>2, <2>3
      DEF Goto, Recorded, IInv, Typed, TrailInv, AuthorityIsAudited, LastRecordIsAnswer
  <1>7. CASE taken = FALSE
    <2>1. lost' = lost \cup {r} /\ trail' = trail
      BY Zenon, <1>2, <1>7 DEF Record
    <2>2. CASE FailureMode = "open"
      <3>1. Goto(r, IF kind[r] = "capabilities" THEN "cleared" ELSE "recorded")
        BY <1>2, <2>2
      <3> QED
        BY <1>3, <1>4, <2>1, <2>2, <3>1
        DEF Goto, IInv, Typed, TrailInv, AuthorityIsAudited, LastRecordIsAnswer
    <2>3. CASE FailureMode # "open"
      <3>1. Return(r, 503)
        BY <1>2, <1>7, <2>3
      <3> QED
        BY <1>3, <1>4, <2>1, <3>1
        DEF Return, IInv, Typed, TrailInv, AuthorityIsAudited, LastRecordIsAnswer
    <2> QED
      BY Zenon, <2>2, <2>3
  <1> QED
    BY <1>2, <1>6, <1>7, Zenon DEF SinkTakes

\* The completion record carries the final status.
LEMMA CompleteTrail ==
  ASSUME IInv, NEW r \in Request, Complete(r)
  PROVE  TrailInv'
  <1> DEFINE d == IF failed[r] = "none" THEN "allow" ELSE "error"
  <1> DEFINE st == FinalStatus(r)
  <1> DEFINE e == <<d, st>>
  <1>1. st \in {200, 404, 502} /\ (answer[r] # 0 => st = answer[r])
    BY DEF FinalStatus, Complete, IInv, Typed, AnswerInv
  <1>2. d \in {"allow", "error"} /\ (d = "allow" <=> failed[r] = "none")
    BY Zenon
  <1>3. /\ \E taken \in SinkTakes : Record(r, e, taken)
        /\ pc[r] = "closing" /\ pc' = [pc EXCEPT ![r] = "done"]
        /\ answer' = [answer EXCEPT ![r] = st] /\ used' = used
        /\ ending' = [ending EXCEPT ![r] =
             IF failed[r] # "none" /\ answer[r] # 0 THEN "aborted" ELSE "whole"]
        /\ kind' = kind /\ form' = form
    BY Zenon DEF Complete, handler
  <1> HIDE DEF d, st
  <1>4. e \in Entry /\ e[1] = d /\ e[2] = st
    BY <1>1, <1>2 DEF Entry
  <1> HIDE DEF e
  <1>5. trail \in [Request -> Seq(Entry)]
    BY Zenon DEF IInv, TrailInv
  <1>6. Recorded(r, e)
    BY Zenon, <1>3, <1>4, <1>5, RecordFacts
  <1>7. \A q \in Request :
          pc'[q] \in {"idle", "arrived", "known", "admitted", "authorized"} => trail'[q] = <<>>
    BY <1>3, <1>6 DEF Recorded, IInv, Typed, TrailInv
  <1>8. AuthorityIsAudited'
    <2>1. st = 200 => answer[r] = 200
      <3>1. answer[r] = 0 => st \in {404, 502}
        BY DEF FinalStatus, st
      <3> QED  BY <1>1, <3>1
    <2> QED
      BY <1>3, <1>6, <2>1 DEF Recorded, IInv, Typed, TrailInv, AuthorityIsAudited
  <1>9. LastRecordIsAnswer'
    <2>1. failed[r] = "none" => answer[r] = 200
      BY <1>3 DEF IInv, AnswerInv
    <2>2. answer[r] \in {0, 200} /\ (answer[r] = 0 => st # 200)
      BY <1>3 DEF IInv, AnswerInv, FinalStatus, st
    <2>3. (d = "allow") <=> (answer'[r] = 200 /\ ending'[r] = "whole")
      BY <1>1, <1>2, <1>3, <2>1, <2>2 DEF IInv, Typed
    <2>4. /\ pc \in [Request -> Stage] /\ kind' = kind
          /\ answer \in [Request -> {0, 200, 401, 404, 429, 500, 502, 503}]
          /\ ending \in [Request -> {"open", "whole", "aborted"}]
          /\ LastRecordIsAnswer
      BY Zenon, <1>3 DEF IInv, Typed, TrailInv
    <2> QED
      BY <1>3, <1>4, <1>6, <2>3, <2>4 DEF Recorded, LastRecordIsAnswer
  <1> QED
    BY Zenon, <1>6, <1>7, <1>8, <1>9 DEF Recorded, TrailInv

\* What the trails say stays true while the handlers stand still.
LEMMA StillTrail ==
    ASSUME TrailInv, UNCHANGED still
    PROVE  TrailInv'
  <1>1. /\ trail' = trail /\ pc' = pc /\ kind' = kind /\ form' = form /\ used' = used
        /\ lost' = lost /\ answer' = answer /\ ending' = ending
    BY Zenon DEF still
  <1> QED
    BY <1>1, Zenon DEF TrailInv, AuthorityIsAudited, LastRecordIsAnswer

\* TrailInv, by action.
LEMMA TrailStep == IInv /\ [Next]_vars => TrailInv'
  <1> SUFFICES ASSUME IInv, [Next]_vars PROVE TrailInv'
    BY Zenon
  <1>1. ASSUME NEW r \in Request, Arrive(r) PROVE TrailInv'
    <2>1. pc \in [Request -> Stage] /\ TrailInv
      BY Zenon DEF IInv, Typed
    <2>2. kind \in [Request -> Kind] /\ form \in [Request -> Form]
      BY Zenon DEF IInv, Typed
    <2> QED
      BY <1>1, <2>1, <2>2 DEF Arrive, TrailInv, AuthorityIsAudited, LastRecordIsAnswer
  <1>2. ASSUME NEW r \in Request, Authenticate(r) PROVE TrailInv'
    <2>1. pc[r] = "arrived" /\ UNCHANGED handler
      BY Zenon, <1>2 DEF Authenticate
    <2>2. CASE form[r] = "unroutable" /\ Return(r, 404) /\ NoRecord
      BY <2>1, <2>2, SilentTrail
    <2>3. CASE Refuse(r, "deny", 401)
      BY <2>1, <2>3, RefuseTrail
    <2>4. CASE Deny(r)
      BY Zenon, <2>1, <2>4, DenyTrail
    <2>5. CASE Goto(r, "known") /\ NoRecord
      BY Zenon, <2>1, <2>5, GotoTrail DEF Stage
    <2> QED
      BY <1>2, <2>2, <2>3, <2>4, <2>5 DEF Authenticate
  <1>3. ASSUME NEW r \in Request, Admit(r) PROVE TrailInv'
    <2>1. pc[r] = "known" /\ UNCHANGED handler
      BY Zenon, <1>3 DEF Admit
    <2>2. CASE Refuse(r, "deny", 404) \/ Refuse(r, "deny", 429)
      BY <2>1, <2>2, RefuseTrail
    <2>3. CASE Goto(r, "admitted") /\ NoRecord
      BY Zenon, <2>1, <2>3, GotoTrail DEF Stage
    <2> QED
      BY <1>3, <2>2, <2>3 DEF Admit
  <1>4. ASSUME NEW r \in Request, Authorize(r) PROVE TrailInv'
    <2>1. pc[r] = "admitted" /\ UNCHANGED handler
      BY Zenon, <1>4 DEF Authorize
    <2>2. CASE Refuse(r, "deny", 404)
      BY <2>1, <2>2, RefuseTrail
    <2>3. CASE Goto(r, "authorized") /\ NoRecord
      BY Zenon, <2>1, <2>3, GotoTrail DEF Stage
    <2> QED
      BY <1>4, <2>2, <2>3 DEF Authorize
  <1>5. ASSUME NEW r \in Request, Project(r) PROVE TrailInv'
    <2>1. pc[r] = "known" /\ kind[r] = "capabilities" /\ UNCHANGED handler
      BY Zenon, <1>5 DEF Project
    <2>2. CASE Return(r, 429) /\ NoRecord
      BY <2>1, <2>2, SilentTrail
    <2>3. CASE RefuseSampled(r)
      BY Zenon, <2>1, <2>3, SampledTrail
    <2>4. CASE Refuse(r, "error", 500)
      BY <2>1, <2>4, RefuseTrail
    <2>5. CASE Goto(r, "authorized") /\ NoRecord
      BY Zenon, <2>1, <2>5, GotoTrail DEF Stage
    <2> QED
      BY <1>5, <2>2, <2>3, <2>4, <2>5 DEF Project
  <1>6. ASSUME NEW r \in Request, RecordAllow(r) PROVE TrailInv'
    BY Zenon, <1>6, AllowTrail
  <1>7. ASSUME NEW r \in Request, CheckBefore(r) PROVE TrailInv'
    <2>1. pc[r] = "recorded" /\ UNCHANGED handler
      BY Zenon, <1>7 DEF CheckBefore
    <2>2. CASE Deny(r)
      BY Zenon, <2>1, <2>2, DenyTrail
    <2>3. CASE Goto(r, "checked") /\ NoRecord
      BY Zenon, <2>1, <2>3, GotoTrail DEF Stage
    <2> QED
      BY Zenon, <1>7, <2>2, <2>3 DEF CheckBefore
  <1>8. ASSUME NEW r \in Request, FetchSecret(r) PROVE TrailInv'
    <2>1. pc[r] = "checked" /\ UNCHANGED handler
      BY Zenon, <1>8 DEF FetchSecret
    <2>2. CASE Refuse(r, "error", 502)
      BY <2>1, <2>2, RefuseTrail
    <2>3. CASE Goto(r, "holding") /\ NoRecord
      BY Zenon, <2>1, <2>3, GotoTrail DEF Stage
    <2> QED
      BY <1>8, <2>2, <2>3 DEF FetchSecret
  <1>9. ASSUME NEW r \in Request, CheckAfter(r) PROVE TrailInv'
    <2>1. pc[r] = "holding" /\ UNCHANGED handler
      BY Zenon, <1>9 DEF CheckAfter
    <2>2. CASE Deny(r)
      BY Zenon, <2>1, <2>2, DenyTrail
    <2>3. CASE Goto(r, "cleared") /\ NoRecord
      BY Zenon, <2>1, <2>3, GotoTrail DEF Stage
    <2> QED
      BY Zenon, <1>9, <2>2, <2>3 DEF CheckAfter
  <1>10. ASSUME NEW r \in Request, Send(r) \/ Respond(r) \/ Stream(r) \/ Expose(r)
         PROVE  TrailInv'
    <2> USE DEF NoRecord, handler, IInv, Typed, AnswerInv, TrailInv, AuthorityIsAudited,
                LastRecordIsAnswer
    <2>1. CASE Send(r)
      BY SMTT(30), <2>1 DEF Send
    <2>2. CASE Respond(r)
      <3>1. /\ pc[r] = "waiting" /\ answer[r] = 0
            /\ trail' = trail /\ lost' = lost /\ used' = used /\ ending' = ending
            /\ kind' = kind /\ form' = form
        BY ZenonT(30), <2>2 DEF Respond
      <3>2. CASE /\ pc' = [pc EXCEPT ![r] = "committed"]
                 /\ answer' = [answer EXCEPT ![r] = 200]
        BY <3>1, <3>2
      <3>3. CASE pc' = [pc EXCEPT ![r] = "closing"] /\ answer' = answer
        BY SMTT(30), <3>1, <3>3
      <3> QED
        BY SMTT(30), <2>2, <3>2, <3>3 DEF Respond
    <2>3. CASE Stream(r)
      BY SMTT(30), <2>3 DEF Stream
    <2>4. CASE Expose(r)
      BY <2>4 DEF Expose
    <2> QED
      BY ZenonT(30), <1>10, <2>1, <2>2, <2>3, <2>4
  <1>11. ASSUME NEW r \in Request, Complete(r) PROVE TrailInv'
    BY SMTT(30), <1>11, CompleteTrail
  <1>12. ASSUME NEW r \in Request, Cancel(r) \/ Lapse(r) PROVE TrailInv'
    <2>1. UNCHANGED still
      BY <1>12, Zenon DEF Cancel, Lapse
    <2> QED
      BY Zenon, <2>1, StillTrail DEF IInv
  <1>13. ASSUME NEW t \in Token, Revoke(t) \/ Expire(t) PROVE TrailInv'
    <2>1. UNCHANGED still
      BY <1>13, Zenon DEF Revoke, Expire
    <2> QED
      BY Zenon, <2>1, StillTrail DEF IInv
  <1>14. ASSUME Shutdown \/ Exit PROVE TrailInv'
    <2>1. CASE Shutdown
      <3>1. UNCHANGED still
        BY <2>1, Zenon DEF Shutdown
      <3> QED
        BY Zenon, <3>1, StillTrail DEF IInv
    <2>2. CASE Exit
      BY <2>2 DEF Exit, InFlight, IInv, Typed, TrailInv, AuthorityIsAudited, LastRecordIsAnswer
    <2> QED
      BY Zenon, <1>14, <2>1, <2>2
  <1>15. CASE UNCHANGED vars
    <2>1. UNCHANGED still
      BY <1>15, Zenon DEF vars, still, handler
    <2> QED
      BY Zenon, <2>1, StillTrail DEF IInv
  <1> QED
    BY Zenon, <1>1, <1>2, <1>3, <1>4, <1>5, <1>6, <1>7, <1>8, <1>9, <1>10, <1>11, <1>12, <1>13, <1>14,
       <1>15 DEF Next, Progress

-----------------------------------------------------------------------------
(* Theorems *)

\* The inductive invariant holds in every state.
THEOREM Invariance == Spec => []IInv
  <1>1. Init => IInv
    BY Zenon, InitHolds
  <1>2. IInv /\ [Next]_vars => IInv'
    BY Zenon, TypedStep, AnswerStep, DoomStep, TrailStep DEF IInv
  <1> QED
    BY <1>1, <1>2, PTL DEF Spec

\* Every handler is at a known point and has answered when it has returned.
THEOREM TypeCorrect == Spec => []TypeOK
  <1>1. IInv => TypeOK
    BY DEF IInv, Typed, AnswerInv, TrailInv, Entry, TypeOK
  <1> QED
    BY <1>1, Invariance, PTL

\* Whatever the interleaving of requests, revocations, expiries and shutdown, no
\* request whose token died before the handler's last tokenStillValid is sent.
THEOREM NeverUsedOnceDoomed == Spec => []DoomedNeverUsed
  <1>1. IInv => DoomedNeverUsed
    BY DEF IInv, Typed, DoomInv, DoomedNeverUsed
  <1> QED
    BY <1>1, Invariance, PTL

\* With fail-closed auditing, authority is exercised only after the sink took
\* the authorization record.
THEOREM AuditPrecedesAuthority == Spec => []AuthorityIsAudited
  <1>1. IInv => AuthorityIsAudited
    BY Zenon DEF IInv, TrailInv
  <1> QED
    BY <1>1, Invariance, PTL

\* The last record of a routed request that lost none is what the client saw.
THEOREM TrailEndsInAnswer == Spec => []LastRecordIsAnswer
  <1>1. IInv => LastRecordIsAnswer
    BY Zenon DEF IInv, TrailInv
  <1> QED
    BY <1>1, Invariance, PTL

\* A response that ends normally is whole.
THEOREM NeverQuietlyCut == Spec => []WholeMeansWhole
  <1>1. IInv => WholeMeansWhole
    BY DEF IInv, AnswerInv, WholeMeansWhole
  <1> QED
    BY <1>1, Invariance, PTL

\* No status is written over another.
THEOREM StatusIsFinal == Spec => AnsweredOnce
  <1> DEFINE Kept == \A r \in Request : answer[r] # 0 => answer'[r] = answer[r]
  <1>1. IInv /\ [Next]_vars => [Kept]_vars
    <2> SUFFICES ASSUME IInv, Next PROVE Kept
      BY Zenon
    <2> USE DEF IInv, Typed, AnswerInv
    <2>1. ASSUME NEW r \in Request, Arrive(r) \/ Cancel(r) \/ Lapse(r) PROVE Kept
      BY <2>1 DEF Arrive, Cancel, Lapse, still
    <2>2. ASSUME NEW r \in Request, Progress(r) PROVE Kept
      <3>1. CASE Authenticate(r) \/ Admit(r)
        BY <3>1 DEF Authenticate, Admit, Deny, Refuse, RefuseSampled, Return, Goto
      <3>6. CASE Authorize(r) \/ Project(r)
        BY <3>6 DEF Authorize, Project, Deny, Refuse, RefuseSampled, Return, Goto
      <3>2. CASE RecordAllow(r) \/ CheckBefore(r)
        BY <3>2 DEF RecordAllow, CheckBefore, Deny, Refuse, RefuseSampled, Return, Goto
      <3>3. CASE FetchSecret(r) \/ CheckAfter(r)
        BY <3>3 DEF FetchSecret, CheckAfter, BackendClosed, Deny, Refuse, RefuseSampled, Return, Goto
      <3>4. CASE Send(r) \/ Expose(r)
        BY <3>4 DEF Send, Expose
      <3>5. CASE Complete(r)
        BY <3>5 DEF Complete, FinalStatus
      <3> QED
        BY Zenon, <2>2, <3>1, <3>2, <3>3, <3>4, <3>5, <3>6 DEF Progress
    <2>3. ASSUME NEW r \in Request, Respond(r) \/ Stream(r) PROVE Kept
      BY <2>3 DEF Respond, Stream
    <2>4. ASSUME NEW t \in Token, Revoke(t) \/ Expire(t) PROVE Kept
      BY <2>4 DEF Revoke, Expire, StoreClosed, still
    <2>5. ASSUME Shutdown \/ Exit PROVE Kept
      BY <2>5 DEF Shutdown, Exit, still
    <2> QED
      BY <2>1, <2>2, <2>3, <2>4, <2>5 DEF Next
  <1> QED
    BY <1>1, Invariance, PTL DEF Spec, AnsweredOnce
=============================================================================
