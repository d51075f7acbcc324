-------------------------- MODULE VoiceLearningProofs --------------------------
(***************************************************************************)
(* Proofs about VoiceLearning and the requests it runs among, for every    *)
(* value of their constants.                                               *)
(***************************************************************************)
EXTENDS VoiceLearning, FiniteSetTheorems, TLAPS

-----------------------------------------------------------------------------
(* Requests.                                                               *)

IsRequest(r) ==
    /\ DOMAIN r = {"at", "kind", "attempts", "lost", "reply"}
    /\ r.attempts \in Nat /\ r.lost \in Nat

(* Charged or chargeable once for the attempt that is awaited or was       *)
(* answered, and, of a generation, once for each that broke off before.    *)
Sent == {"waiting", "answer", "note", "end"}
Due(r) ==
    IF r.at \in Sent THEN IF Retried(r.kind) THEN r.lost + 1 ELSE 1
    ELSE IF r.at = "ready" /\ Retried(r.kind) THEN r.lost
    ELSE 0

Settled(r, i, n) ==
    /\ IsRequest(r)
    /\ IsFiniteSet(i) /\ n \in Nat
    /\ n + Cardinality(i) <= Due(r)

Accounted ==
    /\ DOMAIN req = Calls /\ DOMAIN inflight = Calls /\ DOMAIN charges = Calls
    /\ \A c \in Calls : Settled(req[c], inflight[c], charges[c])

LEMMA NoRequestIs ==
    /\ IsRequest(NoRequest)
    /\ NoRequest.lost = 0 /\ NoRequest.attempts = 0 /\ NoRequest.kind = "image"
    BY DEF NoRequest, IsRequest

LEMMA StepAccounted ==
    ASSUME Accounted, NEW c \in Calls, NEW r, NEW i, NEW n,
           req' = [req EXCEPT ![c] = r],
           inflight' = [inflight EXCEPT ![c] = i],
           charges' = [charges EXCEPT ![c] = n],
           Settled(r, i, n)
    PROVE  Accounted'
    BY DEF Accounted

LEMMA AttemptStepAccounted ==
    ASSUME Accounted, NEW c \in Calls, NEW r, NEW i,
           req' = [req EXCEPT ![c] = r],
           inflight' = [inflight EXCEPT ![c] = i], UNCHANGED charges,
           Settled(r, i, charges[c])
    PROVE  Accounted'
    BY DEF Accounted

LEMMA RequestStepAccounted ==
    ASSUME Accounted, NEW c \in Calls, NEW r,
           req' = [req EXCEPT ![c] = r], UNCHANGED gatewayVars,
           Settled(r, inflight[c], charges[c])
    PROVE  Accounted'
    BY DEF Accounted, gatewayVars

LEMMA Goes ==
    ASSUME NEW r, IsRequest(r), NEW place
    PROVE  LET s == [r EXCEPT !.at = place]
           IN  IsRequest(s) /\ s.at = place /\ s.kind = r.kind /\ s.lost = r.lost
                 /\ s.attempts = r.attempts
    BY DEF IsRequest

LEMMA EndedIs ==
    ASSUME NEW r, IsRequest(r), NEW reply
    PROVE  LET s == Ended(r, reply)
           IN  IsRequest(s) /\ s.at = "end" /\ s.kind = r.kind /\ s.lost = r.lost
                 /\ s.attempts = r.attempts
    BY DEF IsRequest, Ended

(* A step that sends nothing and is owed no less. *)
LEMMA OwesNoLess ==
    ASSUME Accounted, NEW c \in Calls, NEW r,
           req' = [req EXCEPT ![c] = r], UNCHANGED gatewayVars,
           IsRequest(r), Due(r) >= Due(req[c])
    PROVE  Accounted'
<1>1. /\ IsFiniteSet(inflight[c]) /\ charges[c] \in Nat /\ IsRequest(req[c])
      /\ charges[c] + Cardinality(inflight[c]) <= Due(req[c])
    BY DEF Accounted, Settled
<1>2. Cardinality(inflight[c]) \in Nat
    BY <1>1, FS_CardinalityType
<1>3. Due(r) \in Nat /\ Due(req[c]) \in Nat
    BY <1>1 DEF Due, IsRequest
<1>4. Settled(r, inflight[c], charges[c])
    BY <1>1, <1>2, <1>3 DEF Settled
<1> QED
    BY <1>4, RequestStepAccounted

LEMMA GotoAccounted ==
    ASSUME Accounted, NEW c \in Calls, NEW place, Goto(c, place), UNCHANGED gatewayVars,
           \/ req[c].at \notin Sent \cup {"ready"} /\ place \notin Sent \cup {"ready"}
           \/ req[c].at \notin Sent \cup {"ready"} /\ place = "ready"
           \/ req[c].at \in Sent /\ place \in Sent
    PROVE  Accounted'
<1>1. IsRequest(req[c])
    BY DEF Accounted, Settled
<1>2. req' = [req EXCEPT ![c] = [req[c] EXCEPT !.at = place]]
    BY DEF Goto
<1>3. Due([req[c] EXCEPT !.at = place]) >= Due(req[c])
    BY <1>1, Goes DEF Due, IsRequest, Sent
<1> QED
    BY <1>1, <1>2, <1>3, Goes, OwesNoLess

LEMMA RepliesAccounted ==
    ASSUME Accounted, NEW c \in Calls, NEW reply, Replies(c, reply), UNCHANGED gatewayVars
    PROVE  Accounted'
<1>1. IsRequest(req[c])
    BY DEF Accounted, Settled
<1>2. Due(Ended(req[c], reply)) >= Due(req[c])
    BY <1>1, EndedIs DEF Due, IsRequest, Sent
<1> QED
    BY <1>1, <1>2, EndedIs, OwesNoLess DEF Replies

(* A place that was free, and every request that has sent nothing. *)
LEMMA ForgetsAccounted ==
    ASSUME Accounted, NEW c \in Calls, NEW r, NEW j, Forgets(c, r, j), IsRequest(r)
    PROVE  Accounted'
<1>1. Settled(r, {}, 0)
    <2>1. Due(r) \in Nat
        BY DEF Due, IsRequest
    <2> QED BY <2>1, FS_EmptySet DEF Settled
<1> QED
    BY <1>1, StepAccounted DEF Forgets

LEMMA FreshAccounted ==
    ASSUME Accounted, NEW c \in Calls, NEW r, req[c].at = "idle",
           req' = [req EXCEPT ![c] = r], UNCHANGED gatewayVars, IsRequest(r)
    PROVE  Accounted'
<1>1. IsRequest(req[c])
    BY DEF Accounted, Settled
<1>2. Due(r) >= Due(req[c])
    BY <1>1 DEF Due, IsRequest, Sent
<1> QED
    BY <1>2, OwesNoLess

(* What a failed attempt leads to: the attempt broke off, or creditProxy   *)
(* has refused it, and only then may another follow.                       *)
LEMMA RaisesAccounted ==
    ASSUME Accounted, NEW c \in Calls, req[c].at = "waiting", NEW e, NEW lost \in {0, 1},
           Raises(c, e, lost),
           NEW i, IsFiniteSet(i), inflight' = [inflight EXCEPT ![c] = i], UNCHANGED charges,
           Cardinality(i) <= Cardinality(inflight[c]),
           e = "BackendUnavailable" => lost = 1 \/ Cardinality(i) < Cardinality(inflight[c])
    PROVE  Accounted'
<1> DEFINE failed == [req[c] EXCEPT !.lost = req[c].lost + lost]
<1>1. /\ IsFiniteSet(inflight[c]) /\ charges[c] \in Nat /\ IsRequest(req[c])
      /\ charges[c] + Cardinality(inflight[c]) <= Due(req[c])
    BY DEF Accounted, Settled
<1>2. Cardinality(inflight[c]) \in Nat /\ Cardinality(i) \in Nat
    BY <1>1, FS_CardinalityType
<1>3. /\ IsRequest(failed) /\ failed.lost = req[c].lost + lost /\ failed.kind = req[c].kind
      /\ failed.at = req[c].at
    BY <1>1 DEF IsRequest
<1>4. PICK inTime \in BOOLEAN :
         req' = [req EXCEPT ![c] =
                   IF Retries(req[c].kind, e) /\ req[c].attempts < AttemptLimit /\ inTime
                     THEN [failed EXCEPT !.at = "ready"]
                     ELSE Ended(failed, ReplyTo(req[c].kind, e))]
    BY DEF Raises
<1>5. req[c].lost \in Nat
    BY <1>1 DEF IsRequest
<1> HIDE DEF failed
<1>6. CASE req' = [req EXCEPT ![c] = [failed EXCEPT !.at = "ready"]] /\ Retries(req[c].kind, e)
    <2>1. Retried(req[c].kind) /\ e = "BackendUnavailable"
        BY <1>6 DEF Retries
    <2>2. Settled([failed EXCEPT !.at = "ready"], i, charges[c])
        BY <1>1, <1>2, <1>3, <1>5, <2>1, Goes DEF Settled, Due, Sent
    <2> QED BY <1>1, <1>6, <2>2, AttemptStepAccounted
<1>7. CASE req' = [req EXCEPT ![c] = Ended(failed, ReplyTo(req[c].kind, e))]
    <2>1. Settled(Ended(failed, ReplyTo(req[c].kind, e)), i, charges[c])
        BY <1>1, <1>2, <1>3, <1>5, EndedIs DEF Settled, Due, Sent
    <2> QED BY <1>1, <1>7, <2>1, AttemptStepAccounted
<1> QED
    BY <1>4, <1>6, <1>7

LEMMA RequestAt ==
    ASSUME Accounted, NEW c \in Calls
    PROVE  /\ IsRequest(req[c]) /\ req[c].lost \in Nat /\ req[c].attempts \in Nat
           /\ IsFiniteSet(inflight[c]) /\ Cardinality(inflight[c]) \in Nat
           /\ charges[c] \in Nat
           /\ charges[c] + Cardinality(inflight[c]) <= Due(req[c])
    BY FS_CardinalityType DEF Accounted, Settled, IsRequest

LEMMA SendsAccounted ==
    ASSUME Accounted, NEW c \in Calls, Sends(c)
    PROVE  Accounted'
<1> DEFINE r == [req[c] EXCEPT !.at = "waiting", !.attempts = req[c].attempts + 1]
           i == inflight[c] \cup {req[c].attempts + 1}
<1>1. IsRequest(r) /\ r.at = "waiting" /\ r.kind = req[c].kind /\ r.lost = req[c].lost
    BY RequestAt DEF IsRequest
<1>2. IsFiniteSet(i) /\ Cardinality(i) <= Cardinality(inflight[c]) + 1
    <2>1. IsFiniteSet(inflight[c]) /\ Cardinality(inflight[c]) \in Nat
        BY RequestAt
    <2>2. /\ IsFiniteSet(i)
          /\ \/ Cardinality(i) = Cardinality(inflight[c])
             \/ Cardinality(i) = Cardinality(inflight[c]) + 1
        BY <2>1, FS_AddElement
    <2> HIDE DEF i
    <2> QED BY <2>1, <2>2
<1>3. Cardinality(i) \in Nat
    BY <1>2, FS_CardinalityType
<1>4. req[c].at = "ready" /\ req' = [req EXCEPT ![c] = r]
      /\ inflight' = [inflight EXCEPT ![c] = i] /\ UNCHANGED charges
    BY DEF Sends
<1> HIDE DEF r, i
<1>5. Settled(r, i, charges[c])
    BY <1>1, <1>2, <1>3, <1>4, RequestAt DEF Settled, Due, Sent
<1> QED
    BY <1>4, <1>5, AttemptStepAccounted

LEMMA ServesAccounted ==
    ASSUME Accounted, NEW c \in Calls, Serves(c)
    PROVE  Accounted'
<1>1. PICK n \in inflight[c] :
         /\ inflight' = [inflight EXCEPT ![c] = inflight[c] \ {n}]
         /\ charges' = [charges EXCEPT ![c] = charges[c] + 1]
         /\ IF Awaited(c, n) THEN Goto(c, "answer") ELSE UNCHANGED req
    BY DEF Serves
<1> DEFINE i == inflight[c] \ {n}
<1>2. IsFiniteSet(i) /\ Cardinality(i) = Cardinality(inflight[c]) - 1
    BY RequestAt, FS_RemoveElement
<1> HIDE DEF i
<1>3. ASSUME NEW r, req' = [req EXCEPT ![c] = r], IsRequest(r), Due(r) = Due(req[c])
      PROVE  Accounted'
    <2>1. Settled(r, i, charges[c] + 1)
        BY <1>2, <1>3, RequestAt DEF Settled
    <2> QED BY <1>1, <1>3, <2>1, StepAccounted DEF i
<1>4. CASE Awaited(c, n)
    <2> DEFINE r == [req[c] EXCEPT !.at = "answer"]
    <2>1. req' = [req EXCEPT ![c] = r] /\ req[c].at = "waiting"
        BY <1>1, <1>4 DEF Goto, Awaited
    <2>2. IsRequest(r) /\ Due(r) = Due(req[c])
        BY <2>1, RequestAt, Goes DEF Due, Sent
    <2> HIDE DEF r
    <2> QED BY <1>3, <2>1, <2>2
<1>5. CASE UNCHANGED req
    <2>1. Settled(req[c], i, charges[c] + 1)
        BY <1>2, RequestAt DEF Settled
    <2> QED BY <1>1, <1>5, <2>1 DEF Accounted, i
<1> QED
    BY <1>1, <1>4, <1>5

LEMMA RefusesAccounted ==
    ASSUME Accounted, NEW c \in Calls, Refuses(c)
    PROVE  Accounted'
<1>1. PICK n \in inflight[c] :
         /\ inflight' = [inflight EXCEPT ![c] = inflight[c] \ {n}]
         /\ UNCHANGED charges
         /\ IF Awaited(c, n) THEN \E e \in Refusals : Raises(c, e, 0) ELSE UNCHANGED req
    BY DEF Refuses
<1> DEFINE i == inflight[c] \ {n}
<1>2. IsFiniteSet(i) /\ Cardinality(i) = Cardinality(inflight[c]) - 1
    BY RequestAt, FS_RemoveElement
<1>3. inflight' = [inflight EXCEPT ![c] = i]
    BY <1>1
<1> HIDE DEF i
<1>4. Cardinality(i) \in Int /\ Cardinality(i) < Cardinality(inflight[c])
    BY <1>2, RequestAt
<1>5. ASSUME NEW e \in Refusals, Raises(c, e, 0), Awaited(c, n)
      PROVE  Accounted'
    <2>1. Cardinality(inflight[c]) \in Nat /\ req[c].at = "waiting"
        BY <1>5, RequestAt DEF Awaited
    <2>2. Cardinality(i) <= Cardinality(inflight[c])
        BY <1>4, <2>1
    <2> QED BY <1>1, <1>2, <1>3, <1>4, <1>5, <2>1, <2>2, RaisesAccounted
<1>6. CASE UNCHANGED req
    <2>1. Settled(req[c], i, charges[c])
        <3>1. /\ IsRequest(req[c]) /\ charges[c] \in Nat /\ Due(req[c]) \in Nat
              /\ Cardinality(inflight[c]) \in Nat
              /\ charges[c] + Cardinality(inflight[c]) <= Due(req[c])
            BY RequestAt DEF Due
        <3> QED BY <1>2, <1>4, <3>1 DEF Settled
    <2> QED BY <1>1, <1>3, <1>6, <2>1 DEF Accounted
<1> QED
    BY <1>1, <1>5, <1>6

LEMMA RaisesAlone ==
    ASSUME Accounted, NEW c \in Calls, req[c].at = "waiting" \/ req[c].kind = "chat", NEW e,
           req[c].at \in {"waiting", "answer"},
           NEW lost \in {0, 1}, Raises(c, e, lost), UNCHANGED gatewayVars,
           e = "BackendUnavailable" => lost = 1 \/ req[c].kind = "chat"
    PROVE  Accounted'
<1> DEFINE failed == [req[c] EXCEPT !.lost = req[c].lost + lost]
<1>1. PICK inTime \in BOOLEAN :
         req' = [req EXCEPT ![c] =
                   IF Retries(req[c].kind, e) /\ req[c].attempts < AttemptLimit /\ inTime
                     THEN [failed EXCEPT !.at = "ready"]
                     ELSE Ended(failed, ReplyTo(req[c].kind, e))]
    BY DEF Raises
<1>2. IsRequest(failed) /\ failed.lost = req[c].lost + lost /\ failed.kind = req[c].kind
    BY RequestAt DEF IsRequest
<1>3. ~Retried("chat")
    BY DEF Retried, Actions, WithContext
<1> HIDE DEF failed
<1>4. CASE /\ req' = [req EXCEPT ![c] = [failed EXCEPT !.at = "ready"]]
           /\ Retries(req[c].kind, e)
    <2>1. Retried(req[c].kind) /\ lost = 1
        BY <1>3, <1>4 DEF Retries
    <2>2. Due([failed EXCEPT !.at = "ready"]) >= Due(req[c])
        BY <1>2, <2>1, RequestAt, Goes DEF Due, Sent
    <2>3. IsRequest([failed EXCEPT !.at = "ready"])
        BY <1>2, Goes
    <2> QED BY <1>4, <2>2, <2>3, OwesNoLess
<1>5. CASE req' = [req EXCEPT ![c] = Ended(failed, ReplyTo(req[c].kind, e))]
    <2>1. Due(Ended(failed, ReplyTo(req[c].kind, e))) >= Due(req[c])
        BY <1>2, RequestAt, EndedIs DEF Due, Sent
    <2> QED BY <1>2, <1>5, <2>1, EndedIs, OwesNoLess
<1> QED
    BY <1>1, <1>4, <1>5

LEMMA RequestStepKeepsAccounts ==
    ASSUME Accounted, NEW c \in Calls, RequestStep(c)
    PROVE  Accounted'
<1>1. CASE ReadsContext(c)
    BY <1>1, GotoAccounted, RepliesAccounted DEF ReadsContext, Sent
<1>2. CASE AddsStoryVoice(c)
    BY <1>2, GotoAccounted, RepliesAccounted DEF AddsStoryVoice, Sent
<1>3. CASE Disconnects(c)
    BY <1>3, RaisesAlone DEF Disconnects
<1>4. CASE TimesOut(c)
    BY <1>4, RaisesAlone DEF TimesOut
<1>5. CASE StreamBreaks(c)
    BY <1>5, RaisesAlone DEF StreamBreaks
<1>6. CASE Parses(c)
    BY <1>6, RepliesAccounted DEF Parses
<1>7. CASE ImageEnds(c)
    BY <1>7, RepliesAccounted DEF ImageEnds
<1> QED
    BY <1>1, <1>2, <1>3, <1>4, <1>5, <1>6, <1>7, SendsAccounted, ServesAccounted,
       RefusesAccounted DEF RequestStep

LEMMA ArrivalsKeepAccounts ==
    ASSUME Accounted, NEW c \in Calls, NEW k,
           Arrives(c, k) \/ TurnedAway(c, k) \/ ImageArrives(c)
    PROVE  Accounted'
<1>1. ASSUME NEW kind, NEW place, req[c].at = "idle", Begins(c, kind, place),
             UNCHANGED gatewayVars
      PROVE  Accounted'
    <2>1. IsRequest([NoRequest EXCEPT !.kind = kind, !.at = place])
        BY DEF NoRequest, IsRequest
    <2> QED BY <1>1, <2>1, FreshAccounted DEF Begins
<1>2. ASSUME NEW kind, NEW reply, req[c].at = "idle", UNCHANGED gatewayVars,
             req' = [req EXCEPT ![c] = Ended([NoRequest EXCEPT !.kind = kind], reply)]
      PROVE  Accounted'
    <2>1. IsRequest([NoRequest EXCEPT !.kind = kind])
        BY DEF NoRequest, IsRequest
    <2> QED BY <1>2, <2>1, EndedIs, FreshAccounted
<1>3. CASE Arrives(c, k)
    BY <1>1, <1>3 DEF Arrives
<1>4. CASE TurnedAway(c, k)
    <2>1. PICK reply \in RefusalsOf(k) :
             req' = [req EXCEPT ![c] = Ended([NoRequest EXCEPT !.kind = k], reply)]
        BY <1>4 DEF TurnedAway
    <2> QED BY <1>2, <1>4, <2>1 DEF TurnedAway
<1>5. CASE ImageArrives(c)
    <2>1. req[c].at = "idle" /\ UNCHANGED gatewayVars
        BY <1>5 DEF ImageArrives
    <2>2. ASSUME NEW reply, req' = [req EXCEPT ![c] = Ended(NoRequest, reply)]
          PROVE  Accounted'
        <3>1. IsRequest(Ended(NoRequest, reply))
            BY NoRequestIs, EndedIs
        <3> QED BY <2>1, <2>2, <3>1, FreshAccounted
    <2>3. CASE Begins(c, "image", "imaging")
        BY <1>1, <2>1, <2>3
    <2> QED BY <1>5, <2>2, <2>3 DEF ImageArrives
<1> QED
    BY <1>3, <1>4, <1>5

LEMMA LessonStepKeepsAccounts ==
    ASSUME Accounted, NEW c \in Calls, PreflightArrives(c) \/ PassArrives(c) \/ LessonStep(c)
    PROVE  Accounted'
<1>1. ASSUME NEW k, NEW place, NEW j, Comes(c, k, place, j)
      PROVE  Accounted'
    <2>1. IsRequest([NoRequest EXCEPT !.kind = k, !.at = place])
        BY DEF NoRequest, IsRequest
    <2> QED BY <1>1, <2>1, ForgetsAccounted DEF Comes
<1>2. ASSUME NEW reply, Done(c, reply)
      PROVE  Accounted'
    BY <1>2, NoRequestIs, EndedIs, ForgetsAccounted DEF Done
<1>3. CASE PreflightArrives(c)
    BY <1>1, <1>3 DEF PreflightArrives
<1>4. CASE PassArrives(c)
    BY <1>1, <1>4 DEF PassArrives
<1>5. CASE ReadsProfile(c)
    BY <1>2, <1>5, GotoAccounted DEF ReadsProfile, Proceeds, Sent
<1>6. CASE ReadsChapters(c)
    <2>1. AfterMaterial(c) \in {"claim", "ready"}
        BY DEF AfterMaterial
    <2> QED BY <1>2, <1>6, <2>1, GotoAccounted DEF ReadsChapters, Proceeds, Sent
<1>7. CASE ReadFails(c)
    BY <1>2, <1>7 DEF ReadFails
<1>8. CASE Claims(c)
    BY <1>2, <1>8 DEF Claims
<1>9. CASE SpendsClaim(c)
    BY <1>2, <1>9, GotoAccounted DEF SpendsClaim, Proceeds, Sent
<1>10. CASE Proposes(c)
    BY <1>2, <1>10, GotoAccounted DEF Proposes, Proceeds, Sent
<1>11. CASE UpdatesNote(c)
    BY <1>2, <1>11 DEF UpdatesNote
<1>12. CASE NoteIsLost(c)
    BY <1>2, <1>12 DEF NoteIsLost
<1> QED
    BY <1>3, <1>4, <1>5, <1>6, <1>7, <1>8, <1>9, <1>10, <1>11, <1>12 DEF LessonStep

LEMMA NextKeepsAccounts ==
    ASSUME Accounted, [Next]_vars
    PROVE  Accounted'
<1>1. CASE UNCHANGED requestVars
    BY <1>1 DEF requestVars, Accounted
<1>2. ASSUME NEW c \in Calls, ServiceStep(c)
      PROVE  Accounted'
    BY <1>2, ArrivalsKeepAccounts, RequestStepKeepsAccounts DEF ServiceStep
<1>3. Writer \/ Tick \/ UNCHANGED vars => UNCHANGED requestVars
    BY DEF Writer, SavesChapter, EditsProfile, WriterStep, Tick, vars
<1> QED
    BY <1>1, <1>2, <1>3, LessonStepKeepsAccounts DEF Next

LEMMA InitAccounted ==
    ASSUME Init
    PROVE  Accounted
    BY NoRequestIs, FS_EmptySet DEF Init, RequestInit, Accounted, Settled, Due, Sent, NoRequest

(* However connections fail, answers come late and attempts are repeated,  *)
(* a call is paid for once, and a generation once more only for each       *)
(* attempt whose connection broke (llm_provider.py's rule for retries).    *)
THEOREM CallsPaidOnce == Spec => []PaidOnce
<1>1. ASSUME Accounted PROVE PaidOnce
  <2> SUFFICES ASSUME NEW c \in Calls
               PROVE  charges[c] + Cardinality(inflight[c])
                        <= IF Retried(req[c].kind) THEN req[c].lost + 1 ELSE 1
    BY DEF PaidOnce
  <2>1. Due(req[c]) \in Nat /\ Due(req[c]) <= IF Retried(req[c].kind) THEN req[c].lost + 1 ELSE 1
    BY <1>1, RequestAt DEF Due
  <2> QED BY <1>1, <2>1, RequestAt
<1> QED
  BY <1>1, InitAccounted, NextKeepsAccounts, PTL DEF Spec

-----------------------------------------------------------------------------
(* The rate row: it is the last claim's, and counts those of its day.      *)

OnDay(s, d) == {i \in DOMAIN s : s[i] \div DayLength = d}

Rations ==
    /\ now \in Nat /\ claims \in Seq(Nat)
    /\ DOMAIN row = {"last", "day", "count", "claim"}
    /\ row.last \in Int /\ row.last <= now
    /\ row.day \in Int /\ row.day <= Today
    /\ \A i \in DOMAIN claims : claims[i] <= row.last /\ claims[i] \div DayLength <= row.day
    /\ row.count = Cardinality(OnDay(claims, row.day))
    /\ \A i, j \in DOMAIN claims : i < j => claims[j] > claims[i] + Spacing
    /\ \A d \in Nat : Cardinality(OnDay(claims, d)) <= MaxPerDay

LEMMA DaysFollow ==
    ASSUME NEW n \in Nat
    PROVE  n \div DayLength \in Nat /\ n \div DayLength <= (n + 1) \div DayLength
<1>1. DayLength \in Nat /\ DayLength > 0
    BY VoiceAssumption
<1> QED
    BY <1>1

LEMMA OnDayFinite ==
    ASSUME NEW s \in Seq(Nat), NEW d
    PROVE  IsFiniteSet(OnDay(s, d)) /\ Cardinality(OnDay(s, d)) \in Nat
<1>1. OnDay(s, d) \subseteq 1 .. Len(s) /\ Len(s) \in Nat
    BY DEF OnDay
<1>2. IsFiniteSet(1 .. Len(s))
    BY <1>1, FS_Interval
<1>3. IsFiniteSet(OnDay(s, d))
    BY <1>1, <1>2, FS_Subset
<1> QED
    BY <1>3, FS_CardinalityType

(* What a claim adds to its day. *)
LEMMA AppendOnDay ==
    ASSUME NEW s \in Seq(Nat), NEW n \in Nat, NEW d
    PROVE  /\ n \div DayLength # d => OnDay(Append(s, n), d) = OnDay(s, d)
           /\ n \div DayLength = d =>
                 Cardinality(OnDay(Append(s, n), d)) = Cardinality(OnDay(s, d)) + 1
<1>1. CASE n \div DayLength # d
    BY <1>1 DEF OnDay
<1>2. CASE n \div DayLength = d
    <2>1. OnDay(Append(s, n), d) = OnDay(s, d) \cup {Len(s) + 1}
        BY <1>2 DEF OnDay
    <2>2. Len(s) + 1 \notin OnDay(s, d)
        BY DEF OnDay
    <2> QED BY <1>2, <2>1, <2>2, OnDayFinite, FS_AddElement
<1> QED
    BY <1>1, <1>2

LEMMA ClaimsKeepRations ==
    ASSUME Rations, NEW c \in Calls, Claims(c)
    PROVE  Rations'
<1> USE DEF Rations
<1>1. CASE UNCHANGED lessonVars
    BY <1>1 DEF Claims, lessonVars, Today
<1>2. CASE SlotFree
    <2>1. /\ claims' = Append(claims, now) /\ UNCHANGED now
          /\ row' = [last |-> now, day |-> Today, claim |-> Len(claims) + 1,
                     count |-> IF row.day = Today THEN row.count + 1 ELSE 1]
        BY <1>2 DEF Claims
    <2>2. Today \in Nat /\ Today' = Today /\ Spacing \in Nat /\ MaxPerDay \in Nat \ {0}
        BY <2>1, DaysFollow, VoiceAssumption DEF Today
    <2>3. \A i \in DOMAIN claims : claims[i] + Spacing < now
        <3>1. row = NoRow => row.last = -1
            BY DEF NoRow
        <3> QED BY <1>2, <2>2, <3>1 DEF SlotFree
    <2>4. /\ row.count \in Nat /\ row.count = Cardinality(OnDay(claims, row.day))
          /\ row.day = Today => row.count < MaxPerDay
        <3>1. row = NoRow => row.day = -1
            BY DEF NoRow
        <3> QED BY <1>2, <2>2, <3>1, OnDayFinite DEF SlotFree
    <2>5. row.day # Today => Cardinality(OnDay(claims, Today)) = 0
        <3>1. row.day # Today => OnDay(claims, Today) = {}
            BY <2>2 DEF OnDay
        <3> QED BY <3>1, FS_EmptySet
    <2>6. Cardinality(OnDay(claims', Today)) = row'.count /\ row'.count <= MaxPerDay
        BY <2>1, <2>2, <2>4, <2>5, AppendOnDay DEF Today
    <2>7. \A d \in Nat : d # Today => OnDay(claims', d) = OnDay(claims, d)
        BY <2>1, AppendOnDay DEF Today
    <2>8. \A i \in DOMAIN claims' : \/ i \in DOMAIN claims /\ claims'[i] = claims[i]
                                    \/ i = Len(claims) + 1 /\ claims'[i] = now
        <3>1. /\ DOMAIN claims = 1 .. Len(claims) /\ Len(claims) \in Nat
              /\ DOMAIN claims' = 1 .. Len(claims) + 1
              /\ \A i \in 1 .. Len(claims) : claims'[i] = claims[i]
              /\ claims'[Len(claims) + 1] = now
            BY <2>1
        <3> QED BY <3>1
    <2>9. \A i \in DOMAIN claims : i \in Nat /\ i < Len(claims) + 1 /\ claims[i] \in Nat
        OBVIOUS
    <2>10. \A i \in DOMAIN claims' : claims'[i] <= now /\ claims'[i] \div DayLength <= Today
        <3>1. \A i \in DOMAIN claims : claims[i] \div DayLength <= Today
            <4> SUFFICES ASSUME NEW i \in DOMAIN claims
                         PROVE  claims[i] \div DayLength <= Today
                OBVIOUS
            <4>1. claims[i] \div DayLength \in Nat
                BY <2>9, DaysFollow
            <4>2. claims[i] \div DayLength <= row.day /\ row.day <= Today
                OBVIOUS
            <4> HIDE DEF Rations
            <4>3. row.day \in Int
                BY DEF Rations
            <4> QED BY <2>2, <4>1, <4>2, <4>3
        <3> QED BY <2>2, <2>3, <2>8, <2>9, <3>1 DEF Today
    <2>11. \A i, j \in DOMAIN claims' : i < j => claims'[j] > claims'[i] + Spacing
        BY <2>2, <2>3, <2>8, <2>9
    <2>12. \A d \in Nat : Cardinality(OnDay(claims', d)) <= MaxPerDay
        BY <2>6, <2>7
    <2>13. claims' \in Seq(Nat)
        BY <2>1
    <2>14. /\ DOMAIN row' = {"last", "day", "count", "claim"}
           /\ row'.last = now /\ row'.day = Today
        BY <2>1
    <2> QED BY <2>1, <2>2, <2>6, <2>10, <2>11, <2>12, <2>13, <2>14
<1> QED
    BY <1>1, <1>2 DEF Claims

(* Spending a claim leaves the rest of the row as it is. *)
LEMMA OtherStepsKeepRations ==
    ASSUME Rations, UNCHANGED <<now, claims>>,
           UNCHANGED row \/ row' = [row EXCEPT !.claim = NoClaim]
    PROVE  Rations'
    BY DEF Rations, Today

LEMMA TickKeepsRations ==
    ASSUME Rations, Tick
    PROVE  Rations'
<1>1. now' = now + 1 /\ UNCHANGED <<claims, row>>
    BY DEF Tick, lessonVars
<1>2. Today \in Nat /\ Today <= Today' /\ Today' \in Nat
    BY <1>1, DaysFollow DEF Rations, Today
<1> QED
    BY <1>1, <1>2 DEF Rations

LEMMA NextKeepsRations ==
    ASSUME Rations, [Next]_vars
    PROVE  Rations'
<1>1. ASSUME NEW c \in Calls, PreflightArrives(c) \/ PassArrives(c) \/ ServiceStep(c)
      PROVE  Rations'
    BY <1>1, OtherStepsKeepRations
       DEF PreflightArrives, PassArrives, Comes, ServiceStep, lessonVars
<1>2. ASSUME NEW c \in Calls, LessonStep(c)
      PROVE  Rations'
    BY <1>2, OtherStepsKeepRations, ClaimsKeepRations
       DEF LessonStep, ReadsProfile, ReadsChapters, ReadFails, SpendsClaim, Proposes,
           UpdatesNote, NoteIsLost, lessonVars
<1>3. CASE Writer \/ UNCHANGED vars
    BY <1>3, OtherStepsKeepRations
       DEF Writer, SavesChapter, EditsProfile, WriterStep, lessonVars, vars
<1> QED
    BY <1>1, <1>2, <1>3, TickKeepsRations DEF Next

LEMMA InitRations ==
    ASSUME Init
    PROVE  Rations
<1>1. now = 0 /\ claims = <<>> /\ row = NoRow
    BY DEF Init
<1>2. Today \in Nat /\ MaxPerDay \in Nat
    BY <1>1, DaysFollow, VoiceAssumption DEF Today
<1>3. \A d : Cardinality(OnDay(<<>>, d)) = 0
    BY FS_EmptySet DEF OnDay
<1> QED
    BY <1>1, <1>2, <1>3 DEF Rations, NoRow

-----------------------------------------------------------------------------
(* Claims are held by one request at a time: the row has one that nobody   *)
(* spent, and a pass that spent its own has not gone to the model yet.     *)

IsJob(j) == DOMAIN j = {"revision", "claim", "profile", "op"}

Holder(r) == r.kind = "voice" /\ r.at \in {"profile", "chapter"}
Asks(r) == r.at = "spend" \/ Holder(r)

Holds ==
    /\ lessons \in Seq(Nat) /\ Len(lessons) = Len(claims) /\ Len(claims) \in Nat
    /\ DOMAIN job = Calls /\ \A c \in Calls : IsJob(job[c])
    /\ row.claim \in 0 .. Len(claims)
    /\ row.claim # NoClaim => lessons[row.claim] = 0
    /\ \A t \in tickets : t.claim \in 1 .. Len(claims)
    /\ \A c \in Calls : Asks(req[c]) => job[c].claim \in 1 .. Len(claims)
    /\ \A c \in Calls : Holder(req[c]) =>
          job[c].claim # row.claim /\ lessons[job[c].claim] = 0
    /\ \A c, d \in Calls :
          Holder(req[c]) /\ Holder(req[d]) /\ job[c].claim = job[d].claim => c = d
    /\ \A i \in DOMAIN lessons : lessons[i] <= 1

(* A request that neither asks for a claim nor holds one may do anything. *)
LEMMA BystanderKeepsHolds ==
    ASSUME Holds, Accounted, NEW c \in Calls, NEW r, ~Asks(r),
           req' = [req EXCEPT ![c] = r], UNCHANGED lessonVars,
           DOMAIN job' = Calls, IsJob(job'[c]), \A d \in Calls \ {c} : job'[d] = job[d]
    PROVE  Holds'
<1>1. UNCHANGED <<row, claims, tickets, lessons>>
    BY DEF lessonVars
<1>2. req'[c] = r /\ \A d \in Calls : d # c => req'[d] = req[d] /\ job'[d] = job[d]
    BY DEF Accounted
<1>3. \A d \in Calls : Asks(req'[d]) => d # c
    BY <1>2
<1>4. \A d \in Calls : Holder(req'[d]) => Asks(req'[d])
    BY DEF Asks
<1> QED
    BY <1>1, <1>2, <1>3, <1>4 DEF Holds, NoClaim

LEMMA UnchangedKeepsHolds ==
    ASSUME Holds, UNCHANGED <<req, job, lessonVars>>
    PROVE  Holds'
    BY DEF Holds, lessonVars, Asks, Holder

LEMMA JobsAre ==
    /\ IsJob(NoJob)
    /\ \A j, x : IsJob(j) => /\ IsJob([j EXCEPT !.revision = x])
                            /\ IsJob([j EXCEPT !.profile = x])
                            /\ IsJob([j EXCEPT !.op = x])
                            /\ IsJob([j EXCEPT !.revision = x])
    BY DEF IsJob, NoJob

(* A request that has been answered, or arrives. *)
LEMMA ForgetsKeepsHolds ==
    ASSUME Holds, Accounted, NEW c \in Calls, NEW r, NEW j, Forgets(c, r, j),
           UNCHANGED lessonVars, IsJob(j), ~Asks(r)
    PROVE  Holds'
<1>1. req' = [req EXCEPT ![c] = r] /\ job' = [job EXCEPT ![c] = j]
    BY DEF Forgets
<1>2. DOMAIN job' = Calls /\ IsJob(job'[c]) /\ \A d \in Calls \ {c} : job'[d] = job[d]
    BY <1>1 DEF Holds
<1> QED
    BY <1>1, <1>2, BystanderKeepsHolds

LEMMA DoneKeepsHolds ==
    ASSUME Holds, Accounted, NEW c \in Calls, NEW reply, Done(c, reply), UNCHANGED lessonVars
    PROVE  Holds'
<1>1. ~Asks(Ended(NoRequest, reply))
    BY NoRequestIs, EndedIs DEF Asks, Holder
<1> QED
    BY <1>1, JobsAre, ForgetsKeepsHolds DEF Done

LEMMA DoneEnds ==
    ASSUME Accounted, NEW c \in Calls, NEW reply, Done(c, reply)
    PROVE  /\ req' = [req EXCEPT ![c] = Ended(NoRequest, reply)]
           /\ job' = [job EXCEPT ![c] = NoJob]
           /\ req'[c] = Ended(NoRequest, reply) /\ ~Asks(req'[c]) /\ req'[c].at = "end"
           /\ \A d \in Calls \ {c} : req'[d] = req[d]
    BY NoRequestIs, EndedIs DEF Done, Forgets, Accounted, Asks, Holder

LEMMA ClaimsKeepHolds ==
    ASSUME Holds, Accounted, Rations, NEW c \in Calls, Claims(c)
    PROVE  Holds'
<1>1. CASE UNCHANGED lessonVars
    BY <1>1, DoneKeepsHolds DEF Claims
<1>2. CASE SlotFree
    <2> DEFINE n == Len(claims) + 1
    <2>1. /\ claims' = Append(claims, now) /\ lessons' = Append(lessons, 0)
          /\ tickets' = tickets \cup {[claim |-> n, revision |-> job[c].revision]}
          /\ row'.claim = n
        BY <1>2 DEF Claims
    <2>2. now \in Nat /\ claims \in Seq(Nat) /\ lessons \in Seq(Nat)
          /\ Len(lessons) = Len(claims) /\ Len(claims) \in Nat
        BY DEF Rations, Holds
    <2>3. /\ lessons' \in Seq(Nat) /\ Len(claims') = n /\ Len(lessons') = n /\ n \in Nat
          /\ \A i \in 1 .. Len(claims) : lessons'[i] = lessons[i]
          /\ lessons'[n] = 0
        BY <2>1, <2>2
    <2>4. /\ DOMAIN job' = Calls
          /\ \A d \in Calls : IsJob(job'[d])
          /\ \A d \in Calls : Asks(req'[d]) => req'[d] = req[d] /\ job'[d] = job[d]
        BY DoneEnds, JobsAre DEF Claims, Holds
    <2>5. \A d \in Calls : Holder(req'[d]) => Asks(req'[d])
        BY DEF Asks
    <2>6. \A d \in Calls : Asks(req'[d]) =>
             /\ job'[d].claim \in 1 .. Len(claims)
             /\ Holder(req'[d]) => lessons[job'[d].claim] = 0
        BY <2>4 DEF Holds
    <2>7. \A t \in tickets' : t.claim \in 1 .. n
        BY <2>1, <2>2 DEF Holds
    <2>8. \A d, e \in Calls :
             Holder(req'[d]) /\ Holder(req'[e]) /\ job'[d].claim = job'[e].claim => d = e
        BY <2>4, <2>5 DEF Holds
    <2>9. \A i \in DOMAIN lessons' : lessons'[i] <= 1
        <3>1. /\ DOMAIN lessons' = 1 .. n /\ DOMAIN lessons = 1 .. Len(claims)
              /\ \A i \in 1 .. n : i \in 1 .. Len(claims) \/ i = n
            BY <2>2, <2>3
        <3> QED BY <2>3, <3>1 DEF Holds
    <2>10. /\ row'.claim \in 0 .. Len(claims') /\ lessons'[row'.claim] = 0
        BY <2>1, <2>3
    <2>11. \A d \in Calls : Holder(req'[d]) =>
              job'[d].claim # row'.claim /\ lessons'[job'[d].claim] = 0
        BY <2>1, <2>2, <2>3, <2>5, <2>6
    <2>12. \A d \in Calls : Asks(req'[d]) => job'[d].claim \in 1 .. Len(claims')
        BY <2>2, <2>3, <2>6
    <2> QED BY <2>3, <2>4, <2>7, <2>8, <2>9, <2>10, <2>11, <2>12 DEF Holds
<1> QED
    BY <1>1, <1>2 DEF Claims

(* A request goes on to another place. *)
LEMMA GoesOn ==
    ASSUME Accounted, NEW c \in Calls, NEW place, Proceeds(c, place)
    PROVE  /\ req' = [req EXCEPT ![c] = [req[c] EXCEPT !.at = place]]
           /\ req'[c].at = place /\ req'[c].kind = req[c].kind
           /\ \A d \in Calls \ {c} : req'[d] = req[d]
<1>1. IsRequest(req[c]) /\ DOMAIN req = Calls
    BY DEF Accounted, Settled
<1> QED
    BY <1>1 DEF Proceeds, Goto, IsRequest

LEMMA SpendsKeepsHolds ==
    ASSUME Holds, Accounted, Rations, NEW c \in Calls, SpendsClaim(c)
    PROVE  Holds'
<1>1. CASE ~Live(c)
    BY <1>1, DoneKeepsHolds DEF SpendsClaim, lessonVars
<1>2. CASE Live(c)
    <2>1. /\ Proceeds(c, "profile") /\ row' = [row EXCEPT !.claim = NoClaim]
          /\ UNCHANGED <<job, claims, tickets, lessons>>
          /\ row.claim = job[c].claim /\ req[c].at = "spend"
        BY <1>2 DEF SpendsClaim, Live
    <2>2. row'.claim = NoClaim /\ NoClaim \in 0 .. Len(claims)
        BY <2>1 DEF Rations, Holds, NoClaim
    <2>3. job[c].claim \in 1 .. Len(claims) /\ lessons[job[c].claim] = 0
        BY <2>1 DEF Holds, Asks, NoClaim
    <2>4. \A d \in Calls \ {c} : req'[d] = req[d]
        BY <2>1, GoesOn
    <2>5. \A d \in Calls : Asks(req'[d]) => d = c \/ Asks(req[d])
        BY <2>4
    <2>6. \A d \in Calls : Holder(req'[d]) => d = c \/ Holder(req[d])
        BY <2>4
    <2>7. \A d \in Calls : Asks(req'[d]) => job'[d].claim \in 1 .. Len(claims')
        BY <2>1, <2>3, <2>5 DEF Holds
    <2>8. \A d \in Calls : Holder(req'[d]) =>
             job'[d].claim # row'.claim /\ lessons'[job'[d].claim] = 0
        <3>1. \A d \in Calls : Holder(req[d]) =>
                 job[d].claim \in 1 .. Len(claims) /\ lessons[job[d].claim] = 0
            BY DEF Holds, Asks
        <3> QED BY <2>1, <2>2, <2>3, <2>6, <3>1 DEF NoClaim
    <2>9. \A d, e \in Calls :
             Holder(req'[d]) /\ Holder(req'[e]) /\ job'[d].claim = job'[e].claim => d = e
        <3>1. \A d \in Calls : Holder(req[d]) => job[d].claim # job[c].claim
            BY <2>1 DEF Holds
        <3> QED BY <2>1, <2>6, <3>1 DEF Holds
    <2> QED BY <2>1, <2>2, <2>7, <2>8, <2>9 DEF Holds
<1> QED
    BY <1>1, <1>2

LEMMA ReadsProfileKeepsHolds ==
    ASSUME Holds, Accounted, NEW c \in Calls, ReadsProfile(c)
    PROVE  Holds'
<1>1. CASE Done(c, Success)
    BY <1>1, DoneKeepsHolds DEF ReadsProfile
<1>2. CASE Proceeds(c, "chapter") /\ job' = IF req[c].kind = "voice"
                                            THEN [job EXCEPT ![c].profile = profile] ELSE job
    <2>1. req[c].at = "profile" /\ UNCHANGED <<row, claims, tickets, lessons>>
        BY DEF ReadsProfile, lessonVars
    <2>2. \A d \in Calls : (Holder(req'[d]) => Holder(req[d])) /\ (Asks(req'[d]) => Asks(req[d]))
        BY <1>2, <2>1, GoesOn DEF Holder, Asks
    <2>3. DOMAIN job' = Calls /\ \A d \in Calls : IsJob(job'[d])
        BY <1>2 DEF Holds, IsJob
    <2>4. \A d \in Calls : job'[d].claim = job[d].claim
        BY <1>2 DEF Holds, IsJob
    <2>5. \A d \in Calls : Asks(req[d]) => job[d].claim \in 1 .. Len(claims)
        BY DEF Holds
    <2>6. \A d \in Calls : Asks(req'[d]) => job'[d].claim \in 1 .. Len(claims')
        BY <2>1, <2>2, <2>4, <2>5
    <2>7. \A d \in Calls : Holder(req[d]) =>
             job[d].claim # row.claim /\ lessons[job[d].claim] = 0
        BY DEF Holds
    <2>8. \A d \in Calls : Holder(req'[d]) =>
             job'[d].claim # row'.claim /\ lessons'[job'[d].claim] = 0
        BY <2>1, <2>2, <2>4, <2>7
    <2>9. \A d, e \in Calls :
             Holder(req[d]) /\ Holder(req[e]) /\ job[d].claim = job[e].claim => d = e
        BY DEF Holds
    <2>10. \A d, e \in Calls :
             Holder(req'[d]) /\ Holder(req'[e]) /\ job'[d].claim = job'[e].claim => d = e
        BY <2>2, <2>4, <2>9
    <2> QED BY <2>1, <2>3, <2>6, <2>8, <2>10 DEF Holds
<1> QED
    BY <1>1, <1>2 DEF ReadsProfile

LEMMA ReadsChaptersKeepsHolds ==
    ASSUME Holds, Accounted, NEW c \in Calls, ReadsChapters(c)
    PROVE  Holds'
<1>1. CASE Done(c, Success) /\ UNCHANGED lessons
    BY <1>1, DoneKeepsHolds DEF ReadsChapters, lessonVars
<1>2. CASE /\ Proceeds(c, AfterMaterial(c)) /\ UNCHANGED job
           /\ lessons' = IF req[c].kind = "voice" THEN [lessons EXCEPT ![job[c].claim] = @ + 1]
                         ELSE lessons
    <2>1. req[c].at = "chapter" /\ UNCHANGED <<row, claims, tickets, job>>
        BY <1>2 DEF ReadsChapters
    <2>2. req'[c].at \in {"claim", "ready"} /\ \A d \in Calls \ {c} : req'[d] = req[d]
        BY <1>2, GoesOn DEF AfterMaterial
    <2>3. \A d \in Calls : Asks(req'[d]) => d # c /\ Asks(req[d])
        BY <2>2 DEF Asks, Holder
    <2>4. \A d \in Calls : Holder(req'[d]) => d # c /\ Holder(req[d])
        BY <2>2 DEF Holder
    <2>5. CASE req[c].kind # "voice"
        BY <1>2, <2>1, <2>3, <2>4, <2>5 DEF Holds
    <2>6. CASE req[c].kind = "voice"
        <3> DEFINE n == job[c].claim
        <3>1. Holder(req[c]) /\ Asks(req[c])
            BY <2>1, <2>6 DEF Holder, Asks
        <3>2. n \in 1 .. Len(claims) /\ n # row.claim /\ lessons[n] = 0
            BY <3>1 DEF Holds
        <3>3. /\ lessons \in Seq(Nat) /\ DOMAIN lessons = 1 .. Len(claims)
              /\ \A i \in DOMAIN lessons : lessons[i] <= 1
            BY DEF Holds
        <3> HIDE DEF n
        <3>4. lessons' = [lessons EXCEPT ![n] = lessons[n] + 1]
            BY <1>2, <2>6 DEF n
        <3>5. /\ lessons' \in Seq(Nat) /\ Len(lessons') = Len(lessons)
              /\ \A i \in DOMAIN lessons : i # n => lessons'[i] = lessons[i]
              /\ lessons'[n] = 1 /\ DOMAIN lessons' = DOMAIN lessons
            BY <3>2, <3>3, <3>4
        <3>6. \A i \in DOMAIN lessons' : lessons'[i] <= 1
            BY <3>3, <3>5
        <3>7. row'.claim \in 0 .. Len(claims')
              /\ (row'.claim # NoClaim => lessons'[row'.claim] = 0)
            BY <2>1, <3>2, <3>3, <3>5 DEF Holds, NoClaim
        <3>8. \A d \in Calls : Asks(req'[d]) => job'[d].claim \in 1 .. Len(claims')
            BY <2>1, <2>3 DEF Holds
        <3>9. \A d \in Calls : Holder(req'[d]) =>
                 job'[d].claim # row'.claim /\ lessons'[job'[d].claim] = 0
            <4>1. \A d \in Calls : Holder(req'[d]) => job[d].claim # n
                BY <2>4, <3>1 DEF Holds, n
            <4>2. \A d \in Calls : Holder(req'[d]) => job[d].claim \in DOMAIN lessons
                BY <2>1, <3>3, <3>8 DEF Asks
            <4> QED BY <2>1, <2>4, <3>5, <4>1, <4>2 DEF Holds
        <3>10. Len(lessons') = Len(claims')
            BY <2>1, <3>5 DEF Holds
        <3> QED BY <2>1, <2>4, <3>5, <3>6, <3>7, <3>8, <3>9, <3>10 DEF Holds
    <2> QED BY <2>5, <2>6
<1> QED
    BY <1>1, <1>2 DEF ReadsChapters

(* What is not a lesson's own step leaves lessons where they are, but for  *)
(* sending one to the model and having it answered.                        *)
LessonPlaces == {"spend", "profile", "chapter", "note"}

Lessonless == \A c \in Calls : req[c].kind = "voice" => req[c].at \notin {"context", "storyVoice"}

Moves(c, r) ==
    /\ req' = [req EXCEPT ![c] = r] /\ IsRequest(r) /\ r.at \notin LessonPlaces
    /\ r.kind = "voice" /\ r.at # "end" =>
          /\ req[c].kind = "voice" /\ req[c].at \in {"ready", "waiting"}
          /\ r.at \in {"ready", "waiting", "answer"}

LEMMA RaisesMoves ==
    ASSUME Accounted, NEW c \in Calls, NEW e, NEW lost \in {0, 1}, Raises(c, e, lost),
           req[c].at = "waiting" \/ req[c].kind # "voice"
    PROVE  \E r : Moves(c, r)
<1> DEFINE failed == [req[c] EXCEPT !.lost = req[c].lost + lost]
<1>1. PICK inTime \in BOOLEAN :
         req' = [req EXCEPT ![c] =
                   IF Retries(req[c].kind, e) /\ req[c].attempts < AttemptLimit /\ inTime
                     THEN [failed EXCEPT !.at = "ready"]
                     ELSE Ended(failed, ReplyTo(req[c].kind, e))]
    BY DEF Raises
<1>2. IsRequest(failed) /\ failed.kind = req[c].kind
    BY RequestAt DEF IsRequest
<1> HIDE DEF failed
<1>3. CASE req' = [req EXCEPT ![c] = [failed EXCEPT !.at = "ready"]]
    <2>1. Moves(c, [failed EXCEPT !.at = "ready"])
        BY <1>2, <1>3, Goes DEF Moves, LessonPlaces
    <2> QED BY <2>1
<1>4. CASE req' = [req EXCEPT ![c] = Ended(failed, ReplyTo(req[c].kind, e))]
    <2>1. Moves(c, Ended(failed, ReplyTo(req[c].kind, e)))
        BY <1>2, <1>4, EndedIs DEF Moves, LessonPlaces
    <2> QED BY <2>1
<1> QED
    BY <1>1, <1>3, <1>4

LEMMA GotoMoves ==
    ASSUME Accounted, NEW c \in Calls, NEW place, Goto(c, place), place \notin LessonPlaces,
           req[c].kind = "voice" =>
               req[c].at \in {"ready", "waiting"} /\ place \in {"waiting", "answer"}
    PROVE  \E r : Moves(c, r)
<1>1. IsRequest(req[c])
    BY DEF Accounted, Settled
<1>2. Moves(c, [req[c] EXCEPT !.at = place])
    BY <1>1, Goes DEF Moves, Goto
<1> QED BY <1>2

LEMMA RepliesMoves ==
    ASSUME Accounted, NEW c \in Calls, NEW reply, Replies(c, reply)
    PROVE  \E r : Moves(c, r)
<1>1. IsRequest(req[c])
    BY DEF Accounted, Settled
<1>2. Moves(c, Ended(req[c], reply))
    BY <1>1, EndedIs DEF Moves, Replies, LessonPlaces
<1> QED BY <1>2

LEMMA RequestStepMoves ==
    ASSUME Accounted, Lessonless, NEW c \in Calls, RequestStep(c)
    PROVE  UNCHANGED req \/ \E r : Moves(c, r)
<1>1. CASE ReadsContext(c)
    BY <1>1, GotoMoves, RepliesMoves DEF ReadsContext, LessonPlaces, Lessonless
<1>2. CASE AddsStoryVoice(c)
    BY <1>2, GotoMoves, RepliesMoves DEF AddsStoryVoice, LessonPlaces, Lessonless
<1>3. CASE Sends(c)
    <2> DEFINE r == [req[c] EXCEPT !.at = "waiting", !.attempts = req[c].attempts + 1]
    <2>1. IsRequest(r) /\ r.at = "waiting" /\ r.kind = req[c].kind
        BY RequestAt DEF IsRequest
    <2>2. req[c].at = "ready" /\ req' = [req EXCEPT ![c] = r]
        BY <1>3 DEF Sends
    <2> HIDE DEF r
    <2>3. Moves(c, r)
        BY <2>1, <2>2 DEF Moves, LessonPlaces
    <2> QED BY <2>3
<1>4. CASE Serves(c)
    BY <1>4, GotoMoves DEF Serves, Awaited, LessonPlaces
<1>5. CASE Refuses(c)
    BY <1>5, RaisesMoves DEF Refuses, Awaited
<1>6. CASE Disconnects(c)
    BY <1>6, RaisesMoves DEF Disconnects
<1>7. CASE TimesOut(c)
    BY <1>7, RaisesMoves DEF TimesOut
<1>8. CASE StreamBreaks(c)
    BY <1>8, RaisesMoves DEF StreamBreaks
<1>9. CASE Parses(c)
    BY <1>9, RepliesMoves DEF Parses
<1>10. CASE ImageEnds(c)
    BY <1>10, RepliesMoves DEF ImageEnds
<1> QED
    BY <1>1, <1>2, <1>3, <1>4, <1>5, <1>6, <1>7, <1>8, <1>9, <1>10 DEF RequestStep

LEMMA ArrivalsMove ==
    ASSUME Accounted, NEW c \in Calls, NEW k,
           Arrives(c, k) \/ TurnedAway(c, k) \/ ImageArrives(c)
    PROVE  \E r : Moves(c, r)
<1>1. CASE Arrives(c, k)
    <2> DEFINE r == [NoRequest EXCEPT !.kind = k,
                                      !.at = IF k \in WithContext THEN "context" ELSE "ready"]
    <2>1. IsRequest(r) /\ r.kind = k /\ r.at \in {"context", "ready"}
        BY DEF NoRequest, IsRequest
    <2>2. k # "voice" /\ req' = [req EXCEPT ![c] = r]
        BY <1>1 DEF Arrives, Begins, Actions, WithContext, Routes
    <2> HIDE DEF r
    <2>3. Moves(c, r)
        BY <2>1, <2>2 DEF Moves, LessonPlaces
    <2> QED BY <2>3
<1>2. ASSUME NEW kind, NEW reply,
             req' = [req EXCEPT ![c] = Ended([NoRequest EXCEPT !.kind = kind], reply)]
      PROVE  \E r : Moves(c, r)
    <2>1. IsRequest([NoRequest EXCEPT !.kind = kind])
        BY DEF NoRequest, IsRequest
    <2>2. Moves(c, Ended([NoRequest EXCEPT !.kind = kind], reply))
        BY <1>2, <2>1, EndedIs DEF Moves, LessonPlaces
    <2> QED BY <2>2
<1>3. CASE TurnedAway(c, k)
    <2>1. PICK reply \in RefusalsOf(k) :
             req' = [req EXCEPT ![c] = Ended([NoRequest EXCEPT !.kind = k], reply)]
        BY <1>3 DEF TurnedAway
    <2> QED BY <1>2, <2>1
<1>4. CASE ImageArrives(c)
    <2>1. CASE req' = [req EXCEPT ![c] = Ended(NoRequest, <<429, "HTTP_ERROR">>)]
        <3>1. Moves(c, Ended(NoRequest, <<429, "HTTP_ERROR">>))
            BY <2>1, NoRequestIs, EndedIs DEF Moves, LessonPlaces
        <3> QED BY <3>1
    <2>2. CASE Begins(c, "image", "imaging")
        <3> DEFINE r == [NoRequest EXCEPT !.kind = "image", !.at = "imaging"]
        <3>1. IsRequest(r) /\ r.kind = "image" /\ r.at = "imaging"
            BY DEF NoRequest, IsRequest
        <3>2. Moves(c, r)
            BY <2>2, <3>1 DEF Begins, Moves, LessonPlaces
        <3> QED BY <3>2
    <2> QED BY <1>4, <2>1, <2>2 DEF ImageArrives
<1> QED
    BY <1>1, <1>3, <1>4

LEMMA ServiceStepMoves ==
    ASSUME Accounted, Lessonless, NEW c \in Calls, ServiceStep(c)
    PROVE  /\ UNCHANGED req \/ \E r : Moves(c, r)
           /\ UNCHANGED <<load, now, lessonVars, job, writerVars>>
    BY ArrivalsMove, RequestStepMoves DEF ServiceStep

LEMMA MovesKeepHolds ==
    ASSUME Holds, Accounted, NEW c \in Calls, NEW r, Moves(c, r), UNCHANGED <<lessonVars, job>>
    PROVE  Holds'
<1>1. DOMAIN job' = Calls /\ IsJob(job'[c]) /\ \A d \in Calls \ {c} : job'[d] = job[d]
    BY DEF Holds
<1>2. req' = [req EXCEPT ![c] = r] /\ ~Asks(r)
    BY DEF Moves, Asks, Holder, LessonPlaces
<1> QED
    BY <1>1, <1>2, BystanderKeepsHolds

LEMMA ComesKeepsHolds ==
    ASSUME Holds, Accounted, NEW c \in Calls, PreflightArrives(c) \/ PassArrives(c)
    PROVE  Holds'
<1>1. CASE PreflightArrives(c)
    <2> DEFINE r == [NoRequest EXCEPT !.kind = "preflight", !.at = "profile"]
    <2>1. Forgets(c, r, [NoJob EXCEPT !.revision = source]) /\ UNCHANGED lessonVars
        BY <1>1 DEF PreflightArrives, Comes
    <2>2. ~Asks(r)
        BY DEF NoRequest, Asks, Holder
    <2> HIDE DEF r
    <2> QED BY <2>1, <2>2, JobsAre, ForgetsKeepsHolds
<1>2. CASE PassArrives(c)
    <2> DEFINE r == [NoRequest EXCEPT !.kind = "voice", !.at = "spend"]
    <2>1. PICK t \in tickets :
             Forgets(c, r, [NoJob EXCEPT !.revision = t.revision, !.claim = t.claim])
        BY <1>2 DEF PassArrives, Comes
    <2> DEFINE j == [NoJob EXCEPT !.revision = t.revision, !.claim = t.claim]
    <2>2. UNCHANGED <<row, claims, tickets, lessons>>
        BY <1>2 DEF PassArrives, Comes, lessonVars
    <2>3. t.claim \in 1 .. Len(claims) /\ j.claim = t.claim /\ IsJob(j)
        BY DEF Holds, NoJob, IsJob
    <2>4. r.at = "spend" /\ ~Holder(r)
        BY DEF NoRequest, Holder
    <2> HIDE DEF r, j
    <2>5. /\ req'[c] = r /\ \A d \in Calls \ {c} : req'[d] = req[d] /\ job'[d] = job[d]
          /\ DOMAIN job' = Calls /\ job'[c] = j
        BY <2>1 DEF Forgets, Holds, Accounted, j
    <2>6. \A d \in Calls : IsJob(job'[d])
        BY <2>3, <2>5 DEF Holds
    <2>7. \A d \in Calls : Holder(req'[d]) => Holder(req[d]) /\ d # c
        BY <2>4, <2>5
    <2>8. \A d \in Calls : Asks(req'[d]) => job'[d].claim \in 1 .. Len(claims')
        BY <2>2, <2>3, <2>5 DEF Holds
    <2>9. \A d \in Calls : Holder(req'[d]) =>
             job'[d].claim # row'.claim /\ lessons'[job'[d].claim] = 0
        BY <2>2, <2>5, <2>7 DEF Holds
    <2>10. \A d, e \in Calls :
              Holder(req'[d]) /\ Holder(req'[e]) /\ job'[d].claim = job'[e].claim => d = e
        BY <2>5, <2>7 DEF Holds
    <2> QED BY <2>2, <2>5, <2>6, <2>8, <2>9, <2>10 DEF Holds
<1> QED
    BY <1>1, <1>2

LEMMA LateStepsKeepHolds ==
    ASSUME Holds, Accounted, NEW c \in Calls,
           ReadFails(c) \/ Proposes(c) \/ UpdatesNote(c) \/ NoteIsLost(c)
    PROVE  Holds'
<1>1. ASSUME NEW reply, Done(c, reply)
      PROVE  Holds'
    BY <1>1, DoneKeepsHolds DEF ReadFails, Proposes, UpdatesNote, NoteIsLost, lessonVars
<1>2. ASSUME NEW op, Proposes(c), Proceeds(c, "note"), job' = [job EXCEPT ![c].op = op]
      PROVE  Holds'
    <2> DEFINE r == [req[c] EXCEPT !.at = "note"]
    <2>1. DOMAIN job' = Calls /\ IsJob(job'[c]) /\ \A d \in Calls \ {c} : job'[d] = job[d]
        BY <1>2, JobsAre DEF Holds
    <2>2. req' = [req EXCEPT ![c] = r] /\ r.at = "note"
        BY <1>2, GoesOn, Goes DEF Accounted, Settled
    <2>3. ~Asks(r)
        BY <2>2 DEF Asks, Holder
    <2>4. UNCHANGED lessonVars
        BY <1>2 DEF Proposes
    <2> HIDE DEF r
    <2> QED BY <2>1, <2>2, <2>3, <2>4, BystanderKeepsHolds
<1> QED
    BY <1>1, <1>2 DEF ReadFails, Proposes, UpdatesNote, NoteIsLost

LEMMA NextKeepsHolds ==
    ASSUME Holds, Accounted, Rations, Lessonless, [Next]_vars
    PROVE  Holds'
<1>1. ASSUME NEW c \in Calls, ServiceStep(c)
      PROVE  Holds'
    BY <1>1, ServiceStepMoves, MovesKeepHolds, UnchangedKeepsHolds
<1>2. ASSUME NEW c \in Calls, LessonStep(c)
      PROVE  Holds'
    BY <1>2, ReadsProfileKeepsHolds, ReadsChaptersKeepsHolds, ClaimsKeepHolds,
       SpendsKeepsHolds, LateStepsKeepHolds DEF LessonStep
<1>3. CASE Writer \/ Tick \/ UNCHANGED vars
    BY <1>3, UnchangedKeepsHolds
       DEF Writer, SavesChapter, EditsProfile, WriterStep, Tick, vars, requestVars
<1> QED
    BY <1>1, <1>2, <1>3, ComesKeepsHolds DEF Next

LEMMA NextStaysLessonless ==
    ASSUME Accounted, Lessonless, [Next]_vars
    PROVE  Lessonless'
<1>1. ASSUME NEW c \in Calls, NEW r, Moves(c, r)
      PROVE  Lessonless'
    BY <1>1 DEF Moves, Lessonless, Accounted
<1>2. ASSUME NEW c \in Calls, NEW place, Proceeds(c, place), place \notin {"context", "storyVoice"}
      PROVE  Lessonless'
    BY <1>2, GoesOn DEF Lessonless
<1>3. ASSUME NEW c \in Calls, NEW reply, Done(c, reply)
      PROVE  Lessonless'
    BY <1>3, DoneEnds DEF Lessonless
<1>4. ASSUME NEW c \in Calls, PreflightArrives(c) \/ PassArrives(c)
      PROVE  Lessonless'
    <2>1. ASSUME NEW k, NEW place \in {"profile", "spend"}, NEW j, Comes(c, k, place, j)
          PROVE  Lessonless'
        <3>1. req' = [req EXCEPT ![c] = [NoRequest EXCEPT !.kind = k, !.at = place]]
            BY <2>1 DEF Comes, Forgets
        <3>2. [NoRequest EXCEPT !.kind = k, !.at = place].at = place
            BY DEF NoRequest
        <3> QED BY <3>1, <3>2 DEF Lessonless, Accounted
    <2> QED BY <1>4, <2>1 DEF PreflightArrives, PassArrives
<1>5. ASSUME NEW c \in Calls, LessonStep(c)
      PROVE  Lessonless'
    BY <1>2, <1>3, <1>5
       DEF LessonStep, ReadsProfile, ReadsChapters, ReadFails, Claims, SpendsClaim, Proposes,
           UpdatesNote, NoteIsLost, AfterMaterial
<1>6. CASE UNCHANGED req
    BY <1>6 DEF Lessonless
<1>7. ASSUME NEW c \in Calls, ServiceStep(c)
      PROVE  Lessonless'
    BY <1>1, <1>6, <1>7, ServiceStepMoves
<1>8. Writer \/ Tick \/ UNCHANGED vars => UNCHANGED req
    BY DEF Writer, SavesChapter, EditsProfile, WriterStep, Tick, vars, requestVars
<1> QED
    BY <1>4, <1>5, <1>6, <1>7, <1>8 DEF Next

LEMMA InitHolds ==
    ASSUME Init
    PROVE  Holds /\ Lessonless
    BY JobsAre DEF Init, RequestInit, Holds, Lessonless, Asks, Holder, NoRequest, NoRow, NoClaim

(* However preflights and passes race, repeat or come late, lessons are    *)
(* claimed more than Spacing apart and MaxPerDay a day, and a claim pays   *)
(* for one analysis at most (VoiceLearningWorker.claim and _process).      *)
THEOREM LessonsAreRationed == Spec => []LessonsRationed
<1> DEFINE Inv == Accounted /\ Rations /\ Holds /\ Lessonless
<1>1. ASSUME Inv PROVE LessonsRationed
  <2>1. \A day \in 0 .. Today :
           Cardinality({i \in DOMAIN claims : claims[i] \div DayLength = day}) <= MaxPerDay
    BY <1>1, DaysFollow DEF Rations, OnDay, Today
  <2> QED BY <1>1, <2>1 DEF LessonsRationed, Rations, Holds
<1>2. Init => Inv
  BY InitAccounted, InitRations, InitHolds
<1>3. Inv /\ [Next]_vars => Inv'
  BY NextKeepsAccounts, NextKeepsRations, NextKeepsHolds, NextStaysLessonless
<1> QED
  BY <1>1, <1>2, <1>3, PTL DEF Spec

-----------------------------------------------------------------------------
(* What a pass proposes, it proposes for the profile it has read.          *)

Studied(r) == r.kind = "voice" /\ r.at \in {"chapter", "ready", "waiting", "answer"}

Read(r, j, p) ==
    /\ j.profile.revision \in Nat /\ j.profile.revision <= p.revision
    /\ j.profile.revision = p.revision => j.profile = p
    /\ Studied(r) => j.profile.learning = TRUE
    /\ r.at = "note" =>
          j.profile.learning = TRUE /\ j.op \in Proposable(j.profile.note) \ {"no_change"}

IsProfile(p) == DOMAIN p = {"revision", "learning", "note"} /\ p.revision \in Nat \ {0}

Studies ==
    /\ IsProfile(profile)
    /\ \A c \in Calls : Read(req[c], job[c], profile)

LEMMA NothingRead ==
    ASSUME NEW r, NEW j, NEW p, IsProfile(p), j.profile = NoProfile, ~Studied(r), r.at # "note"
    PROVE  Read(r, j, p)
    BY DEF Read, IsProfile, NoProfile

LEMMA Revised ==
    ASSUME NEW p, IsProfile(p), NEW x
    PROVE  LET noted == [p EXCEPT !.revision = p.revision + 1, !.note = x]
               switched == [p EXCEPT !.revision = p.revision + 1, !.learning = x]
           IN  /\ IsProfile(noted) /\ noted.revision > p.revision
               /\ IsProfile(switched) /\ switched.revision > p.revision
    BY DEF IsProfile

LEMMA ReadBefore ==
    ASSUME NEW r, NEW j, NEW p, NEW q, Read(r, j, p), IsProfile(p), IsProfile(q),
           q.revision > p.revision
    PROVE  Read(r, j, q)
    BY DEF Read, IsProfile

LEMMA StepStudies ==
    ASSUME Studies, NEW c \in Calls, UNCHANGED profile, Read(req'[c], job'[c], profile),
           \A d \in Calls \ {c} : req'[d] = req[d] /\ job'[d] = job[d]
    PROVE  Studies'
    BY DEF Studies

LEMMA DoneStudies ==
    ASSUME Studies, Accounted, Holds, NEW c \in Calls, NEW reply, Done(c, reply), UNCHANGED profile
    PROVE  Studies'
<1>1. /\ req'[c].at = "end" /\ job'[c] = NoJob
      /\ \A d \in Calls \ {c} : req'[d] = req[d] /\ job'[d] = job[d]
    BY DoneEnds DEF Holds
<1>2. NoJob.profile = NoProfile
    BY DEF NoJob
<1>3. Read(req'[c], job'[c], profile)
    BY <1>1, <1>2, NothingRead DEF Studies, Studied
<1> QED
    BY <1>1, <1>3, StepStudies

LEMMA MovesStudy ==
    ASSUME Studies, Accounted, NEW c \in Calls, NEW r, Moves(c, r), UNCHANGED <<job, profile>>
    PROVE  Studies'
<1>1. req'[c] = r /\ \A d \in Calls \ {c} : req'[d] = req[d]
    BY DEF Moves, Accounted
<1>2. r.at # "note" /\ (Studied(r) => Studied(req[c]))
    BY DEF Moves, Studied, LessonPlaces
<1>3. Read(req'[c], job'[c], profile)
    BY <1>1, <1>2 DEF Studies, Read
<1> QED
    BY <1>1, <1>3, StepStudies

LEMMA ComesStudies ==
    ASSUME Studies, Accounted, Holds, NEW c \in Calls, PreflightArrives(c) \/ PassArrives(c)
    PROVE  Studies'
<1>1. ASSUME NEW k, NEW place \in {"profile", "spend"}, NEW j, Comes(c, k, place, j),
             j.profile = NoProfile
      PROVE  Studies'
    <2> DEFINE r == [NoRequest EXCEPT !.kind = k, !.at = place]
    <2>1. r.at = place
        BY DEF NoRequest
    <2>2. req' = [req EXCEPT ![c] = r] /\ job' = [job EXCEPT ![c] = j] /\ UNCHANGED profile
        BY <1>1 DEF Comes, Forgets, writerVars
    <2> HIDE DEF r
    <2>3. /\ req'[c] = r /\ job'[c] = j
          /\ \A d \in Calls \ {c} : req'[d] = req[d] /\ job'[d] = job[d]
        BY <2>2 DEF Accounted, Holds
    <2>4. Read(r, j, profile)
        BY <1>1, <2>1, NothingRead DEF Studies, Studied
    <2> QED BY <2>2, <2>3, <2>4, StepStudies
<1>2. CASE PreflightArrives(c)
    <2>1. [NoJob EXCEPT !.revision = source].profile = NoProfile
        BY DEF NoJob
    <2> QED BY <1>1, <1>2, <2>1 DEF PreflightArrives
<1>3. CASE PassArrives(c)
    <2>1. PICK t \in tickets :
             Comes(c, "voice", "spend", [NoJob EXCEPT !.revision = t.revision, !.claim = t.claim])
        BY <1>3 DEF PassArrives
    <2>2. [NoJob EXCEPT !.revision = t.revision, !.claim = t.claim].profile = NoProfile
        BY DEF NoJob
    <2> QED BY <1>1, <2>1, <2>2
<1> QED
    BY <1>2, <1>3

LEMMA LessonStepStudies ==
    ASSUME Studies, Accounted, Holds, NEW c \in Calls, LessonStep(c)
    PROVE  Studies'
<1>1. ASSUME NEW place, Proceeds(c, place), UNCHANGED <<job, profile>>, place # "note",
             ~Studied(req'[c]) \/ Studied(req[c])
      PROVE  Studies'
    <2>1. req'[c].at # "note" /\ \A d \in Calls \ {c} : req'[d] = req[d]
        BY <1>1, GoesOn
    <2>2. Read(req'[c], job'[c], profile)
        BY <1>1, <2>1 DEF Studies, Read
    <2> QED BY <1>1, <2>1, <2>2, StepStudies
<1>2. CASE ReadsProfile(c)
    <2>1. UNCHANGED profile
        BY <1>2 DEF ReadsProfile, writerVars
    <2>2. CASE profile.learning
        <3>1. /\ req'[c].at = "chapter" /\ req'[c].kind = req[c].kind
              /\ \A d \in Calls \ {c} : req'[d] = req[d]
            BY <1>2, <2>2, GoesOn DEF ReadsProfile
        <3>2. CASE req[c].kind = "voice"
            <4>1. /\ job'[c].profile = profile
                  /\ \A d \in Calls \ {c} : job'[d] = job[d]
                BY <1>2, <2>2, <3>2 DEF ReadsProfile, Holds, IsJob
            <4>2. Read(req'[c], job'[c], profile)
                BY <2>2, <3>1, <4>1 DEF Studies, IsProfile, Read
            <4> QED BY <2>1, <3>1, <4>1, <4>2, StepStudies
        <3>3. CASE req[c].kind # "voice"
            BY <1>1, <1>2, <2>1, <2>2, <3>1, <3>3 DEF ReadsProfile, Studied
        <3> QED BY <3>2, <3>3
    <2> QED BY <1>2, <2>1, <2>2, DoneStudies DEF ReadsProfile
<1>3. CASE ReadsChapters(c)
    <2>1. UNCHANGED profile /\ req[c].at = "chapter"
        BY <1>3 DEF ReadsChapters, writerVars
    <2>2. CASE Proceeds(c, AfterMaterial(c)) /\ UNCHANGED job
        <3>1. ~Studied(req'[c]) \/ Studied(req[c])
            BY <2>1, <2>2, GoesOn DEF AfterMaterial, Studied
        <3>2. AfterMaterial(c) # "note"
            BY DEF AfterMaterial
        <3> QED BY <1>1, <2>1, <2>2, <3>1, <3>2
    <2> QED BY <1>3, <2>1, <2>2, DoneStudies DEF ReadsChapters
<1>4. CASE ReadFails(c) \/ NoteIsLost(c)
    BY <1>4, DoneStudies DEF ReadFails, NoteIsLost, writerVars
<1>5. CASE Claims(c)
    BY <1>5, DoneStudies DEF Claims, writerVars
<1>6. CASE SpendsClaim(c)
    <2>1. Proceeds(c, "profile") => ~Studied(req'[c])
        BY GoesOn DEF Studied
    <2> QED BY <1>1, <1>6, <2>1, DoneStudies DEF SpendsClaim, writerVars
<1>7. CASE Proposes(c)
    <2>1. UNCHANGED profile /\ Studied(req[c])
        BY <1>7 DEF Proposes, writerVars, Studied
    <2>2. ASSUME NEW op \in Proposable(job[c].profile.note) \ {"no_change"},
                 Proceeds(c, "note"), job' = [job EXCEPT ![c].op = op]
          PROVE  Studies'
        <3>1. req'[c].at = "note" /\ \A d \in Calls \ {c} : req'[d] = req[d]
            BY <2>2, GoesOn
        <3>2. /\ job'[c].profile = job[c].profile /\ job'[c].op = op
              /\ \A d \in Calls \ {c} : job'[d] = job[d]
            BY <2>2 DEF Holds, IsJob
        <3>3. Read(req'[c], job'[c], profile)
            BY <2>1, <2>2, <3>1, <3>2 DEF Studies, Read
        <3> QED BY <2>1, <3>1, <3>2, <3>3, StepStudies
    <2> QED BY <1>7, <2>1, <2>2, DoneStudies DEF Proposes
<1>8. CASE UpdatesNote(c)
    <2>1. CASE ~IfMatch(c)
        BY <1>8, <2>1, DoneStudies DEF UpdatesNote
    <2>2. CASE IfMatch(c)
        <3>1. IsProfile(profile') /\ profile'.revision > profile.revision
            BY <1>8, <2>2 DEF UpdatesNote, Studies, IsProfile
        <3>2. PICK reply : Done(c, reply)
            BY <1>8 DEF UpdatesNote
        <3>3. /\ req'[c].at = "end" /\ job'[c].profile = NoProfile
              /\ \A d \in Calls \ {c} : req'[d] = req[d] /\ job'[d] = job[d]
            BY <3>2, DoneEnds DEF Holds, NoJob
        <3>4. Read(req'[c], job'[c], profile')
            BY <3>1, <3>3, NothingRead DEF Studied
        <3>5. \A d \in Calls \ {c} : Read(req'[d], job'[d], profile')
            BY <3>1, <3>3, ReadBefore DEF Studies
        <3> QED BY <3>1, <3>4, <3>5 DEF Studies
    <2> QED BY <2>1, <2>2
<1> QED
    BY <1>2, <1>3, <1>4, <1>5, <1>6, <1>7, <1>8 DEF LessonStep

LEMMA NextStudies ==
    ASSUME Studies, Accounted, Holds, Lessonless, [Next]_vars
    PROVE  Studies'
<1>1. CASE UNCHANGED <<req, job, profile>>
    BY <1>1 DEF Studies
<1>2. ASSUME NEW c \in Calls, ServiceStep(c)
      PROVE  Studies'
    <2>1. UNCHANGED <<job, profile>>
        BY <1>2, ServiceStepMoves DEF writerVars
    <2> QED BY <1>1, <1>2, <2>1, ServiceStepMoves, MovesStudy
<1>3. CASE EditsProfile
    <2>1. IsProfile(profile)
        BY DEF Studies
    <2>2. ASSUME NEW l,
                 profile' = [profile EXCEPT !.revision = profile.revision + 1, !.learning = l]
          PROVE  IsProfile(profile') /\ profile'.revision > profile.revision
        BY <2>1, <2>2, Revised
    <2>3. ASSUME NEW n, profile' = [profile EXCEPT !.revision = profile.revision + 1, !.note = n]
          PROVE  IsProfile(profile') /\ profile'.revision > profile.revision
        BY <2>1, <2>3, Revised
    <2>4. IsProfile(profile') /\ profile'.revision > profile.revision
        BY <1>3, <2>2, <2>3 DEF EditsProfile
    <2>5. UNCHANGED <<req, job>>
        BY <1>3 DEF EditsProfile, WriterStep, requestVars
    <2> QED BY <2>4, <2>5, ReadBefore DEF Studies
<1>4. SavesChapter \/ Tick \/ UNCHANGED vars => UNCHANGED <<req, job, profile>>
    BY DEF SavesChapter, WriterStep, Tick, vars, requestVars, writerVars
<1> QED
    BY <1>1, <1>2, <1>3, <1>4, ComesStudies, LessonStepStudies DEF Next, Writer

LEMMA InitStudies ==
    ASSUME Init
    PROVE  Studies
<1>1. IsProfile(profile)
    BY DEF Init, IsProfile
<1>2. \A c \in Calls : req[c] = NoRequest /\ job[c] = NoJob
    BY DEF Init, RequestInit
<1>3. NoJob.profile = NoProfile /\ ~Studied(NoRequest) /\ NoRequest.at # "note"
    BY DEF NoJob, NoRequest, Studied
<1> QED
    BY <1>1, <1>2, <1>3, NothingRead DEF Studies

(* Whatever the writer did while the model was asked, a lesson changes the *)
(* profile only while learning is on, and never the writer's notes         *)
(* (validate_proposal, and If-Match on the revision that was read).        *)
THEOREM WriterAlwaysPrevails == Spec => WriterPrevails
<1> DEFINE Inv == Accounted /\ Rations /\ Holds /\ Lessonless /\ Studies
           Kept == \A c \in Calls :
                     req[c].at = "note" /\ profile' # profile /\ req'[c].at = "end" =>
                        /\ profile.learning
                        /\ profile.note \in (IF job[c].op = "add" THEN {"none"} ELSE {"agent"})
<1>1. Init => Inv
  BY InitAccounted, InitRations, InitHolds, InitStudies
<1>2. Inv /\ [Next]_vars => Inv'
  BY NextKeepsAccounts, NextKeepsRations, NextKeepsHolds, NextStaysLessonless, NextStudies
<1>3. Inv /\ [Next]_vars => [Kept]_vars
  <2> SUFFICES ASSUME Inv, Next, NEW c \in Calls,
                      req[c].at = "note", profile' # profile, req'[c].at = "end"
               PROVE  /\ profile.learning
                      /\ profile.note \in (IF job[c].op = "add" THEN {"none"} ELSE {"agent"})
    OBVIOUS
  <2>1. \E d \in Calls : UpdatesNote(d)
    <3>1. \A d \in Calls : LessonStep(d) => UpdatesNote(d)
      BY DEF LessonStep, ReadsProfile, ReadsChapters, ReadFails, Claims, SpendsClaim, Proposes,
             NoteIsLost, writerVars
    <3>2. \A d \in Calls : ~PreflightArrives(d) /\ ~PassArrives(d) /\ ~ServiceStep(d)
      BY DEF PreflightArrives, PassArrives, Comes, ServiceStep, writerVars
    <3>3. ~Writer /\ ~Tick
      BY DEF Writer, SavesChapter, EditsProfile, WriterStep, Tick, requestVars, writerVars
    <3> QED BY <3>1, <3>2, <3>3 DEF Next
  <2>2. PICK d \in Calls : UpdatesNote(d)
    BY <2>1
  <2>3. d = c
    <3>1. \A e \in Calls \ {d} : req'[e] = req[e]
      BY <2>2, DoneEnds DEF UpdatesNote
    <3> QED BY <3>1
  <2>4. job[c].profile = profile
    BY <2>2, <2>3 DEF UpdatesNote, IfMatch, Studies, Read
  <2>5. profile.learning = TRUE /\ job[c].op \in Proposable(profile.note) \ {"no_change"}
    BY <2>4 DEF Studies, Read
  <2> QED BY <2>5 DEF Proposable
<1> QED
  BY <1>1, <1>2, <1>3, PTL DEF Spec, WriterPrevails
=============================================================================
