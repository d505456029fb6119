------------------------- MODULE CacheSupport_proofs -------------------------
(***************************************************************************)
(* Proofs about CacheSupport, for any number of concurrent requests and    *)
(* any assignment of models to normalized keys.                            *)
(***************************************************************************)
EXTENDS CacheSupport, SequenceTheorems, TLAPS

LEMMA CacheInvInit == Init => CacheInv
<1> SUFFICES ASSUME Init PROVE CacheInv
  OBVIOUS
<1> USE DEF Init
<1>1. TypeOK
  BY DEF TypeOK, PcStates, Answers
<1>2. Progress /\ MarksAreEarned /\ RejectionHealed /\ OnlyInFlightRelapse
  BY DEF Progress, MarksAreEarned, RejectionHealed, OnlyInFlightRelapse, InFlight,
         CarriesPoints
<1>3. QED
  BY <1>1, <1>2 DEF CacheInv

\* One more send: what it carried is the last element, the others stay.
LEMMA Sending ==
    ASSUME TypeOK, NEW r \in Requests, NEW b \in BOOLEAN, Len(sent[r]) <= 1,
           sent' = [sent EXCEPT ![r] = Append(@, b)]
    PROVE  /\ sent' \in [Requests -> Seq(BOOLEAN)]
           /\ \A q \in Requests : Len(sent'[q]) <= 2
           /\ Len(sent'[r]) = Len(sent[r]) + 1 /\ Last(sent'[r]) = b
           /\ Len(sent[r]) = 1 => sent'[r][1] = sent[r][1]
           /\ \A q \in Requests \ {r} : sent'[q] = sent[q]
<1>1. sent[r] \in Seq(BOOLEAN) /\ sent \in [Requests -> Seq(BOOLEAN)]
  BY DEF TypeOK
<1>2. /\ Append(sent[r], b) \in Seq(BOOLEAN)
      /\ Len(Append(sent[r], b)) = Len(sent[r]) + 1
      /\ Append(sent[r], b)[Len(sent[r]) + 1] = b
      /\ Len(sent[r]) = 1 => Append(sent[r], b)[1] = sent[r][1]
  BY <1>1, AppendProperties
<1>3. sent'[r] = Append(sent[r], b) /\ \A q \in Requests \ {r} : sent'[q] = sent[q]
  BY <1>1
<1>4. sent' \in [Requests -> Seq(BOOLEAN)]
  BY <1>1, <1>2
<1>5. /\ Len(sent'[r]) = Len(sent[r]) + 1 /\ Last(sent'[r]) = b
      /\ Len(sent[r]) = 1 => sent'[r][1] = sent[r][1]
  BY <1>2, <1>3 DEF Last
<1>6. \A q \in Requests : Len(sent'[q]) <= 2
  BY <1>1, <1>3, <1>5 DEF TypeOK
<1>7. QED
  BY <1>3, <1>4, <1>5, <1>6

\* A step of one request that sends nothing and marks nothing: the request
\* leaves its place for "done" with an answer, is cancelled, or goes on.
LEMMA QuietMove ==
    ASSUME CacheInv, NEW r \in Requests, NEW p \in {"done", "cancelled"}, NEW a \in Answers,
           pc' = [pc EXCEPT ![r] = p],
           answer' = [answer EXCEPT ![r] = a],
           p = "cancelled" => a = "none",
           a = "cache_error" => ~ Last(sent[r]),
           a = "ok" /\ wants[r] /\ model[r] \in Rejecting => Key(r) \in marked,
           p = "done" => pc[r] # "reassemble" \/ a = "app_error",
           pc[r] \in {"assemble", "sending", "reassemble", "resending"},
           UNCHANGED <<model, wants, sent, marked, stale>>
    PROVE  CacheInv'
<1> USE DEF CacheInv
<1>1. TypeOK'
  BY DEF TypeOK, PcStates
<1>2. pc'[r] = p /\ answer'[r] = a
      /\ \A q \in Requests \ {r} : pc'[q] = pc[q] /\ answer'[q] = answer[q]
  BY DEF TypeOK
<1>3. Progress'
  BY <1>2 DEF Progress, InFlight, Key
<1>4. MarksAreEarned'
  <2>1. \A q \in Requests : PointsRefused(q) => PointsRefused(q)'
    BY <1>2 DEF PointsRefused, Progress
  <2>2. QED
    BY <1>2, <2>1 DEF MarksAreEarned, Key
<1>5. RejectionHealed'
  BY <1>2 DEF RejectionHealed
<1>6. OnlyInFlightRelapse'
  BY <1>2 DEF OnlyInFlightRelapse, CarriesPoints, InFlight, Key
<1>7. QED
  BY <1>1, <1>3, <1>4, <1>5, <1>6

LEMMA SendStep ==
    ASSUME CacheInv, NEW r \in Requests, Assemble(r) \/ Reassemble(r)
    PROVE  CacheInv'
<1> USE DEF CacheInv
<1>1. CASE Assemble(r)
  <2> DEFINE b == wants[r] /\ Key(r) \notin marked
  <2>1. b \in BOOLEAN /\ Len(sent[r]) = 0
    BY <1>1 DEF Assemble, Progress, TypeOK
  <2>2. /\ sent' \in [Requests -> Seq(BOOLEAN)]
        /\ \A q \in Requests : Len(sent'[q]) <= 2
        /\ Len(sent'[r]) = 1 /\ Last(sent'[r]) = b
        /\ \A q \in Requests \ {r} : sent'[q] = sent[q]
    <3>1. sent' = [sent EXCEPT ![r] = Append(@, b)]
      BY <1>1 DEF Assemble
    <3>2. Len(sent[r]) <= 1 /\ Len(sent[r]) + 1 = 1
      BY <2>1
    <3> HIDE DEF b
    <3>3. QED
      BY <2>1, <3>1, <3>2, Sending
  <2>3. /\ pc'[r] = "sending" /\ \A q \in Requests \ {r} : pc'[q] = pc[q]
        /\ pc' \in [Requests -> PcStates]
        /\ model' = model /\ wants' = wants /\ answer' = answer
        /\ marked' = marked /\ stale' = stale
    BY <1>1 DEF Assemble, TypeOK, PcStates
  <2>4. answer[r] = "none"
    BY <1>1 DEF Assemble, Progress
  <2>5. (b => Key(r) \notin marked) /\ (wants[r] /\ ~ b => Key(r) \in marked)
    OBVIOUS
  <2> HIDE DEF b
  <2>6. TypeOK'
    BY <2>2, <2>3 DEF TypeOK
  <2>7. Progress'
    BY <2>2, <2>3, <2>4, <2>5 DEF Progress, InFlight, Key
  <2>8. MarksAreEarned'
    <3>1. \A q \in Requests : PointsRefused(q) => PointsRefused(q)'
      <4>1. ~ PointsRefused(r)
        BY <1>1, <2>1 DEF Assemble, PointsRefused, Progress
      <4>2. QED
        BY <2>2, <2>3, <4>1 DEF PointsRefused
    <3>2. QED
      BY <2>3, <2>4, <3>1 DEF MarksAreEarned, Key
  <2>9. RejectionHealed'
    BY <2>2, <2>3, <2>4 DEF RejectionHealed
  <2>10. OnlyInFlightRelapse'
    BY <2>2, <2>3, <2>5 DEF OnlyInFlightRelapse, CarriesPoints, InFlight, Key
  <2>11. QED
    BY <2>6, <2>7, <2>8, <2>9, <2>10
<1>2. CASE Reassemble(r)
  <2>1. Len(sent[r]) = 1 /\ answer[r] = "none" /\ sent[r][1] /\ Key(r) \in marked
    BY <1>2 DEF Reassemble, Progress
  <2>2. /\ sent' \in [Requests -> Seq(BOOLEAN)]
        /\ \A q \in Requests : Len(sent'[q]) <= 2
        /\ Len(sent'[r]) = 2 /\ sent'[r][1] /\ ~ Last(sent'[r])
        /\ \A q \in Requests \ {r} : sent'[q] = sent[q]
    <3>1. sent' = [sent EXCEPT ![r] = Append(@, FALSE)]
      BY <1>2 DEF Reassemble
    <3>2. Len(sent[r]) <= 1 /\ Len(sent[r]) + 1 = 2
      BY <2>1
    <3>3. QED
      BY <2>1, <3>1, <3>2, Sending
  <2>3. /\ pc'[r] = "resending" /\ \A q \in Requests \ {r} : pc'[q] = pc[q]
        /\ pc' \in [Requests -> PcStates]
        /\ model' = model /\ wants' = wants /\ answer' = answer
        /\ marked' = marked /\ stale' = stale
    BY <1>2 DEF Reassemble, TypeOK, PcStates
  <2>4. TypeOK'
    BY <2>2, <2>3 DEF TypeOK
  <2>5. Progress'
    BY <2>1, <2>2, <2>3 DEF Progress, InFlight, Key
  <2>6. MarksAreEarned'
    <3>1. \A q \in Requests : PointsRefused(q) => PointsRefused(q)'
      <4>1. PointsRefused(r)'
        BY <2>2 DEF PointsRefused
      <4>2. QED
        BY <2>2, <2>3, <4>1 DEF PointsRefused
    <3>2. QED
      BY <2>1, <2>3, <3>1 DEF MarksAreEarned, Key
  <2>7. RejectionHealed'
    BY <2>1, <2>2, <2>3 DEF RejectionHealed
  <2>8. OnlyInFlightRelapse'
    BY <2>2, <2>3 DEF OnlyInFlightRelapse, CarriesPoints, InFlight, Key
  <2>9. QED
    BY <2>4, <2>5, <2>6, <2>7, <2>8
<1>3. QED
  BY <1>1, <1>2

LEMMA HealStep ==
    ASSUME CacheInv, NEW r \in Requests, Heal(r)
    PROVE  CacheInv'
<1> USE DEF CacheInv
<1>1. /\ pc'[r] = "reassemble" /\ \A q \in Requests \ {r} : pc'[q] = pc[q]
      /\ pc' \in [Requests -> PcStates] /\ pc[r] = "sending"
      /\ model' = model /\ wants' = wants /\ answer' = answer /\ sent' = sent
      /\ marked' = marked \cup {Key(r)}
      /\ stale' = stale \cup {q \in Requests : CarriesPoints(q) /\ Key(q) = Key(r)}
  BY DEF Heal, TypeOK, PcStates
<1>2. /\ Key(r) \in Keys /\ Len(sent[r]) = 1 /\ sent[r] \in Seq(BOOLEAN)
      /\ sent[r][1] /\ answer[r] = "none"
  BY KeyAssumption DEF Heal, Key, TypeOK, Last, Progress
<1>3. TypeOK'
  BY <1>1, <1>2 DEF TypeOK
<1>4. Progress'
  BY <1>1, <1>2 DEF Progress, InFlight, Key
<1>5. MarksAreEarned'
  <2>1. PointsRefused(r)' /\ \A q \in Requests : PointsRefused(q) => PointsRefused(q)'
    BY <1>1, <1>2 DEF PointsRefused
  <2>2. QED
    BY <1>1, <2>1 DEF MarksAreEarned, Key
<1>6. RejectionHealed'
  BY <1>1 DEF RejectionHealed
<1>7. OnlyInFlightRelapse'
  <2> SUFFICES ASSUME NEW q \in Requests, CarriesPoints(q)', Key(q)' \in marked'
               PROVE  q \in stale'
    BY DEF OnlyInFlightRelapse
  <2>1. q # r /\ CarriesPoints(q) /\ Key(q)' = Key(q)
    BY <1>1 DEF CarriesPoints, InFlight, Key
  <2>2. CASE Key(q) = Key(r)
    BY <1>1, <2>1, <2>2
  <2>3. CASE Key(q) # Key(r)
    BY <1>1, <2>1, <2>3 DEF OnlyInFlightRelapse
  <2>4. QED
    BY <2>2, <2>3
<1>8. QED
  BY <1>3, <1>4, <1>5, <1>6, <1>7

LEMMA CacheInvNext == CacheInv /\ [Next]_vars => CacheInv'
<1> SUFFICES ASSUME CacheInv, [Next]_vars PROVE CacheInv'
  OBVIOUS
<1>1. ASSUME NEW r \in Requests, Assemble(r) \/ Reassemble(r) PROVE CacheInv'
  BY <1>1, SendStep
<1>2. ASSUME NEW r \in Requests, GatewayError(r) \/ SendOk(r) \/ SendError(r)
      PROVE  CacheInv'
  <2>1. PICK a \in {"app_error", "ok", "upstream_error"} : Return(r, a)
    BY <1>2 DEF GatewayError, SendOk, SendError
  <2>2. UNCHANGED <<model, wants, sent, marked, stale>>
    BY <1>2 DEF GatewayError, SendOk, SendError
  <2>3. a = "ok" /\ wants[r] /\ model[r] \in Rejecting => Key(r) \in marked
    <3>1. CASE SendOk(r)
      BY <3>1 DEF SendOk, CarriesPoints, CacheInv, Progress
    <3>2. CASE ~ SendOk(r)
      <4>1. answer'[r] # "ok" /\ answer'[r] = a
        BY <1>2, <2>1, <3>2 DEF GatewayError, SendError, Return, CacheInv, TypeOK
      <4>2. QED
        BY <4>1
    <3>3. QED
      BY <3>1, <3>2
  <2>4. /\ pc[r] \in {"assemble", "sending", "reassemble", "resending"}
        /\ pc[r] # "reassemble" \/ a = "app_error"
    <3>1. answer'[r] = a
      BY <2>1 DEF Return, CacheInv, TypeOK
    <3>2. QED
      BY <1>2, <3>1 DEF GatewayError, SendOk, SendError, Return, InFlight, CacheInv, TypeOK
  <2>5. QED
    BY <2>1, <2>2, <2>3, <2>4, QuietMove DEF Return, Answers
<1>3. ASSUME NEW r \in Requests, Heal(r) PROVE CacheInv'
  BY <1>3, HealStep
<1>4. ASSUME NEW r \in Requests, Propagate(r) PROVE CacheInv'
  <2>1. ~ Last(sent[r]) /\ pc[r] \in {"sending", "resending"}
    BY <1>4 DEF Propagate, Rejects, InFlight, CacheInv, Progress
  <2>2. QED
    BY <1>4, <2>1, QuietMove DEF Propagate, Return, Answers
<1>5. ASSUME NEW r \in Requests, Cancel(r) PROVE CacheInv'
  <2>1. answer[r] = "none" /\ answer \in [Requests -> Answers]
    BY <1>5 DEF Cancel, CacheInv, Progress, TypeOK
  <2>2. answer' = [answer EXCEPT ![r] = "none"]
    BY <1>5, <2>1 DEF Cancel
  <2>3. QED
    BY <1>5, <2>2, QuietMove DEF Cancel, Answers
<1>6. CASE UNCHANGED vars
  BY <1>6 DEF vars, CacheInv, TypeOK, Progress, MarksAreEarned, PointsRefused,
              RejectionHealed, OnlyInFlightRelapse, CarriesPoints, InFlight, Key
<1>7. QED
  BY <1>1, <1>2, <1>3, <1>4, <1>5, <1>6 DEF Next, Handle

\* The conjuncts of the invariant, for the whole life of the process.
LEMMA CacheInvAlways == Spec => []CacheInv
BY CacheInvInit, CacheInvNext, PTL DEF Spec

\* Every reachable state is well typed, and no request sends more than twice:
\* the retry is not retried.
THEOREM TypeCorrect == Spec => []TypeOK
<1>1. CacheInv => TypeOK
  BY DEF CacheInv
<1>2. QED
  BY <1>1, CacheInvAlways, PTL

\* A key enters the negative cache only on account of a request for it whose
\* own cachePoints were refused (the cache_points_injected guard), and no
\* request that wanted cachePoints is served by a model that accepts none
\* before the model's key is in it.
THEOREM MarksEarned == Spec => []MarksAreEarned
<1>1. CacheInv => MarksAreEarned
  BY DEF CacheInv
<1>2. QED
  BY <1>1, CacheInvAlways, PTL

\* A rejection of cachePoints the gateway injected is never the client's
\* answer: it is stripped, retried once and healed.
THEOREM Healed == Spec => []RejectionHealed
<1>1. CacheInv => RejectionHealed
  BY DEF CacheInv
<1>2. QED
  BY <1>1, CacheInvAlways, PTL

\* After a key is marked only requests already in flight can be rejected
\* again, whichever provider they came through.
THEOREM NoRelapse == Spec => []OnlyInFlightRelapse
<1>1. CacheInv => OnlyInFlightRelapse
  BY DEF CacheInv
<1>2. QED
  BY <1>1, CacheInvAlways, PTL
=============================================================================
