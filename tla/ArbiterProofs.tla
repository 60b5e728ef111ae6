---------------------------- MODULE ArbiterProofs ----------------------------
(* A delegator under lockdown is never allowed, and a failing trust store never adds
   trust: proofs for every set of delegators, tasks, requests, policies and scopes,
   every decay, detector cap and number of faults. *)
EXTENDS Arbiter, TLAPS

(* ------------------------------- arithmetic ------------------------------- *)

\* A product of naturals grows with its factors (TrustScore::weighted).
LEMMA ProductMonotone ==
  ASSUME NEW a \in Nat, NEW b \in Nat, NEW c \in Nat, NEW d \in Nat, a <= c, b <= d
  PROVE  a * b <= c * d
<1>1. PICK e \in Nat : c = a + e
  <2>1. c - a \in Nat /\ c = a + (c - a)
    OBVIOUS
  <2> QED
    BY <2>1
<1>2. PICK f \in Nat : d = b + f
  <2>1. d - b \in Nat /\ d = b + (d - b)
    OBVIOUS
  <2> QED
    BY <2>1
<1>3. (a + e) * (b + f) = a * b + (a * f + (e * b + e * f))
  BY Z3
<1>4. a * f \in Nat /\ e * b \in Nat /\ e * f \in Nat /\ a * b \in Nat
  BY Z3
<1> QED
  BY <1>1, <1>2, <1>3, <1>4

\* The confidence n observations give is a thousandth count (Confidence::from_evidence).
LEMMA ConfidenceRange ==
  ASSUME NEW n \in Nat
  PROVE  ConfidenceOf(n) \in 0 .. One
<1> DEFINE q == (1000 * n) \div (100 + n)
<1>1. q \in Nat
  BY Z3
<1> HIDE DEF q
<1> QED
  BY <1>1 DEF ConfidenceOf, Least, One, q

\* One observation gives no more confidence than any number of them.
LEMMA FirstConfidenceLeast ==
  ASSUME NEW n \in Nat \ {0}
  PROVE  ConfidenceOf(1) <= ConfidenceOf(n)
<1> DEFINE q == (1000 * n) \div (100 + n)
<1>1. q \in Nat /\ 1000 * n < (q + 1) * (100 + n)
  BY Z3
<1>2. q >= 9
  <2> SUFFICES ASSUME q <= 8 PROVE FALSE
    BY <1>1
  <2>1. (q + 1) * (100 + n) <= 9 * (100 + n)
    BY <1>1, ProductMonotone
  <2> QED
    BY <1>1, <2>1
<1>3. (1000 * 1) \div (100 + 1) = 9
  BY Z3
<1> HIDE DEF q
<1> QED
  BY <1>1, <1>2, <1>3 DEF ConfidenceOf, Least, One, q

(* --------------------------------- scores --------------------------------- *)

\* The product that is scored.
LEMMA WeightedNat ==
  ASSUME NEW s \in TrustScore
  PROVE  Weighted(s) \in Nat
<1>1. s.value \in Nat /\ s.confidence \in Nat
  BY DEF TrustScore, One
<1>2. s.value * s.confidence \in Nat
  BY <1>1, Z3
<1> QED
  BY <1>2 DEF Weighted

\* An observation leaves a record of a trust score.
LEMMA ObservedTyped ==
  ASSUME NEW s \in TrustScore, NEW v \in 0 .. One
  PROVE  /\ Observed(s, v) \in TrustScore /\ Observed(s, v).value = v
         /\ Observed(s, v).confidence = ConfidenceOf(s.evidence_count + 1)
<1>1. s.evidence_count + 1 \in Nat
  BY DEF TrustScore
<1>2. ConfidenceOf(s.evidence_count + 1) \in 0 .. One
  BY <1>1, ConfidenceRange
<1> QED
  BY <1>1, <1>2 DEF Observed, TrustScore

\* What an outcome adds to or takes from a value in 0 .. One stays there, and the
\* larger value stays larger.
OutcomeValue(v, o) ==
  IF o.kind = "Success" THEN Least(v + 500 \div 100, One)
  ELSE LET severity == IF o.kind = "Failure" THEN 200
                       ELSE IF o.kind = "PolicyViolation" THEN 800 ELSE o.deviation
       IN  Most(v - severity \div 10 - Most(severity - 800, 0) \div 5, 0)

LEMMA OutcomeValues ==
  ASSUME NEW o \in ActionOutcome, NEW v \in 0 .. One
  PROVE  OutcomeValue(v, o) \in 0 .. One /\ OutcomeValue(0, o) <= OutcomeValue(v, o)
<1> DEFINE severity == IF o.kind = "Failure" THEN 200
                       ELSE IF o.kind = "PolicyViolation" THEN 800 ELSE o.deviation
           loss == severity \div 10
           more == Most(severity - 800, 0) \div 5
<1>1. o.kind \in {"Success", "Failure", "PolicyViolation", "Anomalous"} /\ o.deviation \in Nat
  BY DEF ActionOutcome, One
<1>2. severity \in Nat
  BY <1>1
<1> HIDE DEF severity
<1>3. loss \in Nat
  BY <1>2
<1>4. Most(severity - 800, 0) \in Nat
  BY <1>2 DEF Most
<1>5. more \in Nat
  BY <1>4
<1> HIDE DEF loss, more
<1>6. CASE o.kind = "Success"
  <2>1. 500 \div 100 = 5
    BY Z3
  <2> QED
    BY <1>6, <2>1 DEF OutcomeValue, Least, One
<1>7. CASE o.kind # "Success"
  <2>1. \A u \in Nat : OutcomeValue(u, o) = Most(u - loss - more, 0)
    BY <1>7 DEF OutcomeValue, severity, loss, more
  <2>2. \A u \in Nat : Most(u - loss - more, 0) = IF u - loss - more > 0 THEN u - loss - more ELSE 0
    BY DEF Most
  <2>3. v \in Nat /\ v <= 1000 /\ One = 1000
    BY DEF One
  <2>4. OutcomeValue(v, o) = IF v - loss - more > 0 THEN v - loss - more ELSE 0
    BY <2>1, <2>2, <2>3
  <2>5. OutcomeValue(0, o) = 0
    <3>1. ~(0 - loss - more > 0)
      BY <1>3, <1>5
    <3> QED
      BY <2>1, <2>2, <3>1
  <2> QED
    BY <1>3, <1>5, <2>3, <2>4, <2>5
<1> QED
  BY <1>6, <1>7

\* record_feedback is one observation of the outcome's value.
LEMMA OutcomeObserved ==
  ASSUME NEW o \in ActionOutcome, NEW s \in TrustScore
  PROVE  ApplyOutcome(s, o) = Observed(s, OutcomeValue(s.value, o))
<1>1. o.kind \in {"Success", "Failure", "PolicyViolation", "Anomalous"}
  BY DEF ActionOutcome
<1> QED
  BY <1>1 DEF ApplyOutcome, OutcomeValue, OnCompliantBehavior, OnPolicyViolation

\* feedback: the outcome applied to the default record, as after a failed read, is no
\* more trusted than the outcome applied to the record the store holds.
LEMMA DefaultIsLeast ==
  ASSUME NEW o \in ActionOutcome, NEW s \in TrustScore
  PROVE  /\ ApplyOutcome(s, o) \in TrustScore
         /\ Weighted(ApplyOutcome(DefaultScore, o)) <= Weighted(ApplyOutcome(s, o))
<1> DEFINE v == OutcomeValue(s.value, o)
           v0 == OutcomeValue(0, o)
           n == s.evidence_count + 1
<1>1. DefaultScore \in TrustScore /\ DefaultScore.value = 0 /\ DefaultScore.evidence_count = 0
  BY DEF DefaultScore, TrustScore, One
<1>2. s.value \in 0 .. One /\ n \in Nat \ {0}
  BY DEF TrustScore
<1>3. v \in 0 .. One /\ v0 \in 0 .. One /\ v0 <= v
  <2>1. 0 \in 0 .. One
    BY DEF One
  <2> QED
    BY <1>2, <2>1, OutcomeValues
<1>4. /\ ConfidenceOf(1) <= ConfidenceOf(n)
      /\ ConfidenceOf(1) \in 0 .. One /\ ConfidenceOf(n) \in 0 .. One
  BY <1>2, FirstConfidenceLeast, ConfidenceRange
<1>5. /\ ApplyOutcome(s, o) = Observed(s, v)
      /\ ApplyOutcome(DefaultScore, o) = Observed(DefaultScore, v0)
  BY <1>1, OutcomeObserved
<1>6. /\ Observed(s, v) \in TrustScore /\ Observed(s, v).value = v
      /\ Observed(s, v).confidence = ConfidenceOf(n)
  BY <1>3, ObservedTyped
<1>7. /\ Observed(DefaultScore, v0).value = v0
      /\ Observed(DefaultScore, v0).confidence = ConfidenceOf(1)
  <2>1. DefaultScore.evidence_count + 1 = 1
    BY <1>1
  <2> QED
    BY <1>1, <1>3, <2>1, ObservedTyped
<1> HIDE DEF v, v0, n
<1>8. v0 * ConfidenceOf(1) <= v * ConfidenceOf(n)
  <2>1. v \in Nat /\ v0 \in Nat /\ ConfidenceOf(1) \in Nat /\ ConfidenceOf(n) \in Nat
    <3>1. \A x \in 0 .. One : x \in Nat
      BY DEF One
    <3> QED
      BY <1>3, <1>4, <3>1
  <2> QED
    BY <1>3, <1>4, <2>1, ProductMonotone
<1> QED
  BY <1>5, <1>6, <1>7, <1>8 DEF Weighted

\* The decay worker writes a record of a trust score.
LEMMA DegradeTyped ==
  ASSUME NEW s \in TrustScore
  PROVE  Degrade(s, Decay) \in TrustScore
<1>1. s.value \in 0 .. One /\ s.confidence \in 0 .. One /\ Decay \in Nat
  BY ArbiterAssumption DEF TrustScore
<1>2. \A x \in 0 .. One, y \in Nat : Most(x - y, 0) \in 0 .. One
  BY DEF Most, One
<1>3. Decay \div 2 \in Nat
  BY <1>1
<1>4. Most(s.value - Decay, 0) \in 0 .. One /\ Most(s.confidence - Decay \div 2, 0) \in 0 .. One
  BY <1>1, <1>2, <1>3
<1> QED
  BY <1>4 DEF Degrade, TrustScore

\* lockdown and restore write records of a trust score.
LEMMA SetScoresTyped ==
  /\ LockdownScore \in TrustScore
  /\ \A l \in AutonomyLevel : RestoreScore(l) \in TrustScore
<1> DEFINE Sure(v, c, n) == [NewScore(v) EXCEPT !.confidence = c, !.evidence_count = n]
<1>0. \A v \in 0 .. One, c \in 0 .. One, n \in Nat : Sure(v, c, n) \in TrustScore
  BY DEF NewScore, TrustScore
<1>1. LockdownScore \in TrustScore
  <2>1. LockdownScore = Sure(0, One, 999)
    BY DEF LockdownScore
  <2>2. 0 \in 0 .. One /\ One \in 0 .. One
    BY DEF One
  <2> HIDE DEF Sure
  <2> QED
    BY <1>0, <2>1, <2>2
<1>2. ASSUME NEW l \in AutonomyLevel PROVE RestoreScore(l) \in TrustScore
  <2>1. l \in {0, 1, 2, 3, 4}
    BY DEF AutonomyLevel
  <2>2. <<100, 400, 600, 800, 950>>[l + 1] \in 0 .. One
    BY <2>1 DEF One
  <2>3. RestoreScore(l) = Sure(<<100, 400, 600, 800, 950>>[l + 1], 800, 10)
    BY DEF RestoreScore
  <2>4. 800 \in 0 .. One
    BY DEF One
  <2> HIDE DEF Sure
  <2> QED
    BY <1>0, <2>2, <2>3, <2>4
<1> QED
  BY <1>1, <1>2

\* The store's answer for a delegator, with or without a record.
LEMMA StoredTyped ==
  ASSUME TypeOK, NEW d
  PROVE  Stored(d) \in TrustScore
  BY DEF TypeOK, Stored, DefaultScore, TrustScore, One

\* risk_score: a store that fails is scored as zero trust.
LEMMA FailedReadScoresNothing ==
  ASSUME TypeOK, NEW d, NEW ok \in BOOLEAN
  PROVE  Weighted(ScoredRecord(d, ok)) <= Weighted(Stored(d))
<1>2. Weighted(Stored(d)) \in Nat
  BY StoredTyped, WeightedNat
<1>3. CASE ok
  BY <1>2, <1>3 DEF ScoredRecord
<1>4. CASE ~ok
  <2>1. ScoredRecord(d, ok).value = 0 /\ ScoredRecord(d, ok).confidence = One
    BY <1>4 DEF ScoredRecord, DefaultScore
  <2>2. ScoredRecord(d, ok).value * ScoredRecord(d, ok).confidence = 0
    BY <2>1 DEF One
  <2>3. Weighted(ScoredRecord(d, ok)) = 0
    BY <2>2 DEF Weighted
  <2> QED
    BY <1>2, <2>3
<1> QED
  BY <1>3, <1>4

\* The built-in policy is valid.
LEMMA DefaultIsValid == ValidPolicy(DefaultDynamicPolicy)
<1> DEFINE w == <<10, 30, 25, 25, 10>>
           b == <<<<80, 101>>, <<60, 80>>, <<35, 60>>, <<15, 35>>, <<0, 15>>>>
<1>1. DefaultDynamicPolicy.weights = w
  BY DEF DefaultDynamicPolicy
<1>2. /\ w[1] + w[2] + w[3] + w[4] + w[5] \in 95 .. 105
      /\ \A i \in 1 .. 5 : w[i] \in 0 .. 100
  OBVIOUS
<1>3. /\ DOMAIN DefaultDynamicPolicy.bands = AutonomyLevel
      /\ DOMAIN DefaultDynamicPolicy.strategies = AutonomyLevel
      /\ \A l \in AutonomyLevel : DefaultDynamicPolicy.bands[l] = b[l + 1]
  BY DEF DefaultDynamicPolicy
<1>4. \A l \in AutonomyLevel : b[l + 1][1] < b[l + 1][2] /\ b[l + 1][1] >= 0 /\ b[l + 1][2] <= 110
  <2> SUFFICES ASSUME NEW l \in AutonomyLevel
               PROVE  b[l + 1][1] < b[l + 1][2] /\ b[l + 1][1] >= 0 /\ b[l + 1][2] <= 110
    OBVIOUS
  <2>1. l = 0 \/ l = 1 \/ l = 2 \/ l = 3 \/ l = 4
    BY DEF AutonomyLevel
  <2> QED
    BY <2>1
<1> HIDE DEF w, b
<1> QED
  BY <1>1, <1>2, <1>3, <1>4 DEF ValidPolicy

(* ---------------------------------- tasks --------------------------------- *)

RecordsOK(t) == DOMAIN t \subseteq Ids /\ \A d \in DOMAIN t : t[d] \in TrustScore
CountsOK(f) == DOMAIN f \subseteq Ids /\ \A d \in DOMAIN f : f[d] \in 1 .. BaselineMin

\* A step of one task leaves the configuration and the worker alone.
LEMMA TaskStep ==
  ASSUME IndInv, NEW c \in Calls, NEW rec, Goto(c, rec), TaskOK(rec),
         UNCHANGED <<policy, waiting, scope, worker>>,
         RecordsOK(trust'), CountsOK(detectors'),
         frozen' \subseteq Ids, locked' \subseteq frozen'
  PROVE  IndInv'
<1>1. DOMAIN calls' = Calls /\ \A d \in Calls : calls'[d] = IF d = c THEN rec ELSE calls[d]
  BY DEF Goto, IndInv, TasksOK
<1>2. DOMAIN calls' = Calls /\ \A d \in Calls : TaskOK(calls'[d])
  BY <1>1 DEF IndInv, TasksOK
<1>3. TasksOK'
  BY <1>2 DEF TasksOK, TaskOK
<1>4. \A d \in Calls : calls'[d].pc \in {"unused", "score", "scoring", "decide", "write", "detector", "done"}
  BY <1>2 DEF TaskOK
<1>5. TypeOK'
  BY <1>4 DEF IndInv, TypeOK, RecordsOK, CountsOK
<1> QED
  BY <1>3, <1>5 DEF IndInv, LockedIsFrozen, WorkerOK, WaitingIsValid

\* The state a task finds.
LEMMA TaskFacts ==
  ASSUME IndInv
  PROVE  /\ RecordsOK(trust) /\ CountsOK(detectors)
         /\ frozen \subseteq Ids /\ locked \subseteq frozen
         /\ \A c \in Calls : TaskOK(calls[c])
         /\ \A r \in Requests : r.id \in Ids
  BY RequestAssumption DEF IndInv, TypeOK, LockedIsFrozen, TasksOK, RecordsOK, CountsOK, ActionRequest

\* A record put into the store. 
LEMMA PutTyped ==
  ASSUME RecordsOK(trust), NEW d \in Ids, NEW s \in TrustScore
  PROVE  RecordsOK(Put(d, s))
  BY DEF RecordsOK, Put

\* Best-effort writes of feedback, lockdown and restore.
LEMMA WrittenStore ==
  ASSUME IndInv, NEW c \in Calls, calls[c].pc = "write", NEW after, StoreWrite(c, after)
  PROVE  RecordsOK(trust') /\ Goto(c, after)
<1>1. calls[c].id \in Ids /\ calls[c].score \in TrustScore /\ RecordsOK(trust)
  BY TaskFacts DEF TaskOK
<1>2. RecordsOK(Put(calls[c].id, calls[c].score))
  BY <1>1, PutTyped
<1> QED
  BY <1>1, <1>2 DEF StoreWrite

\* A delegator under lockdown is frozen: its authorize call is refused at once.
LEMMA AuthorizeStartStep ==
  ASSUME IndInv, NEW c \in Calls, AuthorizeStart(c)
  PROVE  IndInv'
<1>1. PICK r \in Requests :
        LET call == [pc |-> "score", op |-> "authorize", request |-> r, under |-> r.id \in locked]
        IN  IF r.id \in frozen THEN Goto(c, Verdict(call, 0, "Block")) ELSE Goto(c, call)
  BY DEF AuthorizeStart
<1> DEFINE call == [pc |-> "score", op |-> "authorize", request |-> r, under |-> r.id \in locked]
           rec == IF r.id \in frozen THEN Verdict(call, 0, "Block") ELSE call
<1>2. Goto(c, rec)
  BY <1>1
<1>3. TaskOK(rec)
  <2>1. CASE r.id \in frozen
    <3>1. rec.pc = "done" /\ rec.allowed = (0 >= 3)
      BY <2>1 DEF Verdict
    <3>2. ~(0 >= 3)
      OBVIOUS
    <3> HIDE DEF rec
    <3>3. ~rec.allowed
      BY <3>1, <3>2
    <3> QED
      BY <3>1, <3>3 DEF TaskOK
  <2>2. CASE r.id \notin frozen
    <3>1. rec.pc = "score" /\ rec.op = "authorize" /\ rec.request = r /\ rec.under = (r.id \in locked)
      BY <2>2
    <3>2. ~(r.id \in locked)
      BY <2>2, TaskFacts
    <3> QED
      BY <3>1, <3>2 DEF TaskOK
  <2> QED
    BY <2>1, <2>2
<1>4. UNCHANGED <<trust, frozen, detectors, policy, waiting, scope, worker, locked>>
  BY DEF AuthorizeStart
<1> HIDE DEF rec
<1> QED
  BY <1>2, <1>3, <1>4, TaskFacts, TaskStep

\* risk_score reads the store.
LEMMA RiskTrustStep ==
  ASSUME IndInv, NEW c \in Calls, RiskTrust(c)
  PROVE  IndInv'
<1>1. PICK ok \in BOOLEAN :
        Goto(c, [pc |-> "scoring", op |-> "authorize", request |-> calls[c].request,
                 under |-> calls[c].under, held |-> Stored(calls[c].request.id),
                 score |-> ScoredRecord(calls[c].request.id, ok)])
  BY DEF RiskTrust
<1> DEFINE d == calls[c].request.id
           rec == [pc |-> "scoring", op |-> "authorize", request |-> calls[c].request,
                   under |-> calls[c].under, held |-> Stored(d), score |-> ScoredRecord(d, ok)]
<1>2. calls[c].request \in Requests /\ ~calls[c].under
  BY TaskFacts DEF RiskTrust, At, TaskOK
<1>3. Weighted(ScoredRecord(d, ok)) <= Weighted(Stored(d))
  BY FailedReadScoresNothing DEF IndInv
<1>4. TaskOK(rec)
  BY <1>2, <1>3 DEF TaskOK
<1>5. UNCHANGED <<trust, frozen, detectors, policy, waiting, scope, worker, locked>>
  BY DEF RiskTrust
<1>6. Goto(c, rec)
  BY <1>1
<1> HIDE DEF rec
<1> QED
  BY <1>4, <1>5, <1>6, TaskFacts, TaskStep

\* The detector counts the request.
LEMMA RiskAnomalyStep ==
  ASSUME IndInv, NEW c \in Calls, RiskAnomaly(c)
  PROVE  IndInv'
<1> DEFINE d == calls[c].request.id
           seen == IF d \in DOMAIN detectors THEN detectors[d] ELSE 0
           n == IF seen < BaselineMin THEN seen + 1 ELSE seen
<1>1. PICK risk : Goto(c, [pc |-> "decide", op |-> "authorize", under |-> calls[c].under, risk |-> risk])
  BY DEF RiskAnomaly
<1> DEFINE rec == [pc |-> "decide", op |-> "authorize", under |-> calls[c].under, risk |-> risk]
<1>2. d \in Ids /\ ~calls[c].under
  BY TaskFacts DEF RiskAnomaly, At, TaskOK
<1>3. TaskOK(rec)
  BY <1>2 DEF TaskOK
<1>4. detectors' = IF HasRoom(d) THEN Observe(d) ELSE detectors
  BY DEF RiskAnomaly
<1>5. n \in 1 .. BaselineMin
  BY TaskFacts, ArbiterAssumption DEF CountsOK
<1>6. Observe(d) = [x \in DOMAIN detectors \cup {d} |-> IF x = d THEN n ELSE detectors[x]]
  BY DEF Observe
<1> HIDE DEF n
<1>7. CountsOK(Observe(d))
  BY <1>2, <1>5, <1>6, TaskFacts DEF CountsOK
<1>8. CountsOK(detectors')
  BY <1>4, <1>7, TaskFacts
<1>9. UNCHANGED <<trust, frozen, policy, waiting, scope, worker, locked>>
  BY DEF RiskAnomaly
<1>10. Goto(c, rec)
  BY <1>1
<1> HIDE DEF rec
<1> QED
  BY <1>3, <1>8, <1>9, <1>10, TaskFacts, TaskStep

\* The verdict of a call that was not under lockdown.
LEMMA DecideStep ==
  ASSUME IndInv, NEW c \in Calls, Decide(c)
  PROVE  IndInv'
<1> DEFINE level == MapToLevel(policy, calls[c].risk)
           rec == Verdict(calls[c], level, StrategyFor(policy, level))
<1>1. Goto(c, rec) /\ UNCHANGED <<trust, frozen, detectors, policy, waiting, scope, worker, locked>>
  BY DEF Decide
<1>2. ~calls[c].under
  BY TaskFacts DEF Decide, At, TaskOK
<1> HIDE DEF level
<1>3. rec.pc = "done" /\ rec.under = calls[c].under
  BY DEF Verdict
<1>4. TaskOK(rec)
  BY <1>2, <1>3 DEF TaskOK
<1> HIDE DEF rec
<1> QED
  BY <1>1, <1>4, TaskFacts, TaskStep

\* feedback reads, falling back to the default record, and applies the outcome.
LEMMA FeedbackReadStep ==
  ASSUME IndInv, NEW c \in Calls, FeedbackRead(c)
  PROVE  IndInv'
<1>1. PICK r \in Requests, o \in Outcomes, ok \in BOOLEAN :
        Goto(c, [pc |-> "write", op |-> "feedback", id |-> r.id,
                 score |-> ApplyOutcome(IF ok THEN Stored(r.id) ELSE DefaultScore, o),
                 without |-> ApplyOutcome(Stored(r.id), o)])
  BY DEF FeedbackRead
<1> DEFINE s == IF ok THEN Stored(r.id) ELSE DefaultScore
           score == ApplyOutcome(s, o)
           without == ApplyOutcome(Stored(r.id), o)
           rec == [pc |-> "write", op |-> "feedback", id |-> r.id, score |-> score,
                   without |-> without]
<1>2. o \in ActionOutcome /\ Stored(r.id) \in TrustScore /\ DefaultScore \in TrustScore
  BY ArbiterAssumption, StoredTyped DEF IndInv, DefaultScore, TrustScore, One
<1>3. score \in TrustScore /\ without \in TrustScore
  BY <1>2, DefaultIsLeast
<1>4. Weighted(score) <= Weighted(without)
  <2>1. Weighted(without) \in Nat
    BY <1>3, WeightedNat
  <2>2. CASE ok
    <3>1. score = without
      BY <2>2
    <3> HIDE DEF score, without
    <3> QED
      BY <2>1, <3>1
  <2>3. CASE ~ok
    BY <1>2, <2>3, DefaultIsLeast
  <2> QED
    BY <2>2, <2>3
<1> HIDE DEF score, without
<1>5. TaskOK(rec)
  BY <1>3, <1>4, TaskFacts DEF TaskOK
<1>6. Goto(c, rec)
  BY <1>1 DEF score, without
<1>7. UNCHANGED <<trust, frozen, detectors, policy, waiting, scope, worker, locked>>
  BY DEF FeedbackRead
<1> HIDE DEF rec
<1> QED
  BY <1>5, <1>6, <1>7, TaskFacts, TaskStep

\* lockdown freezes first: once its write is over the delegator is locked.
LEMMA LockdownSteps ==
  ASSUME IndInv, NEW c \in Calls, LockdownFreeze(c) \/ LockdownWrite(c)
  PROVE  IndInv'
<1>1. CASE LockdownFreeze(c)
  <2>1. PICK d \in Ids : /\ frozen' = frozen \cup {d}
                         /\ Goto(c, [pc |-> "write", op |-> "lockdown", id |-> d,
                                     score |-> LockdownScore])
    BY <1>1 DEF LockdownFreeze
  <2> DEFINE rec == [pc |-> "write", op |-> "lockdown", id |-> d, score |-> LockdownScore]
  <2>2. TaskOK(rec)
    BY SetScoresTyped DEF TaskOK
  <2>3. UNCHANGED <<trust, detectors, policy, waiting, scope, worker, locked>>
    BY <1>1 DEF LockdownFreeze
  <2>4. Goto(c, rec)
    BY <2>1
  <2> HIDE DEF rec
  <2> QED
    BY <2>1, <2>2, <2>3, <2>4, TaskFacts, TaskStep
<1>2. CASE LockdownWrite(c)
  <2>1. /\ calls[c].pc = "write" /\ StoreWrite(c, Done("lockdown"))
        /\ locked' = IF calls[c].id \in frozen THEN locked \cup {calls[c].id} ELSE locked
        /\ UNCHANGED <<frozen, detectors, policy, waiting, scope, worker>>
    BY <1>2 DEF LockdownWrite, At
  <2>2. RecordsOK(trust') /\ Goto(c, Done("lockdown"))
    BY <2>1, WrittenStore
  <2>3. TaskOK(Done("lockdown"))
    BY DEF TaskOK, Done
  <2>4. locked' \subseteq frozen'
    BY <2>1, TaskFacts
  <2> QED
    BY <2>1, <2>2, <2>3, <2>4, TaskFacts, TaskStep
<1> QED
  BY <1>1, <1>2

\* restore thaws first and ends the lockdown there; the detector goes last.
LEMMA RestoreSteps ==
  ASSUME IndInv, NEW c \in Calls, RestoreThaw(c) \/ RestoreWrite(c) \/ RestoreDetector(c)
  PROVE  IndInv'
<1>1. CASE RestoreThaw(c)
  <2>1. PICK d \in Ids, l \in Targets :
          /\ frozen' = frozen \ {d} /\ locked' = locked \ {d}
          /\ Goto(c, [pc |-> "write", op |-> "restore", id |-> d, score |-> RestoreScore(l)])
    BY <1>1 DEF RestoreThaw
  <2> DEFINE rec == [pc |-> "write", op |-> "restore", id |-> d, score |-> RestoreScore(l)]
  <2>2. RestoreScore(l) \in TrustScore
    BY SetScoresTyped, ArbiterAssumption
  <2>3. TaskOK(rec)
    BY <2>2 DEF TaskOK
  <2>4. UNCHANGED <<trust, detectors, policy, waiting, scope, worker>>
    BY <1>1 DEF RestoreThaw
  <2>5. Goto(c, rec) /\ frozen' \subseteq Ids /\ locked' \subseteq frozen'
    BY <2>1, TaskFacts
  <2> HIDE DEF rec
  <2> QED
    BY <2>3, <2>4, <2>5, TaskFacts, TaskStep
<1>2. CASE RestoreWrite(c)
  <2> DEFINE rec == [pc |-> "detector", op |-> "restore", id |-> calls[c].id]
  <2>1. /\ calls[c].pc = "write" /\ StoreWrite(c, rec)
        /\ UNCHANGED <<frozen, detectors, policy, waiting, scope, worker, locked>>
    BY <1>2 DEF RestoreWrite, At
  <2>2. TaskOK(rec)
    BY DEF TaskOK
  <2> HIDE DEF rec
  <2>3. RecordsOK(trust') /\ Goto(c, rec)
    BY <2>1, WrittenStore
  <2> QED
    BY <2>1, <2>2, <2>3, TaskFacts, TaskStep
<1>3. CASE RestoreDetector(c)
  <2>1. /\ detectors' = [x \in DOMAIN detectors \ {calls[c].id} |-> detectors[x]]
        /\ Goto(c, Done("restore"))
        /\ UNCHANGED <<trust, frozen, policy, waiting, scope, worker, locked>>
    BY <1>3 DEF RestoreDetector
  <2>2. CountsOK(detectors')
    BY <2>1, TaskFacts DEF CountsOK
  <2>3. TaskOK(Done("restore"))
    BY DEF TaskOK, Done
  <2> QED
    BY <2>1, <2>2, <2>3, TaskFacts, TaskStep
<1> QED
  BY <1>1, <1>2, <1>3

\* The write that ends feedback.
LEMMA FeedbackWriteStep ==
  ASSUME IndInv, NEW c \in Calls, FeedbackWrite(c)
  PROVE  IndInv'
<1>1. /\ calls[c].pc = "write" /\ StoreWrite(c, Done("feedback"))
      /\ UNCHANGED <<frozen, detectors, policy, waiting, scope, worker, locked>>
  BY DEF FeedbackWrite, At
<1>2. RecordsOK(trust') /\ Goto(c, Done("feedback"))
  BY <1>1, WrittenStore
<1>3. TaskOK(Done("feedback"))
  BY DEF TaskOK, Done
<1> QED
  BY <1>1, <1>2, <1>3, TaskFacts, TaskStep

(* ----------------------- the host, the decay worker ----------------------- *)

\* A step that leaves the tasks, the frozen set and the detectors alone.
LEMMA HostStep ==
  ASSUME IndInv, UNCHANGED <<calls, frozen, locked, detectors>>,
         RecordsOK(trust'), WorkerOK',
         policy' \in Policies \cup {DefaultDynamicPolicy}, ValidPolicy(policy'),
         waiting' \in Policies \cup {NoPolicy}, waiting' # NoPolicy => ValidPolicy(waiting'),
         scope' \in Scopes \cup {NoScope}
  PROVE  IndInv'
<1>1. TasksOK' /\ LockedIsFrozen'
  BY DEF IndInv, TasksOK, TaskOK, LockedIsFrozen
<1>2. worker'.left \subseteq Ids /\ worker'.score \in TrustScore
  BY DEF WorkerOK
<1>3. TypeOK'
  BY <1>2 DEF IndInv, TypeOK, RecordsOK
<1> QED
  BY <1>1, <1>3 DEF IndInv, WaitingIsValid, ValidPolicy

\* The configuration a host step finds.
LEMMA HostFacts ==
  ASSUME IndInv
  PROVE  /\ policy \in Policies \cup {DefaultDynamicPolicy} /\ ValidPolicy(policy)
         /\ waiting \in Policies \cup {NoPolicy} /\ (waiting # NoPolicy => ValidPolicy(waiting))
         /\ scope \in Scopes \cup {NoScope} /\ WorkerOK /\ RecordsOK(trust)
  BY DEF IndInv, TypeOK, WaitingIsValid, RecordsOK

\* The worker at rest.
LEMMA IdleOK ==
  /\ Idle.pc = "idle" /\ Idle.score = DefaultScore
  /\ \A left \in SUBSET Ids :
       [Idle EXCEPT !.pc = "read", !.left = left]
         \in [pc : {"idle", "read", "write"}, left : SUBSET Ids, id : Ids \cup {{}}, score : TrustScore]
  /\ \A left : [Idle EXCEPT !.pc = "read", !.left = left].pc = "read"
  /\ Idle \in [pc : {"idle", "read", "write"}, left : SUBSET Ids, id : Ids \cup {{}}, score : TrustScore]
<1>1. DefaultScore \in TrustScore
  BY DEF DefaultScore, TrustScore, One
<1> QED
  BY <1>1 DEF Idle, NoRecord

\* set_policy and the host's other calls.
LEMMA HostSteps ==
  ASSUME IndInv,
         \/ \E p \in Policies : SetPolicy(p)
         \/ PolicyWrite
         \/ \E s \in Scopes : SetDomainScope(s)
         \/ \E ds \in SUBSET DOMAIN trust : StoreDelete(ds)
  PROVE  IndInv'
<1>1. ASSUME NEW p \in Policies, SetPolicy(p) PROVE IndInv'
  <2>1. /\ waiting' = p /\ ValidPolicy(p)
        /\ UNCHANGED <<trust, frozen, detectors, policy, scope, calls, worker, locked>>
    BY <1>1 DEF SetPolicy
  <2>2. WorkerOK'
    BY <2>1, HostFacts DEF WorkerOK
  <2> QED
    BY <2>1, <2>2, HostFacts, HostStep
<1>2. CASE PolicyWrite
  <2>1. /\ policy' = waiting /\ waiting # NoPolicy /\ waiting' = NoPolicy
        /\ UNCHANGED <<trust, frozen, detectors, scope, calls, worker, locked>>
    BY <1>2 DEF PolicyWrite
  <2>2. WorkerOK'
    BY <2>1, HostFacts DEF WorkerOK
  <2> QED
    BY <2>1, <2>2, HostFacts, HostStep
<1>3. ASSUME NEW s \in Scopes, SetDomainScope(s) PROVE IndInv'
  <2>1. scope' = s /\ UNCHANGED <<trust, frozen, detectors, policy, waiting, calls, worker, locked>>
    BY <1>3 DEF SetDomainScope
  <2>2. WorkerOK'
    BY <2>1, HostFacts DEF WorkerOK
  <2> QED
    BY <2>1, <2>2, HostFacts, HostStep
<1>4. ASSUME NEW ds \in SUBSET DOMAIN trust, StoreDelete(ds) PROVE IndInv'
  <2>1. /\ trust' = [x \in DOMAIN trust \ ds |-> trust[x]]
        /\ UNCHANGED <<frozen, detectors, policy, waiting, scope, calls, worker, locked>>
    BY <1>4 DEF StoreDelete
  <2>2. WorkerOK'
    BY <2>1, HostFacts DEF WorkerOK
  <2>3. RecordsOK(trust')
    BY <2>1, HostFacts DEF RecordsOK
  <2> QED
    BY <2>1, <2>2, <2>3, HostFacts, HostStep
<1> QED
  BY <1>1, <1>2, <1>3, <1>4

\* TrustDecayWorker: it only ever writes degraded records of delegators.
LEMMA WorkerSteps ==
  ASSUME IndInv, WorkerStep
  PROVE  IndInv'
<1> DEFINE Shape == [pc : {"idle", "read", "write"}, left : SUBSET Ids, id : Ids \cup {{}},
                     score : TrustScore]
<1>1. CASE DecayTick
  <2>1. /\ worker' \in {[Idle EXCEPT !.pc = "read", !.left = DOMAIN trust], Idle}
        /\ UNCHANGED <<trust, frozen, detectors, policy, waiting, scope, calls, locked>>
    BY <1>1 DEF DecayTick, CycleStart
  <2>2. DOMAIN trust \in SUBSET Ids
    BY HostFacts DEF RecordsOK
  <2>3. worker' \in Shape /\ worker'.pc # "write"
    BY <2>1, <2>2, IdleOK
  <2>4. WorkerOK'
    BY <2>3 DEF WorkerOK
  <2> QED
    BY <2>1, <2>4, HostFacts, HostStep
<1>2. CASE DecayRead
  <2>1. UNCHANGED <<trust, frozen, detectors, policy, waiting, scope, calls, locked>>
    BY <1>2 DEF DecayRead
  <2>2. \/ worker' = Idle
        \/ \E d \in worker.left \cap DOMAIN trust :
             worker' = [worker EXCEPT !.pc = "write", !.id = d, !.left = worker.left \ {d},
                                      !.score = Degrade(trust[d], Decay)]
        \/ \E d \in worker.left :
             worker' = [worker EXCEPT !.left = worker.left \ {d}] /\ worker.pc = "read"
    BY <1>2 DEF DecayRead
  <2>3. worker \in Shape
    BY HostFacts DEF WorkerOK
  <2>4. CASE worker' = Idle
    <3>1. worker' \in Shape /\ worker'.pc # "write"
      BY <2>4, IdleOK
    <3> QED
      BY <2>1, <3>1, HostFacts, HostStep DEF WorkerOK
  <2>5. ASSUME NEW d \in worker.left \cap DOMAIN trust,
               worker' = [worker EXCEPT !.pc = "write", !.id = d, !.left = worker.left \ {d},
                                        !.score = Degrade(trust[d], Decay)]
        PROVE  IndInv'
    <3>1. d \in Ids /\ Degrade(trust[d], Decay) \in TrustScore
      BY <2>3, HostFacts, DegradeTyped DEF RecordsOK
    <3>2. worker' \in Shape /\ worker'.id = d
      BY <2>3, <2>5, <3>1
    <3> QED
      BY <2>1, <3>1, <3>2, HostFacts, HostStep DEF WorkerOK
  <2>6. ASSUME NEW d \in worker.left, worker.pc = "read",
               worker' = [worker EXCEPT !.left = worker.left \ {d}]
        PROVE  IndInv'
    <3>1. worker' \in Shape /\ worker'.pc = "read"
      BY <2>3, <2>6
    <3> QED
      BY <2>1, <3>1, HostFacts, HostStep DEF WorkerOK
  <2> QED
    BY <2>2, <2>4, <2>5, <2>6
<1>3. CASE DecayWrite
  <2>1. /\ worker.pc = "write" /\ trust' \in {trust, Put(worker.id, worker.score)}
        /\ worker' \in {[Idle EXCEPT !.pc = "read", !.left = worker.left], Idle}
        /\ UNCHANGED <<frozen, detectors, policy, waiting, scope, calls, locked>>
    BY <1>3 DEF DecayWrite
  <2>2. worker.id \in Ids /\ worker.score \in TrustScore /\ worker.left \in SUBSET Ids
    BY <2>1, HostFacts DEF WorkerOK
  <2>3. RecordsOK(trust')
    BY <2>1, <2>2, HostFacts, PutTyped
  <2>4. worker' \in Shape /\ worker'.pc # "write"
    BY <2>1, <2>2, IdleOK
  <2>5. WorkerOK'
    BY <2>4 DEF WorkerOK
  <2> QED
    BY <2>1, <2>3, <2>5, HostFacts, HostStep
<1> QED
  BY <1>1, <1>2, <1>3 DEF WorkerStep

\* A restart thaws everybody and ends every lockdown the process knew of.
LEMMA RestartStep ==
  ASSUME IndInv, Restart
  PROVE  IndInv'
<1>1. /\ frozen' = {} /\ locked' = {} /\ DOMAIN detectors' = {}
      /\ policy' = DefaultDynamicPolicy /\ waiting' = NoPolicy /\ scope' = NoScope
      /\ calls' = [c \in Calls |-> IF calls[c].pc \in {"unused", "done"} THEN calls[c]
                                   ELSE Done("lost")]
      /\ worker' = Idle /\ trust' = trust
  BY DEF Restart
<1>2. TaskOK(Done("lost"))
  BY DEF TaskOK, Done
<1>3. \A c \in Calls : TaskOK(calls'[c])
  BY <1>1, <1>2, TaskFacts
<1>4. TasksOK'
  BY <1>1, <1>3 DEF TasksOK, TaskOK
<1>5. \A c \in Calls : calls'[c].pc \in {"unused", "score", "scoring", "decide", "write", "detector", "done"}
  BY <1>3 DEF TaskOK
<1>6. WorkerOK' /\ worker'.left \subseteq Ids /\ worker'.score \in TrustScore
  BY <1>1, IdleOK DEF WorkerOK
<1>7. TypeOK'
  BY <1>1, <1>5, <1>6, DefaultIsValid DEF IndInv, TypeOK
<1> QED
  BY <1>1, <1>4, <1>6, <1>7 DEF IndInv, LockedIsFrozen, WaitingIsValid

(* -------------------------------- theorems -------------------------------- *)

\* The invariant holds of the initial states.
LEMMA IndInit == Init => IndInv
<1> SUFFICES ASSUME Init PROVE IndInv
  OBVIOUS
<1>1. DOMAIN calls = Calls /\ \A c \in Calls : calls[c] = Unused
  BY DEF Init
<1>2. TaskOK(Unused)
  BY DEF TaskOK, Unused
<1>3. TasksOK
  BY <1>1, <1>2 DEF TasksOK
<1>4. WorkerOK /\ worker.left \subseteq Ids /\ worker.score \in TrustScore
  BY IdleOK DEF Init, WorkerOK
<1>5. \A c \in Calls : calls[c].pc \in {"unused", "score", "scoring", "decide", "write", "detector", "done"}
  BY <1>3 DEF TasksOK, TaskOK
<1>6. TypeOK
  BY <1>4, <1>5, DefaultIsValid, ArbiterAssumption DEF Init, TypeOK
<1> QED
  BY <1>3, <1>4, <1>6 DEF Init, IndInv, LockedIsFrozen, WaitingIsValid

\* Every step keeps the invariant.
LEMMA IndStep == IndInv /\ [Next]_vars => IndInv'
<1> SUFFICES ASSUME IndInv, [Next]_vars PROVE IndInv'
  OBVIOUS
<1>1. CASE UNCHANGED vars
  <2>1. WorkerOK'
    BY <1>1, HostFacts DEF vars, WorkerOK
  <2> QED
    BY <1>1, <2>1, HostFacts, HostStep DEF vars
<1>2. ASSUME NEW c \in Calls, Begin(c) PROVE IndInv'
  BY <1>2, AuthorizeStartStep, FeedbackReadStep, LockdownSteps, RestoreSteps DEF Begin
<1>3. ASSUME NEW c \in Calls, Continue(c) PROVE IndInv'
  BY <1>3, RiskTrustStep, RiskAnomalyStep, DecideStep, FeedbackWriteStep, LockdownSteps, RestoreSteps
     DEF Continue
<1> QED
  BY <1>1, <1>2, <1>3, HostSteps, RestartStep, WorkerSteps DEF Next

\* The invariant holds of every reachable state.
LEMMA Inductive == Spec => []IndInv
<1> QED
  BY IndInit, IndStep, PTL DEF Spec

\* arbiter.rs lockdown and authorize: no call that began after a lockdown returned and
\* before a restore of that delegator is ever allowed, whatever policy, scope, trust
\* or failing store it meets.
THEOREM LockdownIsFinal == Spec => []LockdownHolds
<1>1. IndInv => LockdownHolds
  BY DEF IndInv, TasksOK, TaskOK, LockdownHolds, At
<1> QED
  BY <1>1, Inductive, PTL

\* arbiter.rs risk_score and feedback, trust.rs: a store that fails or has no record
\* never makes a delegator more trusted than the record it hides, and every record,
\* detector and installed policy stays in its range.
THEOREM FaultsNeverAddTrust == Spec => []FaultsOnlyLower
<1>1. IndInv => FaultsOnlyLower
  BY DEF IndInv, TasksOK, TaskOK, FaultsOnlyLower, ErrorsOnlyLowerTrust, At
<1> QED
  BY <1>1, Inductive, PTL
=============================================================================
