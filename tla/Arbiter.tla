------------------------------- MODULE Arbiter -------------------------------
(* The dynamic authorization arbiter (src/src/rbac/dynamic/arbiter.rs) with its
   trust store and the decay worker (trust.rs) and the per-delegator anomaly
   detectors (anomaly.rs). Operations run as tasks; every await is a step.

   The trust store is the host's: it keeps its records over a restart of the
   process and any of its calls may fail. The frozen set, the detectors and the
   installed policy are the process's own. The policy sits behind a tokio RwLock,
   which queues a reader behind a waiting writer. *)
EXTENDS TrustScores, TaskDomains

CONSTANTS
    Ids,            \* delegators
    Calls,          \* tasks; each runs one operation
    Requests,       \* [id, type, category, path] records
    Outcomes,       \* the outcomes feedback is given
    Policies,       \* the policies set_policy is given, valid or not
    Scopes,         \* the domain scopes set_domain_scope is given
    Targets,        \* the levels restore is given
    Deviations,     \* what a detector with a baseline may answer
    Seeds,          \* records earlier runs of the process left in the store
    MaxDetectors,   \* max_detectors
    BaselineMin,    \* BASELINE_MIN_SAMPLES
    Decay,          \* trust one decay interval takes
    MaxFaults       \* bound on failing store calls and restarts

ASSUME ArbiterAssumption ==
    /\ MaxDetectors \in Nat /\ BaselineMin \in Nat \ {0} /\ Decay \in Nat \ {0}
    /\ MaxFaults \in Nat
    /\ Outcomes \subseteq ActionOutcome /\ Targets \subseteq AutonomyLevel
    /\ Deviations \subseteq 0..One /\ Seeds \subseteq TrustScore

ActionRequest ==
    [id : Ids, type : DelegatorType, category : ActionCategory, path : Seq(STRING)]

ASSUME RequestAssumption == Requests \subseteq ActionRequest

VARIABLES
    trust,      \* the store: a function from the ids that have a record
    frozen,     \* ids under lockdown, in this process
    detectors,  \* ids with a detector |-> observations, counted to BaselineMin
    policy,     \* the installed policy
    waiting,    \* the policy a set_policy call waits to write, or NoPolicy
    scope,      \* the installed domain scope, or NoScope
    calls,      \* the task in each slot
    worker,     \* the decay worker: pc, ids left, record in hand
    faults,
    locked      \* history: ids whose lockdown returned and no restore began

vars == <<trust, frozen, detectors, policy, waiting, scope, calls, worker, faults,
          locked>>

NoPolicy == [policy |-> "none"]
NoScope == [scope |-> "none"]
NoRecord == DefaultScore

Unused == [pc |-> "unused", op |-> "none"]
Done(op) == [pc |-> "done", op |-> op]
Idle == [pc |-> "idle", left |-> {}, id |-> {}, score |-> NoRecord]

Stored(d) == IF d \in DOMAIN trust THEN trust[d] ELSE DefaultScore

Put(d, s) == [x \in DOMAIN trust \cup {d} |-> IF x = d THEN s ELSE trust[x]]

At(c, pc, op) == calls[c].pc = pc /\ calls[c].op \in op

Goto(c, rec) == calls' = [calls EXCEPT ![c] = rec]

\* A store call that may fail, or a restart: ok says that nothing goes wrong.
Faulty(ok) == IF ok THEN UNCHANGED faults ELSE faults < MaxFaults /\ faults' = faults + 1

\* Mutant: the lock is kept while the policy is read again.
ReadersKept == {c \in Calls : calls[c].pc \in {"scoring", "decide"}}

\* The tasks that hold the policy's read lock, which risk_score keeps from before
\* it asks the trust store until it has its number.
Readers == {c \in Calls : calls[c].pc = "scoring"}

Init ==
    /\ trust \in [Ids -> Seeds]
    /\ frozen = {} /\ detectors = [d \in {} |-> 0]
    /\ policy = DefaultDynamicPolicy /\ waiting = NoPolicy /\ scope = NoScope
    /\ calls = [c \in Calls |-> Unused]
    /\ worker = Idle
    /\ faults = 0 /\ locked = {}

(* ------------------------------- authorize ------------------------------- *)

\* log_verdict is not a step of its own: it appends the verdict to the audit log
\* (AuditPipeline) and cannot change it.
Verdict(call, level, strategy) ==
    [pc |-> "done", op |-> "authorize", under |-> call.under, level |-> level, allowed |-> level >= 3,
     mitigation |-> IF level >= 3 /\ strategy # "Throttle" THEN "none" ELSE strategy]

\* Mutant: the frozen set is not consulted.
AuthorizeStartUnchecked(c) ==
    /\ At(c, "unused", {"none"})
    /\ \E r \in Requests :
         Goto(c, [pc |-> "score", op |-> "authorize", request |-> r, under |-> r.id \in locked])
    /\ UNCHANGED <<trust, frozen, detectors, policy, waiting, scope, worker, faults, locked>>

\* The frozen set is read and released before anything is scored.
AuthorizeStart(c) ==
    /\ At(c, "unused", {"none"})
    /\ \E r \in Requests :
         LET call == [pc |-> "score", op |-> "authorize", request |-> r, under |-> r.id \in locked]
         IN  IF r.id \in frozen
             THEN Goto(c, Verdict(call, 0, "Block"))
             ELSE Goto(c, call)
    /\ UNCHANGED <<trust, frozen, detectors, policy, waiting, scope, worker, faults, locked>>

\* Mutant: a store that fails is scored as neutral.
ScoredRecordNeutral(d, ok) == IF ok THEN Stored(d) ELSE NewScore(500)

\* The record that is scored: a missing one is the default, and a store that
\* fails is scored as zero trust held with full confidence.
ScoredRecord(d, ok) == IF ok THEN Stored(d) ELSE [DefaultScore EXCEPT !.confidence = One]

RiskTrust(c) ==
    /\ At(c, "score", {"authorize"})
    /\ waiting = NoPolicy
    /\ \E ok \in BOOLEAN :
         /\ Faulty(ok)
         /\ Goto(c, [pc |-> "scoring", op |-> "authorize", request |-> calls[c].request,
                     under |-> calls[c].under, held |-> Stored(calls[c].request.id),
                     score |-> ScoredRecord(calls[c].request.id, ok)])
    /\ UNCHANGED <<trust, frozen, detectors, policy, waiting, scope, worker, locked>>

\* 1 - weighted, raised by what a trust floor of the domain is missed by.
TrustPenalty(s) ==
    LET short == IF scope = NoScope THEN 0 ELSE scope.current.floor * 1000 - Weighted(s)
        raised == 1000000 - Weighted(s) + (IF short > 0 THEN short ELSE 0)
    IN  IF raised > 1000000 THEN 1000000 ELSE raised

\* A delegator gets a detector unless the map is full; the detector counts the
\* request, is cold before BaselineMin of them and answers some deviation after.
HasRoom(d) == Cardinality(DOMAIN detectors) < MaxDetectors \/ d \in DOMAIN detectors

Observe(d) ==
    LET seen == IF d \in DOMAIN detectors THEN detectors[d] ELSE 0
        n == IF seen < BaselineMin THEN seen + 1 ELSE seen
    IN  [x \in DOMAIN detectors \cup {d} |-> IF x = d THEN n ELSE detectors[x]]

AnomalyScores(d) ==
    IF ~HasRoom(d) THEN {150} ELSE IF Observe(d)[d] < BaselineMin THEN {100} ELSE Deviations

RiskValue(r, s, anomaly) ==
    LET w == policy.weights
        mismatch == IF scope = NoScope THEN 0 ELSE DomainMismatch(scope, r.category, r.path)
        raw == 1000 * (DelegatorWeight(r.type) * w[1] + BaseWeight(r.category) * w[3]
                         + mismatch * w[4] + anomaly * w[5]) + TrustPenalty(s) * w[2]
    IN  IF raw > 100000000 THEN 100000000 ELSE raw

\* The domain scope and the detector map are read one await apart; nothing else
\* takes both, so one step stands for the two.
RiskAnomaly(c) ==
    LET r == calls[c].request
    IN  /\ At(c, "scoring", {"authorize"})
        /\ \E a \in AnomalyScores(r.id) :
             LET risk == RiskValue(r, calls[c].score, a)
             IN  Goto(c, [pc |-> "decide", op |-> "authorize", under |-> calls[c].under, risk |-> risk])
        /\ detectors' = IF HasRoom(r.id) THEN Observe(r.id) ELSE detectors
        /\ UNCHANGED <<trust, frozen, policy, waiting, scope, worker, faults, locked>>

\* The policy is read a second time for its bands.
Decide(c) ==
    /\ At(c, "decide", {"authorize"})
    /\ waiting = NoPolicy
    /\ LET level == MapToLevel(policy, calls[c].risk)
       IN  Goto(c, Verdict(calls[c], level, StrategyFor(policy, level)))
    /\ UNCHANGED <<trust, frozen, detectors, policy, waiting, scope, worker, faults, locked>>

(* ------------------------ feedback, lockdown, restore --------------------- *)

ApplyOutcome(s, o) ==
    CASE o.kind = "Success" -> OnCompliantBehavior(s, 500)
      [] o.kind = "Failure" -> OnPolicyViolation(s, 200)
      [] o.kind = "PolicyViolation" -> OnPolicyViolation(s, 800)
      [] o.kind = "Anomalous" -> OnPolicyViolation(s, o.deviation)

\* A failed read falls back to the default record. "without" is the score the
\* outcome would have given had the read not failed.
FeedbackRead(c) ==
    /\ At(c, "unused", {"none"})
    /\ \E r \in Requests, o \in Outcomes, ok \in BOOLEAN :
         /\ Faulty(ok)
         /\ Goto(c, [pc |-> "write", op |-> "feedback", id |-> r.id,
                     score |-> ApplyOutcome(IF ok THEN Stored(r.id) ELSE DefaultScore, o),
                     without |-> ApplyOutcome(Stored(r.id), o)])
    /\ UNCHANGED <<trust, frozen, detectors, policy, waiting, scope, worker, locked>>

\* Every write is best effort: a failure is logged and the operation goes on.
StoreWrite(c, after) ==
    /\ \E ok \in BOOLEAN :
         /\ Faulty(ok)
         /\ trust' = IF ok THEN Put(calls[c].id, calls[c].score) ELSE trust
    /\ Goto(c, after)

FeedbackWrite(c) ==
    /\ At(c, "write", {"feedback"})
    /\ StoreWrite(c, Done("feedback"))
    /\ UNCHANGED <<frozen, detectors, policy, waiting, scope, worker, locked>>

LockdownScore == [NewScore(0) EXCEPT !.confidence = One, !.evidence_count = 999]

LockdownFreeze(c) ==
    /\ At(c, "unused", {"none"})
    /\ \E d \in Ids : /\ frozen' = frozen \cup {d}
                      /\ Goto(c, [pc |-> "write", op |-> "lockdown", id |-> d,
                                  score |-> LockdownScore])
    /\ UNCHANGED <<trust, detectors, policy, waiting, scope, worker, faults, locked>>

LockdownWrite(c) ==
    /\ At(c, "write", {"lockdown"})
    /\ StoreWrite(c, Done("lockdown"))
    /\ locked' = IF calls[c].id \in frozen THEN locked \cup {calls[c].id} ELSE locked
    /\ UNCHANGED <<frozen, detectors, policy, waiting, scope, worker>>

RestoreScore(target) ==
    [NewScore(<<100, 400, 600, 800, 950>>[target + 1]) EXCEPT
        !.confidence = 800, !.evidence_count = 10]

RestoreThaw(c) ==
    /\ At(c, "unused", {"none"})
    /\ \E d \in Ids, l \in Targets :
         /\ frozen' = frozen \ {d}
         /\ locked' = locked \ {d}
         /\ Goto(c, [pc |-> "write", op |-> "restore", id |-> d, score |-> RestoreScore(l)])
    /\ UNCHANGED <<trust, detectors, policy, waiting, scope, worker, faults>>

RestoreWrite(c) ==
    /\ At(c, "write", {"restore"})
    /\ StoreWrite(c, [pc |-> "detector", op |-> "restore", id |-> calls[c].id])
    /\ UNCHANGED <<frozen, detectors, policy, waiting, scope, worker, locked>>

RestoreDetector(c) ==
    /\ At(c, "detector", {"restore"})
    /\ detectors' = [x \in DOMAIN detectors \ {calls[c].id} |-> detectors[x]]
    /\ Goto(c, Done("restore"))
    /\ UNCHANGED <<trust, frozen, policy, waiting, scope, worker, faults, locked>>

(* ------------------------- configuration, the host ------------------------ *)

\* set_policy validates first, then queues for the write lock.
SetPolicy(p) ==
    /\ waiting = NoPolicy
    /\ ValidPolicy(p) /\ p # policy
    /\ waiting' = p
    /\ UNCHANGED <<trust, frozen, detectors, policy, scope, calls, worker, faults, locked>>

PolicyWrite ==
    /\ waiting # NoPolicy /\ Readers = {}
    /\ policy' = waiting /\ waiting' = NoPolicy
    /\ UNCHANGED <<trust, frozen, detectors, scope, calls, worker, faults, locked>>

SetDomainScope(s) ==
    /\ scope' = s /\ s # scope
    /\ UNCHANGED <<trust, frozen, detectors, policy, waiting, calls, worker, faults, locked>>

\* The host deletes a record, or sweeps the ones older than a max_age it picks:
\* any set of records may go.
StoreDelete(ds) ==
    /\ ds # {}
    /\ trust' = [x \in DOMAIN trust \ ds |-> trust[x]]
    /\ UNCHANGED <<frozen, detectors, policy, waiting, scope, calls, worker, faults, locked>>

\* The process restarts: tasks under way end, the store keeps its records, the
\* host spawns the decay worker anew.
Restart ==
    /\ Faulty(FALSE)
    /\ frozen' = {} /\ locked' = {} /\ detectors' = [d \in {} |-> 0]
    /\ policy' = DefaultDynamicPolicy /\ waiting' = NoPolicy /\ scope' = NoScope
    /\ calls' = [c \in Calls |-> IF calls[c].pc \in {"unused", "done"} THEN calls[c]
                                 ELSE Done("lost")]
    /\ worker' = Idle
    /\ UNCHANGED trust

(* ----------------------------- the decay worker --------------------------- *)

\* Mutant: an error ends the worker's loop.
CycleStartFatal(ok) ==
    IF ok THEN [Idle EXCEPT !.pc = "read", !.left = DOMAIN trust] ELSE [Idle EXCEPT !.pc = "stopped"]

\* An interval passes and the worker starts a cycle
\* with the ids the store lists now. An error of any store call ends the cycle
\* and the loop waits for the next interval.
CycleStart(ok) == IF ok THEN [Idle EXCEPT !.pc = "read", !.left = DOMAIN trust] ELSE Idle

DecayTick ==
    /\ worker.pc = "idle"
    /\ \E ok \in BOOLEAN : Faulty(ok) /\ worker' = CycleStart(ok)
    /\ UNCHANGED <<trust, frozen, detectors, policy, waiting, scope, calls, locked>>

\* An id deleted since the listing is skipped.
DecayRead ==
    /\ worker.pc = "read"
    /\ IF worker.left = {} THEN worker' = Idle /\ UNCHANGED faults
       ELSE \E d \in worker.left, ok \in BOOLEAN :
              /\ Faulty(ok)
              /\ worker' = IF ~ok THEN Idle
                           ELSE IF d \in DOMAIN trust
                                THEN [worker EXCEPT !.pc = "write", !.id = d, !.left = @ \ {d},
                                                    !.score = Degrade(trust[d], Decay)]
                                ELSE [worker EXCEPT !.left = @ \ {d}]
    /\ UNCHANGED <<trust, frozen, detectors, policy, waiting, scope, calls, locked>>

DecayWrite ==
    /\ worker.pc = "write"
    /\ \E ok \in BOOLEAN :
         /\ Faulty(ok)
         /\ trust' = IF ok THEN Put(worker.id, worker.score) ELSE trust
         /\ worker' = IF ok THEN [Idle EXCEPT !.pc = "read", !.left = worker.left] ELSE Idle
    /\ UNCHANGED <<frozen, detectors, policy, waiting, scope, calls, locked>>

WorkerStep == DecayTick \/ DecayRead \/ DecayWrite

(* ------------------------------ specification ----------------------------- *)

Begin(c) ==
    \/ AuthorizeStart(c) \/ FeedbackRead(c)
    \/ LockdownFreeze(c) \/ RestoreThaw(c)

Continue(c) ==
    \/ RiskTrust(c) \/ RiskAnomaly(c) \/ Decide(c) \/ FeedbackWrite(c)
    \/ LockdownWrite(c) \/ RestoreWrite(c) \/ RestoreDetector(c)

Next ==
    \/ \E c \in Calls : Begin(c) \/ Continue(c)
    \/ \E p \in Policies : SetPolicy(p)
    \/ PolicyWrite
    \/ \E s \in Scopes : SetDomainScope(s)
    \/ \E ds \in SUBSET DOMAIN trust : StoreDelete(ds)
    \/ Restart
    \/ WorkerStep

\* A task that has begun is polled until it ends, the queued writer gets the lock
\* when its readers are gone, and the worker's timer fires. Fairness to a task is
\* strong because the lock serves its queue in order: a reader may wait for one
\* writer, not for every later one. New calls, faults and the host's operations
\* are not owed to anyone.
Fairness ==
    /\ \A c \in Calls : SF_vars(Continue(c))
    /\ WF_vars(PolicyWrite)
    /\ WF_vars(WorkerStep)

Spec == Init /\ [][Next]_vars /\ Fairness

(* ------------------------------- properties ------------------------------- *)

\* Types of the state: the store, the frozen set, the detectors and the tasks.
TypeOK ==
    /\ DOMAIN trust \subseteq Ids /\ \A d \in DOMAIN trust : trust[d] \in TrustScore
    /\ frozen \subseteq Ids /\ locked \subseteq Ids
    /\ DOMAIN detectors \subseteq Ids /\ \A d \in DOMAIN detectors : detectors[d] \in 1..BaselineMin
    /\ policy \in {p \in Policies \cup {DefaultDynamicPolicy} : ValidPolicy(p)}
    /\ waiting \in Policies \cup {NoPolicy} /\ scope \in Scopes \cup {NoScope}
    /\ \A c \in Calls : calls[c].pc \in {"unused", "score", "scoring", "decide", "write", "detector", "done"}
    /\ worker.left \subseteq Ids /\ worker.score \in TrustScore

\* authorize: no call that began after a lockdown returned, and before a restore
\* of that delegator, is allowed, whatever feedback, decay, failing writes or a
\* new policy did to its trust and its risk in between.
LockdownHolds ==
    \A c \in Calls : At(c, "done", {"authorize"}) /\ calls[c].under => ~calls[c].allowed

\* risk_score and feedback: a store that fails, or has no record, never makes a
\* delegator more trusted than the record it hides.
ErrorsOnlyLowerTrust ==
    \A c \in Calls :
        /\ calls[c].pc = "scoring" => Weighted(calls[c].score) <= Weighted(calls[c].held)
        /\ At(c, "write", {"feedback"}) => Weighted(calls[c].score) <= Weighted(calls[c].without)

\* Faults never add trust, and no score, confidence or evidence count leaves its range.
FaultsOnlyLower == TypeOK /\ ErrorsOnlyLowerTrust

\* authorize reads the policy lock twice with set_policy queueing in between: it
\* still answers, or its process restarts.
AuthorizeAnswers ==
    \A c \in Calls : At(c, "score", {"authorize"}) ~> At(c, "done", {"authorize", "lost"})

\* TrustDecayWorker: once the outcomes stop, every record left ages to no trust
\* at all; a cycle that a failing store aborted does not stop the worker.
TrustAges == <>[](\A d \in DOMAIN trust : Weighted(trust[d]) = 0)

\* lockdown: the store keeps the low score a completed lockdown wrote, as long as
\* nothing is reported for the delegator and it is not restored.
LockdownPinned == \A d \in locked \cap DOMAIN trust : trust[d].value = 0

(* ----------------------- the inductive strengthening ---------------------- *)

\* Every delegator whose lockdown returned is frozen in this process.
LockedIsFrozen == locked \subseteq frozen

\* What a task has in hand: no authorize call that goes on to be scored began under
\* a lockdown, and what is about to be written is a record of a delegator.
TaskOK(x) ==
    /\ x.pc \in {"unused", "score", "scoring", "decide", "write", "detector", "done"}
    /\ x.pc \in {"score", "scoring", "decide"} => x.op = "authorize" /\ ~x.under
    /\ x.pc \in {"score", "scoring"} => x.request \in Requests
    /\ x.pc = "scoring" => Weighted(x.score) <= Weighted(x.held)
    /\ x.pc = "write" => x.id \in Ids /\ x.score \in TrustScore
    /\ (x.pc = "write" /\ x.op = "feedback") => Weighted(x.score) <= Weighted(x.without)
    /\ (x.pc = "done" /\ x.op = "authorize" /\ x.under) => ~x.allowed

TasksOK == DOMAIN calls = Calls /\ \A c \in Calls : TaskOK(calls[c])

WorkerOK ==
    /\ worker \in [pc : {"idle", "read", "write"}, left : SUBSET Ids, id : Ids \cup {{}},
                   score : TrustScore]
    /\ worker.pc = "write" => worker.id \in Ids

WaitingIsValid == waiting # NoPolicy => ValidPolicy(waiting)

IndInv == TypeOK /\ LockedIsFrozen /\ TasksOK /\ WorkerOK /\ WaitingIsValid
=============================================================================
