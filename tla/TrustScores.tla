----------------------------- MODULE TrustScores -----------------------------
(* The trust arithmetic of the dynamic layer (src/src/rbac/dynamic/trust.rs,
   policy.rs, verdict.rs, metrics.rs) in integers. A score's value and confidence
   are thousandths, a product of the two millionths, a policy's weights
   hundredths, so a risk is counted in units of 1e-8; quotients round down. *)
EXTENDS Integers, FiniteSets

Least(a, b) == IF a < b THEN a ELSE b
Most(a, b) == IF a > b THEN a ELSE b

One == 1000

(* ------------------------------- trust.rs -------------------------------- *)

\* The record kept for one delegator. last_updated only decides what the host's
\* retention removes, and degradation_rate is the same for all: both are left out.
TrustScore == [value : 0..One, confidence : 0..One, evidence_count : Nat]

DefaultScore == [value |-> 0, confidence |-> 0, evidence_count |-> 0]

NewScore(v) == [value |-> v, confidence |-> Least(v, 500), evidence_count |-> 0]

\* Only the product is ever scored.
Weighted(s) == s.value * s.confidence

\* 1 - 1/(1 + n/100), at most 0.99.
ConfidenceOf(n) == Least((One * n) \div (100 + n), 990)

Observed(s, v) ==
    [value |-> v, confidence |-> ConfidenceOf(s.evidence_count + 1),
     evidence_count |-> s.evidence_count + 1]

\* severity is in thousandths.
OnCompliantBehavior(s, severity) == Observed(s, Least(s.value + severity \div 100, One))

OnPolicyViolation(s, severity) ==
    Observed(s, Most(s.value - severity \div 10 - Most(severity - 800, 0) \div 5, 0))

\* Mutant: no floor.
DegradeUnfloored(s, decay) == [s EXCEPT !.value = @ - decay, !.confidence = @ - decay \div 2]

\* decay is degradation_rate * elapsed; the confidence loses half of it.
Degrade(s, decay) ==
    [s EXCEPT !.value = Most(@ - decay, 0), !.confidence = Most(@ - decay \div 2, 0)]

(* ------------------------------ verdict.rs ------------------------------- *)

\* L0Frozen .. L4FullAutonomy
AutonomyLevel == 0..4

Strategy == {"Allow", "Throttle", "RequireConfirmation", "Block"}

\* ActionOutcome, with the deviation an Anomalous outcome carries.
ActionOutcome == [kind : {"Success", "Failure", "PolicyViolation"}, deviation : {0}]
                 \cup [kind : {"Anomalous"}, deviation : 0..One]

(* ------------------------------ metrics.rs, delegator.rs ----------------- *)

ActionCategory == {"ReadOnly", "StateWrite", "FileWrite", "NetworkEgress", "ProcessExec",
                   "ContainerLifecycle"}

BaseWeight(category) ==
    [ReadOnly |-> 100, StateWrite |-> 300, FileWrite |-> 500, NetworkEgress |-> 700,
     ProcessExec |-> 800, ContainerLifecycle |-> 900][category]

DelegatorType == {"Human", "Agent", "SubAgent", "ExternalSystem", "Scheduler"}

DelegatorWeight(type) ==
    [Human |-> 0, Agent |-> 50, SubAgent |-> 150, ExternalSystem |-> 300, Scheduler |-> 20][type]

(* ------------------------------- policy.rs ------------------------------- *)

\* A policy: five weights, a band [min, max) per level, a strategy per level.
\* The levels without a band or a strategy are missing from the domains.
DefaultDynamicPolicy ==
    [weights |-> <<10, 30, 25, 25, 10>>,
     bands |-> [l \in AutonomyLevel |->
                   <<<<80, 101>>, <<60, 80>>, <<35, 60>>, <<15, 35>>, <<0, 15>>>>[l + 1]],
     strategies |-> [l \in AutonomyLevel |->
                   <<"Block", "RequireConfirmation", "RequireConfirmation", "Throttle",
                     "Allow">>[l + 1]]]

\* The highest level whose band holds the risk; a risk in no band is frozen.
MapToLevel(policy, risk) ==
    LET fits == {l \in DOMAIN policy.bands : /\ risk >= policy.bands[l][1] * 1000000
                                             /\ risk < policy.bands[l][2] * 1000000}
    IN  IF fits = {} THEN 0 ELSE CHOOSE l \in fits : \A k \in fits : k <= l

StrategyFor(policy, level) ==
    IF level \in DOMAIN policy.strategies THEN policy.strategies[level] ELSE "Block"

ValidPolicy(policy) ==
    LET w == policy.weights
    IN  /\ w[1] + w[2] + w[3] + w[4] + w[5] \in 95..105
        /\ \A i \in 1..5 : w[i] \in 0..100
        /\ \A l \in DOMAIN policy.bands :
             /\ policy.bands[l][1] < policy.bands[l][2]
             /\ policy.bands[l][1] >= 0 /\ policy.bands[l][2] <= 110
             /\ l \in DOMAIN policy.strategies
=============================================================================
