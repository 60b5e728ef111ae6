---------------------------- MODULE PasswordRules ----------------------------
(* The password policy (rbac/policy.rs) in the flow its module documentation gives to a
   service: bootstrap an account with a temporary password, ask change_requirement at
   login, and on a change store the new hash and then the rotated state.  Storing the
   hash and the state are separate writes; the reference state store is in memory and
   comes back empty after a restart, and an account without a state is adopted by the
   rule the deployment chose.  Time is in days and the login's clock may lag. *)
EXTENDS Naturals

CONSTANTS
    Policies,     \* configurations: [enabled, force, max_age]; max_age is {} or {days}
    Skews,        \* how far a node's clock may lag
    MaxDay        \* bound: clock

ASSUME PasswordAssumption == MaxDay \in Nat /\ Skews \subseteq Nat

VARIABLES policy, adoption, durable, hash, state, changing, day, verdict

deployment == <<adoption, durable>>
wvars == <<policy, deployment, hash, state, changing, day, verdict>>

NoState == [recorded |-> FALSE, is_initial |-> FALSE, changed_at |-> 0]
InitialState(d) == [recorded |-> TRUE, is_initial |-> TRUE, changed_at |-> d]
Rotated(d) == [recorded |-> TRUE, is_initial |-> FALSE, changed_at |-> d]

(* from_config refuses Some(0), which would expire every password at once. *)
FromConfig(p) == p.max_age # {0}

(* Whole days since the change; a change in the future has age zero. *)
AgeDays(s, d) == IF d < s.changed_at THEN 0 ELSE d - s.changed_at

(* change_requirement: off, bootstrap first, then expiry at exactly max_age days. *)
ChangeRequirement(p, s, d) ==
    IF ~ p.enabled THEN "None"
    ELSE IF p.force /\ s.is_initial THEN "InitialPassword"
    ELSE IF \E days \in p.max_age : AgeDays(s, d) >= days THEN "Expired"
    ELSE "None"

(* bootstrap_credential: a random temporary password with its initial state. *)
PasswordInit ==
    /\ policy \in {p \in Policies : FromConfig(p)}
    /\ adoption \in {"initial", "rotated"} /\ durable \in BOOLEAN
    /\ hash = [value |-> "temporary", set_at |-> 0]
    /\ state = InitialState(0)
    /\ changing = FALSE
    /\ day = 0
    /\ verdict = [reason |-> "asked", hash |-> "temporary", policy |-> policy]

NextDay ==
    /\ day < MaxDay
    /\ day' = day + 1
    /\ UNCHANGED <<policy, deployment, hash, state, changing, verdict>>

(* Mutant: an account without a state passes as rotated. *)
MutKnown == IF state.recorded THEN state ELSE Rotated(0)

(* Login: the state is read back; an account without one is adopted either as an initial
   password or as rotated when it was created. *)
Known ==
    IF state.recorded THEN state
    ELSE IF adoption = "initial" THEN InitialState(day) ELSE Rotated(0)

Login(skew) ==
    /\ skew <= day
    /\ verdict' = [reason |-> ChangeRequirement(policy, Known, day - skew),
                   hash |-> hash.value, policy |-> policy]
    /\ state' = Known
    /\ UNCHANGED <<policy, deployment, hash, changing, day>>

(* A change: the hash first ... *)
StoreHash ==
    /\ ~ changing
    /\ hash' = [value |-> "chosen", set_at |-> day]
    /\ changing' = TRUE
    /\ UNCHANGED <<policy, deployment, state, day, verdict>>

(* ... then the state. *)
PutRotated ==
    /\ changing
    /\ state' = Rotated(day)
    /\ changing' = FALSE
    /\ UNCHANGED <<policy, deployment, hash, day, verdict>>

(* The service stops, perhaps between the two; states kept in memory are gone. *)
Crash ==
    /\ changing' = FALSE
    /\ state' = IF durable THEN state ELSE NoState
    /\ UNCHANGED <<policy, deployment, hash, day, verdict>>

(* The master switch: the rules are kept. *)
WithEnabled(on) ==
    /\ policy' = [policy EXCEPT !.enabled = on]
    /\ UNCHANGED <<deployment, hash, state, changing, day, verdict>>

PasswordNext ==
    \/ NextDay \/ StoreHash \/ PutRotated \/ Crash
    \/ \E skew \in Skews : Login(skew)
    \/ \E on \in BOOLEAN : WithEnabled(on)

PasswordSpec == PasswordInit /\ [][PasswordNext]_wvars

-----------------------------------------------------------------------------
PasswordTypeOK ==
    /\ state.changed_at \in 0..MaxDay /\ day \in 0..MaxDay
    /\ verdict.reason \in {"asked", "None", "InitialPassword", "Expired"}

(* With the bootstrap rule on, no login goes through on the machine-generated password,
   whatever crashes fall between storing a new hash and recording its state - unless the
   states were in memory and the deployment adopts unknown accounts as rotated. *)
BootstrapNeverPasses ==
    (verdict.hash = "temporary" /\ verdict.policy.enabled /\ verdict.policy.force
     /\ (durable \/ adoption = "initial")) =>
        verdict.reason \in {"asked", "InitialPassword"}

(* The bootstrap password never signs in while the rule is on, crashes included. *)
TemporaryNeverPasses == PasswordTypeOK /\ BootstrapNeverPasses

(* The inductive strengthening: while the machine-generated password is the stored one,
   no state that outlives the service or is adopted says it was rotated. *)
StateKept ==
    /\ state \in [recorded : BOOLEAN, is_initial : BOOLEAN, changed_at : 0..MaxDay]
    /\ durable => state.recorded
    /\ changing => hash.value # "temporary"
    /\ hash.value = "temporary" /\ state.recorded /\ (durable \/ adoption = "initial") =>
           state.is_initial

PasswordInv == TemporaryNeverPasses /\ StateKept
=============================================================================
