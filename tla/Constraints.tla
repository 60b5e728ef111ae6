----------------------------- MODULE Constraints -----------------------------
(* Constraint policies, their in-memory store and the validator (rbac/constraints/).
   An assigner reads the subject's roles and the role's holder count, runs
   validate_assignment (four store reads, one lock each, in order) and then writes the
   assignment.  Nothing is locked across these steps, so policy changes and other
   assignments fall between them. *)
EXTENDS Naturals, FiniteSets

CONSTANTS
    Subjects, AssignableRoles,
    Assigners,       \* concurrent callers of validate_assignment
    SsdChoices,      \* policies an operator may add: [name, roles, cardinality]
    CardChoices,     \* [role_name, max_subjects]
    PreChoices,      \* [role_name, requires]
    TempChoices,     \* [role_name, valid_from, valid_until]
    Seeds,           \* policies a deployment starts with: [ssd, cardinality, prerequisites, temporal]
    MaxTime,         \* bound: clock
    MaxEdits,        \* bound: policy changes
    MaxCalls         \* bound: assignments asked for

(* max_subjects is a usize; accounts and concurrent callers are finitely many. *)
ASSUME ConstraintsAssumption ==
    /\ IsFiniteSet(Subjects) /\ IsFiniteSet(Assigners) /\ MaxTime \in Nat
    /\ \A c \in CardChoices : c.max_subjects \in Nat
    /\ \A seed \in Seeds : /\ seed.ssd \subseteq SsdChoices /\ seed.cardinality \subseteq CardChoices
                           /\ seed.prerequisites \subseteq PreChoices
                           /\ seed.temporal \subseteq TempChoices

VARIABLES ssd, cardinality, prerequisites, temporal, assigned, calls, time, edits, begun

cvars == <<ssd, cardinality, prerequisites, temporal, assigned, calls, time, edits, begun>>
policyVars == <<ssd, cardinality, prerequisites, temporal>>

Idle == [step |-> "idle", subject |-> "none", role |-> "none", roles |-> {}, count |-> 0,
         alone |-> TRUE]

(* The constructors clamp a bound to at least one and refuse an empty window. *)
AtLeastOne(n) == IF n < 1 THEN 1 ELSE n

(* Mutant: the bound itself is still let through. *)
MutCardinalityValidate(c, count) == count <= AtLeastOne(c.max_subjects)

(* The predicates of policies.rs. *)
SsdValidate(p, roles) == Cardinality(roles \cap p.roles) < AtLeastOne(p.cardinality)
CardinalityValidate(c, count) == count < AtLeastOne(c.max_subjects)
PrerequisiteValidate(c, roles) == c.requires \in roles
TemporalIsValid(c) == c.valid_from <= time /\ time <= c.valid_until

Holders(r) == {s \in Subjects : r \in assigned[s]}

(* A store seeded at start-up, before the first assignment. *)
ConstraintsInit ==
    /\ \E seed \in Seeds : /\ ssd = seed.ssd /\ cardinality = seed.cardinality
                            /\ prerequisites = seed.prerequisites /\ temporal = seed.temporal
    /\ assigned = [s \in Subjects |-> {}]
    /\ calls = [a \in Assigners |-> Idle]
    /\ time = 0 /\ edits = 0 /\ begun = 0

Tick ==
    /\ time < MaxTime
    /\ time' = time + 1
    /\ UNCHANGED <<policyVars, assigned, calls, edits, begun>>

(* Anything that changes what a call in progress has read or will read. *)
Disturb == [a \in Assigners |-> IF calls[a].step = "idle" THEN Idle
                                ELSE [calls[a] EXCEPT !.alone = FALSE]]

Edited == /\ edits < MaxEdits /\ edits' = edits + 1
          /\ calls' = Disturb
          /\ UNCHANGED <<assigned, time, begun>>

(* add_*: a duplicate key is an error that changes nothing. *)
AddSsd(p) ==
    /\ \A q \in ssd : q.name # p.name
    /\ ssd' = ssd \cup {p}
    /\ Edited /\ UNCHANGED <<cardinality, prerequisites, temporal>>

AddCardinality(c) ==
    /\ \A d \in cardinality : d.role_name # c.role_name
    /\ cardinality' = cardinality \cup {c}
    /\ Edited /\ UNCHANGED <<ssd, prerequisites, temporal>>

AddPrerequisite(c) ==
    /\ c \notin prerequisites
    /\ prerequisites' = prerequisites \cup {c}
    /\ Edited /\ UNCHANGED <<ssd, cardinality, temporal>>

AddTemporal(c) ==
    /\ c.valid_from < c.valid_until /\ c \notin temporal
    /\ temporal' = temporal \cup {c}
    /\ Edited /\ UNCHANGED <<ssd, cardinality, prerequisites>>

(* remove_*: by policy name, every entry of a role, or one entry. *)
RemoveSsd(n) ==
    /\ \E p \in ssd : p.name = n
    /\ ssd' = {p \in ssd : p.name # n}
    /\ Edited /\ UNCHANGED <<cardinality, prerequisites, temporal>>

RemoveCardinality(r) ==
    /\ \E c \in cardinality : c.role_name = r
    /\ cardinality' = {c \in cardinality : c.role_name # r}
    /\ Edited /\ UNCHANGED <<ssd, prerequisites, temporal>>

RemovePrerequisite(r) ==
    /\ \E c \in prerequisites : c.role_name = r
    /\ prerequisites' = {c \in prerequisites : c.role_name # r}
    /\ Edited /\ UNCHANGED <<ssd, cardinality, temporal>>

RemovePrerequisiteFor(c) ==
    /\ c \in prerequisites
    /\ prerequisites' = prerequisites \ {c}
    /\ Edited /\ UNCHANGED <<ssd, cardinality, temporal>>

RemoveTemporal(r) ==
    /\ \E c \in temporal : c.role_name = r
    /\ temporal' = {c \in temporal : c.role_name # r}
    /\ Edited /\ UNCHANGED <<ssd, cardinality, prerequisites>>

RemoveTemporalFor(c) ==
    /\ c \in temporal
    /\ temporal' = temporal \ {c}
    /\ Edited /\ UNCHANGED <<ssd, cardinality, prerequisites>>

(* The in-memory store after a restart: every constraint is gone. *)
StoreRestart ==
    /\ edits < MaxEdits /\ edits' = edits + 1
    /\ ssd' = {} /\ cardinality' = {} /\ prerequisites' = {} /\ temporal' = {}
    /\ calls' = [a \in Assigners |-> Idle]
    /\ UNCHANGED <<assigned, time, begun>>

(* The caller's own reads: the subject's roles and the number of holders. *)
Begin(a, s, r) ==
    /\ calls[a] = Idle
    /\ begun < MaxCalls /\ begun' = begun + 1
    /\ calls' = [calls EXCEPT ![a] = [step |-> "ssd", subject |-> s, role |-> r,
           roles |-> assigned[s], count |-> Cardinality(Holders(r)), alone |-> TRUE]]
    /\ UNCHANGED <<policyVars, assigned, time, edits>>

(* One check of validate_assignment: the call goes on or is refused. *)
Check(a, step, ok, next) ==
    /\ calls[a].step = step
    /\ calls' = [calls EXCEPT ![a] = IF ok THEN [@ EXCEPT !.step = next] ELSE Idle]
    /\ UNCHANGED <<policyVars, assigned, time, edits, begun>>

(* Mutant: the role asked for is left out of the count. *)
MutValidateSsd(a) ==
    LET k == calls[a] IN
    Check(a, "ssd", \A p \in ssd : SsdValidate(p, k.roles), "cardinality")

(* A role already held passes every SSD policy. *)
ValidateSsd(a) ==
    LET k == calls[a] IN
    Check(a, "ssd", k.role \in k.roles \/ \A p \in ssd : SsdValidate(p, k.roles \cup {k.role}),
          "cardinality")

ValidateCardinality(a) ==
    LET k == calls[a] IN
    Check(a, "cardinality",
          \A c \in cardinality : c.role_name = k.role => CardinalityValidate(c, k.count),
          "prerequisite")

ValidatePrerequisite(a) ==
    LET k == calls[a] IN
    Check(a, "prerequisite",
          \A c \in prerequisites : c.role_name = k.role => PrerequisiteValidate(c, k.roles),
          "temporal")

ValidateTemporal(a) ==
    LET k == calls[a] IN
    Check(a, "temporal", \A c \in temporal : c.role_name = k.role => TemporalIsValid(c), "commit")

(* A list_* that fails propagates as an error: the caller denies. *)
StoreFails(a) ==
    /\ calls[a].step \in {"ssd", "cardinality", "prerequisite", "temporal"}
    /\ calls' = [calls EXCEPT ![a] = Idle]
    /\ UNCHANGED <<policyVars, assigned, time, edits, begun>>

(* The caller commits the assignment it was allowed. *)
Commit(a) ==
    LET k == calls[a] IN
    /\ k.step = "commit"
    /\ assigned' = [assigned EXCEPT ![k.subject] = @ \cup {k.role}]
    /\ calls' = [Disturb EXCEPT ![a] = Idle]
    /\ UNCHANGED <<policyVars, time, edits, begun>>

Unassign(s, r) ==
    /\ r \in assigned[s]
    /\ assigned' = [assigned EXCEPT ![s] = @ \ {r}]
    /\ calls' = Disturb
    /\ UNCHANGED <<policyVars, time, edits, begun>>

ConstraintsNext ==
    \/ Tick \/ StoreRestart
    \/ \E p \in SsdChoices : AddSsd(p) \/ RemoveSsd(p.name)
    \/ \E c \in CardChoices : AddCardinality(c)
    \/ \E c \in PreChoices : AddPrerequisite(c) \/ RemovePrerequisiteFor(c)
    \/ \E c \in TempChoices : AddTemporal(c) \/ RemoveTemporalFor(c)
    \/ \E r \in AssignableRoles : RemoveCardinality(r) \/ RemovePrerequisite(r) \/ RemoveTemporal(r)
    \/ \E s \in Subjects, r \in AssignableRoles :
           Unassign(s, r) \/ \E a \in Assigners : Begin(a, s, r)
    \/ \E a \in Assigners :
           \/ ValidateSsd(a) \/ ValidateCardinality(a) \/ ValidatePrerequisite(a)
           \/ ValidateTemporal(a) \/ StoreFails(a) \/ Commit(a)

ConstraintsSpec == ConstraintsInit /\ [][ConstraintsNext]_cvars

-----------------------------------------------------------------------------
Call == [step : {"ssd", "cardinality", "prerequisite", "temporal", "commit"},
         subject : Subjects, role : AssignableRoles, roles : SUBSET AssignableRoles,
         count : Nat, alone : BOOLEAN]

ConstraintsTypeOK ==
    /\ ssd \subseteq SsdChoices /\ cardinality \subseteq CardChoices
    /\ prerequisites \subseteq PreChoices /\ temporal \subseteq TempChoices
    /\ assigned \in [Subjects -> SUBSET AssignableRoles]
    /\ time \in 0..MaxTime /\ edits \in Nat
    /\ calls \in [Assigners -> Call \cup {Idle}]

(* An assignment about to be written, of a role the subject does not hold, with nothing
   changed since the caller's reads. *)
Undisturbed(k) == k.step = "commit" /\ k.alone /\ k.role \notin assigned[k.subject]

(* An assignment that nothing disturbed between the caller's reads and its write obeys
   every policy in force: no separation of duty is broken and no prerequisite is missing,
   although the checks are separate reads. *)
UndisturbedObeys ==
    \A a \in Assigners : LET k == calls[a] IN Undisturbed(k) =>
        /\ \A p \in ssd : Cardinality((assigned[k.subject] \cup {k.role}) \cap p.roles)
                              < AtLeastOne(p.cardinality)
        /\ \A c \in prerequisites : c.role_name = k.role => c.requires \in assigned[k.subject]

(* Two assignments validated against the same count can both go through, an undisturbed
   one never overfills its role.  While nobody edits the policies, the excess over a
   role's bound is at most one per caller beyond the first, however the calls and
   revocations interleave. *)
OvershootBounded ==
    /\ edits = 0 => \A c \in cardinality :
           Cardinality(Holders(c.role_name))
               <= AtLeastOne(c.max_subjects) + Cardinality(Assigners) - 1
    /\ \A a \in Assigners, c \in cardinality : LET k == calls[a] IN
           Undisturbed(k) /\ c.role_name = k.role =>
               Cardinality(Holders(k.role)) + 1 <= AtLeastOne(c.max_subjects)

(* An assignment nothing disturbed obeys the separation and prerequisite policies in force,
   and racing ones overfill a role by at most one per further caller. *)
AssignmentsObey == ConstraintsTypeOK /\ UndisturbedObeys /\ OvershootBounded

-----------------------------------------------------------------------------
(* The inductive strengthening.  What an undisturbed call has read is still so, and every
   check behind it still passes. *)
ReadsStand ==
    \A a \in Assigners : LET k == calls[a] IN k.step # "idle" /\ k.alone =>
        /\ k.roles = assigned[k.subject] /\ k.count = Cardinality(Holders(k.role))
        /\ k.step \in {"cardinality", "prerequisite", "temporal", "commit"} =>
               k.role \in k.roles \/ \A p \in ssd : SsdValidate(p, k.roles \cup {k.role})
        /\ k.step \in {"prerequisite", "temporal", "commit"} =>
               \A c \in cardinality : c.role_name = k.role => CardinalityValidate(c, k.count)
        /\ k.step \in {"temporal", "commit"} =>
               \A c \in prerequisites : c.role_name = k.role => PrerequisiteValidate(c, k.roles)

(* The calls in progress whose count lets them through the role's bound. *)
Admissible(c) == {a \in Assigners : /\ calls[a].step # "idle" /\ calls[a].role = c.role_name
                                    /\ CardinalityValidate(c, calls[a].count)}

(* While nobody edits the policies, only admissible calls get past the count, and holders
   and admissible calls together stay below the bound plus the callers. *)
RoomTaken ==
    edits = 0 => \A c \in cardinality :
        /\ \A a \in Assigners :
               calls[a].step \in {"prerequisite", "temporal", "commit"} /\ calls[a].role = c.role_name
                   => a \in Admissible(c)
        /\ Cardinality(Holders(c.role_name)) + Cardinality(Admissible(c)) + 1
               <= AtLeastOne(c.max_subjects) + Cardinality(Assigners)

ConstraintsInv == ConstraintsTypeOK /\ ReadsStand /\ RoomTaken
==============================================================================
