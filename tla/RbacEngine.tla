----------------------------- MODULE RbacEngine -----------------------------
(***************************************************************************)
(* The permission decision engine: RbacEngine (rbac/engine.rs) over an     *)
(* assignment store (rbac/store/memory.rs), a static role registry         *)
(* (rbac/store/registry.rs) and the TTL permission cache (rbac/cache.rs).  *)
(*                                                                         *)
(* A call of check, check_hierarchical, effective_permissions or           *)
(* effective_permissions_hierarchical is a task that takes one step per    *)
(* awaited store or cache access, so writes, invalidations and other calls *)
(* interleave with it exactly where the code awaits.  Store reads may fail *)
(* (AssignmentStore is a trait; a database backend returns Err).           *)
(***************************************************************************)
EXTENDS Integers, FiniteSets

CONSTANTS
    Subjects,       \* subject ids
    Permissions,    \* leaf permissions
    RoleNames,      \* names a role assignment may mention, registered or not
    Registry,       \* registered role -> the permissions it carries
    Parents,        \* role -> its parent names (role_parents; {} when none)
    Tasks,          \* concurrent calls into the engine
    Kinds,          \* which of the four calls the tasks make
    FailingReads,   \* the store reads that may return Err
    Ttl,            \* lifetime of a cache entry
    MaxEntries,     \* cap on the number of cache entries
    MaxTime         \* bound on the clock

Checks == {"check", "check_hierarchical"}
Listings == {"effective", "effective_hierarchical"}

(* No write to the subject's assignments has been seen yet. *)
Never == -1

ASSUME EngineAssumption ==
    /\ Subjects # {} /\ Permissions # {}
    /\ DOMAIN Registry \subseteq RoleNames
    /\ \A r \in DOMAIN Registry : Registry[r] \subseteq Permissions
    /\ Parents \in [RoleNames -> SUBSET RoleNames]
    /\ Kinds \subseteq Checks \cup Listings
    /\ FailingReads \subseteq {"denied", "extra", "roles"}
    /\ Ttl \in Nat /\ MaxEntries \in Nat /\ MaxTime \in Nat

VARIABLES
    roles,      \* role_assignments: subject -> role names
    extra,      \* extra_perms: subject -> permissions
    denied,     \* denied_perms: subject -> permissions
    cache,      \* (subject, permission) -> entry; see Entry
    task,       \* the calls in flight; see Task
    pending,    \* ghost: subjects written since their last invalidation
    now         \* Instant::now()

store == <<roles, extra, denied>>
vars == <<roles, extra, denied, cache, task, pending, now>>

-----------------------------------------------------------------------------
(* Types.  Fields marked ghost record history for the properties only:     *)
(* "stale" is the time of the first write to the subject since the answer  *)
(* began to be computed, "late" says that this write came before the       *)
(* answer was stored, "failed" that roles_of had returned Err.             *)

Keys == Subjects \X Permissions
Times == 0 .. MaxTime
Stamps == Times \cup {Never}

Entry == [granted : BOOLEAN, expires : 0 .. (MaxTime + Ttl),
          kind : Checks, failed : BOOLEAN, late : BOOLEAN, stale : Stamps]

Steps == {"idle", "get", "denied", "extra", "roles", "set",
          "list_roles", "list_extra", "list_denied", "done", "error"}

(* hit (ghost): the answer came from the cache. *)
Task == [at : Steps, kind : Checks \cup Listings, subject : Subjects,
         permission : Permissions, granted : BOOLEAN,
         perms : SUBSET Permissions,
         hit : BOOLEAN, failed : BOOLEAN, stale : Stamps]

TypeOK ==
    /\ roles \in [Subjects -> SUBSET RoleNames]
    /\ extra \in [Subjects -> SUBSET Permissions]
    /\ denied \in [Subjects -> SUBSET Permissions]
    /\ DOMAIN cache \subseteq Keys
    /\ \A k \in DOMAIN cache : cache[k] \in Entry
    /\ task \in [Tasks -> Task]
    /\ pending \subseteq Subjects
    /\ now \in Times

-----------------------------------------------------------------------------
(* What the store and the registry say *)

(* RoleRegistry::get_role_permissions; a name nobody registered carries    *)
(* nothing.                                                                *)
RolePermissions(r) == IF r \in DOMAIN Registry THEN Registry[r] ELSE {}

(* The names resolve_role_chain visits from r: the least set that contains *)
(* r and the parents of every registered role in it.                       *)
Reachable(r) ==
    LET Closed == {S \in SUBSET RoleNames :
                     r \in S /\ \A q \in S \cap DOMAIN Registry :
                                   Parents[q] \subseteq S}
    IN  {q \in RoleNames : \A S \in Closed : q \in S}

ResolveRoleChain(r) == UNION {RolePermissions(q) : q \in Reachable(r)}

RoleGrants(kind, r) ==
    IF kind \in {"check", "effective"}
      THEN RolePermissions(r) ELSE ResolveRoleChain(r)

(* The permissions that a set of roles carries for one kind of call. *)
FromRoles(kind, rs) == UNION {RoleGrants(kind, r) : r \in rs}

(* The reference the calls are measured against: what the three stores say *)
(* of subject s at one instant.                                            *)
Effective(kind, s) == (FromRoles(kind, roles[s]) \cup extra[s]) \ denied[s]

-----------------------------------------------------------------------------
(* The cache *)

(* TtlPermissionCache::get: an entry is served strictly before it expires. *)
Live(k) == k \in DOMAIN cache /\ now < cache[k].expires

(* Ghost: a write to s at this instant ends the freshness of x. *)
MarkStale(x) == IF x.stale = Never THEN [x EXCEPT !.stale = now] ELSE x

(* A plausible slip: the cap is never enforced. *)
KeepAll(c) == {c}

(* TtlPermissionCache::set after the insertion: over the cap, drop what    *)
(* has expired and then the entries with the soonest expiry.  The set of   *)
(* caches that may remain: ties are broken by key order, left open here.   *)
Evictions(c) ==
    LET live == {k \in DOMAIN c : now < c[k].expires}
        excess == Cardinality(live) - MaxEntries
        Keep(K) == [k \in K |-> c[k]]
    IN  IF Cardinality(DOMAIN c) <= MaxEntries THEN {c}
        ELSE IF excess <= 0 THEN {Keep(live)}
        ELSE {Keep(live \ out) : out \in
                {o \in SUBSET live :
                   /\ Cardinality(o) = excess
                   /\ \A k \in o, l \in live \ o : c[k].expires <= c[l].expires}}

ExpiresAt == now + Ttl

Insert(k, e) == [l \in DOMAIN cache \cup {k} |-> IF l = k THEN e ELSE cache[l]]

-----------------------------------------------------------------------------
Init ==
    /\ roles = [s \in Subjects |-> {}]
    /\ extra = [s \in Subjects |-> {}]
    /\ denied = [s \in Subjects |-> {}]
    /\ cache = [k \in {} |-> {}]
    /\ task = [t \in Tasks |->
                [at |-> "idle", kind |-> "check",
                 subject |-> CHOOSE s \in Subjects : TRUE,
                 permission |-> CHOOSE p \in Permissions : TRUE,
                 granted |-> FALSE, perms |-> {},
                 hit |-> FALSE, failed |-> FALSE, stale |-> Never]]
    /\ pending = {}
    /\ now = 0

Become(t, rec) == task' = [task EXCEPT ![t] = rec]

(* A call enters the engine: check and check_hierarchical start at the     *)
(* cache, effective_permissions at the role assignments.                   *)
Start(t, kind, s, p) ==
    /\ task[t].at \in {"idle", "done", "error"}
    /\ Become(t, [at |-> IF kind \in Checks THEN "get" ELSE "list_roles",
                  kind |-> kind, subject |-> s, permission |-> p,
                  granted |-> FALSE, perms |-> {},
                  hit |-> FALSE, failed |-> FALSE, stale |-> Never])
    /\ UNCHANGED <<store, cache, pending, now>>

(* A plausible slip: a hit renews the entry's lifetime. *)
SlidingCacheGet(t) ==
    LET k == <<task[t].subject, task[t].permission>> IN
    /\ task[t].at = "get"
    /\ IF Live(k)
         THEN /\ Become(t, [task[t] EXCEPT !.at = "done", !.hit = TRUE,
                                           !.granted = cache[k].granted])
              /\ cache' = [cache EXCEPT ![k].expires = now + Ttl]
         ELSE /\ Become(t, [task[t] EXCEPT !.at = "denied"])
              /\ UNCHANGED cache
    /\ UNCHANGED <<store, pending, now>>

(* check_cached_deny_extra, first await: a hit is the answer. *)
CacheGet(t) ==
    LET k == <<task[t].subject, task[t].permission>> IN
    /\ task[t].at = "get"
    /\ IF Live(k)
         THEN Become(t, [task[t] EXCEPT !.at = "done", !.hit = TRUE,
                                        !.granted = cache[k].granted])
         ELSE Become(t, [task[t] EXCEPT !.at = "denied"])
    /\ UNCHANGED <<store, cache, pending, now>>

(* A store read that returns Err on these two sites answers false and      *)
(* leaves the cache alone.                                                 *)
ReadFails(t, read) ==
    /\ task[t].at = read
    /\ read \in FailingReads
    /\ Become(t, [task[t] EXCEPT !.at = "done", !.failed = TRUE])
    /\ UNCHANGED <<store, cache, pending, now>>

(* A plausible slip: the grants are looked at before the denials. *)
GrantFirst(t) ==
    /\ task[t].at = "denied"
    /\ IF task[t].permission \in extra[task[t].subject]
         THEN Become(t, [task[t] EXCEPT !.at = "set", !.granted = TRUE])
         ELSE IF task[t].permission \in denied[task[t].subject]
         THEN Become(t, [task[t] EXCEPT !.at = "set", !.granted = FALSE])
         ELSE Become(t, [task[t] EXCEPT !.at = "extra"])
    /\ UNCHANGED <<store, cache, pending, now>>

ReadDenied(t) ==
    /\ task[t].at = "denied"
    /\ IF task[t].permission \in denied[task[t].subject]
         THEN Become(t, [task[t] EXCEPT !.at = "set", !.granted = FALSE])
         ELSE Become(t, [task[t] EXCEPT !.at = "extra"])
    /\ UNCHANGED <<store, cache, pending, now>>

ReadExtra(t) ==
    /\ task[t].at = "extra"
    /\ IF task[t].permission \in extra[task[t].subject]
         THEN Become(t, [task[t] EXCEPT !.at = "set", !.granted = TRUE])
         ELSE Become(t, [task[t] EXCEPT !.at = "roles"])
    /\ UNCHANGED <<store, cache, pending, now>>

(* roles_of; the registry lookups that follow it do not await. *)
ReadRoles(t) ==
    /\ task[t].at = "roles"
    /\ Become(t, [task[t] EXCEPT !.at = "set", !.granted =
         task[t].permission \in FromRoles(task[t].kind, roles[task[t].subject])])
    /\ UNCHANGED <<store, cache, pending, now>>

(* A plausible slip: an error leaves the default answer at TRUE. *)
FailOpenRoles(t) ==
    /\ task[t].at = "roles"
    /\ "roles" \in FailingReads
    /\ Become(t, [task[t] EXCEPT !.at = "set", !.granted = TRUE, !.failed = TRUE])
    /\ UNCHANGED <<store, cache, pending, now>>

(* Err from roles_of is only logged: control falls through to the final    *)
(* cache.set(.., false).                                                   *)
ReadRolesFails(t) ==
    /\ task[t].at = "roles"
    /\ "roles" \in FailingReads
    /\ Become(t, [task[t] EXCEPT !.at = "set", !.granted = FALSE, !.failed = TRUE])
    /\ UNCHANGED <<store, cache, pending, now>>

(* cache.set, then the call returns the same value. *)
CacheSet(t) ==
    LET k == <<task[t].subject, task[t].permission>>
        e == [granted |-> task[t].granted, expires |-> ExpiresAt,
              kind |-> task[t].kind, failed |-> task[t].failed,
              late |-> task[t].stale # Never, stale |-> task[t].stale]
    IN
    /\ task[t].at = "set"
    /\ cache' \in Evictions(Insert(k, e))
    /\ Become(t, [task[t] EXCEPT !.at = "done"])
    /\ UNCHANGED <<store, pending, now>>

(* effective_permissions(_hierarchical): roles, then extra grants, then    *)
(* the denials are taken away.  An Err is propagated to the caller.        *)
ListRoles(t) ==
    /\ task[t].at = "list_roles"
    /\ Become(t, [task[t] EXCEPT !.at = "list_extra", !.perms =
                    FromRoles(task[t].kind, roles[task[t].subject])])
    /\ UNCHANGED <<store, cache, pending, now>>

(* A plausible slip: the extra grants replace what the roles carry. *)
OverwritingListExtra(t) ==
    /\ task[t].at = "list_extra"
    /\ Become(t, [task[t] EXCEPT !.at = "list_denied", !.perms =
                    extra[task[t].subject]])
    /\ UNCHANGED <<store, cache, pending, now>>

ListExtra(t) ==
    /\ task[t].at = "list_extra"
    /\ Become(t, [task[t] EXCEPT !.at = "list_denied", !.perms =
                    @ \cup extra[task[t].subject]])
    /\ UNCHANGED <<store, cache, pending, now>>

ListDenied(t) ==
    /\ task[t].at = "list_denied"
    /\ Become(t, [task[t] EXCEPT !.at = "done", !.perms =
                    @ \ denied[task[t].subject]])
    /\ UNCHANGED <<store, cache, pending, now>>

ListFails(t) ==
    /\ \E read \in FailingReads :
         task[t].at = CASE read = "roles" -> "list_roles"
                        [] read = "extra" -> "list_extra"
                        [] read = "denied" -> "list_denied"
    /\ Become(t, [task[t] EXCEPT !.at = "error", !.perms = {}])
    /\ UNCHANGED <<store, cache, pending, now>>

-----------------------------------------------------------------------------
(* Writes go through assignment_store(), past the cache; the writer owes   *)
(* an invalidation.                                                        *)

Written(s) ==
    /\ pending' = pending \cup {s}
    /\ task' = [t \in Tasks |-> IF task[t].subject = s
                                  THEN MarkStale(task[t]) ELSE task[t]]
    /\ cache' = [k \in DOMAIN cache |-> IF k[1] = s
                                          THEN MarkStale(cache[k]) ELSE cache[k]]
    /\ UNCHANGED now

AssignRole(s, r) ==
    /\ roles' = [roles EXCEPT ![s] = @ \cup {r}]
    /\ Written(s)
    /\ UNCHANGED <<extra, denied>>

RevokeRole(s, r) ==
    /\ roles' = [roles EXCEPT ![s] = @ \ {r}]
    /\ Written(s)
    /\ UNCHANGED <<extra, denied>>

SetExtraPermissions(s, ps) ==
    /\ extra' = [extra EXCEPT ![s] = ps]
    /\ Written(s)
    /\ UNCHANGED <<roles, denied>>

SetDeniedPermissions(s, ps) ==
    /\ denied' = [denied EXCEPT ![s] = ps]
    /\ Written(s)
    /\ UNCHANGED <<roles, extra>>

(* A plausible slip: only the grants of the subject are dropped. *)
InvalidateGrantsOnly(s) ==
    /\ cache' = [k \in {l \in DOMAIN cache : l[1] # s \/ ~cache[l].granted}
                   |-> cache[k]]
    /\ pending' = pending \ {s}
    /\ UNCHANGED <<store, task, now>>

InvalidateSubject(s) ==
    /\ cache' = [k \in {l \in DOMAIN cache : l[1] # s} |-> cache[k]]
    /\ pending' = pending \ {s}
    /\ UNCHANGED <<store, task, now>>

InvalidateAll ==
    /\ cache' = [k \in {} |-> {}]
    /\ pending' = {}
    /\ UNCHANGED <<store, task, now>>

Tick ==
    /\ now < MaxTime
    /\ now' = now + 1
    /\ UNCHANGED <<store, cache, task, pending>>

Step(t) ==
    \/ CacheGet(t)
    \/ ReadDenied(t) \/ ReadExtra(t) \/ ReadRoles(t)
    \/ ReadFails(t, "denied") \/ ReadFails(t, "extra") \/ ReadRolesFails(t)
    \/ CacheSet(t)
    \/ ListRoles(t) \/ ListExtra(t) \/ ListDenied(t) \/ ListFails(t)

Write(s) ==
    \/ \E r \in RoleNames : AssignRole(s, r) \/ RevokeRole(s, r)
    \/ \E ps \in SUBSET Permissions :
         SetExtraPermissions(s, ps) \/ SetDeniedPermissions(s, ps)

Next ==
    \/ \E t \in Tasks, kind \in Kinds, s \in Subjects, p \in Permissions :
         Start(t, kind, s, p)
    \/ \E t \in Tasks : Step(t)
    \/ \E s \in Subjects : Write(s) \/ InvalidateSubject(s)
    \/ InvalidateAll
    \/ Tick

Spec == Init /\ [][Next]_vars

-----------------------------------------------------------------------------
(* Properties *)

(* A cached decision that no store write has overtaken, and that was not   *)
(* produced by a failed role lookup, is exactly what the store says now:   *)
(* denials first, then extra grants, then roles (engine.rs check,          *)
(* check_hierarchical), whatever ran in between.                           *)
CacheAgreesWithStore ==
    \A k \in DOMAIN cache :
      (cache[k].stale = Never /\ ~cache[k].failed)
        => (cache[k].granted <=> k[2] \in Effective(cache[k].kind, k[1]))

(* A cached grant never comes from a failed read: store errors can only    *)
(* ever pin a denial (engine.rs, "Fail closed").                           *)
FailClosed ==
    /\ \A k \in DOMAIN cache : cache[k].failed => ~cache[k].granted
    /\ \A t \in Tasks : task[t].at = "done" /\ task[t].failed => ~task[t].granted

(* A finished call that no write has overtaken gave the store's answer,    *)
(* and the deny-first check agrees with the subtract-last listing of       *)
(* effective_permissions.                                                  *)
AnswerAgreesWithStore ==
    \A t \in Tasks :
      (task[t].at = "done" /\ task[t].stale = Never /\ ~task[t].failed)
        => IF task[t].kind \in Listings
             THEN task[t].perms = Effective(task[t].kind, task[t].subject)
             ELSE task[t].hit \/ (task[t].granted <=>
                    task[t].permission \in Effective(task[t].kind, task[t].subject))

(* The TTL is the revocation window: a decision overtaken by a write after *)
(* it was stored can be served for less than Ttl after that write          *)
(* (cache.rs, "a subject keeps its last-known answer for at most ttl       *)
(* after a change").  A check that the write overlapped stores its answer  *)
(* later and stamps it from then: those entries are excluded.              *)
RevocationWindow ==
    \A k \in DOMAIN cache :
      (cache[k].stale # Never /\ ~cache[k].late)
        => cache[k].expires <= cache[k].stale + Ttl

(* After a write followed by its invalidation, the only cached decisions   *)
(* of the subject that the write overtook are those of checks that were in *)
(* flight when it happened (engine.rs invalidate_subject_cache).           *)
InvalidationCloses ==
    \A k \in DOMAIN cache :
      (k[1] \notin pending /\ ~cache[k].late) => cache[k].stale = Never

(* The cache never holds more than MaxEntries decisions once a write to it *)
(* has returned (cache.rs set).                                            *)
CacheBounded == Cardinality(DOMAIN cache) <= MaxEntries

-----------------------------------------------------------------------------
(* The inductive strengthening of the properties above, one task and one   *)
(* cache entry at a time.                                                  *)

Deciding == {"get", "denied", "extra", "roles"}
Listing == {"list_roles", "list_extra", "list_denied"}

(* What any call in flight satisfies, overtaken or not. *)
CallOK(x) ==
    /\ x.at \in Deciding \cup {"set"} => x.kind \in Checks
    /\ x.at \in Listing => x.kind \in Listings
    /\ x.at \in Deciding => ~x.granted
    /\ x.at \in Deciding \cup Listing => ~x.failed
    /\ (x.at \in {"set", "done"} /\ x.failed) => ~x.granted

(* What a call has established of the store while no write overtook it. *)
ProgressOK(x) ==
    x.stale = Never =>
      /\ x.at = "extra" => x.permission \notin denied[x.subject]
      /\ x.at = "roles" => /\ x.permission \notin denied[x.subject]
                           /\ x.permission \notin extra[x.subject]
      /\ (x.at = "set" /\ ~x.failed) =>
           (x.granted <=> x.permission \in Effective(x.kind, x.subject))
      /\ x.at = "list_extra" => x.perms = FromRoles(x.kind, roles[x.subject])
      /\ x.at = "list_denied" =>
           x.perms = FromRoles(x.kind, roles[x.subject]) \cup extra[x.subject]
      /\ (x.at = "done" /\ ~x.failed /\ x.kind \in Listings) =>
           x.perms = Effective(x.kind, x.subject)
      /\ (x.at = "done" /\ ~x.failed /\ x.kind \in Checks /\ ~x.hit) =>
           (x.granted <=> x.permission \in Effective(x.kind, x.subject))

(* What a cache entry e for the key k satisfies. *)
EntryOK(k, e) ==
    /\ e.expires <= now + Ttl
    /\ e.failed => ~e.granted
    /\ (e.stale = Never /\ ~e.failed) =>
         (e.granted <=> k[2] \in Effective(e.kind, k[1]))
    /\ (e.stale # Never /\ ~e.late) => e.expires <= e.stale + Ttl
    /\ (k[1] \notin pending /\ ~e.late) => e.stale = Never

IndInv ==
    /\ TypeOK
    /\ \A t \in Tasks : CallOK(task[t]) /\ ProgressOK(task[t])
    /\ \A k \in DOMAIN cache : EntryOK(k, cache[k])

-----------------------------------------------------------------------------
(* What the documentation says of the engine and the code does not do.  *)

(* engine.rs: a store error "is deliberately not cached, so a transient    *)
(* store outage cannot pin an allow or a deny".                            *)
ErrorsNotCached == \A k \in DOMAIN cache : ~cache[k].failed

(* engine.rs assignment_store: a write paired with an invalidation is      *)
(* "effective immediately": no live cached grant contradicts the store     *)
(* once the invalidation has run.                                          *)
EffectiveImmediately ==
    \A k \in DOMAIN cache :
      (k[1] \notin pending /\ Live(k) /\ cache[k].granted)
        => k[2] \in Effective("check_hierarchical", k[1])
=============================================================================
