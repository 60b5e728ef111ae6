--------------------------- MODULE RbacEngineProofs ---------------------------
(* The engine's invariants for every set of subjects, permissions, roles   *)
(* and concurrent calls, every registry and every Ttl, cap and clock bound. *)
EXTENDS RbacEngine, FiniteSetTheorems, TLAPS

(* Registered roles carry known permissions only, flat or inherited. *)
LEMMA FromRolesType ==
    ASSUME NEW kind, NEW rs
    PROVE  FromRoles(kind, rs) \in SUBSET Permissions
  BY EngineAssumption
     DEF FromRoles, RoleGrants, ResolveRoleChain, RolePermissions

(* Initially nothing is cached, no call is in flight, nobody holds anything. *)
LEMMA InitInv == Init => IndInv
  <1> SUFFICES ASSUME Init PROVE IndInv
    OBVIOUS
  <1> USE EngineAssumption DEF Init, Checks, Listings, Never
  <1>1. TypeOK
    BY DEF TypeOK, Task, Entry, Steps, Times, Stamps, Keys
  <1>2. \A t \in Tasks : CallOK(task[t]) /\ ProgressOK(task[t])
    BY DEF CallOK, ProgressOK, Deciding, Listing
  <1>3. \A k \in DOMAIN cache : EntryOK(k, cache[k])
    OBVIOUS
  <1> QED BY <1>1, <1>2, <1>3 DEF IndInv

(* A step that only moves the call t to the record x preserves the         *)
(* invariant when x satisfies it.                                          *)
LEMMA BecomeInv ==
    ASSUME IndInv, NEW t \in Tasks, NEW x \in Task, Become(t, x),
           UNCHANGED <<store, cache, pending, now>>,
           CallOK(x), ProgressOK(x)
    PROVE  IndInv'
  <1> USE DEF Become, store
  <1>1. TypeOK'
    BY DEF IndInv, TypeOK
  <1>2. ASSUME NEW u \in Tasks PROVE (CallOK(task[u]) /\ ProgressOK(task[u]))'
    <2>1. task'[u] = x \/ task'[u] = task[u]
      BY DEF IndInv, TypeOK
    <2>2. CallOK(task'[u]) /\ ProgressOK(task'[u])
      BY <2>1 DEF IndInv
    <2> QED BY <2>2 DEF CallOK, ProgressOK, Effective
  <1>3. ASSUME NEW k \in DOMAIN cache' PROVE EntryOK(k, cache[k])'
    <2>1. EntryOK(k, cache[k])
      BY <1>3 DEF IndInv
    <2> QED BY <2>1 DEF EntryOK, Effective
  <1> QED BY <1>1, <1>2, <1>3 DEF IndInv

(* The engine call's own steps that leave store and cache alone. *)
LEMMA StartInv ==
    ASSUME IndInv, NEW t \in Tasks, NEW kind \in Kinds, NEW s \in Subjects,
           NEW p \in Permissions, Start(t, kind, s, p)
    PROVE  IndInv'
  <1> DEFINE x == [at |-> IF kind \in Checks THEN "get" ELSE "list_roles",
                   kind |-> kind, subject |-> s, permission |-> p,
                   granted |-> FALSE, perms |-> {},
                   hit |-> FALSE, failed |-> FALSE, stale |-> Never]
  <1>1. x \in Task
    BY EngineAssumption DEF Task, Steps, Stamps, Never
  <1>2. CallOK(x) /\ ProgressOK(x)
    BY EngineAssumption DEF CallOK, ProgressOK, Deciding, Listing, Checks, Listings
  <1> QED BY <1>1, <1>2, BecomeInv DEF Start

(* The facts about one call that its next step starts from. *)
LEMMA CallFacts ==
    ASSUME IndInv, NEW t \in Tasks
    PROVE  /\ task[t] \in Task /\ CallOK(task[t]) /\ ProgressOK(task[t])
           /\ task[t].subject \in Subjects /\ task[t].permission \in Permissions
           /\ denied[task[t].subject] \in SUBSET Permissions
           /\ extra[task[t].subject] \in SUBSET Permissions
  BY DEF IndInv, TypeOK, Task

(* check: a hit is answered from an entry that is itself sound. *)
LEMMA CacheGetInv ==
    ASSUME IndInv, NEW t \in Tasks, CacheGet(t)
    PROVE  IndInv'
  <1>1. CASE Live(<<task[t].subject, task[t].permission>>)
    <2> DEFINE x == [task[t] EXCEPT !.at = "done", !.hit = TRUE,
                            !.granted = cache[<<task[t].subject, task[t].permission>>].granted]
    <2>1. x \in Task
      BY CallFacts, <1>1 DEF Task, Steps, Live, IndInv, TypeOK, Entry
    <2>2. CallOK(x) /\ ProgressOK(x)
      BY CallFacts, <1>1 DEF CacheGet, Task, CallOK, ProgressOK, Effective, Deciding, Listing, Checks, Listings
    <2> QED BY <1>1, <2>1, <2>2, BecomeInv DEF CacheGet
  <1>2. CASE ~Live(<<task[t].subject, task[t].permission>>)
    <2> DEFINE x == [task[t] EXCEPT !.at = "denied"]
    <2>1. x \in Task
      BY CallFacts, <1>2 DEF Task, Steps, Live, IndInv, TypeOK, Entry
    <2>2. CallOK(x) /\ ProgressOK(x)
      BY CallFacts, <1>2 DEF CacheGet, Task, CallOK, ProgressOK, Effective, Deciding, Listing, Checks, Listings
    <2> QED BY <1>2, <2>1, <2>2, BecomeInv DEF CacheGet
  <1> QED BY <1>1, <1>2

(* check: the first await, denied_of. *)
LEMMA ReadDeniedInv ==
    ASSUME IndInv, NEW t \in Tasks, ReadDenied(t)
    PROVE  IndInv'
  <1>1. CASE task[t].permission \in denied[task[t].subject]
    <2> DEFINE x == [task[t] EXCEPT !.at = "set", !.granted = FALSE]
    <2>1. x \in Task
      BY CallFacts, <1>1 DEF Task, Steps, Live, IndInv, TypeOK, Entry
    <2>2. CallOK(x) /\ ProgressOK(x)
      BY CallFacts, <1>1 DEF ReadDenied, Task, CallOK, ProgressOK, Effective, Deciding, Listing, Checks, Listings
    <2> QED BY <1>1, <2>1, <2>2, BecomeInv DEF ReadDenied
  <1>2. CASE task[t].permission \notin denied[task[t].subject]
    <2> DEFINE x == [task[t] EXCEPT !.at = "extra"]
    <2>1. x \in Task
      BY CallFacts, <1>2 DEF Task, Steps, Live, IndInv, TypeOK, Entry
    <2>2. CallOK(x) /\ ProgressOK(x)
      BY CallFacts, <1>2 DEF ReadDenied, Task, CallOK, ProgressOK, Effective, Deciding, Listing, Checks, Listings
    <2> QED BY <1>2, <2>1, <2>2, BecomeInv DEF ReadDenied
  <1> QED BY <1>1, <1>2

(* check: the second await, extra_of. *)
LEMMA ReadExtraInv ==
    ASSUME IndInv, NEW t \in Tasks, ReadExtra(t)
    PROVE  IndInv'
  <1>1. CASE task[t].permission \in extra[task[t].subject]
    <2> DEFINE x == [task[t] EXCEPT !.at = "set", !.granted = TRUE]
    <2>1. x \in Task
      BY CallFacts, <1>1 DEF Task, Steps, Live, IndInv, TypeOK, Entry
    <2>2. CallOK(x) /\ ProgressOK(x)
      BY CallFacts, <1>1 DEF ReadExtra, Task, CallOK, ProgressOK, Effective, Deciding, Listing, Checks, Listings
    <2> QED BY <1>1, <2>1, <2>2, BecomeInv DEF ReadExtra
  <1>2. CASE task[t].permission \notin extra[task[t].subject]
    <2> DEFINE x == [task[t] EXCEPT !.at = "roles"]
    <2>1. x \in Task
      BY CallFacts, <1>2 DEF Task, Steps, Live, IndInv, TypeOK, Entry
    <2>2. CallOK(x) /\ ProgressOK(x)
      BY CallFacts, <1>2 DEF ReadExtra, Task, CallOK, ProgressOK, Effective, Deciding, Listing, Checks, Listings
    <2> QED BY <1>2, <2>1, <2>2, BecomeInv DEF ReadExtra
  <1> QED BY <1>1, <1>2

(* check: the third await, roles_of, after which the answer is the reference. *)
LEMMA ReadRolesInv ==
    ASSUME IndInv, NEW t \in Tasks, ReadRoles(t)
    PROVE  IndInv'
  <1> DEFINE g == task[t].permission \in FromRoles(task[t].kind, roles[task[t].subject])
             x == [task[t] EXCEPT !.at = "set", !.granted = g]
  <1>1. x \in Task
    <2>1. g \in BOOLEAN
      OBVIOUS
    <2> HIDE DEF g
    <2> QED BY <2>1, CallFacts DEF Task, Steps
  <1>2. CallOK(x) /\ ProgressOK(x)
    BY CallFacts DEF ReadRoles, Task, CallOK, ProgressOK, Effective, Deciding, Listing, Checks, Listings
  <1> QED BY <1>1, <1>2, BecomeInv DEF ReadRoles

(* check: roles_of fails and the answer is a denial. *)
LEMMA ReadRolesFailsInv ==
    ASSUME IndInv, NEW t \in Tasks, ReadRolesFails(t)
    PROVE  IndInv'
  <1> DEFINE x == [task[t] EXCEPT !.at = "set", !.granted = FALSE, !.failed = TRUE]
  <1>1. x \in Task
    BY CallFacts, FromRolesType DEF Task, Steps
  <1>2. CallOK(x) /\ ProgressOK(x)
    BY CallFacts DEF ReadRolesFails, Task, CallOK, ProgressOK, Effective, Deciding, Listing, Checks, Listings
  <1> QED BY <1>1, <1>2, BecomeInv DEF ReadRolesFails

(* effective_permissions: the roles, resolved in the registry. *)
LEMMA ListRolesInv ==
    ASSUME IndInv, NEW t \in Tasks, ListRoles(t)
    PROVE  IndInv'
  <1> DEFINE x == [task[t] EXCEPT !.at = "list_extra", !.perms =
                   FromRoles(task[t].kind, roles[task[t].subject])]
  <1>1. x \in Task
    BY CallFacts, FromRolesType DEF Task, Steps
  <1>2. CallOK(x) /\ ProgressOK(x)
    BY CallFacts DEF ListRoles, Task, CallOK, ProgressOK, Effective, Deciding, Listing, Checks, Listings
  <1> QED BY <1>1, <1>2, BecomeInv DEF ListRoles

(* effective_permissions: the extra grants are added. *)
LEMMA ListExtraInv ==
    ASSUME IndInv, NEW t \in Tasks, ListExtra(t)
    PROVE  IndInv'
  <1> DEFINE x == [task[t] EXCEPT !.at = "list_denied", !.perms =
                   @ \cup extra[task[t].subject]]
  <1>1. x \in Task
    BY CallFacts, FromRolesType DEF Task, Steps
  <1>2. CallOK(x) /\ ProgressOK(x)
    BY CallFacts DEF ListExtra, Task, CallOK, ProgressOK, Effective, Deciding, Listing, Checks, Listings
  <1> QED BY <1>1, <1>2, BecomeInv DEF ListExtra

(* effective_permissions: the denials are taken away. *)
LEMMA ListDeniedInv ==
    ASSUME IndInv, NEW t \in Tasks, ListDenied(t)
    PROVE  IndInv'
  <1> DEFINE x == [task[t] EXCEPT !.at = "done", !.perms =
                   @ \ denied[task[t].subject]]
  <1>1. x \in Task
    BY CallFacts, FromRolesType DEF Task, Steps
  <1>2. CallOK(x) /\ ProgressOK(x)
    BY CallFacts DEF ListDenied, Task, CallOK, ProgressOK, Effective, Deciding, Listing, Checks, Listings
  <1> QED BY <1>1, <1>2, BecomeInv DEF ListDenied

(* A failed read of a listing ends it with an error. *)
LEMMA ListFailsInv ==
    ASSUME IndInv, NEW t \in Tasks, ListFails(t)
    PROVE  IndInv'
  <1> DEFINE x == [task[t] EXCEPT !.at = "error", !.perms = {}]
  <1>1. x \in Task
    BY CallFacts, FromRolesType DEF Task, Steps
  <1>2. CallOK(x) /\ ProgressOK(x)
    BY CallFacts DEF ListFails, Task, CallOK, ProgressOK, Effective, Deciding, Listing, Checks, Listings
  <1> QED BY <1>1, <1>2, BecomeInv DEF ListFails

(* check: denied_of or extra_of fails and the check ends with a denial. *)
LEMMA ReadFailsInv ==
    ASSUME IndInv, NEW t \in Tasks, NEW read \in {"denied", "extra"},
           ReadFails(t, read)
    PROVE  IndInv'
  <1> DEFINE x == [task[t] EXCEPT !.at = "done", !.failed = TRUE]
  <1>1. x \in Task
    BY CallFacts DEF Task, Steps
  <1>2. CallOK(x) /\ ProgressOK(x)
    BY CallFacts DEF ReadFails, Task, CallOK, ProgressOK, Deciding, Listing, Checks, Listings
  <1> QED BY <1>1, <1>2, BecomeInv DEF ReadFails

-----------------------------------------------------------------------------
(* Eviction only ever drops entries. *)
LEMMA EvictionsKeep ==
    ASSUME NEW c, NEW d \in Evictions(c)
    PROVE  DOMAIN d \subseteq DOMAIN c /\ \A k \in DOMAIN d : d[k] = c[k]
  BY DEF Evictions

(* The store step hands the answer from call to cache entry, evicting one if need be. *)
LEMMA CacheSetInv ==
    ASSUME IndInv, NEW t \in Tasks, CacheSet(t)
    PROVE  IndInv'
  <1> DEFINE k == <<task[t].subject, task[t].permission>>
             e == [granted |-> task[t].granted, expires |-> now + Ttl,
                   kind |-> task[t].kind, failed |-> task[t].failed,
                   late |-> task[t].stale # Never, stale |-> task[t].stale]
  <1>1. /\ k \in Keys
        /\ cache' \in Evictions(Insert(k, e))
        /\ Become(t, [task[t] EXCEPT !.at = "done"])
        /\ task[t].at = "set"
        /\ UNCHANGED <<roles, extra, denied, pending, now>>
    BY CallFacts DEF CacheSet, ExpiresAt, Keys, store
  <1>2. \A l \in DOMAIN cache' : \/ l = k /\ cache'[l] = e
                                 \/ l \in DOMAIN cache /\ cache'[l] = cache[l]
    BY <1>1, EvictionsKeep DEF Insert
  <1>3. e \in Entry
    <2>1. (task[t].stale # Never) \in BOOLEAN
      OBVIOUS
    <2>2. now + Ttl \in 0 .. (MaxTime + Ttl)
      BY EngineAssumption DEF IndInv, TypeOK, Times
    <2>3. /\ task[t].granted \in BOOLEAN /\ task[t].failed \in BOOLEAN
          /\ task[t].stale \in Stamps /\ task[t].kind \in Checks
      BY <1>1, CallFacts DEF Task, CallOK, Deciding
    <2> QED BY <2>1, <2>2, <2>3 DEF Entry
  <1>4. EntryOK(k, e)
    <2>1. e.expires <= now + Ttl
      BY EngineAssumption DEF IndInv, TypeOK, Times
    <2>2. e.failed => ~e.granted
      BY <1>1, CallFacts DEF CallOK
    <2>3. (e.stale = Never /\ ~e.failed) =>
            (e.granted <=> k[2] \in Effective(e.kind, k[1]))
      BY <1>1, CallFacts DEF ProgressOK
    <2>4. e.late <=> e.stale # Never
      OBVIOUS
    <2> HIDE DEF k, e
    <2> QED BY <2>1, <2>2, <2>3, <2>4 DEF EntryOK
  <1> HIDE DEF k, e
  <1>5. TypeOK'
    <2>1. DOMAIN cache' \subseteq Keys
      BY <1>1, <1>2 DEF IndInv, TypeOK
    <2>2. \A l \in DOMAIN cache' : cache'[l] \in Entry
      BY <1>2, <1>3 DEF IndInv, TypeOK
    <2>3. task' \in [Tasks -> Task]
      BY <1>1, CallFacts DEF Become, Task, Steps, IndInv, TypeOK
    <2> QED BY <1>1, <2>1, <2>2, <2>3 DEF IndInv, TypeOK
  <1>6. ASSUME NEW u \in Tasks PROVE (CallOK(task[u]) /\ ProgressOK(task[u]))'
    <2> DEFINE x == [task[t] EXCEPT !.at = "done"]
    <2>1. CallOK(x) /\ ProgressOK(x)
      BY <1>1, CallFacts DEF CallOK, ProgressOK, Task, Deciding, Listing, Checks, Listings
    <2>2. task'[u] = x \/ task'[u] = task[u]
      BY <1>1 DEF Become, IndInv, TypeOK
    <2> HIDE DEF x
    <2>3. CallOK(task'[u]) /\ ProgressOK(task'[u])
      BY <2>1, <2>2 DEF IndInv
    <2> QED BY <1>1, <2>3 DEF CallOK, ProgressOK, Effective
  <1>7. ASSUME NEW l \in DOMAIN cache' PROVE EntryOK(l, cache[l])'
    <2>1. EntryOK(l, cache'[l])
      BY <1>2, <1>4 DEF IndInv
    <2> QED BY <1>1, <2>1 DEF EntryOK, Effective
  <1> QED BY <1>5, <1>6, <1>7 DEF IndInv

(* Every step of a call keeps the invariant. *)
LEMMA StepInv ==
    ASSUME IndInv, NEW t \in Tasks, Step(t)
    PROVE  IndInv'
  BY CacheGetInv, ReadDeniedInv, ReadExtraInv, ReadRolesInv, ReadFailsInv,
     ReadRolesFailsInv, CacheSetInv, ListRolesInv, ListExtraInv,
     ListDeniedInv, ListFailsInv DEF Step

-----------------------------------------------------------------------------
(* A write to s marks every answer about s as overtaken and leaves what    *)
(* the stores say of the other subjects alone.                             *)
LEMMA WrittenInv ==
    ASSUME IndInv, NEW s \in Subjects, Written(s),
           roles' \in [Subjects -> SUBSET RoleNames],
           extra' \in [Subjects -> SUBSET Permissions],
           denied' \in [Subjects -> SUBSET Permissions],
           \A u \in Subjects \ {s} : /\ roles'[u] = roles[u]
                                     /\ extra'[u] = extra[u]
                                     /\ denied'[u] = denied[u]
    PROVE  IndInv'
  <1>1. now \in Times /\ now' = now /\ now \in Stamps /\ now # Never
    BY DEF Written, IndInv, TypeOK, Times, Stamps, Never
  <1>2. TypeOK'
    <2>1. task' \in [Tasks -> Task]
      <3>1. ASSUME NEW u \in Tasks PROVE task[u] \in Task /\ MarkStale(task[u]) \in Task
        <4>1. task[u] \in Task
          BY DEF IndInv, TypeOK
        <4> QED BY <1>1, <4>1 DEF MarkStale, Task
      <3>2. task' = [u \in Tasks |-> IF task[u].subject = s THEN MarkStale(task[u]) ELSE task[u]]
        BY DEF Written
      <3> QED BY <3>1, <3>2
    <2>2. DOMAIN cache' \subseteq Keys /\ \A k \in DOMAIN cache' : cache'[k] \in Entry
      BY <1>1 DEF Written, MarkStale, Entry, IndInv, TypeOK
    <2> QED BY <1>1, <2>1, <2>2 DEF Written, TypeOK, IndInv
  <1>3. ASSUME NEW u \in Tasks PROVE (CallOK(task[u]) /\ ProgressOK(task[u]))'
    <2>1. task[u] \in Task /\ CallOK(task[u]) /\ ProgressOK(task[u])
      BY CallFacts
    <2>2. CASE task[u].subject = s
      <3>1. task'[u].stale # Never /\ CallOK(task'[u])
        BY <1>1, <2>1, <2>2 DEF Written, MarkStale, Task, CallOK
      <3> QED BY <3>1 DEF CallOK, ProgressOK
    <2>3. CASE task[u].subject # s
      <3>1. task'[u] = task[u] /\ task[u].subject \in Subjects \ {s}
        BY <2>1, <2>3 DEF Written, Task
      <3> QED BY <2>1, <3>1 DEF CallOK, ProgressOK, Effective
    <2> QED BY <2>2, <2>3
  <1>4. ASSUME NEW k \in DOMAIN cache' PROVE EntryOK(k, cache[k])'
    <2>1. /\ k \in DOMAIN cache /\ k \in Keys /\ k[1] \in Subjects
          /\ cache[k] \in Entry /\ EntryOK(k, cache[k])
      BY <1>4 DEF Written, IndInv, TypeOK, Keys
    <2>2. CASE k[1] = s
      <3>1. cache'[k] = MarkStale(cache[k]) /\ k[1] \in pending'
        BY <2>1, <2>2 DEF Written
      <3> QED BY <1>1, <2>1, <3>1, EngineAssumption
              DEF MarkStale, Entry, EntryOK, Times, Stamps
    <2>3. CASE k[1] # s
      <3>1. cache'[k] = cache[k] /\ (k[1] \in pending' <=> k[1] \in pending)
        BY <2>1, <2>3 DEF Written
      <3> QED BY <1>1, <2>1, <2>3, <3>1 DEF EntryOK, Effective
    <2> QED BY <2>2, <2>3
  <1> QED BY <1>2, <1>3, <1>4 DEF IndInv

(* A write overtakes the calls and entries of its subject and no others. *)
LEMMA WriteInv ==
    ASSUME IndInv, NEW s \in Subjects, Write(s)
    PROVE  IndInv'
  <1>1. ASSUME NEW r \in RoleNames, AssignRole(s, r) PROVE IndInv'
    BY <1>1, WrittenInv DEF AssignRole, IndInv, TypeOK
  <1>2. ASSUME NEW r \in RoleNames, RevokeRole(s, r) PROVE IndInv'
    BY <1>2, WrittenInv DEF RevokeRole, IndInv, TypeOK
  <1>3. ASSUME NEW ps \in SUBSET Permissions, SetExtraPermissions(s, ps)
        PROVE  IndInv'
    BY <1>3, WrittenInv DEF SetExtraPermissions, IndInv, TypeOK
  <1>4. ASSUME NEW ps \in SUBSET Permissions, SetDeniedPermissions(s, ps)
        PROVE  IndInv'
    BY <1>4, WrittenInv DEF SetDeniedPermissions, IndInv, TypeOK
  <1> QED BY <1>1, <1>2, <1>3, <1>4 DEF Write

(* A step that only drops cache entries, settling the subjects whose       *)
(* entries it drops, or only advances the clock.                           *)
LEMMA ShrinkInv ==
    ASSUME IndInv, UNCHANGED <<store, task>>,
           now' \in Times, now' >= now, pending' \subseteq pending,
           DOMAIN cache' \subseteq DOMAIN cache,
           \A k \in DOMAIN cache' : /\ cache'[k] = cache[k]
                                    /\ k[1] \in pending => k[1] \in pending'
    PROVE  IndInv'
  <1>1. TypeOK'
    BY DEF IndInv, TypeOK, store
  <1>2. ASSUME NEW u \in Tasks PROVE (CallOK(task[u]) /\ ProgressOK(task[u]))'
    BY CallFacts DEF CallOK, ProgressOK, Effective, store
  <1>3. ASSUME NEW k \in DOMAIN cache' PROVE EntryOK(k, cache[k])'
    <2>1. /\ EntryOK(k, cache[k]) /\ cache'[k] = cache[k] /\ cache[k] \in Entry
          /\ now \in Times
      BY <1>3 DEF IndInv, TypeOK
    <2> QED BY <2>1, EngineAssumption DEF EntryOK, Effective, Entry, Times, store
  <1> QED BY <1>1, <1>2, <1>3 DEF IndInv

(* Every step of the engine preserves the invariant. *)
LEMMA NextInv == IndInv /\ [Next]_vars => IndInv'
  <1> SUFFICES ASSUME IndInv, [Next]_vars PROVE IndInv'
    OBVIOUS
  <1>1. CASE \E t \in Tasks, kind \in Kinds, s \in Subjects, p \in Permissions :
               Start(t, kind, s, p)
    BY <1>1, StartInv
  <1>2. CASE \E t \in Tasks : Step(t)
    BY <1>2, StepInv
  <1>3. CASE \E s \in Subjects : Write(s)
    BY <1>3, WriteInv
  <1>4. ASSUME NEW s \in Subjects, InvalidateSubject(s) PROVE IndInv'
    <2>1. now' \in Times /\ now' >= now /\ pending' = pending \ {s}
      BY <1>4 DEF InvalidateSubject, IndInv, TypeOK, Times
    <2>2. DOMAIN cache' = {l \in DOMAIN cache : l[1] # s}
      BY <1>4 DEF InvalidateSubject
    <2>3. \A k \in DOMAIN cache' : cache'[k] = cache[k]
      BY <1>4 DEF InvalidateSubject
    <2> QED BY <1>4, <2>1, <2>2, <2>3, ShrinkInv DEF InvalidateSubject
  <1>5. CASE InvalidateAll
    BY <1>5, ShrinkInv DEF InvalidateAll, IndInv, TypeOK, Times
  <1>6. CASE Tick
    BY <1>6, ShrinkInv, EngineAssumption DEF Tick, IndInv, TypeOK, Times
  <1>7. CASE UNCHANGED vars
    BY <1>7, ShrinkInv DEF vars, store, IndInv, TypeOK, Times
  <1> QED BY <1>1, <1>2, <1>3, <1>4, <1>5, <1>6, <1>7 DEF Next

(* The invariant holds of every run of the engine. *)
LEMMA Invariance == Spec => []IndInv
  BY InitInv, NextInv, PTL DEF Spec

-----------------------------------------------------------------------------
(* The engine's state stays well-typed: in particular only check and       *)
(* check_hierarchical ever reach the cache.                                *)
THEOREM TypeCorrect == Spec => []TypeOK
  <1>1. IndInv => TypeOK
    BY DEF IndInv
  <1> QED BY <1>1, Invariance, PTL

(* A cached decision that no write overtook and no failed read produced is *)
(* what the stores say, under every interleaving of calls and writes.      *)
THEOREM CacheSound == Spec => []CacheAgreesWithStore
  <1>1. IndInv => CacheAgreesWithStore
    BY DEF IndInv, EntryOK, CacheAgreesWithStore
  <1> QED BY <1>1, Invariance, PTL

(* A store error never ends in a grant, cached or returned. *)
THEOREM FailsClosed == Spec => []FailClosed
  <1>1. IndInv => FailClosed
    BY DEF IndInv, EntryOK, CallOK, FailClosed
  <1> QED BY <1>1, Invariance, PTL

(* A call that no write overtook answers what the stores say; the check    *)
(* and the listing agree.                                                  *)
THEOREM AnswerSound == Spec => []AnswerAgreesWithStore
  <1>1. IndInv => AnswerAgreesWithStore
    BY DEF IndInv, TypeOK, Task, ProgressOK, AnswerAgreesWithStore
  <1> QED BY <1>1, Invariance, PTL

(* A decision that was cached when the write came is gone Ttl later. *)
THEOREM WindowBounded == Spec => []RevocationWindow
  <1>1. IndInv => RevocationWindow
    BY DEF IndInv, EntryOK, RevocationWindow
  <1> QED BY <1>1, Invariance, PTL

(* After write and invalidation only overlapping checks can have left an   *)
(* overtaken decision behind.                                              *)
THEOREM InvalidationSound == Spec => []InvalidationCloses
  <1>1. IndInv => InvalidationCloses
    BY DEF IndInv, EntryOK, InvalidationCloses
  <1> QED BY <1>1, Invariance, PTL

-----------------------------------------------------------------------------
(* The cap holds because a write adds one key to a finite cache. *)
CapInv == IsFiniteSet(DOMAIN cache) /\ CacheBounded

(* TtlPermissionCache::set: of any finite cache the eviction leaves at most *)
(* MaxEntries decisions, ties in their expiry broken in any way.            *)
LEMMA EvictionsBounded ==
    ASSUME NEW c, IsFiniteSet(DOMAIN c), NEW d \in Evictions(c)
    PROVE  IsFiniteSet(DOMAIN d) /\ Cardinality(DOMAIN d) <= MaxEntries
  <1> DEFINE live == {k \in DOMAIN c : now < c[k].expires}
             excess == Cardinality(live) - MaxEntries
  <1>1. live \in SUBSET DOMAIN c
    OBVIOUS
  <1>2. IsFiniteSet(live) /\ Cardinality(live) \in Nat /\ MaxEntries \in Nat
    BY <1>1, FS_Subset, FS_CardinalityType, EngineAssumption
  <1>3. \/ d = c /\ Cardinality(DOMAIN c) <= MaxEntries
        \/ DOMAIN d = live /\ excess <= 0
        \/ \E out \in SUBSET live : Cardinality(out) = excess /\ DOMAIN d = live \ out
    BY DEF Evictions
  <1> HIDE DEF live
  <1>4. CASE d = c /\ Cardinality(DOMAIN c) <= MaxEntries
    BY <1>4
  <1>5. CASE DOMAIN d = live /\ excess <= 0
    BY <1>2, <1>5
  <1>6. CASE \E out \in SUBSET live : Cardinality(out) = excess /\ DOMAIN d = live \ out
    <2>1. PICK out \in SUBSET live : Cardinality(out) = excess /\ DOMAIN d = live \ out
      BY <1>6
    <2>2. IsFiniteSet(live \ out) /\ Cardinality(live \ out) = Cardinality(live) - Cardinality(live \cap out)
      BY <1>2, FS_Difference
    <2>3. live \cap out = out
      OBVIOUS
    <2>4. Cardinality(live \ out) = Cardinality(live) - (Cardinality(live) - MaxEntries)
      BY <2>1, <2>2, <2>3
    <2>5. Cardinality(live \ out) = MaxEntries
      BY <1>2, <2>4
    <2> QED BY <1>2, <2>1, <2>2, <2>5
  <1> QED BY <1>3, <1>4, <1>5, <1>6

(* No step but cache.set adds a key. *)
LEMMA CapStep == CapInv /\ [Next]_vars => CapInv'
  <1> SUFFICES ASSUME CapInv, [Next]_vars PROVE CapInv'
    OBVIOUS
  <1>1. ASSUME DOMAIN cache' \in SUBSET DOMAIN cache PROVE CapInv'
    <2>1. /\ IsFiniteSet(DOMAIN cache') /\ Cardinality(DOMAIN cache') <= Cardinality(DOMAIN cache)
      BY <1>1, FS_Subset DEF CapInv
    <2>2. Cardinality(DOMAIN cache) \in Nat /\ Cardinality(DOMAIN cache') \in Nat
      BY <2>1, FS_CardinalityType DEF CapInv
    <2> QED BY <2>1, <2>2, EngineAssumption DEF CapInv, CacheBounded
  <1>2. ASSUME NEW t \in Tasks, CacheSet(t) PROVE CapInv'
    <2>1. PICK k, e : cache' \in Evictions(Insert(k, e))
      BY <1>2 DEF CacheSet
    <2>2. DOMAIN Insert(k, e) = DOMAIN cache \cup {k}
      BY DEF Insert
    <2>3. IsFiniteSet(DOMAIN Insert(k, e))
      BY <2>2, FS_AddElement DEF CapInv
    <2> QED BY <2>1, <2>3, EvictionsBounded DEF CapInv, CacheBounded
  <1>3. ASSUME NEW t \in Tasks, Step(t), ~CacheSet(t) PROVE CapInv'
    <2>1. cache' = cache
      BY <1>3 DEF Step, CacheGet, ReadDenied, ReadExtra, ReadRoles, ReadFails, ReadRolesFails,
                  ListRoles, ListExtra, ListDenied, ListFails
    <2> QED BY <1>1, <2>1
  <1>4. ASSUME NEW s \in Subjects, Write(s) PROVE CapInv'
    <2>1. Written(s)
      BY <1>4 DEF Write, AssignRole, RevokeRole, SetExtraPermissions, SetDeniedPermissions
    <2>2. DOMAIN cache' = DOMAIN cache
      BY <2>1 DEF Written
    <2> QED BY <1>1, <2>2
  <1>5. ASSUME NEW s \in Subjects, InvalidateSubject(s) PROVE CapInv'
    <2>1. DOMAIN cache' = {l \in DOMAIN cache : l[1] # s}
      BY <1>5 DEF InvalidateSubject
    <2> QED BY <1>1, <2>1
  <1>6. CASE InvalidateAll
    <2>1. DOMAIN cache' = {}
      BY <1>6 DEF InvalidateAll
    <2> QED BY <1>1, <2>1
  <1>7. CASE \/ \E t \in Tasks, kind \in Kinds, s \in Subjects, p \in Permissions : Start(t, kind, s, p)
             \/ Tick \/ UNCHANGED vars
    <2>1. cache' = cache
      BY <1>7 DEF Start, Tick, vars
    <2> QED BY <1>1, <2>1
  <1> QED BY <1>2, <1>3, <1>4, <1>5, <1>6, <1>7 DEF Next

(* Whatever calls, writes and invalidations run at once, the cache holds   *)
(* at most MaxEntries decisions (cache.rs set).                            *)
THEOREM CacheStaysBounded == Spec => []CacheBounded
  <1>1. Init => CapInv
    <2> SUFFICES ASSUME Init PROVE CapInv
      OBVIOUS
    <2>1. DOMAIN cache = {}
      BY DEF Init
    <2> QED BY <2>1, FS_EmptySet, EngineAssumption DEF CapInv, CacheBounded
  <1>2. CapInv => CacheBounded
    BY DEF CapInv
  <1> QED BY <1>1, <1>2, CapStep, PTL DEF Spec
=============================================================================
