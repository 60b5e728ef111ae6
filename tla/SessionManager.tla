--------------------------- MODULE SessionManager ---------------------------
(***************************************************************************)
(* RBAC sessions: the process-local InMemorySessionManager                 *)
(* (rbac/session/mod.rs) and DbSessionManager (rbac/session/db.rs) over    *)
(* DbSessionStore (database/db_session.rs), with dynamic separation of     *)
(* duty (rbac/constraints/policies.rs).                                    *)
(*                                                                         *)
(* A call takes one step per awaited store access.  The memory manager     *)
(* holds the write lock of its session map through the whole of            *)
(* activate_role; the database manager loads a row, checks, and replaces   *)
(* the row's role list without any lock.  Role assignments are written by  *)
(* administrators at any time.                                             *)
(***************************************************************************)
EXTENDS Integers, FiniteSets

CONSTANTS
    Subjects,       \* subject ids
    RoleNames,      \* role names
    Ids,            \* session ids (fresh uuids)
    Calls,          \* concurrent calls into the manager
    Managers,       \* the managers in use, of "memory" and "db"
    Policies,       \* the seeded DSD policies: [roles, cardinality]
    Ttl,            \* lifetime of a session
    MaxVersion,     \* bound on the version counter
    MaxTime         \* bound on the clock

ASSUME SessionAssumption ==
    /\ Subjects # {} /\ RoleNames # {} /\ Ids # {}
    /\ Managers \subseteq {"memory", "db"}
    /\ Policies \subseteq [roles : SUBSET RoleNames, cardinality : Nat \ {0}]
    /\ \A p \in Policies : IsFiniteSet(p.roles)
    /\ Ttl \in Nat /\ MaxVersion \in Nat /\ MaxTime \in Nat

VARIABLES
    manager,    \* the SessionManager in use: its kind, and whether
                \* with_constraint_store was called
    assigned,   \* AssignmentStore::roles_of: subject -> roles
    sessions,   \* id -> session (memory) or row (db)
    versions,   \* subject_versions of the memory manager
    call,       \* the calls in flight
    destroyed,  \* ghost: ids whose destroy_session or revocation completed
    off,        \* ghost: (id, role) deactivated and not activated again since
    settled,    \* ghost: (subject, role) revoked and then bumped
    now         \* Utc::now()

vars == <<manager, assigned, sessions, versions, call, destroyed, off, settled, now>>
ghosts == <<destroyed, off, settled>>

-----------------------------------------------------------------------------
Times == 0 .. MaxTime
Versions == 0 .. MaxVersion

(* torn (ghost): a role was revoked from the subject while the session was *)
(* being created.                                                          *)
Session == [subject : Subjects, roles : SUBSET RoleNames, version : Versions,
            expires : 0 .. (MaxTime + Ttl), created : Times, torn : BOOLEAN]

Call == [at : {"idle", "version", "insert", "assigned", "activate",
               "deactivate", "strip", "bump"},
         subject : Subjects, id : Ids, role : RoleNames,
         roles : SUBSET RoleNames, version : Versions,
         expires : 0 .. (MaxTime + Ttl), created : Times, torn : BOOLEAN]

TypeOK ==
    /\ manager \in [kind : Managers, constrained : BOOLEAN]
    /\ assigned \in [Subjects -> SUBSET RoleNames]
    /\ DOMAIN sessions \subseteq Ids
    /\ \A i \in DOMAIN sessions : sessions[i] \in Session
    /\ versions \in [Subjects -> Versions]
    /\ call \in [Calls -> Call]
    /\ destroyed \subseteq Ids
    /\ off \subseteq Ids \X RoleNames
    /\ settled \subseteq Subjects \X RoleNames
    /\ now \in Times

With(f, x, y) == [z \in DOMAIN f \cup {x} |-> IF z = x THEN y ELSE f[z]]
Without(f, S) == [z \in DOMAIN f \ S |-> f[z]]

(* DsdPolicy::validate for every policy: fewer than cardinality of its     *)
(* roles are present.                                                      *)
DsdOk(roles) ==
    \A p \in Policies : Cardinality(roles \cap p.roles) < p.cardinality

(* validate_dsd_with_store, when a constraint store is attached. *)
Gate(roles) == manager.constrained => DsdOk(roles)

(* Session::is_expired. *)
Expired(i) == now > sessions[i].expires

(* A plausible slip: the lock is dropped before the first await. *)
Unlocked == TRUE

(* The write lock of the memory manager's session map is held across the   *)
(* awaits of activate_role.                                                *)
LockFree ==
    manager.kind = "memory" => \A c \in Calls : call[c].at \notin {"assigned", "activate"}

(* The rows load_session_metadata may return: the newest of the subject. *)
Newest(s) ==
    {i \in DOMAIN sessions : /\ sessions[i].subject = s
                             /\ \A j \in DOMAIN sessions :
                                  sessions[j].subject = s =>
                                    sessions[j].created <= sessions[i].created}

(* current_version, as the set of values it may return. *)
CurrentVersion(s) ==
    IF manager.kind = "memory" THEN {versions[s]}
    ELSE IF Newest(s) = {} THEN {0}
    ELSE {sessions[i].version : i \in Newest(s)}

-----------------------------------------------------------------------------
NoCall ==
    [at |-> "idle", subject |-> CHOOSE s \in Subjects : TRUE,
     id |-> CHOOSE i \in Ids : TRUE, role |-> CHOOSE r \in RoleNames : TRUE,
     roles |-> {}, version |-> 0, expires |-> 0, created |-> 0, torn |-> FALSE]

Init ==
    /\ manager \in [kind : Managers, constrained : BOOLEAN]
    /\ assigned = [s \in Subjects |-> {}]
    /\ sessions = [i \in {} |-> 0]
    /\ versions = [s \in Subjects |-> 0]
    /\ call = [c \in Calls |-> NoCall]
    /\ destroyed = {} /\ off = {} /\ settled = {}
    /\ now = 0

Become(c, rec) == call' = [call EXCEPT ![c] = rec]
Return(c) == Become(c, NoCall)
Unread(c) == call[c].at = "idle"

(* create_session: roles_of, the filter and the DSD gate.  The database    *)
(* manager stamps the session here and always with version 0.              *)
FilterRoles(c, s, requested) ==
    LET roles == requested \cap assigned[s] IN
    /\ Unread(c)
    /\ Gate(roles)
    /\ Become(c, [NoCall EXCEPT
         !.at = IF manager.kind = "memory" THEN "version" ELSE "insert",
         !.subject = s, !.roles = roles, !.expires = now + Ttl, !.created = now])
    /\ UNCHANGED <<manager, assigned, sessions, versions, ghosts, now>>

(* The memory manager then reads the subject's version and stamps. *)
ReadVersion(c) ==
    /\ call[c].at = "version"
    /\ Become(c, [call[c] EXCEPT !.at = "insert", !.created = now,
                    !.version = versions[call[c].subject], !.expires = now + Ttl])
    /\ UNCHANGED <<manager, assigned, sessions, versions, ghosts, now>>

InsertSession(c, i) ==
    /\ call[c].at = "insert"
    /\ LockFree
    /\ i \notin DOMAIN sessions \cup destroyed
    /\ sessions' = With(sessions, i,
         [subject |-> call[c].subject, roles |-> call[c].roles,
          version |-> call[c].version, expires |-> call[c].expires,
          created |-> call[c].created, torn |-> call[c].torn])
    /\ Return(c)
    /\ UNCHANGED <<manager, assigned, versions, ghosts, now>>

(* activate_role finds the session (the database manager copies its role   *)
(* list), refuses an expired one, and has nothing to do for an active role. *)
ActivateRole(c, i, r) ==
    /\ Unread(c)
    /\ LockFree
    /\ i \in DOMAIN sessions /\ ~Expired(i)
    /\ r \notin sessions[i].roles
    /\ Become(c, [NoCall EXCEPT !.at = "assigned", !.id = i, !.role = r,
                    !.subject = sessions[i].subject, !.roles = sessions[i].roles])
    /\ off' = off \ {<<i, r>>}
    /\ UNCHANGED <<manager, assigned, sessions, versions, destroyed, settled, now>>

(* roles_of must name the role. *)
CheckAssigned(c) ==
    /\ call[c].at = "assigned"
    /\ call[c].role \in assigned[call[c].subject]
    /\ Become(c, [call[c] EXCEPT !.at = "activate"])
    /\ UNCHANGED <<manager, assigned, sessions, versions, ghosts, now>>

(* The session map with another role list for i. *)
WithRoles(i, roles) == [sessions EXCEPT ![i] = [sessions[i] EXCEPT !.roles = roles]]

(* A plausible slip: update_roles inserts the row it does not find. *)
UpsertRoles(i, roles) ==
    IF i \in DOMAIN sessions
      THEN sessions' = WithRoles(i, roles)
      ELSE sessions' = With(sessions, i,
             [subject |-> CHOOSE s \in Subjects : TRUE, roles |-> roles, version |-> 0,
              expires |-> now + Ttl, created |-> now, torn |-> FALSE])

(* DbSessionStore::update_roles replaces the list of an existing row. *)
UpdateRoles(i, roles) ==
    IF i \in DOMAIN sessions
      THEN sessions' = WithRoles(i, roles)
      ELSE UNCHANGED sessions

(* A plausible slip: the role is added to the row as it is now instead of  *)
(* replacing the list that was checked.                                    *)
AppendActivated(c) ==
    LET i == call[c].id  roles == call[c].roles \cup {call[c].role} IN
    /\ call[c].at = "activate"
    /\ Gate(roles)
    /\ IF i \in DOMAIN sessions
         THEN sessions' = WithRoles(i, sessions[i].roles \cup {call[c].role})
         ELSE UNCHANGED sessions
    /\ Return(c)
    /\ UNCHANGED <<manager, assigned, versions, ghosts, now>>

(* The DSD gate over the roles seen at the start plus the new one, and the *)
(* write.  Under the memory manager's lock those are the session's roles.  *)
ApplyActivation(c) ==
    LET roles == call[c].roles \cup {call[c].role} IN
    /\ call[c].at = "activate"
    /\ Gate(roles)
    /\ UpdateRoles(call[c].id, roles)
    /\ Return(c)
    /\ UNCHANGED <<manager, assigned, versions, ghosts, now>>

(* Any awaited store access may fail, the role may not be assigned and the *)
(* DSD gate may refuse: the call returns Err and has changed nothing.      *)
(* (A strip that fails half way leaves the subject partially stripped.)    *)
CallFails(c) ==
    /\ call[c].at # "idle"
    /\ Return(c)
    /\ UNCHANGED <<manager, assigned, sessions, versions, ghosts, now>>

(* deactivate_role of the memory manager: one critical section. *)
DeactivateRole(i, r) ==
    /\ manager.kind = "memory" /\ LockFree
    /\ i \in DOMAIN sessions /\ ~Expired(i)
    /\ sessions' = WithRoles(i, sessions[i].roles \ {r})
    /\ off' = off \cup {<<i, r>>}
    /\ UNCHANGED <<manager, assigned, versions, call, destroyed, settled, now>>

(* deactivate_role of the database manager: load the row ... *)
LoadForDeactivation(c, i, r) ==
    /\ manager.kind = "db" /\ Unread(c)
    /\ i \in DOMAIN sessions /\ ~Expired(i)
    /\ Become(c, [NoCall EXCEPT !.at = "deactivate", !.id = i, !.role = r,
                    !.subject = sessions[i].subject, !.roles = sessions[i].roles])
    /\ UNCHANGED <<manager, assigned, sessions, versions, ghosts, now>>

(* ... and replace its list by the one without the role. *)
ApplyDeactivation(c) ==
    /\ call[c].at = "deactivate"
    /\ UpdateRoles(call[c].id, call[c].roles \ {call[c].role})
    /\ off' = off \cup {<<call[c].id, call[c].role>>}
    /\ Return(c)
    /\ UNCHANGED <<manager, assigned, versions, destroyed, settled, now>>

DestroySession(i) ==
    /\ LockFree
    /\ i \in DOMAIN sessions
    /\ sessions' = Without(sessions, {i})
    /\ destroyed' = destroyed \cup {i}
    /\ UNCHANGED <<manager, assigned, versions, call, off, settled, now>>

(* cleanup_expired; both managers keep a session in its last instant. *)
CleanupExpired ==
    /\ LockFree
    /\ LET gone == {i \in DOMAIN sessions : Expired(i)} IN
         /\ sessions' = Without(sessions, gone)
         /\ destroyed' = destroyed \cup gone
    /\ UNCHANGED <<manager, assigned, versions, call, off, settled, now>>

(* revoke_all_for_subject of the memory manager deletes the sessions. *)
RevokeAllForSubject(s) ==
    /\ manager.kind = "memory" /\ LockFree
    /\ LET gone == {i \in DOMAIN sessions : sessions[i].subject = s} IN
         /\ sessions' = Without(sessions, gone)
         /\ destroyed' = destroyed \cup gone
    /\ UNCHANGED <<manager, assigned, versions, call, off, settled, now>>

-----------------------------------------------------------------------------
(* Ghost: a revocation of r from s makes creations of s in flight torn. *)
Revoked(s, r) ==
    /\ assigned' = [assigned EXCEPT ![s] = @ \ {r}]
    /\ settled' = settled \ {<<s, r>>}

MarkTorn(s) ==
    [c \in Calls |-> IF call[c].subject = s /\ call[c].at \in {"version", "insert"}
                       THEN [call[c] EXCEPT !.torn = TRUE] ELSE call[c]]

(* AssignmentStore::assign_role and revoke_role by an administrator. *)
AssignRole(s, r) ==
    /\ assigned' = [assigned EXCEPT ![s] = @ \cup {r}]
    /\ settled' = settled \ {<<s, r>>}
    /\ UNCHANGED <<manager, sessions, versions, call, destroyed, off, now>>

RevokeRole(s, r) ==
    /\ r \in assigned[s]
    /\ Revoked(s, r)
    /\ call' = MarkTorn(s)
    /\ UNCHANGED <<manager, sessions, versions, destroyed, off, now>>

(* revoke_all_for_subject of the database manager strips the assignments,  *)
(* one revoke_role after the other.                                        *)
ListAssignments(c, s) ==
    /\ manager.kind = "db" /\ Unread(c)
    /\ assigned[s] # {}
    /\ Become(c, [NoCall EXCEPT !.at = "strip", !.subject = s, !.roles = assigned[s]])
    /\ UNCHANGED <<manager, assigned, sessions, versions, ghosts, now>>

StripRole(c, r) ==
    LET left == call[c].roles \ {r} IN
    /\ call[c].at = "strip" /\ r \in call[c].roles
    /\ Revoked(call[c].subject, r)
    /\ call' = [MarkTorn(call[c].subject) EXCEPT ![c] =
                  IF left = {} THEN NoCall ELSE [call[c] EXCEPT !.roles = left]]
    /\ UNCHANGED <<manager, sessions, versions, destroyed, off, now>>

-----------------------------------------------------------------------------
(* The revocations of s that a bump completed now settles. *)
Settled(s) == settled \cup {<<s, r>> : r \in RoleNames \ assigned[s]}

(* A plausible slip: the sessions are carried along to the new version, as *)
(* the UPDATE of the database store does to its rows.                      *)
BumpSessionsToo(s) ==
    /\ manager.kind = "memory"
    /\ versions[s] < MaxVersion
    /\ versions' = [versions EXCEPT ![s] = @ + 1]
    /\ sessions' = [i \in DOMAIN sessions |-> IF sessions[i].subject = s
                      THEN [sessions[i] EXCEPT !.version = versions[s] + 1]
                      ELSE sessions[i]]
    /\ settled' = Settled(s)
    /\ UNCHANGED <<manager, assigned, call, destroyed, off, now>>

(* bump_version_for_subject of the memory manager.  The counter wraps at   *)
(* 2^64 in the code; it is bounded here.                                   *)
BumpVersion(s) ==
    /\ manager.kind = "memory"
    /\ versions[s] < MaxVersion
    /\ versions' = [versions EXCEPT ![s] = @ + 1]
    /\ settled' = Settled(s)
    /\ UNCHANGED <<manager, assigned, sessions, call, destroyed, off, now>>

(* ... and of the database manager: read the newest row's version ... *)
ReadCurrentVersion(c, s) ==
    /\ manager.kind = "db" /\ Unread(c)
    /\ \E v \in CurrentVersion(s) :
         /\ v < MaxVersion
         /\ Become(c, [NoCall EXCEPT !.at = "bump", !.subject = s, !.version = v + 1])
    /\ UNCHANGED <<manager, assigned, sessions, versions, ghosts, now>>

(* ... and stamp every row of the subject. *)
StampRows(c) ==
    /\ call[c].at = "bump"
    /\ sessions' = [i \in DOMAIN sessions |->
                      IF sessions[i].subject = call[c].subject
                        THEN [sessions[i] EXCEPT !.version = call[c].version]
                        ELSE sessions[i]]
    /\ Return(c)
    /\ UNCHANGED <<manager, assigned, versions, ghosts, now>>

Tick ==
    /\ now < MaxTime
    /\ now' = now + 1
    /\ UNCHANGED <<manager, assigned, sessions, versions, call, ghosts>>

CallStep(c) ==
    \/ \E s \in Subjects, requested \in SUBSET RoleNames : FilterRoles(c, s, requested)
    \/ ReadVersion(c)
    \/ \E i \in Ids : InsertSession(c, i)
    \/ \E i \in Ids, r \in RoleNames : ActivateRole(c, i, r) \/ LoadForDeactivation(c, i, r)
    \/ CheckAssigned(c) \/ ApplyActivation(c) \/ ApplyDeactivation(c)
    \/ \E s \in Subjects : ListAssignments(c, s) \/ ReadCurrentVersion(c, s)
    \/ \E r \in RoleNames : StripRole(c, r)
    \/ StampRows(c)
    \/ CallFails(c)

Next ==
    \/ \E c \in Calls : CallStep(c)
    \/ \E i \in Ids : DestroySession(i) \/ \E r \in RoleNames : DeactivateRole(i, r)
    \/ \E s \in Subjects : RevokeAllForSubject(s) \/ BumpVersion(s)
    \/ \E s \in Subjects, r \in RoleNames : AssignRole(s, r) \/ RevokeRole(s, r)
    \/ CleanupExpired
    \/ Tick

Spec == Init /\ [][Next]_vars

-----------------------------------------------------------------------------
(* Properties *)

(* A session is honoured while it has not expired and its version is not   *)
(* below the subject's current one (mod.rs SessionManager).                *)
Honoured(i) == ~Expired(i) /\ sessions[i].version >= versions[sessions[i].subject]

(* With a constraint store no session ever holds roles a DSD policy keeps  *)
(* apart, however its creation and activations interleave                  *)
(* (validate_dsd_with_store): in the memory manager thanks to the lock, in *)
(* the database manager because each write replaces the whole list by one  *)
(* that was checked.                                                       *)
DutiesSeparated ==
    manager.constrained => \A i \in DOMAIN sessions : DsdOk(sessions[i].roles)

(* A destroyed session stays gone: no activation or deactivation that had  *)
(* loaded it brings it back (destroy_session, update_roles).               *)
DestroyedStaysGone == destroyed \cap DOMAIN sessions = {}

(* In the memory manager a role taken out of a session stays out until     *)
(* somebody activates it again, whatever other activation of the session   *)
(* was under way (deactivate_role).                                        *)
DeactivationLasts ==
    manager.kind = "memory" =>
      \A x \in off : x[1] \in DOMAIN sessions => x[2] \notin sessions[x[1]].roles

(* What was ended stays ended: destroyed sessions and deactivated roles.   *)
EndingsLast == TypeOK /\ DestroyedStaysGone /\ DeactivationLasts

(* Once a role has been revoked and the subject's version bumped, no       *)
(* honoured session of the memory manager holds the role, activations in   *)
(* flight included, except one whose creation the revocation overlapped    *)
(* (bump_version_for_subject).                                             *)
RevokedRolesGoStale ==
    manager.kind = "memory" =>
      \A i \in DOMAIN sessions :
        (Honoured(i) /\ ~sessions[i].torn) =>
          \A r \in sessions[i].roles : <<sessions[i].subject, r>> \notin settled

(* mod.rs Session: active_roles is "a subset of the subject's assigned     *)
(* roles, never a superset", and bump_version_for_subject "is the          *)
(* mechanism that invalidates stale sessions after a privilege change":    *)
(* after the change and the bump no honoured session holds the role.       *)
NeverASuperset ==
    \A i \in DOMAIN sessions :
      Honoured(i) =>
        \A r \in sessions[i].roles : <<sessions[i].subject, r>> \notin settled

-----------------------------------------------------------------------------
(* The inductive strengthening.                                            *)

Memory == manager.kind = "memory"
Locked(c) == call[c].at \in {"assigned", "activate"}
Creating(c) == call[c].at \in {"version", "insert"}

(* The steps only the database manager takes. *)
DbStepsOnly == \A c \in Calls : call[c].at \in {"deactivate", "strip", "bump"} => ~Memory

(* Under the write lock there is one activation, and what it read stands.  *)
LockExclusive == Memory => \A c, d \in Calls : (Locked(c) /\ Locked(d)) => c = d

LockedView ==
    Memory => \A c \in Calls : Locked(c) =>
      /\ call[c].id \in DOMAIN sessions
      /\ call[c].subject = sessions[call[c].id].subject
      /\ call[c].roles = sessions[call[c].id].roles
      /\ <<call[c].id, call[c].role>> \notin off

(* Every role list a call is going to store or shorten was checked. *)
ListsChecked ==
    manager.constrained =>
      \A c \in Calls : (Creating(c) \/ call[c].at = "deactivate") => DsdOk(call[c].roles)

(* Roles are taken out of sessions that exist or existed. *)
OffKnown == Memory => \A x \in off : x[1] \in DOMAIN sessions \cup destroyed

SettledIsUnassigned == \A x \in settled : x[2] \notin assigned[x[1]]

(* A creation no revocation overlapped carries assigned roles. *)
CreationsHold ==
    \A c \in Calls : (Creating(c) /\ ~call[c].torn)
      => call[c].roles \subseteq assigned[call[c].subject]

(* No session is ahead of its subject's version. *)
VersionsBehind ==
    Memory => /\ \A i \in DOMAIN sessions : sessions[i].version <= versions[sessions[i].subject]
              /\ \A c \in Calls : call[c].at = "insert"
                                    => call[c].version <= versions[call[c].subject]

Current(i) == sessions[i].version >= versions[sessions[i].subject]

(* What a current session holds, or is about to be given, is not settled.  *)
CurrentIsClean ==
    Memory => /\ \A i \in DOMAIN sessions : (Current(i) /\ ~sessions[i].torn)
                   => \A r \in sessions[i].roles : <<sessions[i].subject, r>> \notin settled
              /\ \A c \in Calls : (call[c].at = "activate" /\ Current(call[c].id))
                   => <<call[c].subject, call[c].role>> \notin settled

IndInv ==
    /\ TypeOK /\ DestroyedStaysGone /\ DeactivationLasts /\ DutiesSeparated
    /\ DbStepsOnly /\ LockExclusive /\ LockedView /\ ListsChecked /\ OffKnown
    /\ SettledIsUnassigned /\ CreationsHold /\ VersionsBehind /\ CurrentIsClean
=============================================================================
