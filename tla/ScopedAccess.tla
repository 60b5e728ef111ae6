---------------------------- MODULE ScopedAccess ----------------------------
(* Scoped grants (rbac/scope.rs) and the workspace guard (rbac/workspace_guard.rs).  The
   reference stores are built up by calls and then only read, so a decision is a
   function of the store and the context.  A permission name is the sequence of its
   segments. *)
EXTENDS Naturals, Sequences, SequencesExt

CONSTANTS
    Names,          \* permission names, as sequences of segments
    Branches,       \* names that are branches of the catalog
    Users, Groups, Workspaces,
    NoWorkspace,    \* the context carries no workspace (None)
    RoleDefaults,   \* system role -> permissions the registry gives it
    MaxGrants       \* bound: calls that add grants or denies

VARIABLES user, group, denies, members, group_grants, writes

avars == <<user, group, denies, members, group_grants, writes>>

SystemRole == {"admin", "operator", "member", "viewer"}
WorkspaceRole == {"viewer", "operator", "owner"}
NoRole == "none"

(* GrantScope: Global, Group(id) or Workspace(id). *)
Global == [kind |-> "global", id |-> "all"]
GrantScope == {Global} \cup [kind : {"group"}, id : Groups] \cup [kind : {"workspace"}, id : Workspaces]
ScopedGrant == [permission : Names, scope : GrantScope]

(* PermissionContext. *)
Context == [user : Users, system_role : SystemRole, groups : SUBSET Groups,
            workspace : Workspaces \cup {NoWorkspace}, stale : BOOLEAN]

Specificity(scope) ==
    CASE scope.kind = "global" -> 0 [] scope.kind = "group" -> 1 [] OTHER -> 2

AppliesTo(scope, ctx) ==
    CASE scope.kind = "global" -> TRUE
      [] scope.kind = "group" -> scope.id \in ctx.groups
      [] OTHER -> scope.id = ctx.workspace

(* A branch covers every name below it; ancestry_names includes the name itself. *)
GrantMatches(g, requested) == g = requested \/ (g \in Branches /\ IsPrefix(g, requested))

Init ==
    /\ user = [u \in Users |-> <<>>] /\ group = [g \in Groups |-> <<>>]
    /\ denies = [u \in Users |-> {}]
    /\ members = [u \in Users, w \in Workspaces |-> NoRole]
    /\ group_grants = [u \in Users, w \in Workspaces |-> NoRole]
    /\ writes = 0

Write == writes < MaxGrants /\ writes' = writes + 1

GrantUser(u, g) ==
    /\ Write /\ user' = [user EXCEPT ![u] = Append(@, g)]
    /\ UNCHANGED <<group, denies, members, group_grants>>

GrantGroup(i, g) ==
    /\ Write /\ group' = [group EXCEPT ![i] = Append(@, g)]
    /\ UNCHANGED <<user, denies, members, group_grants>>

Deny(u, n) ==
    /\ Write /\ denies' = [denies EXCEPT ![u] = @ \cup {n}]
    /\ UNCHANGED <<user, group, members, group_grants>>

(* add_member and add_group_grant overwrite the row. *)
AddMember(u, w, r) ==
    /\ Write /\ members' = [members EXCEPT ![u, w] = r]
    /\ UNCHANGED <<user, group, denies, group_grants>>

AddGroupGrant(u, w, r) ==
    /\ Write /\ group_grants' = [group_grants EXCEPT ![u, w] = r]
    /\ UNCHANGED <<user, group, denies, members>>

Next ==
    \/ \E u \in Users, g \in ScopedGrant : GrantUser(u, g)
    \/ \E i \in Groups, g \in ScopedGrant : GrantGroup(i, g)
    \/ \E u \in Users, n \in Names : Deny(u, n)
    \/ \E u \in Users, w \in Workspaces, r \in WorkspaceRole : AddMember(u, w, r) \/ AddGroupGrant(u, w, r)

Spec == Init /\ [][Next]_avars

-----------------------------------------------------------------------------
(* ScopedGrantResolver::resolve *)

Attached(kind, s) == [i \in DOMAIN s |-> [by |-> kind, grant |-> s[i]]]

(* The user's own grants first, then those of each group of the context. *)
Candidates(ctx) ==
    FoldLeft(LAMBDA acc, i : acc \o Attached("group", group[i]),
             Attached("user", user[ctx.user]), SetToSeq(ctx.groups))

Applies(c, ctx, n) == AppliesTo(c.grant.scope, ctx) /\ GrantMatches(c.grant.permission, n)

(* Mutant: the first applicable grant wins, however wide its scope. *)
MutBest(cs, ctx, n) == LET hits == SelectSeq(cs, LAMBDA c : Applies(c, ctx, n)) IN
    IF hits = <<>> THEN <<>> ELSE <<Head(hits)>>

(* Scan for the most specific applicable grant; the first of equals stays. *)
Best(cs, ctx, n) ==
    FoldLeft(LAMBDA best, c :
        IF Applies(c, ctx, n)
           /\ (best = <<>> \/ Specificity(c.grant.scope) > Specificity(best[1].grant.scope))
        THEN <<c>> ELSE best, <<>>, cs)

GrantSource(c) ==
    IF c.grant.scope.kind = "workspace" THEN "WorkspaceGrant"
    ELSE IF c.by = "user" THEN "UserGrant" ELSE "GroupGrant"

Granted(src) == [granted |-> TRUE, source |-> src]
Denied == [granted |-> FALSE, source |-> "none"]

(* Stale session, administrator, explicit deny, role default, best scoped grant: the
   first that speaks decides. *)
Resolve(ctx, n) ==
    IF ctx.stale THEN Denied
    ELSE IF ctx.system_role = "admin" THEN Granted("AdminBypass")
    ELSE IF \E d \in denies[ctx.user] : GrantMatches(d, n) THEN Denied
    ELSE IF \E p \in RoleDefaults[ctx.system_role] : GrantMatches(p, n) THEN Granted("RoleDefault")
    ELSE LET best == Best(Candidates(ctx), ctx, n) IN
         IF best = <<>> THEN Denied ELSE Granted(GrantSource(best[1]))

(* RbacEngine::check_permission: the engine looks at the session before it asks. *)
CheckPermission(ctx, n) == IF ctx.stale THEN Denied ELSE Resolve(ctx, n)

(* RbacEngine::resolve_effective_permissions: the resolver once per leaf. *)
ResolveEffectivePermissions(ctx) == {n \in Names \ Branches : Resolve(ctx, n).granted}

-----------------------------------------------------------------------------
(* WorkspaceGuard *)

(* Mutant: the group grant is asked first. *)
MutResolveWorkspaceRole(u, w) ==
    IF group_grants[u, w] # NoRole THEN group_grants[u, w] ELSE members[u, w]

(* Direct membership first, a group grant only without one. *)
ResolveWorkspaceRole(u, w) ==
    IF members[u, w] # NoRole THEN members[u, w] ELSE group_grants[u, w]

StartsWith(n, p) == IsPrefix(p, n)
EndsWith(n, seg) == Len(n) > 1 /\ n[Len(n)] = seg

RoleCan(role, n) ==
    CASE role = "owner" -> TRUE
      [] role = "operator" -> ~ StartsWith(n, <<"workspace", "manage">>) /\ ~ StartsWith(n, <<"rbac">>)
      [] role = "viewer" -> EndsWith(n, "list") \/ EndsWith(n, "read") \/ StartsWith(n, <<"device", "list">>)
      [] OTHER -> FALSE

Check(u, n, w, global) == n \in global /\ RoleCan(ResolveWorkspaceRole(u, w), n)

AccessibleWorkspaces(u) == {w \in Workspaces : members[u, w] # NoRole}

-----------------------------------------------------------------------------
TypeOK ==
    /\ \A u \in Users : user[u] \in Seq(ScopedGrant) /\ denies[u] \subseteq Names
    /\ \A i \in Groups : group[i] \in Seq(ScopedGrant)

(* Whatever was granted and denied in whatever order: a permission is granted exactly
   when the session is fresh and the subject is an administrator, or nothing it holds a
   deny on covers it and a role default or some applicable grant does; and the grant
   reported is a workspace grant exactly when one of those applies.  The engine's single
   check and its listing agree on every leaf. *)
GrantsReaching(ctx, n) ==
    {s \in GrantScope : AppliesTo(s, ctx) /\ \E p \in Names : GrantMatches(p, n)
        /\ \/ [permission |-> p, scope |-> s] \in ToSet(user[ctx.user])
           \/ \E i \in ctx.groups : [permission |-> p, scope |-> s] \in ToSet(group[i])}

ResolvesAsStated ==
    \A ctx \in Context, n \in Names :
        LET d == CheckPermission(ctx, n)
            admin == ctx.system_role = "admin"
            denied == \E m \in denies[ctx.user] : GrantMatches(m, n)
            default == \E m \in RoleDefaults[ctx.system_role] : GrantMatches(m, n)
            scopes == GrantsReaching(ctx, n) IN
        /\ d.granted <=> ~ ctx.stale /\ (admin \/ (~ denied /\ (default \/ scopes # {})))
        /\ n \notin Branches => (n \in ResolveEffectivePermissions(ctx) <=> d.granted)
        /\ (d.granted /\ ~ admin /\ ~ default) =>
               (d.source = "WorkspaceGrant" <=> \E s \in scopes : s.kind = "workspace")

(* "Names starting with workspace.manage or rbac. stay Owner-only." *)
ManagementOwnerOnly ==
    \A u \in Users, w \in Workspaces, n \in Names :
        (StartsWith(n, <<"workspace", "manage">>) \/ StartsWith(n, <<"rbac">>))
        /\ Check(u, n, w, Names) => ResolveWorkspaceRole(u, w) = "owner"

(* Granting never takes a decision away and denying never gives one, however grants,
   groups and scopes overlap; a group's workspace grant changes nothing for somebody who
   is a direct member there. *)
GrantStep ==
    \A ctx \in Context, n \in Names :
        /\ denies' = denies /\ Resolve(ctx, n).granted => Resolve(ctx, n)'.granted
        /\ (user' = user /\ group' = group) /\ Resolve(ctx, n)'.granted => Resolve(ctx, n).granted

MemberStep ==
    \A u \in Users, w \in Workspaces, n \in Names :
        members' = members /\ w \in AccessibleWorkspaces(u) =>
            Check(u, n, w, Names)' = Check(u, n, w, Names)

Monotone == [][GrantStep /\ MemberStep]_avars
=============================================================================
