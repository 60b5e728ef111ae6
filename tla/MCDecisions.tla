----------------------------- MODULE MCDecisions -----------------------------
(* Small instances of the components that decide: the role graph, grant rows, scoped
   grants and workspaces, assignment constraints, the password policy and the anomaly
   detector.  They do not
   share state, so each behaviour is about one of them: `scenario` is chosen in the
   initial state and the variables of the others never move. *)
EXTENDS RoleHierarchy, GrantResolution, Constraints, PasswordRules, AnomalyWindow, TLC

CONSTANTS r1, r2, r3, s1, s2, s3, a1, a2, u1, g1, w1, nowhere

VARIABLES scenario, user, group, denies, members, group_grants, writes

scopes == <<user, group, denies, members, group_grants, writes>>
vars == <<scenario, hvars, gvars, scopes, cvars, wvars, dvars>>

(* Every role has a permission of its own, named after it. *)
MCRoles == {r1, r2, r3}
MCPermChoices == {[r \in MCRoles |-> {r}]}
MCStarts == {r1}

(* "provider" is a domain with one leaf, "x.y" an opaque path, "X" malformed. *)
Row(scope, permission, granted, resource, expires_at) ==
    [scope |-> scope, permission |-> permission, granted |-> granted,
     resource |-> resource, expires_at |-> expires_at]

MCGrantPerms == {"provider.use", "x.y"}
MCTyped == {"provider.use"}
MCLeaves(d) == IF d = "provider" THEN {"provider.use"} ELSE {}
MCWellFormed == {"provider.use", "provider", "x.y"}
MCClock == {1}
MCRows ==
    {Row("user", "provider", FALSE, FALSE, 2), Row("user", "x.y", TRUE, FALSE, Never),
     Row("group", "provider.use", TRUE, FALSE, Never), Row("group", "x.y", FALSE, FALSE, Never),
     Row("global", "provider", TRUE, FALSE, Never), Row("usr", "x.y", FALSE, FALSE, 1),
     Row("user", "provider.use", TRUE, FALSE, 1), Row("user", "x.y", FALSE, TRUE, Never),
     Row("user", "X", TRUE, FALSE, Never), Row("user", "provider.use", TRUE, FALSE, Never)}

Device == <<"device">>
DeviceList == <<"device", "list">>
RolesList == <<"rbac", "roles", "list">>

ScopedAccess == INSTANCE ScopedAccess WITH
    Names <- {Device, DeviceList, RolesList}, Branches <- {Device}, Users <- {u1},
    Groups <- {g1}, Workspaces <- {w1}, NoWorkspace <- nowhere, MaxGrants <- 3,
    RoleDefaults <- [admin |-> {}, operator |-> {Device}, member |-> {DeviceList}, viewer |-> {}]

Apart == [name |-> "apart", roles |-> {r1, r2}, cardinality |-> 2]
OneR1 == [role_name |-> r1, max_subjects |-> 0]
R2NeedsR1 == [role_name |-> r2, requires |-> r1]
R2From1 == [role_name |-> r2, valid_from |-> 1, valid_until |-> 2]
Seed(ss, cs, ps, ts) == [ssd |-> ss, cardinality |-> cs, prerequisites |-> ps, temporal |-> ts]

MCSubjects == {s1, s2, s3}
MCAssignableRoles == {r1, r2}
MCSsdChoices == {Apart}
MCCardChoices == {OneR1}
MCPreChoices == {R2NeedsR1}
MCTempChoices == {R2From1}
MCSeeds == {Seed({}, {OneR1}, {R2NeedsR1}, {}), Seed({Apart}, {}, {}, {R2From1})}

MCPolicies ==
    {[enabled |-> TRUE, force |-> TRUE, max_age |-> {2}],
     [enabled |-> TRUE, force |-> FALSE, max_age |-> {1}],
     [enabled |-> TRUE, force |-> TRUE, max_age |-> {0}],
     [enabled |-> FALSE, force |-> TRUE, max_age |-> {}]}

MCCategories == {"read", "write"}
MCSupplied == {[counts |-> [c \in MCCategories |-> IF c = "read" THEN 9 ELSE 1], n |-> 10]}

none == "unused"
HierarchyAtRest ==
    /\ known = {} /\ parents = <<>> /\ perms = <<>> /\ start = none /\ stack = <<>>
    /\ visited = {} /\ all_perms = {} /\ pushing = {} /\ frames = <<>> /\ seen = {} /\ answer = "none"
GrantsAtRest ==
    /\ rows = {} /\ defaults = {} /\ now = 0 /\ todo = {}
    /\ decisions = [p \in GrantPerms |-> Undecided]
ScopesAtRest ==
    /\ user = <<>> /\ group = <<>> /\ denies = <<>> /\ members = <<>>
    /\ group_grants = <<>> /\ writes = 0
ConstraintsAtRest ==
    /\ ssd = {} /\ cardinality = {} /\ prerequisites = {} /\ temporal = {} /\ time = 0
    /\ assigned = [s \in Subjects |-> {}] /\ calls = [a \in Assigners |-> Idle]
    /\ edits = 0 /\ begun = 0
PasswordAtRest ==
    /\ policy = none /\ adoption = none /\ durable = FALSE /\ state = NoState
    /\ hash = [value |-> none, set_at |-> 0]
    /\ changing = FALSE /\ day = 0 /\ verdict = [reason |-> "asked", hash |-> none]
AnomalyAtRest ==
    /\ window_size = 0 /\ recent_actions = <<>> /\ history = <<>> /\ baseline = NoBaseline
    /\ total_observed = 0 /\ score = "none" /\ observed = <<>> /\ provenance = none

Init ==
    \/ /\ scenario = "hierarchy" /\ HierarchyInit
       /\ GrantsAtRest /\ ScopesAtRest /\ ConstraintsAtRest /\ PasswordAtRest /\ AnomalyAtRest
    \/ /\ scenario = "grants" /\ GrantsInit
       /\ HierarchyAtRest /\ ScopesAtRest /\ ConstraintsAtRest /\ PasswordAtRest /\ AnomalyAtRest
    \/ /\ scenario = "scopes" /\ ScopedAccess!Init
       /\ HierarchyAtRest /\ GrantsAtRest /\ ConstraintsAtRest /\ PasswordAtRest /\ AnomalyAtRest
    \/ /\ scenario = "constraints" /\ ConstraintsInit
       /\ HierarchyAtRest /\ GrantsAtRest /\ ScopesAtRest /\ PasswordAtRest /\ AnomalyAtRest
    \/ /\ scenario = "password" /\ PasswordInit
       /\ HierarchyAtRest /\ GrantsAtRest /\ ScopesAtRest /\ ConstraintsAtRest /\ AnomalyAtRest
    \/ /\ scenario = "anomaly" /\ AnomalyInit
       /\ HierarchyAtRest /\ GrantsAtRest /\ ScopesAtRest /\ ConstraintsAtRest /\ PasswordAtRest

Next ==
    /\ UNCHANGED scenario
    /\ \/ /\ scenario = "hierarchy" /\ HierarchyNext
          /\ UNCHANGED <<gvars, scopes, cvars, wvars, dvars>>
       \/ /\ scenario = "grants" /\ GrantsNext
          /\ UNCHANGED <<hvars, scopes, cvars, wvars, dvars>>
       \/ /\ scenario = "scopes" /\ ScopedAccess!Next
          /\ UNCHANGED <<hvars, gvars, cvars, wvars, dvars>>
       \/ /\ scenario = "constraints" /\ ConstraintsNext
          /\ UNCHANGED <<hvars, gvars, scopes, wvars, dvars>>
       \/ /\ scenario = "password" /\ PasswordNext
          /\ UNCHANGED <<hvars, gvars, scopes, cvars, dvars>>
       \/ /\ scenario = "anomaly" /\ AnomalyNext
          /\ UNCHANGED <<hvars, gvars, scopes, cvars, wvars>>

(* The loops of resolve_role_chain and detect_cycle belong to the calling thread. *)
Spec == Init /\ [][Next]_vars /\ WF_vars(scenario = "hierarchy" /\ Next)

-----------------------------------------------------------------------------
(* Both walks over the role graph end, cycles or not. *)
WalksEnd == scenario = "hierarchy" ~> WalkDone /\ answer \in {"cycle", "acyclic"}

(* workspace_guard.rs: names starting with workspace.manage or rbac. stay Owner-only. *)
ManagementOwnerOnly == scenario = "scopes" => ScopedAccess!ManagementOwnerOnly

(* The scoped resolver grants exactly what its precedence rules say; a grant never takes a
   decision away, a deny never gives one, and a group's workspace grant never changes what
   a direct member may do. *)
ScopesAsStated ==
    /\ [](scenario = "scopes" => ScopedAccess!TypeOK /\ ScopedAccess!ResolvesAsStated)
    /\ [][scenario = "scopes" => ScopedAccess!GrantStep /\ ScopedAccess!MemberStep]_vars
=============================================================================
