--------------------------- MODULE RoleHierarchy ---------------------------
(* The two walks over the role graph (rbac/hierarchy/mod.rs): resolve_role_chain, which
   collects the permissions of a role and of every ancestor, and detect_cycle, a
   depth-first probe.  Both read the registry through get_role_permissions and
   role_parents; an unknown role is a leaf.  The graph is arbitrary, cycles and
   dangling parents included, and is chosen in the initial state.

   The caller asks for the chain and then probes for a cycle.  The order of a role's
   parents is left open: the loop over them takes any one next. *)
EXTENDS Naturals, Sequences

CONSTANTS
    Roles, Perms,
    PermChoices,   \* assignments of permissions to roles: subset of [Roles -> SUBSET Perms]
    Starts         \* roles the caller may ask about

ASSUME HierarchyAssumption == Starts \subseteq Roles /\ PermChoices \subseteq [Roles -> SUBSET Perms]

VARIABLES
    known,       \* roles the registry knows: get_role_permissions is Some
    parents,     \* role_parents
    perms,       \* get_role_permissions
    start,       \* the role asked about
    stack, visited, all_perms,      \* resolve_role_chain
    pushing,                        \* parents its inner loop has not looked at yet
    frames, seen, answer            \* detect_cycle: recursion, visited set, result

graph == <<known, parents, perms, start>>
walk == <<stack, visited, all_perms, pushing>>
probe == <<frames, seen, answer>>
hvars == <<graph, walk, probe>>

Frame(r) == [role |-> r, todo |-> IF r \in known THEN parents[r] ELSE {}]

(* Every registry that register, set_parents and register_hierarchical build in some
   order: parents are checked against nothing and may name, or belong to, a role that
   was never registered. *)
Registered ==
    /\ known \in SUBSET Roles
    /\ parents \in [Roles -> SUBSET Roles]
    /\ perms \in PermChoices

HierarchyInit ==
    /\ Registered
    /\ start \in Starts
    /\ stack = <<start>> /\ visited = {} /\ all_perms = {} /\ pushing = {}
    /\ frames = <<Frame(start)>> /\ seen = {start} /\ answer = "none"

(* One pop of resolve_role_chain: a visited name is skipped, a known role adds its
   permissions and its parents are looked at. *)
Popped == stack[Len(stack)]
Pop == stack' = SubSeq(stack, 1, Len(stack) - 1)

(* Mutant: the entry is looked at and never popped. *)
MutSkip ==
    /\ pushing = {} /\ stack # <<>> /\ Popped \in visited
    /\ UNCHANGED <<walk, graph, probe>>

Skip ==
    /\ pushing = {} /\ stack # <<>> /\ Popped \in visited
    /\ Pop
    /\ UNCHANGED <<visited, all_perms, pushing, graph, probe>>

(* Mutant: an unknown role ends the whole walk. *)
MutExpand ==
    /\ pushing = {} /\ stack # <<>> /\ Popped \notin visited
    /\ visited' = visited \cup {Popped}
    /\ IF Popped \in known
       THEN Pop /\ all_perms' = all_perms \cup perms[Popped] /\ pushing' = parents[Popped]
       ELSE stack' = <<>> /\ UNCHANGED <<all_perms, pushing>>
    /\ UNCHANGED <<graph, probe>>

Expand ==
    /\ pushing = {} /\ stack # <<>> /\ Popped \notin visited
    /\ Pop
    /\ visited' = visited \cup {Popped}
    /\ IF Popped \in known
       THEN all_perms' = all_perms \cup perms[Popped] /\ pushing' = parents[Popped]
       ELSE UNCHANGED <<all_perms, pushing>>
    /\ UNCHANGED <<graph, probe>>

(* A parent not visited yet is pushed, perhaps a second time. *)
Push(p) ==
    /\ p \in pushing
    /\ pushing' = pushing \ {p}
    /\ stack' = IF p \in visited THEN stack ELSE Append(stack, p)
    /\ UNCHANGED <<visited, all_perms, graph, probe>>

WalkDone == stack = <<>> /\ pushing = {}

(* dfs: the roles on the recursion path are those of the frames. *)
Path == {frames[i].role : i \in DOMAIN frames}
Top == frames[Len(frames)]

(* The innermost call has dealt with p. *)
Followed(p) == [frames EXCEPT ![Len(frames)] = [role |-> Top.role, todo |-> Top.todo \ {p}]]

(* Mutant: a role met before is a cycle, on the path or not. *)
MutFollow(p) ==
    /\ WalkDone /\ answer = "none" /\ frames # <<>> /\ p \in Top.todo
    /\ IF p \in seen
       THEN answer' = "cycle" /\ UNCHANGED <<frames, seen>>
       ELSE /\ frames' = Append(Followed(p), Frame(p))
            /\ seen' = seen \cup {p}
            /\ UNCHANGED answer
    /\ UNCHANGED <<graph, walk>>

(* The next parent of the innermost call: on the path, already explored, or entered. *)
Follow(p) ==
    /\ WalkDone /\ answer = "none" /\ frames # <<>> /\ p \in Top.todo
    /\ \/ p \in Path /\ answer' = "cycle" /\ UNCHANGED <<frames, seen>>
       \/ p \in seen \ Path /\ frames' = Followed(p) /\ UNCHANGED <<seen, answer>>
       \/ /\ p \notin seen
          /\ frames' = Append(Followed(p), Frame(p))
          /\ seen' = seen \cup {p}
          /\ UNCHANGED answer
    /\ UNCHANGED <<graph, walk>>

(* A call without parents left returns false to its caller. *)
Return ==
    /\ WalkDone /\ answer = "none" /\ frames # <<>> /\ Top.todo = {}
    /\ frames' = SubSeq(frames, 1, Len(frames) - 1)
    /\ answer' = IF Len(frames) = 1 THEN "acyclic" ELSE "none"
    /\ UNCHANGED <<seen, graph, walk>>

Walk == Skip \/ Expand \/ \E p \in Roles : Push(p)
Probe == Return \/ \E p \in Roles : Follow(p)
HierarchyNext == Walk \/ Probe

(* Both are plain loops of the calling thread: they run on until they end. *)
HierarchySpec == HierarchyInit /\ [][HierarchyNext]_hvars /\ WF_hvars(Walk) /\ WF_hvars(Probe)

-----------------------------------------------------------------------------
HierarchyTypeOK ==
    /\ known \subseteq Roles /\ start \in Roles
    /\ parents \in [Roles -> SUBSET Roles] /\ perms \in [Roles -> SUBSET Perms]
    /\ stack \in Seq(Roles) /\ visited \subseteq Roles /\ pushing \subseteq Roles /\ all_perms \subseteq Perms
    /\ seen \subseteq Roles /\ answer \in {"none", "cycle", "acyclic"}

(* Sets of roles closed under "parent of a known member". *)
Closed(S) == \A r \in S \cap known : parents[r] \subseteq S

(* The roles reachable from those of X: what every closed set around X contains. *)
Reach(X) == {r \in Roles : \A S \in SUBSET Roles : X \subseteq S /\ Closed(S) => r \in S}

(* When the walk ends it has collected exactly the permissions of the known roles
   reachable from the start: a cycle neither loops nor truncates the result, a dangling
   parent adds nothing. *)
ChainExact ==
    WalkDone => all_perms = UNION {perms[r] : r \in Reach({start}) \cap known}

(* detect_cycle answers true exactly when some known role reachable from the start
   reaches itself through its parents; a diamond is not a cycle. *)
CycleExact ==
    answer # "none" =>
        (answer = "cycle" <=> \E r \in Reach({start}) \cap known : r \in Reach(parents[r]))

(* Both walks are exact. *)
WalksExact == ChainExact /\ CycleExact

-----------------------------------------------------------------------------
(* What the proofs carry along. *)
Pending == {stack[i] : i \in DOMAIN stack} \cup pushing

(* The chain: whatever is pending or visited is reachable, a visited role's parents are
   visited or pending, and the permissions are those of what was visited. *)
WalkInv ==
    /\ Pending \cup visited \subseteq Reach({start})
    /\ start \in Pending \cup visited
    /\ \A r \in visited \cap known : parents[r] \subseteq Pending \cup visited
    /\ all_perms = UNION {perms[r] : r \in visited \cap known}

ParentsOf(r) == IF r \in known THEN parents[r] ELSE {}
Explored == seen \ Path
Looping(r) == r \in known /\ r \in Reach(parents[r])

(* The probe: the path has no role twice and each role on it reaches the later ones;
   of a role on the path, only the parents still to do and the next role on the path are
   unexplored; what is explored is closed under parents and free of cycles. *)
ProbeInv ==
    /\ frames \in Seq([role : Roles, todo : SUBSET Roles])
    /\ Path \subseteq seen /\ seen \subseteq Reach({start}) /\ start \in seen
    /\ \A i, j \in DOMAIN frames : i < j =>
           /\ frames[i].role # frames[j].role
           /\ frames[i].role \in known
           /\ frames[j].role \in Reach(parents[frames[i].role])
    /\ \A i \in DOMAIN frames :
           /\ frames[i].todo \subseteq ParentsOf(frames[i].role)
           /\ \A p \in ParentsOf(frames[i].role) \ frames[i].todo :
                  p \in Explored \/ (i < Len(frames) /\ p = frames[i + 1].role)
    /\ \A r \in Explored : ParentsOf(r) \subseteq Explored /\ ~ Looping(r)
    /\ answer = "acyclic" => frames = <<>>
    /\ answer = "cycle" => \E r \in Reach({start}) : Looping(r)
=============================================================================
