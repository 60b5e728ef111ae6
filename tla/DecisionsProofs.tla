--------------------------- MODULE DecisionsProofs ---------------------------
(* Proofs about the components that decide: the walks of RoleHierarchy, for every set of
   roles, finite or not, and every graph over it; the fold of GrantResolution, for every
   catalog and every set of rows; PasswordRules; AnomalyWindow, for every window size and
   minimum; and Constraints, for every number of racing callers. *)
EXTENDS RoleHierarchy, GrantResolution, Constraints, PasswordRules, AnomalyWindow,
        FiniteSetTheorems, SequenceTheorems, TLAPS

(* ------------------------------- RoleHierarchy ------------------------------- *)

(* HierarchyInit establishes the types. *)
LEMMA TypesInit == HierarchyInit => HierarchyTypeOK
  BY HierarchyAssumption DEF HierarchyInit, Registered, HierarchyTypeOK

(* Every step of either walk keeps the types. *)
LEMMA TypesStep == HierarchyTypeOK /\ [HierarchyNext]_hvars => HierarchyTypeOK'
<1> SUFFICES ASSUME HierarchyTypeOK, [HierarchyNext]_hvars PROVE HierarchyTypeOK'
  OBVIOUS
<1>1. CASE Skip
  BY <1>1 DEF Skip, Pop, HierarchyTypeOK, graph, probe
<1>2. CASE Expand
  <2>1. Popped \in Roles
    BY <1>2 DEF Expand, Popped, HierarchyTypeOK
  <2>2. stack' \in Seq(Roles)
    BY <1>2 DEF Expand, Pop, HierarchyTypeOK
  <2> QED
    BY <1>2, <2>1, <2>2 DEF Expand, HierarchyTypeOK, graph, probe
<1>3. ASSUME NEW p \in Roles, Push(p) PROVE HierarchyTypeOK'
  BY <1>3 DEF Push, HierarchyTypeOK, graph, probe
<1>4. CASE Return
  BY <1>4 DEF Return, HierarchyTypeOK, graph, walk
<1>5. ASSUME NEW p \in Roles, Follow(p) PROVE HierarchyTypeOK'
  <2>1. seen' \subseteq Roles /\ answer' \in {"none", "cycle", "acyclic"}
    BY <1>5 DEF Follow, HierarchyTypeOK
  <2> QED
    BY <1>5, <2>1 DEF Follow, HierarchyTypeOK, graph, walk
<1>6. CASE UNCHANGED hvars
  BY <1>6 DEF hvars, graph, walk, probe, HierarchyTypeOK
<1> QED
  BY <1>1, <1>2, <1>3, <1>4, <1>5, <1>6 DEF HierarchyNext, Walk, Probe

(* resolve_role_chain and detect_cycle: the types hold throughout. *)
THEOREM HierarchyTyped == HierarchySpec => []HierarchyTypeOK
<1>1. HierarchyInit => HierarchyTypeOK
  BY TypesInit
<1>2. HierarchyTypeOK /\ [HierarchyNext]_hvars => HierarchyTypeOK'
  BY TypesStep
<1> QED
  BY <1>1, <1>2, PTL DEF HierarchySpec

-----------------------------------------------------------------------------
(* What X reaches contains X. *)
LEMMA ReachHas == ASSUME NEW X \in SUBSET Roles PROVE X \subseteq Reach(X)
  BY DEF Reach

(* A known role that is reached has its parents reached. *)
LEMMA ReachClosed ==
    ASSUME HierarchyTypeOK, NEW X, NEW r \in Reach(X), r \in known
    PROVE  parents[r] \subseteq Reach(X)
<1> SUFFICES ASSUME NEW p \in parents[r] PROVE p \in Reach(X)
  OBVIOUS
<1>1. r \in Roles /\ p \in Roles
  BY DEF Reach, HierarchyTypeOK
<1>2. ASSUME NEW S \in SUBSET Roles, X \subseteq S, Closed(S) PROVE p \in S
  <2>1. r \in S
    BY <1>2 DEF Reach
  <2> QED
    BY <1>2, <2>1 DEF Closed
<1> QED
  BY <1>1, <1>2 DEF Reach

(* Every closed set around X contains what X reaches. *)
LEMMA ReachLeast ==
    ASSUME NEW X, NEW S \in SUBSET Roles, X \subseteq S, Closed(S)
    PROVE  Reach(X) \subseteq S
  BY DEF Reach

(* Reachability is transitive. *)
LEMMA ReachThrough ==
    ASSUME HierarchyTypeOK, NEW X, NEW Y \in SUBSET Reach(X)
    PROVE  Reach(Y) \subseteq Reach(X)
<1>1. Reach(X) \in SUBSET Roles
  BY DEF Reach
<1>2. Closed(Reach(X))
  BY ReachClosed DEF Closed
<1> QED
  BY <1>1, <1>2, ReachLeast

(* The graph does not change under a walk. *)
LEMMA ReachSame ==
    ASSUME UNCHANGED graph, NEW X PROVE Reach(X)' = Reach(X)
  BY DEF Reach, Closed, graph

-----------------------------------------------------------------------------
(* The first frame asks about the start, and nothing has been visited. *)
LEMMA WalkInit == HierarchyInit => WalkInv
<1> SUFFICES ASSUME HierarchyInit PROVE WalkInv
  OBVIOUS
<1>1. Pending = {start} /\ start \in Roles
  BY HierarchyAssumption DEF Pending, HierarchyInit
<1>2. {start} \subseteq Reach({start})
  BY <1>1, ReachHas
<1> QED
  BY <1>1, <1>2 DEF WalkInv, HierarchyInit

(* What a pop takes off the stack. *)
LEMMA PopPending ==
    ASSUME HierarchyTypeOK, stack # <<>>, Pop
    PROVE  {stack[i] : i \in DOMAIN stack} = {stack'[i] : i \in DOMAIN stack'} \cup {Popped}
<1>1. Len(stack) \in Nat \ {0} /\ DOMAIN stack = 1..Len(stack)
  BY DEF HierarchyTypeOK
<1>2. DOMAIN stack' = 1..(Len(stack) - 1) /\ \A i \in DOMAIN stack' : stack'[i] = stack[i]
  BY <1>1 DEF Pop, HierarchyTypeOK
<1> QED
  BY <1>1, <1>2 DEF Popped

(* The chain's invariant survives every step of its loop. *)
LEMMA WalkStep == HierarchyTypeOK /\ WalkInv /\ [HierarchyNext]_hvars => WalkInv'
<1> SUFFICES ASSUME HierarchyTypeOK, WalkInv, [HierarchyNext]_hvars PROVE WalkInv'
  OBVIOUS
<1>g. UNCHANGED graph
  BY DEF HierarchyNext, Walk, Probe, Skip, Expand, Push, Return, Follow, hvars
<1>r. Reach({start})' = Reach({start})
  BY <1>g, ReachSame DEF graph
<1>1. CASE Skip
  <2>1. Pending \cup visited = Pending' \cup visited'
    BY <1>1, PopPending DEF Skip, Pending
  <2> QED
    BY <1>1, <2>1, <1>r DEF Skip, WalkInv, graph
<1>2. CASE Expand
  <2>1. Pending = Pending' \cup {Popped} \/ Pending \cup parents[Popped] = Pending' \cup {Popped}
    BY <1>2, PopPending DEF Expand, Pending
  <2>2. Popped \in Reach({start}) /\ Pending \cup visited \subseteq Pending' \cup visited'
    BY <1>2, PopPending DEF Expand, Pending, WalkInv
  <2>3. Popped \in known => parents[Popped] \subseteq Pending'
    BY <1>2 DEF Expand, Pending
  <2>4. (Pending \cup visited)' \subseteq Reach({start})
    <3>1. CASE Popped \in known
      <4>1. parents[Popped] \subseteq Reach({start})
        BY <2>2, <3>1, ReachClosed
      <4> QED
        BY <1>2, <3>1, <4>1, <2>2, PopPending DEF Expand, Pending, WalkInv
    <3>2. CASE Popped \notin known
      BY <1>2, <3>2, <2>2, PopPending DEF Expand, Pending, WalkInv
    <3> QED
      BY <3>1, <3>2
  <2>5. all_perms' = UNION {perms'[r] : r \in visited' \cap known'}
    <3>1. CASE Popped \in known
      <4>1. visited' \cap known' = (visited \cap known) \cup {Popped}
        BY <1>2, <1>g, <3>1 DEF Expand, graph
      <4> QED
        BY <1>2, <1>g, <3>1, <4>1 DEF Expand, WalkInv, graph
    <3>2. CASE Popped \notin known
      <4>1. visited' \cap known' = visited \cap known
        BY <1>2, <1>g, <3>2 DEF Expand, graph
      <4> QED
        BY <1>2, <1>g, <3>2, <4>1 DEF Expand, WalkInv, graph
    <3> QED
      BY <3>1, <3>2
  <2>6. ASSUME NEW r \in visited' \cap known' PROVE parents'[r] \subseteq (Pending \cup visited)'
    BY <1>2, <1>g, <2>2, <2>3 DEF Expand, WalkInv, graph
  <2>7. start' \in (Pending \cup visited)'
    BY <1>g, <2>2 DEF WalkInv, graph
  <2> QED
    BY <1>r, <2>4, <2>5, <2>6, <2>7 DEF WalkInv
<1>3. ASSUME NEW p \in Roles, Push(p) PROVE WalkInv'
  <2>1. Pending' \cup visited' = Pending \cup visited
    <3>1. CASE p \in visited
      BY <1>3, <3>1 DEF Push, Pending
    <3>2. CASE p \notin visited
      <4>1. stack' = Append(stack, p)
        BY <1>3, <3>2 DEF Push
      <4>2. {stack'[i] : i \in DOMAIN stack'} = {stack[i] : i \in DOMAIN stack} \cup {p}
        <5>1. DOMAIN stack' = 1..(Len(stack) + 1) /\ DOMAIN stack = 1..Len(stack) /\ Len(stack) \in Nat
          BY <4>1 DEF HierarchyTypeOK
        <5>2. stack'[Len(stack) + 1] = p /\ \A i \in DOMAIN stack : stack'[i] = stack[i]
          BY <4>1 DEF HierarchyTypeOK
        <5>3. DOMAIN stack' = DOMAIN stack \cup {Len(stack) + 1}
          BY <5>1
        <5> QED
          BY <5>2, <5>3
      <4> QED
        BY <1>3, <4>2 DEF Push, Pending
    <3> QED
      BY <3>1, <3>2
  <2> QED
    BY <1>3, <2>1, <1>r DEF Push, WalkInv, graph
<1>4. CASE UNCHANGED <<graph, walk>>
  BY <1>4, <1>r DEF graph, walk, WalkInv, Pending
<1> QED
  BY <1>1, <1>2, <1>3, <1>4 DEF HierarchyNext, Walk, Probe, Return, Follow, hvars

(* When nothing is pending, what was visited is what can be reached. *)
LEMMA WalkExact == HierarchyTypeOK /\ WalkInv => ChainExact
<1> SUFFICES ASSUME HierarchyTypeOK, WalkInv, WalkDone
             PROVE  all_perms = UNION {perms[r] : r \in Reach({start}) \cap known}
  BY DEF ChainExact
<1>1. Pending = {}
  BY DEF Pending, WalkDone
<1>2. Closed(visited) /\ {start} \subseteq visited /\ visited \in SUBSET Roles
  BY <1>1 DEF WalkInv, Closed, HierarchyTypeOK
<1>3. Reach({start}) = visited
  BY <1>1, <1>2, ReachLeast DEF WalkInv
<1> QED
  BY <1>3 DEF WalkInv

(* resolve_role_chain returns exactly the permissions of the known roles reachable from
   the one asked about, on every graph: cycles and dangling names included. *)
THEOREM ChainIsExact == HierarchySpec => []ChainExact
<1>1. HierarchyInit => HierarchyTypeOK /\ WalkInv
  BY TypesInit, WalkInit
<1>2. HierarchyTypeOK /\ WalkInv /\ [HierarchyNext]_hvars => (HierarchyTypeOK /\ WalkInv)'
  BY TypesStep, WalkStep
<1>3. HierarchyTypeOK /\ WalkInv => ChainExact
  BY WalkExact
<1> QED
  BY <1>1, <1>2, <1>3, PTL DEF HierarchySpec

-----------------------------------------------------------------------------
Frames == Seq([role : Roles, todo : SUBSET Roles])

(* A call of dfs starts with the parents of its role to do. *)
LEMMA FrameTyped == ASSUME HierarchyTypeOK, NEW r \in Roles
                    PROVE  Frame(r) \in [role : Roles, todo : SUBSET Roles] /\ Frame(r).role = r
                           /\ Frame(r).todo = ParentsOf(r) /\ ParentsOf(r) \subseteq Roles
  BY DEF Frame, ParentsOf, HierarchyTypeOK

(* Only the start is on the path, with all its parents to do. *)
LEMMA ProbeInit == HierarchyInit => ProbeInv
<1> SUFFICES ASSUME HierarchyInit PROVE ProbeInv
  OBVIOUS
<1>1. HierarchyTypeOK /\ start \in Roles
  BY TypesInit DEF HierarchyTypeOK
<1>2. frames = <<Frame(start)>> /\ DOMAIN frames = {1} /\ Len(frames) = 1 /\ frames[1] = Frame(start)
  BY DEF HierarchyInit
<1>3. frames \in Frames /\ frames[1].role = start /\ frames[1].todo = ParentsOf(start)
  BY <1>1, <1>2, FrameTyped DEF Frames
<1>4. Path = {start} /\ seen = {start} /\ Explored = {}
  BY <1>2, <1>3 DEF Path, HierarchyInit, Explored
<1>5. {start} \subseteq Reach({start})
  BY <1>1, ReachHas
<1>6. answer = "none"
  BY DEF HierarchyInit
<1> QED
  BY <1>2, <1>3, <1>4, <1>5, <1>6 DEF ProbeInv, Frames

(* The innermost frame. *)
LEMMA TopFrame ==
    ASSUME frames \in Frames, frames # <<>>
    PROVE  /\ Len(frames) \in Nat \ {0} /\ DOMAIN frames = 1..Len(frames)
           /\ Len(frames) \in DOMAIN frames
           /\ Top = frames[Len(frames)] /\ Top.role \in Path
  BY DEF Frames, Top, Path

(* Parents of a reachable role are reachable. *)
LEMMA ParentsReached ==
    ASSUME HierarchyTypeOK, NEW X, NEW r \in Reach(X) PROVE ParentsOf(r) \subseteq Reach(X)
  BY ReachClosed DEF ParentsOf

(* A parent on the path closes a cycle. *)
LEMMA FollowPath ==
    ASSUME HierarchyTypeOK, ProbeInv, frames # <<>>, NEW p \in Path, p \in Top.todo
    PROVE  \E r \in Reach({start}) : Looping(r)
<1>1. /\ Len(frames) \in Nat \ {0} /\ DOMAIN frames = 1..Len(frames)
      /\ Top = frames[Len(frames)] /\ Len(frames) \in DOMAIN frames
  BY TopFrame DEF ProbeInv, Frames
<1>2. PICK i \in DOMAIN frames : p = frames[i].role
  BY DEF Path
<1>3. p \in ParentsOf(Top.role) /\ p \in Reach({start}) /\ Top.role \in known /\ p \in parents[Top.role]
  BY <1>1 DEF ProbeInv, ParentsOf
<1>4. CASE i = Len(frames)
  <2>1. parents[p] \in SUBSET Roles /\ p \in parents[p] /\ p \in known
    BY <1>1, <1>2, <1>3, <1>4 DEF HierarchyTypeOK
  <2> QED
    BY <2>1, <1>3, ReachHas DEF Looping
<1>5. CASE i # Len(frames)
  <2>1. i < Len(frames)
    BY <1>1, <1>5
  <2>2. p \in known /\ Top.role \in Reach(parents[p])
    BY <1>1, <1>2, <2>1 DEF ProbeInv
  <2>3. p \in Reach(parents[p])
    BY <2>2, <1>3, ReachClosed
  <2> QED
    BY <2>2, <2>3, <1>3 DEF Looping
<1> QED
  BY <1>4, <1>5

(* What dealing with p changes: the innermost frame's todo and nothing else. *)
LEMMA FollowedShape ==
    ASSUME frames \in Frames, frames # <<>>, NEW p
    PROVE  /\ Followed(p) \in Frames /\ Len(Followed(p)) = Len(frames)
           /\ DOMAIN Followed(p) = DOMAIN frames
           /\ \A i \in DOMAIN frames : Followed(p)[i].role = frames[i].role
           /\ \A i \in DOMAIN frames : i # Len(frames) => Followed(p)[i].todo = frames[i].todo
           /\ Followed(p)[Len(frames)].todo = Top.todo \ {p}
<1>1. Len(frames) \in Nat \ {0} /\ DOMAIN frames = 1..Len(frames)
  BY DEF Frames
<1>2. \A i \in DOMAIN frames : frames[i] \in [role : Roles, todo : SUBSET Roles]
  <2> DEFINE F == [role : Roles, todo : SUBSET Roles]
  <2>1. frames \in Seq(F)
    BY DEF Frames
  <2> HIDE DEF F
  <2>2. \A i \in DOMAIN frames : frames[i] \in F
    BY <2>1
  <2> QED
    BY <2>2 DEF F
<1>3. [role |-> Top.role, todo |-> Top.todo \ {p}] \in [role : Roles, todo : SUBSET Roles]
  BY <1>1, <1>2 DEF Top
<1>4. Followed(p) = [frames EXCEPT ![Len(frames)] = [role |-> Top.role, todo |-> Top.todo \ {p}]]
  BY DEF Followed
<1>5. Followed(p) \in Frames
  BY <1>3, <1>4 DEF Frames
<1>6. DOMAIN Followed(p) = DOMAIN frames
  BY <1>4
<1>7. Len(Followed(p)) = Len(frames)
  BY <1>1, <1>5, <1>6 DEF Frames
<1> QED
  BY <1>1, <1>2, <1>4, <1>5, <1>6, <1>7 DEF Top

(* A parent already explored: its branch holds no cycle and need not be entered. *)
LEMMA FollowExplored ==
    ASSUME HierarchyTypeOK, ProbeInv, NEW p \in Roles, frames # <<>>, p \in Top.todo,
           p \in seen \ Path, frames' = Followed(p),
           UNCHANGED <<seen, answer, graph>>, answer = "none"
    PROVE  ProbeInv'
<1> DEFINE n == Len(frames)
<1>f. frames \in Frames
  BY DEF ProbeInv, Frames
<1>t. n \in Nat \ {0} /\ DOMAIN frames = 1..n /\ n \in DOMAIN frames /\ Top = frames[n]
  BY <1>f, TopFrame
<1>s. /\ frames' \in Frames /\ Len(frames') = n /\ DOMAIN frames' = DOMAIN frames
      /\ \A i \in DOMAIN frames : frames'[i].role = frames[i].role
      /\ \A i \in DOMAIN frames : i # n => frames'[i].todo = frames[i].todo
      /\ frames'[n].todo = Top.todo \ {p}
  BY <1>f, FollowedShape
<1>r. \A X : Reach(X)' = Reach(X)
  BY ReachSame
<1>p. Path' = Path /\ Explored' = Explored
  BY <1>s DEF Path, Explored
<1>1. (Path \subseteq seen /\ seen \subseteq Reach({start}) /\ start \in seen)'
  BY <1>r, <1>p DEF ProbeInv, graph
<1>2. ASSUME NEW i \in DOMAIN frames', NEW j \in DOMAIN frames', i < j
      PROVE  /\ frames'[i].role # frames'[j].role
             /\ frames'[i].role \in known'
             /\ frames'[j].role \in Reach(parents[frames[i].role])'
  BY <1>2, <1>s, <1>r DEF ProbeInv, graph
<1>3. ASSUME NEW i \in DOMAIN frames'
      PROVE  /\ frames'[i].todo \subseteq ParentsOf(frames[i].role)'
             /\ \A q \in ParentsOf(frames[i].role)' \ frames'[i].todo :
                    q \in Explored' \/ (i < Len(frames') /\ q = frames'[i + 1].role)
  <2>1. ParentsOf(frames[i].role)' = ParentsOf(frames[i].role) /\ i \in DOMAIN frames
    BY <1>s DEF ParentsOf, graph
  <2>2. CASE i = n
    <3>1. p \in Explored
      BY DEF Explored
    <3> QED
      BY <2>1, <2>2, <3>1, <1>s, <1>t, <1>p DEF ProbeInv
  <2>3. CASE i # n
    <3>1. i < n /\ i + 1 \in DOMAIN frames
      BY <2>1, <2>3, <1>t
    <3> QED
      BY <2>1, <2>3, <3>1, <1>s, <1>t, <1>p DEF ProbeInv
  <2> QED
    BY <2>2, <2>3
<1>4. ASSUME NEW r \in Explored' PROVE ParentsOf(r)' \subseteq Explored' /\ ~ Looping(r)'
  BY <1>p, <1>r DEF ProbeInv, ParentsOf, Looping, graph
<1> QED
  BY <1>s, <1>1, <1>2, <1>3, <1>4 DEF ProbeInv, Frames

(* Sequences with one element more, and with one less. *)
LEMMA AppendShape ==
    ASSUME NEW S, NEW s \in Seq(S), NEW e \in S
    PROVE  /\ Append(s, e) \in Seq(S) /\ Len(Append(s, e)) = Len(s) + 1
           /\ DOMAIN Append(s, e) = 1..(Len(s) + 1)
           /\ \A i \in 1..Len(s) : Append(s, e)[i] = s[i]
           /\ Append(s, e)[Len(s) + 1] = e
  OBVIOUS

(* A path without its last call. *)
LEMMA FrontShape ==
    ASSUME NEW S, NEW s \in Seq(S), s # <<>>
    PROVE  /\ SubSeq(s, 1, Len(s) - 1) \in Seq(S)
           /\ Len(SubSeq(s, 1, Len(s) - 1)) = Len(s) - 1
           /\ DOMAIN SubSeq(s, 1, Len(s) - 1) = 1..(Len(s) - 1)
           /\ \A i \in 1..(Len(s) - 1) : SubSeq(s, 1, Len(s) - 1)[i] = s[i]
<1>1. Len(s) \in Nat \ {0} /\ DOMAIN s = 1..Len(s)
  OBVIOUS
<1>2. \A i \in 1..(Len(s) - 1) : s[i] \in S
  BY <1>1
<1>3. SubSeq(s, 1, Len(s) - 1) = [i \in 1..(Len(s) - 1) |-> s[i]]
  BY <1>1
<1>4. SubSeq(s, 1, Len(s) - 1) \in Seq(S) /\ Len(SubSeq(s, 1, Len(s) - 1)) = Len(s) - 1
  BY <1>1, <1>2
<1> QED
  BY <1>1, <1>3, <1>4

(* A parent met for the first time is entered: the path grows by it. *)
LEMMA FollowNew ==
    ASSUME HierarchyTypeOK, ProbeInv, NEW p \in Roles, frames # <<>>, p \in Top.todo,
           p \notin seen, frames' = Append(Followed(p), Frame(p)), seen' = seen \cup {p},
           UNCHANGED <<answer, graph>>, answer = "none"
    PROVE  ProbeInv'
<1> DEFINE n == Len(frames)
<1>f. frames \in Frames
  BY DEF ProbeInv, Frames
<1>t. n \in Nat \ {0} /\ DOMAIN frames = 1..n /\ n \in DOMAIN frames /\ Top = frames[n]
  BY <1>f, TopFrame
<1>s. /\ frames' \in Frames /\ Len(frames') = n + 1 /\ DOMAIN frames' = 1..(n + 1)
      /\ \A i \in 1..n : frames'[i].role = frames[i].role
      /\ \A i \in 1..n : i # n => frames'[i].todo = frames[i].todo
      /\ frames'[n].todo = Top.todo \ {p}
      /\ frames'[n + 1].role = p /\ frames'[n + 1].todo = ParentsOf(p)
  <2> DEFINE g == Followed(p)
             R == [role : Roles, todo : SUBSET Roles]
  <2>1. /\ g \in Seq(R) /\ Len(g) = n /\ DOMAIN g = 1..n
        /\ \A i \in 1..n : g[i].role = frames[i].role
        /\ \A i \in 1..n : i # n => g[i].todo = frames[i].todo
        /\ g[n].todo = Top.todo \ {p}
    BY <1>f, <1>t, FollowedShape DEF Frames
  <2>2. Frame(p) \in R /\ Frame(p).role = p /\ Frame(p).todo = ParentsOf(p)
    BY FrameTyped
  <2>3. frames' = Append(g, Frame(p))
    OBVIOUS
  <2> HIDE DEF g, R
  <2>4. /\ frames' \in Seq(R) /\ Len(frames') = n + 1 /\ DOMAIN frames' = 1..(n + 1)
        /\ \A i \in 1..n : frames'[i] = g[i]
        /\ frames'[n + 1] = Frame(p)
    <3>1. /\ Append(g, Frame(p)) \in Seq(R) /\ Len(Append(g, Frame(p))) = Len(g) + 1
          /\ DOMAIN Append(g, Frame(p)) = 1..(Len(g) + 1)
          /\ \A i \in 1..Len(g) : Append(g, Frame(p))[i] = g[i]
          /\ Append(g, Frame(p))[Len(g) + 1] = Frame(p)
      <4>1. g \in Seq(R) /\ Frame(p) \in R
        BY <2>1, <2>2
      <4> QED
        BY <4>1, AppendShape, Zenon
    <3>2. Len(g) = n
      BY <2>1
    <3> HIDE DEF n
    <3> QED
      BY <2>3, <3>1, <3>2
  <2> QED
    BY <1>t, <2>1, <2>2, <2>4 DEF R, Frames
<1>r. \A X : Reach(X)' = Reach(X)
  BY ReachSame
<1>n. n = Len(frames)
  OBVIOUS
<1> HIDE DEF n
<1>p. Path' = Path \cup {p}
  <2>1. 1..(n + 1) = 1..n \cup {n + 1}
    BY <1>t
  <2> QED
    BY <1>s, <1>t, <2>1 DEF Path
<1>e. Explored' = Explored
  BY <1>p DEF Explored, ProbeInv
<1>k. Top.role \in known /\ p \in parents[Top.role] /\ Top.role \in Reach({start})
  <2>1. Top.todo \subseteq ParentsOf(Top.role) /\ Top.role \in Path
    BY <1>f, <1>t, TopFrame DEF ProbeInv
  <2> QED
    BY <2>1 DEF ParentsOf, ProbeInv
<1>1. (Path \subseteq seen /\ seen \subseteq Reach({start}) /\ start \in seen)'
  <2>1. p \in Reach({start})
    BY <1>k, ReachClosed
  <2> QED
    BY <2>1, <1>r, <1>p DEF ProbeInv, graph
<1>2. ASSUME NEW i \in DOMAIN frames', NEW j \in DOMAIN frames', i < j
      PROVE  /\ frames'[i].role # frames'[j].role
             /\ frames'[i].role \in known'
             /\ frames'[j].role \in Reach(parents[frames[i].role])'
  <2>0. i \in 1..n /\ frames'[i].role = frames[i].role /\ frames[i].role \in Path
    BY <1>2, <1>s, <1>t DEF Path
  <2>q. Reach(parents[frames[i].role])' = Reach(parents[frames[i].role])
    <3>1. (parents[frames[i].role])' = parents[frames[i].role]
      BY <2>0 DEF graph
    <3> QED
      BY <3>1, <1>r DEF Reach, Closed, graph
  <2>1. CASE j \in 1..n
    BY <1>2, <1>s, <1>t, <2>0, <2>1, <2>q DEF ProbeInv, graph
  <2>2. CASE j = n + 1
    <3>1. frames[i].role # p
      BY <2>0 DEF ProbeInv
    <3>2. frames[i].role \in known /\ p \in Reach(parents[frames[i].role])
      <4>1. CASE i = n
        BY <4>1, <1>k, <1>t, ReachHas DEF HierarchyTypeOK
      <4>2. CASE i # n
        <5>1. frames[i].role \in known /\ Top.role \in Reach(parents[frames[i].role])
          BY <4>2, <2>0, <1>t DEF ProbeInv
        <5> QED
          BY <5>1, <1>k, ReachClosed
      <4> QED
        BY <4>1, <4>2
    <3> QED
      BY <2>0, <2>2, <2>q, <3>1, <3>2, <1>s DEF graph
  <2> QED
    BY <2>1, <2>2, <1>s, <1>t
<1>3. ASSUME NEW i \in DOMAIN frames'
      PROVE  /\ frames'[i].todo \subseteq ParentsOf(frames[i].role)'
             /\ \A q \in ParentsOf(frames[i].role)' \ frames'[i].todo :
                    q \in Explored' \/ (i < Len(frames') /\ q = frames'[i + 1].role)
  <2>1. CASE i = n + 1
    <3>1. ParentsOf(frames[i].role)' = ParentsOf(p)
      BY <2>1, <1>s DEF ParentsOf, graph
    <3> QED
      BY <2>1, <3>1, <1>s
  <2>2. CASE i \in 1..n
    <3>1. ParentsOf(frames[i].role)' = ParentsOf(frames[i].role)
      BY <2>2, <1>s DEF ParentsOf, graph
    <3>2. CASE i = n
      BY <2>2, <3>1, <3>2, <1>e, <1>s, <1>t DEF ProbeInv
    <3>3. CASE i # n
      <4>1. i < n /\ i + 1 \in 1..n
        BY <2>2, <3>3, <1>t
      <4> QED
        BY <2>2, <3>1, <3>3, <4>1, <1>e, <1>s, <1>t DEF ProbeInv
    <3> QED
      BY <3>2, <3>3
  <2> QED
    BY <2>1, <2>2, <1>s, <1>t
<1>4. ASSUME NEW r \in Explored' PROVE ParentsOf(r)' \subseteq Explored' /\ ~ Looping(r)'
  BY <1>e, <1>r DEF ProbeInv, ParentsOf, Looping, graph
<1> QED
  BY <1>s, <1>1, <1>2, <1>3, <1>4 DEF ProbeInv, Frames

(* A role whose parents are all explored has no cycle through it: it joins them. *)
LEMMA ReturnStep ==
    ASSUME HierarchyTypeOK, ProbeInv, Return PROVE ProbeInv'
<1> DEFINE n == Len(frames)
           x == Top.role
<1>a. /\ frames # <<>> /\ Top.todo = {} /\ frames' = SubSeq(frames, 1, n - 1)
      /\ answer = "none" /\ answer' = IF n = 1 THEN "acyclic" ELSE "none"
      /\ UNCHANGED <<seen, graph>>
  BY DEF Return
<1>f. frames \in Frames
  BY DEF ProbeInv, Frames
<1>t. n \in Nat \ {0} /\ DOMAIN frames = 1..n /\ n \in DOMAIN frames /\ Top = frames[n] /\ x \in Path
  BY <1>a, <1>f, TopFrame
<1>s. /\ frames' \in Frames /\ Len(frames') = n - 1 /\ DOMAIN frames' = 1..(n - 1)
      /\ \A i \in 1..(n - 1) : frames'[i] = frames[i]
  BY <1>a, <1>f, FrontShape DEF Frames
<1>r. \A X : Reach(X)' = Reach(X)
  BY <1>a, ReachSame
<1>p. Path = Path' \cup {x} /\ x \notin Path'
  <2>1. 1..n = 1..(n - 1) \cup {n}
    BY <1>t
  <2>2. \A i \in 1..(n - 1) : frames[i].role # x
    BY <1>t DEF ProbeInv
  <2> QED
    BY <1>s, <1>t, <2>1, <2>2 DEF Path
<1>e. Explored' = Explored \cup {x} /\ x \notin Explored
  BY <1>a, <1>p, <1>t DEF Explored, ProbeInv
<1>x. ParentsOf(x) \subseteq Explored
  BY <1>a, <1>t DEF ProbeInv
<1>l. ~ Looping(x)
  <2> SUFFICES ASSUME x \in known PROVE x \notin Reach(parents[x])
    BY DEF Looping
  <2>1. parents[x] \subseteq Explored /\ Explored \in SUBSET Roles
    BY <1>x DEF ParentsOf, Explored, HierarchyTypeOK
  <2>2. Closed(Explored)
    BY DEF Closed, ProbeInv, ParentsOf
  <2> HIDE DEF x
  <2> QED
    BY <2>1, <2>2, <1>e, ReachLeast
<1>1. (Path \subseteq seen /\ seen \subseteq Reach({start}) /\ start \in seen)'
  BY <1>a, <1>r, <1>p DEF ProbeInv, graph
<1>2. ASSUME NEW i \in DOMAIN frames', NEW j \in DOMAIN frames', i < j
      PROVE  /\ frames'[i].role # frames'[j].role
             /\ frames'[i].role \in known'
             /\ frames'[j].role \in Reach(parents[frames[i].role])'
  <2>1. (parents[frames[i].role])' = parents[frames[i].role] /\ i \in 1..n /\ j \in 1..n
    BY <1>a, <1>s, <1>t DEF graph
  <2>2. Reach(parents[frames[i].role])' = Reach(parents[frames[i].role])
    BY <1>a, <2>1 DEF Reach, Closed, graph
  <2> QED
    BY <1>2, <1>a, <1>s, <1>t, <2>1, <2>2 DEF ProbeInv, graph
<1>3. ASSUME NEW i \in DOMAIN frames'
      PROVE  /\ frames'[i].todo \subseteq ParentsOf(frames[i].role)'
             /\ \A q \in ParentsOf(frames[i].role)' \ frames'[i].todo :
                    q \in Explored' \/ (i < Len(frames') /\ q = frames'[i + 1].role)
  <2>1. /\ ParentsOf(frames[i].role)' = ParentsOf(frames[i].role)
        /\ i \in 1..n /\ i < n /\ frames'[i] = frames[i]
    BY <1>a, <1>s, <1>t DEF ParentsOf, graph
  <2>2. CASE i = n - 1
    BY <2>1, <2>2, <1>e, <1>t DEF ProbeInv
  <2>3. CASE i # n - 1
    <3>1. i + 1 \in 1..(n - 1) /\ frames'[i + 1] = frames[i + 1] /\ i < n - 1
      BY <2>1, <2>3, <1>s, <1>t
    <3> QED
      BY <2>1, <3>1, <1>e, <1>s, <1>t DEF ProbeInv
  <2> QED
    BY <2>2, <2>3
<1>4. ASSUME NEW r \in Explored' PROVE ParentsOf(r)' \subseteq Explored' /\ ~ Looping(r)'
  <2>1. ParentsOf(r)' = ParentsOf(r) /\ (Looping(r)' <=> Looping(r))
    BY <1>a, <1>r DEF ParentsOf, Looping, graph
  <2>2. CASE r = x
    BY <2>1, <2>2, <1>e, <1>x, <1>l
  <2>3. CASE r \in Explored
    BY <2>1, <2>3, <1>e DEF ProbeInv
  <2> QED
    BY <2>2, <2>3, <1>e
<1>5. answer' = "acyclic" => frames' = <<>>
  BY <1>a, <1>s, <1>t DEF Frames
<1>6. answer' # "cycle"
  BY <1>a
<1> QED
  BY <1>s, <1>1, <1>2, <1>3, <1>4, <1>5, <1>6 DEF ProbeInv, Frames

(* The probe's invariant survives every step. *)
LEMMA ProbeStep == HierarchyTypeOK /\ ProbeInv /\ [HierarchyNext]_hvars => ProbeInv'
<1> SUFFICES ASSUME HierarchyTypeOK, ProbeInv, [HierarchyNext]_hvars PROVE ProbeInv'
  OBVIOUS
<1>1. CASE UNCHANGED <<graph, probe>>
  <2>1. \A X : Reach(X)' = Reach(X)
    BY <1>1, ReachSame
  <2>2. \A r : Looping(r)' <=> Looping(r)
    BY <1>1, <2>1 DEF Looping, graph
  <2>3. \A r : ParentsOf(r)' = ParentsOf(r)
    BY <1>1 DEF ParentsOf, graph
  <2>4. Path' = Path /\ Explored' = Explored
    BY <1>1 DEF Path, Explored, probe
  <2> QED
    BY <1>1, <2>1, <2>2, <2>3, <2>4 DEF ProbeInv, graph, probe
<1>2. CASE Return
  BY <1>2, ReturnStep
<1>3. ASSUME NEW p \in Roles, Follow(p) PROVE ProbeInv'
  <2>0. frames # <<>> /\ p \in Top.todo /\ answer = "none" /\ UNCHANGED graph
    BY <1>3 DEF Follow
  <2>1. CASE p \in Path /\ answer' = "cycle" /\ UNCHANGED <<frames, seen>>
    <3>1. \E r \in Reach({start}) : Looping(r)
      BY <2>0, <2>1, FollowPath
    <3>2. \A X : Reach(X)' = Reach(X)
      BY <2>0, ReachSame
    <3>3. \A r : Looping(r)' <=> Looping(r)
      BY <2>0, <3>2 DEF Looping, graph
    <3>4. \A r : ParentsOf(r)' = ParentsOf(r)
      BY <2>0 DEF ParentsOf, graph
    <3>5. Path' = Path /\ Explored' = Explored
      BY <2>1 DEF Path, Explored
    <3> QED
      BY <2>0, <2>1, <3>1, <3>2, <3>3, <3>4, <3>5 DEF ProbeInv, graph
  <2>2. CASE p \in seen \ Path /\ frames' = Followed(p) /\ UNCHANGED <<seen, answer>>
    BY <2>0, <2>2, FollowExplored
  <2>3. CASE /\ p \notin seen
             /\ frames' = Append(Followed(p), Frame(p))
             /\ seen' = seen \cup {p}
             /\ UNCHANGED answer
    BY <2>0, <2>3, FollowNew
  <2> QED
    BY <1>3, <2>1, <2>2, <2>3 DEF Follow
<1> QED
  BY <1>1, <1>2, <1>3 DEF HierarchyNext, Walk, Probe, Skip, Expand, Push, hvars

(* When the probe ends without a cycle, everything reachable has been explored. *)
LEMMA ProbeExact == HierarchyTypeOK /\ ProbeInv => CycleExact
<1> SUFFICES ASSUME HierarchyTypeOK, ProbeInv, answer # "none"
             PROVE  answer = "cycle" <=> \E r \in Reach({start}) : Looping(r)
  BY DEF CycleExact, Looping
<1>1. CASE answer = "cycle"
  BY <1>1 DEF ProbeInv
<1>2. CASE answer = "acyclic"
  <2>1. Path = {} /\ Explored = seen /\ Explored \in SUBSET Roles
    BY <1>2 DEF ProbeInv, Path, Explored, HierarchyTypeOK
  <2>2. Closed(Explored) /\ {start} \subseteq Explored
    BY <2>1 DEF Closed, ProbeInv, ParentsOf
  <2>3. Reach({start}) \subseteq Explored
    BY <2>1, <2>2, ReachLeast
  <2> QED
    BY <1>2, <2>3 DEF ProbeInv
<1> QED
  BY <1>1, <1>2 DEF HierarchyTypeOK

(* detect_cycle answers true exactly when a known role reachable from the one asked
   about reaches itself: a diamond, or a parent met twice, is never taken for a cycle. *)
THEOREM CycleIsExact == HierarchySpec => []CycleExact
<1>1. HierarchyInit => HierarchyTypeOK /\ ProbeInv
  BY TypesInit, ProbeInit
<1>2. HierarchyTypeOK /\ ProbeInv /\ [HierarchyNext]_hvars => (HierarchyTypeOK /\ ProbeInv)'
  BY TypesStep, ProbeStep
<1>3. HierarchyTypeOK /\ ProbeInv => CycleExact
  BY ProbeExact
<1> QED
  BY <1>1, <1>2, <1>3, PTL DEF HierarchySpec

(* The two walks together, as the run over three roles checks them. *)
THEOREM WalksAreExact == HierarchySpec => []WalksExact
  BY ChainIsExact, CycleIsExact, PTL DEF WalksExact

(* ------------------------------ GrantResolution ------------------------------ *)

(* scope_tier knows three tiers. *)
LEMMA TierRange == ASSUME NEW scope PROVE ScopeTier(scope) \in 0..2
  BY DEF ScopeTier

(* fold_tiered on typed arguments. *)
LEMMA FoldTyped ==
    ASSUME NEW d \in (0..3) \X BOOLEAN, NEW tier \in 0..2, NEW granted \in BOOLEAN
    PROVE  /\ FoldTiered(d, tier, granted) \in (0..3) \X BOOLEAN
           /\ FoldTiered(d, tier, granted)[1] = IF d[1] < tier THEN d[1] ELSE tier
           /\ FoldTiered(d, tier, granted)[2] <=>
                 IF d[1] < tier THEN d[2]
                 ELSE IF d[1] = tier THEN d[2] /\ granted ELSE granted
  BY DEF FoldTiered

(* The two halves of a decision. *)
LEMMA PairTyped ==
    ASSUME NEW n \in 0..3, NEW b \in BOOLEAN
    PROVE  <<n, b>> \in (0..3) \X BOOLEAN /\ <<n, b>>[1] = n /\ <<n, b>>[2] = b
  OBVIOUS

(* Before the first row only the defaults speak, as a group. *)
LEMMA FoldBegins == GrantsInit => GrantsTypeOK /\ FoldInv
<1> SUFFICES ASSUME GrantsInit PROVE GrantsTypeOK /\ FoldInv
  OBVIOUS
<1>1. GrantsTypeOK
  <2>1. \A p \in GrantPerms : (IF p \in defaults THEN <<ScopeTier("group"), TRUE>> ELSE Undecided)
                          \in (0..3) \X BOOLEAN
    <3>1. ScopeTier("group") = 1
      BY DEF ScopeTier
    <3>2. <<1, TRUE>> \in (0..3) \X BOOLEAN /\ <<3, FALSE>> \in (0..3) \X BOOLEAN
      <4>1. 1 \in 0..3 /\ 3 \in 0..3 /\ TRUE \in BOOLEAN /\ FALSE \in BOOLEAN
        OBVIOUS
      <4> QED
        BY <4>1, PairTyped, Zenon
    <3> QED
      BY <3>1, <3>2 DEF Undecided
  <2>2. decisions \in [GrantPerms -> (0..3) \X BOOLEAN]
    BY <2>1 DEF GrantsInit
  <2> QED
    BY <2>2 DEF GrantsInit, GrantsTypeOK
<1>2. rows \ todo = {} /\ \A p \in GrantPerms : About(rows \ todo, p) = {}
  BY DEF GrantsInit, About
<1>3. ASSUME NEW p \in GrantPerms
      PROVE  decisions[p] = IF p \in defaults THEN <<1, TRUE>> ELSE <<3, FALSE>>
  BY DEF GrantsInit, Undecided, ScopeTier
<1>4. ASSUME NEW p \in GrantPerms
      PROVE  /\ \A t \in 0..2 : SpeaksAt(rows \ todo, p, t) <=> p \in defaults /\ t = 1
             /\ decisions[p][1] = (IF p \in defaults THEN 1 ELSE 3)
             /\ decisions[p][2] <=> p \in defaults
  <2>1. \A t \in 0..2 : SpeaksAt(rows \ todo, p, t) <=> p \in defaults /\ t = 1
    BY <1>2 DEF SpeaksAt
  <2>0. 1 \in 0..3 /\ 3 \in 0..3 /\ TRUE \in BOOLEAN /\ FALSE \in BOOLEAN
    OBVIOUS
  <2>2. CASE p \in defaults
    <3>1. decisions[p] = <<1, TRUE>>
      BY <2>2, <1>3
    <3>2. <<1, TRUE>>[1] = 1 /\ <<1, TRUE>>[2] = TRUE
      BY <2>0, PairTyped, Zenon
    <3>3. decisions[p][1] = 1
      BY <3>1, <3>2, Zenon
    <3>4. decisions[p][2] = TRUE
      BY <3>1, <3>2, Zenon
    <3> QED
      BY <2>1, <2>2, <3>3, <3>4
  <2>3. CASE p \notin defaults
    <3>1. decisions[p] = <<3, FALSE>>
      BY <2>3, <1>3
    <3>2. <<3, FALSE>>[1] = 3 /\ <<3, FALSE>>[2] = FALSE
      BY <2>0, PairTyped, Zenon
    <3>3. decisions[p][1] = 3
      BY <3>1, <3>2, Zenon
    <3>4. decisions[p][2] = FALSE
      BY <3>1, <3>2, Zenon
    <3> QED
      BY <2>1, <2>3, <3>3, <3>4
  <2> QED
    BY <2>2, <2>3
<1>5. ASSUME NEW p \in GrantPerms
      PROVE  /\ \A t \in 0..2 : SpeaksAt(rows \ todo, p, t) => decisions[p][1] <= t
             /\ decisions[p][1] <= 2 => SpeaksAt(rows \ todo, p, decisions[p][1])
             /\ decisions[p][2] <=>
                   /\ decisions[p][1] <= 2
                   /\ \A row \in About(rows \ todo, p) :
                          ScopeTier(row.scope) = decisions[p][1] => row.granted
  <2>1. CASE p \in defaults
    BY <2>1, <1>2, <1>4
  <2>2. CASE p \notin defaults
    BY <2>2, <1>2, <1>4
  <2> QED
    BY <2>1, <2>2
<1> QED
  BY <1>1, <1>5 DEF FoldInv

(* One more row keeps the tier and the verdict those of the rows folded so far. *)
LEMMA FoldGoesOn == GrantsTypeOK /\ FoldInv /\ [GrantsNext]_gvars => (GrantsTypeOK /\ FoldInv)'
<1> SUFFICES ASSUME GrantsTypeOK, FoldInv, [GrantsNext]_gvars PROVE (GrantsTypeOK /\ FoldInv)'
  OBVIOUS
<1>1. CASE UNCHANGED gvars
  <2>1. GrantsTypeOK'
    BY <1>1 DEF GrantsTypeOK, gvars
  <2>2. FoldInv'
    BY <1>1 DEF FoldInv, SpeaksAt, About, Skipped, IsVisible, gvars
  <2> QED
    BY <2>1, <2>2
<1>2. ASSUME NEW row \in Rows, FoldRow(row) PROVE (GrantsTypeOK /\ FoldInv)'
  <2> DEFINE R == rows \ todo
             tier == ScopeTier(row.scope)
             Hits(p) == ~ Skipped(row) /\ p \in ExpandGrantPermission(row.permission)
  <2>1. /\ row \in todo /\ todo' = todo \ {row} /\ UNCHANGED <<rows, defaults, now>>
        /\ tier \in 0..2 /\ row.granted \in BOOLEAN
    BY <1>2, TierRange, GrantAssumption DEF FoldRow
  <2>2. ASSUME NEW p \in GrantPerms
        PROVE  decisions'[p] = IF Hits(p) THEN FoldTiered(decisions[p], tier, row.granted)
                               ELSE decisions[p]
    BY <1>2 DEF FoldRow, GrantsTypeOK
  <2>3. GrantsTypeOK'
    <3>1. decisions' \in [GrantPerms -> (0..3) \X BOOLEAN]
      <4>1. decisions' = [p \in GrantPerms |-> decisions'[p]]
        BY <1>2 DEF FoldRow, GrantsTypeOK
      <4>2. ASSUME NEW p \in GrantPerms PROVE decisions'[p] \in (0..3) \X BOOLEAN
        BY <2>1, <2>2, FoldTyped DEF GrantsTypeOK
      <4> QED
        BY <4>1, <4>2
    <3> QED
      BY <3>1, <2>1 DEF GrantsTypeOK
  <2>4. rows' \ todo' = R \cup {row}
    BY <2>1 DEF GrantsTypeOK
  <2>5. ASSUME NEW p \in GrantPerms
        PROVE  /\ Hits(p) => About(rows \ todo, p)' = About(R, p) \cup {row}
               /\ ~ Hits(p) => About(rows \ todo, p)' = About(R, p)
    BY <2>1, <2>4 DEF About, Skipped, IsVisible
  <2>6. ASSUME NEW p \in GrantPerms
        PROVE  /\ \A t \in 0..2 : SpeaksAt(rows \ todo, p, t)' => decisions'[p][1] <= t
               /\ decisions'[p][1] <= 2 => SpeaksAt(rows \ todo, p, decisions[p][1])'
               /\ decisions'[p][2] <=>
                     /\ decisions'[p][1] <= 2
                     /\ \A r \in About(rows \ todo, p)' :
                            ScopeTier(r.scope) = decisions'[p][1] => r.granted
    <3> DEFINE d == decisions[p]
               e == decisions'[p]
               A == About(R, p)
               B == About(rows \ todo, p)'
    <3>1. /\ d \in (0..3) \X BOOLEAN
          /\ \A t \in 0..2 : SpeaksAt(R, p, t) => d[1] <= t
          /\ d[1] <= 2 => SpeaksAt(R, p, d[1])
          /\ d[2] <=> d[1] <= 2 /\ \A r \in A : ScopeTier(r.scope) = d[1] => r.granted
      BY DEF FoldInv, GrantsTypeOK
    <3>2. \A t : SpeaksAt(R, p, t) <=> (p \in defaults /\ t = 1) \/ \E r \in A : ScopeTier(r.scope) = t
      BY DEF SpeaksAt
    <3>3. \A t : SpeaksAt(rows \ todo, p, t)'
                   <=> (p \in defaults /\ t = 1) \/ \E r \in B : ScopeTier(r.scope) = t
      BY <2>1 DEF SpeaksAt
    <3>e. e[1] \in 0..3
      BY <2>3 DEF GrantsTypeOK
    <3>4. CASE Hits(p)
      <4>1. B = A \cup {row}
        BY <3>4, <2>5
      <4>2. e[1] = IF d[1] < tier THEN d[1] ELSE tier
        BY <3>4, <3>1, <2>1, <2>2, FoldTyped
      <4>3. e[2] <=> IF d[1] < tier THEN d[2]
                     ELSE IF d[1] = tier THEN d[2] /\ row.granted ELSE row.granted
        BY <3>4, <3>1, <2>1, <2>2, FoldTyped
      <4>4. \A r \in A : d[1] <= ScopeTier(r.scope)
        BY <3>1, <3>2, TierRange
      <4>5. p \in defaults => d[1] <= 1
        BY <3>1, <3>2
      <4>6. d[1] \in 0..3 /\ d[2] \in BOOLEAN
        BY <3>1
      <4> HIDE DEF d, e, A, B, tier, Hits
      <4>7. \A t \in 0..2 : SpeaksAt(rows \ todo, p, t)' => e[1] <= t
        <5> SUFFICES ASSUME NEW t \in 0..2, SpeaksAt(rows \ todo, p, t)' PROVE e[1] <= t
          OBVIOUS
        <5>1. SpeaksAt(R, p, t) \/ t = tier
          BY <3>2, <3>3, <4>1 DEF tier
        <5> QED
          BY <5>1, <3>1, <4>2, <4>6, <2>1
      <4>8. e[1] <= 2 => SpeaksAt(rows \ todo, p, decisions[p][1])'
        BY <3>1, <3>2, <3>3, <4>1, <4>2, <4>6, <2>1 DEF tier, e
      <4>9. e[2] <=> e[1] <= 2 /\ \A r \in B : ScopeTier(r.scope) = e[1] => r.granted
        BY <3>1, <4>1, <4>2, <4>3, <4>4, <4>6, <2>1 DEF tier
      <4> QED
        BY <4>7, <4>8, <4>9 DEF e, B
    <3>5. CASE ~ Hits(p)
      <4>1. B = A /\ e = d
        BY <3>5, <2>2, <2>5
      <4>2. \A t : SpeaksAt(rows \ todo, p, t)' <=> SpeaksAt(R, p, t)
        BY <3>2, <3>3, <4>1
      <4> QED
        BY <4>1, <4>2, <3>1, <3>3, <3>2
    <3> QED
      BY <3>4, <3>5
  <2> QED
    BY <2>3, <2>6 DEF FoldInv
<1> QED
  BY <1>1, <1>2 DEF GrantsNext

(* The invariant says what is effective. *)
LEMMA FoldExact == GrantsTypeOK /\ FoldInv => OrderFree
<1> SUFFICES ASSUME GrantsTypeOK, FoldInv, NEW p \in GrantPerms
             PROVE  p \in Effective <=> GrantedBy(rows \ todo, p)
  BY DEF OrderFree
<1>1. decisions[p][1] \in 0..3 /\ (p \in Effective <=> decisions[p][2])
  BY DEF GrantsTypeOK, Effective
<1>2. ASSUME decisions[p][2] PROVE GrantedBy(rows \ todo, p)
  BY <1>1, <1>2 DEF FoldInv, GrantedBy
<1>3. ASSUME GrantedBy(rows \ todo, p) PROVE decisions[p][2]
  <2>1. PICK t \in 0..2 :
            /\ SpeaksAt(rows \ todo, p, t)
            /\ \A u \in 0..2 : u < t => ~ SpeaksAt(rows \ todo, p, u)
            /\ \A row \in About(rows \ todo, p) : ScopeTier(row.scope) = t => row.granted
    BY <1>3 DEF GrantedBy
  <2>2. decisions[p][1] = t
    BY <1>1, <2>1 DEF FoldInv
  <2> QED
    BY <2>1, <2>2 DEF FoldInv
<1> QED
  BY <1>1, <1>2, <1>3

(* resolve_grant_rows_at: after any number of rows, folded in any order, a permission is
   effective exactly when the most specific tier that speaks about it grants it
   unanimously. *)
THEOREM ResolutionOrderFree == GrantsSpec => []OrderFree
<1>1. GrantsInit => GrantsTypeOK /\ FoldInv
  BY FoldBegins
<1>2. GrantsTypeOK /\ FoldInv /\ [GrantsNext]_gvars => (GrantsTypeOK /\ FoldInv)'
  BY FoldGoesOn
<1>3. GrantsTypeOK /\ FoldInv => OrderFree
  BY FoldExact
<1> QED
  BY <1>1, <1>2, <1>3, PTL DEF GrantsSpec

(* ------------------------------- PasswordRules ------------------------------- *)

(* change_requirement gives one of its three answers, and asks for a change of an initial
   password whenever the rule is on. *)
LEMMA Required ==
    ASSUME NEW p, NEW s, NEW d
    PROVE  /\ ChangeRequirement(p, s, d) \in {"None", "InitialPassword", "Expired"}
           /\ p.enabled /\ p.force /\ s.is_initial => ChangeRequirement(p, s, d) = "InitialPassword"
  BY DEF ChangeRequirement

(* A bootstrapped account. *)
LEMMA PasswordBegins == PasswordInit => PasswordInv
<1> SUFFICES ASSUME PasswordInit PROVE PasswordInv
  OBVIOUS
<1>1. state \in [recorded : BOOLEAN, is_initial : BOOLEAN, changed_at : 0..MaxDay]
      /\ state.recorded /\ state.is_initial /\ state.changed_at = 0
  BY PasswordAssumption DEF PasswordInit, InitialState
<1>2. day \in 0..MaxDay /\ verdict.reason = "asked" /\ ~changing
  BY PasswordAssumption DEF PasswordInit
<1> QED
  BY <1>1, <1>2 DEF PasswordInv, TemporaryNeverPasses, PasswordTypeOK, BootstrapNeverPasses, StateKept

(* A login asks about the stored state or the adopted one. *)
LEMMA LoginStep == ASSUME PasswordInv, NEW skew \in Skews, Login(skew) PROVE PasswordInv'
<1>1. /\ verdict' = [reason |-> ChangeRequirement(policy, Known, day - skew),
                     hash |-> hash.value, policy |-> policy]
      /\ state' = Known /\ UNCHANGED <<policy, adoption, durable, hash, changing, day>>
  BY DEF Login, deployment
<1>2. /\ state \in [recorded : BOOLEAN, is_initial : BOOLEAN, changed_at : 0..MaxDay]
      /\ day \in 0..MaxDay
  BY DEF PasswordInv, TemporaryNeverPasses, PasswordTypeOK, StateKept
<1>3. /\ Known \in [recorded : BOOLEAN, is_initial : BOOLEAN, changed_at : 0..MaxDay]
      /\ Known.recorded
  BY <1>2, PasswordAssumption DEF Known, InitialState, Rotated
<1>4. hash.value = "temporary" /\ (durable \/ adoption = "initial") => Known.is_initial
  BY DEF PasswordInv, StateKept, Known, InitialState
<1>5. StateKept'
  BY <1>1, <1>3, <1>4 DEF PasswordInv, StateKept
<1>6. /\ verdict'.reason = ChangeRequirement(policy, Known, day - skew)
      /\ verdict'.hash = hash.value /\ verdict'.policy = policy
  BY <1>1
<1>7. PasswordTypeOK'
  BY <1>1, <1>2, <1>3, <1>6, Required DEF PasswordTypeOK
<1>8. BootstrapNeverPasses'
  BY <1>1, <1>4, <1>6, Required DEF BootstrapNeverPasses
<1> QED
  BY <1>5, <1>7, <1>8 DEF PasswordInv, TemporaryNeverPasses

(* Logins, changes, crashes and the switch keep it. *)
LEMMA PasswordGoesOn == PasswordInv /\ [PasswordNext]_wvars => PasswordInv'
<1> SUFFICES ASSUME PasswordInv, [PasswordNext]_wvars PROVE PasswordInv'
  OBVIOUS
<1> USE DEF PasswordInv, TemporaryNeverPasses, PasswordTypeOK, BootstrapNeverPasses, StateKept, deployment
<1>1. CASE NextDay
  <2>1. day' \in 0..MaxDay
    BY <1>1, PasswordAssumption DEF NextDay
  <2> QED
    BY <1>1, <2>1 DEF NextDay
<1>2. CASE StoreHash
  <2>1. hash'.value = "chosen"
    BY <1>2 DEF StoreHash
  <2> QED
    BY <1>2, <2>1 DEF StoreHash
<1>3. CASE PutRotated
  <2>1. /\ state' \in [recorded : BOOLEAN, is_initial : BOOLEAN, changed_at : 0..MaxDay]
        /\ state'.recorded
    BY <1>3 DEF PutRotated, Rotated
  <2> QED
    BY <1>3, <2>1 DEF PutRotated
<1>4. CASE Crash
  <2>1. /\ NoState \in [recorded : BOOLEAN, is_initial : BOOLEAN, changed_at : 0..MaxDay]
        /\ ~NoState.recorded
    BY PasswordAssumption DEF NoState
  <2> QED
    BY <1>4, <2>1 DEF Crash
<1>5. ASSUME NEW skew \in Skews, Login(skew) PROVE PasswordInv'
  BY <1>5, LoginStep
<1>6. ASSUME NEW on \in BOOLEAN, WithEnabled(on) PROVE PasswordInv'
  BY <1>6 DEF WithEnabled
<1>7. CASE UNCHANGED wvars
  BY <1>7 DEF wvars
<1> QED
  BY <1>1, <1>2, <1>3, <1>4, <1>5, <1>6, <1>7 DEF PasswordNext

(* rbac/policy.rs: with the bootstrap rule on no login goes through on the machine-generated
   password, for every policy and clock skew, whatever crashes fall between storing a new
   hash and recording its state, unless the states were volatile and unknown accounts are
   adopted as rotated. *)
THEOREM BootstrapRefused == PasswordSpec => []TemporaryNeverPasses
<1>1. PasswordInv => TemporaryNeverPasses
  BY DEF PasswordInv
<1> QED
  BY <1>1, PasswordBegins, PasswordGoesOn, PTL DEF PasswordSpec

(* ------------------------------- AnomalyWindow ------------------------------- *)

(* A prefix does not depend on what is observed later. *)
LEMMA PrefixStable ==
    ASSUME NEW S, NEW s \in Seq(S), NEW c \in S, NEW n \in 0..Len(s)
    PROVE  SubSeq(Append(s, c), 1, n) = SubSeq(s, 1, n)
<1> DEFINE long == Append(s, c)
<1>1. Len(s) \in Nat /\ long \in Seq(S) /\ Len(long) = Len(s) + 1 /\ \A i \in 1..Len(s) : long[i] = s[i]
  OBVIOUS
<1> HIDE DEF long
<1>2. /\ \A i \in 1..n : s[i] \in S /\ long[i] = s[i] /\ long[i] \in S
      /\ n \in Int
  BY <1>1
<1>3. /\ SubSeq(s, 1, n) \in Seq(S) /\ Len(SubSeq(s, 1, n)) = IF 1 <= n THEN n - 1 + 1 ELSE 0
      /\ \A i \in 1..(n - 1 + 1) : SubSeq(s, 1, n)[i] = s[1 + i - 1]
  BY <1>2, SubSeqProperties
<1>4. /\ SubSeq(long, 1, n) \in Seq(S) /\ Len(SubSeq(long, 1, n)) = IF 1 <= n THEN n - 1 + 1 ELSE 0
      /\ \A i \in 1..(n - 1 + 1) : SubSeq(long, 1, n)[i] = long[1 + i - 1]
  BY <1>2, SubSeqProperties
<1>5. \A i \in 1..Len(SubSeq(s, 1, n)) : SubSeq(s, 1, n)[i] = SubSeq(long, 1, n)[i]
  BY <1>1, <1>2, <1>3, <1>4
<1>6. SubSeq(s, 1, n) = SubSeq(long, 1, n)
  BY <1>3, <1>4, <1>5, SeqEqual
<1> QED
  BY <1>6 DEF long

(* The newest k observations, element by element. *)
LEMMA NewestShape ==
    ASSUME NEW S, NEW s \in Seq(S), NEW k \in 0..Len(s)
    PROVE  /\ Newest(s, k) \in Seq(S) /\ Len(Newest(s, k)) = k
           /\ \A i \in 1..k : Newest(s, k)[i] = s[Len(s) - k + i]
<1>1. Len(s) \in Nat /\ \A i \in 1..Len(s) : s[i] \in S
  OBVIOUS
<1> DEFINE m == Len(s) - k + 1
<1>2. m \in Int /\ Len(s) \in Int /\ (\A i \in m..Len(s) : s[i] \in S) /\ Len(s) - m + 1 = k
  BY <1>1
<1>3. /\ SubSeq(s, m, Len(s)) \in Seq(S)
      /\ Len(SubSeq(s, m, Len(s))) = IF m <= Len(s) THEN Len(s) - m + 1 ELSE 0
      /\ \A i \in 1..(Len(s) - m + 1) : SubSeq(s, m, Len(s))[i] = s[m + i - 1]
  <2> HIDE DEF m
  <2> QED
    BY <1>2, SubSeqProperties
<1>4. \A i \in 1..k : m + i - 1 = Len(s) - k + i
  BY <1>1
<1>5. Newest(s, k) = SubSeq(s, m, Len(s))
  BY DEF Newest
<1>6. Len(Newest(s, k)) = k
  BY <1>1, <1>2, <1>3, <1>5
<1> QED
  BY <1>2, <1>3, <1>4, <1>5, <1>6

(* A window that is not full grows by the new record. *)
LEMMA NewestGrows ==
    ASSUME NEW S, NEW s \in Seq(S), NEW c \in S, NEW k \in 0..Len(s)
    PROVE  Append(Newest(s, k), c) = Newest(Append(s, c), k + 1)
<1> DEFINE w == Newest(s, k)
           long == Append(s, c)
<1>a. Len(s) \in Nat
  OBVIOUS
<1>1. /\ w \in Seq(S) /\ Len(w) = k /\ Len(s) \in Nat
      /\ \A i \in 1..k : w[i] = s[Len(s) - k + i]
  BY <1>a, NewestShape, Zenon
<1>2. /\ long \in Seq(S) /\ Len(long) = Len(s) + 1 /\ long[Len(s) + 1] = c
      /\ \A i \in 1..Len(s) : long[i] = s[i]
  OBVIOUS
<1>3. k + 1 \in 0..Len(long)
  BY <1>2
<1> HIDE DEF w, long
<1>4. /\ Newest(long, k + 1) \in Seq(S) /\ Len(Newest(long, k + 1)) = k + 1
      /\ \A i \in 1..(k + 1) : Newest(long, k + 1)[i] = long[Len(long) - (k + 1) + i]
  BY <1>2, <1>3, NewestShape
<1>5. /\ Append(w, c) \in Seq(S) /\ Len(Append(w, c)) = k + 1 /\ Append(w, c)[k + 1] = c
      /\ \A i \in 1..k : Append(w, c)[i] = w[i]
  BY <1>1
<1>6. ASSUME NEW i \in 1..(k + 1) PROVE Append(w, c)[i] = Newest(long, k + 1)[i]
  <2>1. Newest(long, k + 1)[i] = long[Len(s) - k + i]
    <3>1. Len(long) - (k + 1) + i = Len(s) - k + i
      BY <1>1, <1>2
    <3> QED
      BY <1>4, <3>1
  <2>2. CASE i = k + 1
    <3>1. Len(s) - k + i = Len(s) + 1
      BY <1>1, <2>2
    <3> QED
      BY <1>2, <1>5, <2>1, <2>2, <3>1
  <2>3. CASE i # k + 1
    <3>1. i \in 1..k /\ Len(s) - k + i \in 1..Len(s)
      BY <1>1, <2>3
    <3> QED
      BY <1>1, <1>2, <1>5, <2>1, <3>1
  <2> QED
    BY <2>2, <2>3
<1>7. Append(w, c) = Newest(long, k + 1)
  BY <1>4, <1>5, <1>6, SeqEqual
<1> QED
  BY <1>7 DEF w, long

(* Popping the front leaves the newest but one. *)
LEMMA NewestTail ==
    ASSUME NEW S, NEW s \in Seq(S), NEW k \in 1..Len(s)
    PROVE  Tail(Newest(s, k)) = Newest(s, k - 1)
<1> DEFINE w == Newest(s, k)
<1>a. Len(s) \in Nat /\ k \in 0..Len(s)
  OBVIOUS
<1>1. /\ w \in Seq(S) /\ Len(w) = k /\ Len(s) \in Nat /\ k \in 0..Len(s)
      /\ \A i \in 1..k : w[i] = s[Len(s) - k + i]
  BY <1>a, NewestShape, Zenon
<1>2. k - 1 \in 0..Len(s)
  BY <1>1
<1>3. /\ Newest(s, k - 1) \in Seq(S) /\ Len(Newest(s, k - 1)) = k - 1
      /\ \A i \in 1..(k - 1) : Newest(s, k - 1)[i] = s[Len(s) - (k - 1) + i]
  BY <1>2, NewestShape
<1> HIDE DEF w
<1>4. w # <<>>
  BY <1>1
<1>5. /\ Tail(w) \in Seq(S) /\ Len(Tail(w)) = k - 1
      /\ \A i \in 1..(k - 1) : Tail(w)[i] = w[i + 1]
  BY <1>1, <1>4, HeadTailProperties
<1>6. ASSUME NEW i \in 1..(k - 1) PROVE Tail(w)[i] = Newest(s, k - 1)[i]
  <2>1. i + 1 \in 1..k /\ Len(s) - k + (i + 1) = Len(s) - (k - 1) + i
    BY <1>1
  <2>2. w[i + 1] = s[Len(s) - k + (i + 1)]
    BY <1>1, <2>1, Zenon
  <2>3. Newest(s, k - 1)[i] = s[Len(s) - (k - 1) + i] /\ Tail(w)[i] = w[i + 1]
    BY <1>3, <1>5
  <2> QED
    BY <2>1, <2>2, <2>3, Zenon
<1>7. Tail(w) = Newest(s, k - 1)
  BY <1>3, <1>5, <1>6, SeqEqual
<1> QED
  BY <1>7 DEF w

(* How many observations the window holds after n of them. *)
Held(n) == LET cap == IF window_size = 0 THEN 1 ELSE window_size IN IF n < cap THEN n ELSE cap

(* Sliding the window over one more observation leaves the newest ones again, at every
   size, zero included. *)
LEMMA SlideKeepsNewest ==
    ASSUME NEW S, NEW s \in Seq(S), NEW c \in S, window_size \in Nat
    PROVE  Slide(Newest(s, Held(Len(s))), c) = Newest(Append(s, c), Held(Len(s) + 1))
<1> DEFINE cap == IF window_size = 0 THEN 1 ELSE window_size
           k == Held(Len(s))
           w == Newest(s, k)
<1>1. Len(s) \in Nat /\ cap \in Nat /\ cap >= 1 /\ window_size <= cap
  OBVIOUS
<1>2. k \in 0..Len(s) /\ k = IF Len(s) < cap THEN Len(s) ELSE cap
  BY <1>1 DEF Held
<1>3. Held(Len(s) + 1) = IF Len(s) < cap THEN Len(s) + 1 ELSE cap
  BY <1>1 DEF Held
<1>4. w \in Seq(S) /\ Len(w) = k
  <2> HIDE DEF k
  <2> QED
    BY <1>2, NewestShape
<1>5. Len(s) >= cap => window_size <= k /\ k >= 1
  BY <1>1, <1>2
<1>6. Len(s) < cap => k < window_size \/ k = 0
  BY <1>1, <1>2
<1> HIDE DEF cap, k
<1>7. CASE Len(s) < cap
  <2>1. k = Len(s) /\ Held(Len(s) + 1) = k + 1
    BY <1>2, <1>3, <1>7
  <2>2. ~(Len(w) >= window_size /\ w # <<>>)
    <3> HIDE DEF w
    <3> QED
      BY <1>2, <1>4, <1>6, <1>7
  <2>3. Slide(w, c) = Append(w, c)
    BY <2>2 DEF Slide
  <2>4. Append(w, c) = Newest(Append(s, c), k + 1)
    BY <1>2, NewestGrows, Zenon
  <2>5. Slide(w, c) = Newest(Append(s, c), Held(Len(s) + 1))
    BY <2>1, <2>3, <2>4, Zenon
  <2> QED
    BY <2>5, Zenon DEF k
<1>8. CASE ~(Len(s) < cap)
  <2>1. Len(s) >= cap
    BY <1>1, <1>8
  <2>2. k = cap /\ Held(Len(s) + 1) = k /\ k \in 1..Len(s) /\ k - 1 \in 0..Len(s) /\ (k - 1) + 1 = k
    BY <1>1, <1>2, <1>3, <1>8
  <2>3. Len(w) >= window_size /\ w # <<>>
    <3> HIDE DEF w
    <3> QED
      BY <1>4, <1>5, <2>1, <2>2
  <2>4. Slide(w, c) = Append(Tail(w), c)
    BY <2>3 DEF Slide
  <2>5. Tail(w) = Newest(s, k - 1)
    BY <2>2, NewestTail
  <2>6. Append(Newest(s, k - 1), c) = Newest(Append(s, c), (k - 1) + 1)
    BY <2>2, NewestGrows
  <2>7. Slide(w, c) = Newest(Append(s, c), Held(Len(s) + 1))
    BY <2>2, <2>4, <2>5, <2>6, Zenon
  <2> QED
    BY <2>7, Zenon DEF k
<1> QED
  BY <1>7, <1>8

(* A new detector satisfies the invariant. *)
LEMMA AnomalyBegins == AnomalyInit => AnomalyInv
<1> SUFFICES ASSUME AnomalyInit PROVE AnomalyInv
  OBVIOUS
<1> USE DEF AnomalyInit
<1>1. /\ <<>> \in Seq(Categories) /\ Len(<<>>) = 0 /\ SubSeq(<<>>, 1, 0) = <<>>
      /\ Newest(<<>>, 0) = <<>>
  BY DEF Newest
<1>2. AnomalyTypeOK
  BY <1>1, AnomalyAssumption DEF AnomalyTypeOK, NoBaseline
<1>3. WindowIsRecent
  BY <1>1, AnomalyAssumption DEF WindowIsRecent
<1>4. BaselineIsWarmup
  BY AnomalyAssumption DEF BaselineIsWarmup, IsBaselineReady
<1>5. HistoryIsPrefix
  BY <1>1, AnomalyAssumption DEF HistoryIsPrefix
<1> QED
  BY <1>2, <1>3, <1>4, <1>5 DEF AnomalyInv, DetectorHonest

(* A sequence is its own prefix. *)
LEMMA WholePrefix ==
    ASSUME NEW S, NEW s \in Seq(S), NEW n, n = Len(s)
    PROVE  SubSeq(s, 1, n) = s
  BY SubSeqFull

(* observe keeps the invariant: a cold detector's history is everything observed, so the
   baseline built from it is the first MinSamples; a warm one leaves history and baseline
   alone. *)
LEMMA ObserveStep ==
    ASSUME AnomalyInv, NEW c \in Categories, Observe(c)
    PROVE  AnomalyInv'
<1> DEFINE total == total_observed + 1
           cold == baseline = NoBaseline
           kept == IF cold /\ Len(history) < MinSamples THEN Append(history, c) ELSE history
           building == cold /\ IsBaselineReady(total)
           built == IF building THEN BuiltFrom(kept, total, baseline) ELSE baseline
<1>1. /\ AnomalyTypeOK /\ WindowIsRecent /\ BaselineIsWarmup /\ HistoryIsPrefix
      /\ MinSamples \in Nat \ {0} /\ window_size \in Nat
      /\ observed \in Seq(Categories) /\ Len(observed) \in Nat /\ total = Len(observed) + 1
  BY AnomalyAssumption DEF AnomalyInv, DetectorHonest, HistoryIsPrefix
<1>2. /\ total_observed' = total /\ recent_actions' = Slide(recent_actions, c)
      /\ observed' = Append(observed, c) /\ window_size' = window_size
      /\ history' = (IF building THEN <<>> ELSE kept) /\ baseline' = built
      /\ provenance' = IF building THEN "warm-up" ELSE provenance
  BY DEF Observe
<1>3. score' \in Reasons \cup {"none", "insufficient-samples"}
  BY DEF Observe, Reasons
<1>4. /\ observed' \in Seq(Categories) /\ Len(observed') = Len(observed) + 1
      /\ \A n \in 0..Len(observed) : SubSeq(observed', 1, n) = SubSeq(observed, 1, n)
  <2>1. observed' \in Seq(Categories) /\ Len(observed') = Len(observed) + 1
    BY <1>1, <1>2
  <2> QED
    BY <1>1, <1>2, <2>1, PrefixStable
<1>5. WindowIsRecent'
  <2>1. recent_actions = Newest(observed, Held(Len(observed)))
    BY <1>1 DEF WindowIsRecent, Held
  <2>2. recent_actions' = Newest(observed', Held(Len(observed) + 1))
    BY <1>1, <1>2, <2>1, SlideKeepsNewest
  <2> QED
    BY <1>2, <1>4, <2>2 DEF WindowIsRecent, Held
<1>6. recent_actions' \in Seq(Categories)
  <2> DEFINE cap == IF window_size = 0 THEN 1 ELSE window_size
             k == IF Len(observed') < cap THEN Len(observed') ELSE cap
  <2>1. recent_actions' = Newest(observed', k)
    BY <1>2, <1>5 DEF WindowIsRecent
  <2>2. k \in 0..Len(observed')
    BY <1>1, <1>4
  <2> HIDE DEF k
  <2> QED
    BY <1>4, <2>1, <2>2, NewestShape
<1>7. CASE cold
  <2>1. /\ history = observed /\ Len(observed) < MinSamples /\ kept = observed'
    <3>1. Len(history) = Len(observed) /\ history = SubSeq(observed, 1, Len(history)) /\ Len(history) < MinSamples
      BY <1>1, <1>7 DEF HistoryIsPrefix
    <3>2. history = observed
      BY <1>1, <3>1, WholePrefix
    <3> QED
      BY <1>2, <1>7, <3>1, <3>2
  <2>2. CASE building
    <3>1. total >= MinSamples /\ total = MinSamples /\ Len(observed') = MinSamples
      BY <1>1, <1>4, <2>1, <2>2 DEF IsBaselineReady
    <3>2. kept # <<>>
      BY <1>1, <2>1, <3>1
    <3>3. baseline' = [counts |-> Counts(observed'), n |-> MinSamples]
      BY <1>2, <2>1, <2>2, <3>1, <3>2 DEF BuiltFrom
    <3>4. history' = <<>> /\ provenance' = "warm-up"
      BY <1>2, <2>2
    <3>5. SubSeq(observed', 1, MinSamples) = observed'
      BY <1>4, <3>1, WholePrefix
    <3>6. baseline'.n = MinSamples /\ baseline' # NoBaseline
      BY <1>1, <3>3 DEF NoBaseline
    <3>7. AnomalyTypeOK'
      BY <1>1, <1>3, <1>6, <3>4, <3>6 DEF AnomalyTypeOK, Reasons
    <3>8. BaselineIsWarmup'
      <4>1. baseline' = [counts |-> Counts(SubSeq(observed', 1, MinSamples)), n |-> MinSamples]
        BY <3>3, <3>5
      <4>2. Counts(SubSeq(observed, 1, MinSamples))' = Counts(SubSeq(observed', 1, MinSamples))
        BY DEF Counts, Count
      <4> QED
        BY <3>4, <3>6, <4>1, <4>2 DEF BaselineIsWarmup
    <3>9. HistoryIsPrefix'
      <4>1. Len(<<>>) = 0 /\ SubSeq(observed', 1, 0) = <<>>
        BY <1>4, SubSeqEmpty
      <4> QED
        BY <1>1, <1>2, <1>4, <3>1, <3>4, <3>6, <4>1, AnomalyAssumption DEF HistoryIsPrefix
    <3> QED
      BY <1>5, <3>7, <3>8, <3>9 DEF AnomalyInv, DetectorHonest
  <2>3. CASE ~building
    <3>1. total < MinSamples /\ Len(observed') < MinSamples
      BY <1>1, <1>4, <1>7, <2>3 DEF IsBaselineReady
    <3>2. history' = observed' /\ baseline' = baseline /\ provenance' = provenance
      BY <1>2, <2>1, <2>3
    <3>3. AnomalyTypeOK'
      BY <1>1, <1>3, <1>4, <1>6, <3>1, <3>2 DEF AnomalyTypeOK, Reasons
    <3>4. provenance # "warm-up" /\ provenance # "partial"
      <4>1. provenance # "warm-up"
        BY <1>1, <2>1 DEF HistoryIsPrefix
      <4>2. baseline.n = 0
        BY <1>7 DEF NoBaseline
      <4>3. provenance # "partial"
        BY <1>1, <4>2 DEF BaselineIsWarmup
      <4> QED
        BY <4>1, <4>3
    <3>5. BaselineIsWarmup'
      BY <1>1, <1>2, <3>1, <3>2, <3>4 DEF BaselineIsWarmup, IsBaselineReady
    <3>6. HistoryIsPrefix'
      <4>1. SubSeq(observed', 1, Len(observed')) = observed'
        BY <1>4, WholePrefix
      <4> QED
        BY <1>1, <1>2, <1>4, <3>1, <3>2, <3>4, <4>1 DEF HistoryIsPrefix
    <3> QED
      BY <1>5, <3>3, <3>5, <3>6 DEF AnomalyInv, DetectorHonest
  <2> QED
    BY <2>2, <2>3
<1>8. CASE ~cold
  <2>1. history' = history /\ baseline' = baseline /\ provenance' = provenance
    BY <1>2, <1>8
  <2>2. AnomalyTypeOK'
    BY <1>1, <1>3, <1>6, <2>1 DEF AnomalyTypeOK, Reasons
  <2>3. BaselineIsWarmup'
    <3>1. baseline' # NoBaseline
      BY <1>8, <2>1
    <3>2. ASSUME provenance = "warm-up"
          PROVE  baseline = [counts |-> Counts(SubSeq(observed', 1, MinSamples)), n |-> MinSamples]
      <4>1. MinSamples \in 0..Len(observed)
        BY <1>1, <3>2 DEF HistoryIsPrefix
      <4> QED
        BY <1>1, <1>4, <3>2, <4>1 DEF BaselineIsWarmup
    <3>3. ASSUME provenance = "partial"
          PROVE  /\ baseline.n \in 1..(MinSamples - 1)
                 /\ baseline.counts = Counts(SubSeq(observed', 1, baseline.n))
      <4>1. baseline.n \in 0..Len(observed)
        BY <1>1, <3>3 DEF HistoryIsPrefix, AnomalyTypeOK
      <4> QED
        BY <1>1, <1>4, <3>3, <4>1 DEF BaselineIsWarmup
    <3>4. /\ Counts(SubSeq(observed, 1, MinSamples))' = Counts(SubSeq(observed', 1, MinSamples))
          /\ Counts(SubSeq(observed, 1, baseline.n))' = Counts(SubSeq(observed', 1, baseline'.n))
      BY DEF Counts, Count
    <3> QED
      BY <2>1, <3>1, <3>2, <3>3, <3>4 DEF BaselineIsWarmup
  <2>4. HistoryIsPrefix'
    <3>1. Len(history) \in 0..Len(observed) /\ history = SubSeq(observed, 1, Len(history))
      BY <1>1 DEF HistoryIsPrefix, AnomalyTypeOK
    <3>2. history = SubSeq(observed', 1, Len(history))
      BY <1>4, <3>1
    <3>3. baseline.n \in Nat
      BY <1>1 DEF AnomalyTypeOK
    <3>4. /\ window_size' \in WindowSizes /\ total_observed' = Len(observed')
          /\ baseline' # NoBaseline
      BY <1>1, <1>2, <1>4, <1>8, <2>1 DEF HistoryIsPrefix
    <3>5. Len(history) < MinSamples /\ Len(history) <= Len(observed')
      BY <1>1, <1>4, <3>1 DEF HistoryIsPrefix
    <3>6. /\ provenance = "warm-up" => MinSamples <= Len(observed')
          /\ provenance = "partial" => baseline.n <= Len(observed')
      BY <1>1, <1>4, <3>3 DEF HistoryIsPrefix
    <3> HIDE DEF total, cold, kept, building, built
    <3> QED
      BY <1>4, <2>1, <3>2, <3>4, <3>5, <3>6 DEF HistoryIsPrefix
  <2> QED
    BY <1>5, <2>2, <2>3, <2>4 DEF AnomalyInv, DetectorHonest
<1> QED
  BY <1>7, <1>8

(* The public rebuild finds only the prefix kept before a baseline was installed. *)
LEMMA RebuildStep ==
    ASSUME AnomalyInv, BuildBaselineFromHistory
    PROVE  AnomalyInv'
<1> DEFINE built == BuiltFrom(history, total_observed, baseline)
<1>1. /\ AnomalyTypeOK /\ WindowIsRecent /\ BaselineIsWarmup /\ HistoryIsPrefix
      /\ MinSamples \in Nat \ {0} /\ Len(observed) \in Nat
      /\ history \in Seq(Categories) /\ history = SubSeq(observed, 1, Len(history))
  BY AnomalyAssumption DEF AnomalyInv, DetectorHonest, HistoryIsPrefix, AnomalyTypeOK
<1>2. /\ built # baseline /\ baseline' = built /\ provenance' = "partial"
      /\ UNCHANGED <<window_size, recent_actions, history, total_observed, score, observed>>
  BY DEF BuildBaselineFromHistory
<1>3. IsBaselineReady(total_observed) /\ history # <<>>
  BY <1>2 DEF BuiltFrom
<1>4. baseline' = [counts |-> Counts(history), n |-> Len(history)]
  BY <1>2, <1>3 DEF BuiltFrom
<1> HIDE DEF built
<1>5. Len(history) \in 1..(MinSamples - 1) /\ Len(history) <= Len(observed)
  <2>1. Len(history) \in Nat /\ Len(history) # 0
    BY <1>1, <1>3, EmptySeq
  <2> QED
    BY <1>1, <2>1 DEF HistoryIsPrefix
<1>6. /\ baseline'.n = Len(history)
      /\ baseline'.counts = Counts(SubSeq(observed, 1, Len(history)))
      /\ baseline' # NoBaseline
  <2>1. baseline'.n = Len(history) /\ baseline'.counts = Counts(history)
    BY <1>4
  <2>2. Counts(history) = Counts(SubSeq(observed, 1, Len(history)))
    BY <1>1, Zenon
  <2>3. NoBaseline.n = 0 /\ Len(history) # 0
    BY <1>5 DEF NoBaseline
  <2>4. baseline' # NoBaseline
    BY <2>1, <2>3
  <2> QED
    BY <2>1, <2>2, <2>4, Zenon
<1>7. AnomalyTypeOK'
  BY <1>1, <1>2, <1>5, <1>6 DEF AnomalyTypeOK
<1>8. WindowIsRecent'
  BY <1>1, <1>2 DEF WindowIsRecent, Newest
<1>9. BaselineIsWarmup'
  <2>1. Counts(SubSeq(observed, 1, baseline.n))' = Counts(SubSeq(observed', 1, baseline'.n))
    BY DEF Counts, Count
  <2> QED
    BY <1>2, <1>5, <1>6, <2>1 DEF BaselineIsWarmup
<1>10. HistoryIsPrefix'
  BY <1>1, <1>2, <1>5, <1>6 DEF HistoryIsPrefix
<1> QED
  BY <1>7, <1>8, <1>9, <1>10 DEF AnomalyInv, DetectorHonest

(* Every step of the detector keeps the invariant. *)
LEMMA AnomalyGoesOn == AnomalyInv /\ [AnomalyNext]_dvars => AnomalyInv'
<1> SUFFICES ASSUME AnomalyInv, [AnomalyNext]_dvars PROVE AnomalyInv'
  OBVIOUS
<1>1. ASSUME NEW c \in Categories, Observe(c) PROVE AnomalyInv'
  BY <1>1, ObserveStep
<1>2. ASSUME NEW b \in Supplied, WithBaseline(b) PROVE AnomalyInv'
  <2>1. b.n \in Nat \ {0} /\ b # NoBaseline
    BY AnomalyAssumption DEF NoBaseline
  <2>2. /\ baseline' = b /\ provenance' = "supplied"
        /\ UNCHANGED <<window_size, recent_actions, history, total_observed, score, observed>>
    BY <1>2 DEF WithBaseline
  <2>3. AnomalyTypeOK' /\ BaselineIsWarmup' /\ HistoryIsPrefix'
    BY <2>1, <2>2 DEF AnomalyInv, DetectorHonest, AnomalyTypeOK, BaselineIsWarmup, HistoryIsPrefix
  <2>4. WindowIsRecent'
    BY <2>2 DEF AnomalyInv, DetectorHonest, WindowIsRecent, Newest
  <2> QED
    BY <2>3, <2>4 DEF AnomalyInv, DetectorHonest
<1>3. CASE BuildBaselineFromHistory
  BY <1>3, RebuildStep
<1>4. CASE UNCHANGED dvars
  BY <1>4 DEF dvars, AnomalyInv, DetectorHonest, AnomalyTypeOK, WindowIsRecent, Newest,
              BaselineIsWarmup, IsBaselineReady, Counts, Count, HistoryIsPrefix
<1> QED
  BY <1>1, <1>2, <1>3, <1>4 DEF AnomalyNext

(* rbac/dynamic/anomaly.rs: for every window size, minimum and supplied baseline, the window
   is the newest actions and nothing else; past warm-up there is a baseline, the first
   MinSamples observations unless the owner installed one, and no later action, eviction or
   rebuild moves it. *)
THEOREM DetectorIsHonest == AnomalySpec => []DetectorHonest
<1>1. AnomalyInv => DetectorHonest
  BY DEF AnomalyInv
<1> QED
  BY <1>1, AnomalyBegins, AnomalyGoesOn, PTL DEF AnomalySpec

(* -------------------------------- Constraints -------------------------------- *)

(* A call is in progress or idle, never both. *)
LEMMA CallShape ==
    ASSUME ConstraintsTypeOK, NEW a \in Assigners
    PROVE  /\ calls[a].step # "idle" => calls[a] \in Call
           /\ calls[a].step = "idle" => calls[a] = Idle
           /\ Idle.step = "idle"
  BY DEF ConstraintsTypeOK, Call, Idle

(* Holders and admissible calls are finite sets. *)
LEMMA RoleSetsFinite ==
    ASSUME NEW r, NEW c
    PROVE  /\ IsFiniteSet(Holders(r)) /\ Cardinality(Holders(r)) \in Nat
           /\ IsFiniteSet(Admissible(c)) /\ Cardinality(Admissible(c)) \in Nat
           /\ Cardinality(Admissible(c)) <= Cardinality(Assigners) /\ Cardinality(Assigners) \in Nat
<1>1. Holders(r) \subseteq Subjects /\ Admissible(c) \subseteq Assigners
  BY DEF Holders, Admissible
<1> QED
  BY <1>1, ConstraintsAssumption, FS_Subset, FS_CardinalityType

(* The same sets after a step. *)
LEMMA RoleSetsFiniteNext ==
    ASSUME NEW r, NEW c
    PROVE  /\ IsFiniteSet(Holders(r)') /\ Cardinality(Holders(r)') \in Nat
           /\ IsFiniteSet(Admissible(c)') /\ Cardinality(Admissible(c)') \in Nat
           /\ Cardinality(Admissible(c)') <= Cardinality(Assigners)
<1>1. Holders(r)' \subseteq Subjects /\ Admissible(c)' \subseteq Assigners
  BY DEF Holders, Admissible
<1> QED
  BY <1>1, ConstraintsAssumption, FS_Subset, FS_CardinalityType

(* A disturbed call keeps everything but its claim to be alone. *)
LEMMA DisturbShape ==
    ASSUME ConstraintsTypeOK
    PROVE  /\ Disturb \in [Assigners -> Call \cup {Idle}]
           /\ \A a \in Assigners :
                  /\ Disturb[a].step = calls[a].step
                  /\ calls[a].step # "idle" =>
                         /\ ~Disturb[a].alone /\ Disturb[a].role = calls[a].role
                         /\ Disturb[a].count = calls[a].count
<1>1. ASSUME NEW a \in Assigners
      PROVE  /\ Disturb[a] \in Call \cup {Idle} /\ Disturb[a].step = calls[a].step
             /\ calls[a].step # "idle" =>
                    /\ ~Disturb[a].alone /\ Disturb[a].role = calls[a].role
                    /\ Disturb[a].count = calls[a].count
  <2>1. CASE calls[a].step = "idle"
    BY <2>1 DEF Disturb, Idle
  <2>2. CASE calls[a].step # "idle"
    <3>1. calls[a] \in Call
      BY <2>2, CallShape
    <3>2. Disturb[a] = [calls[a] EXCEPT !.alone = FALSE]
      BY <2>2 DEF Disturb
    <3> QED
      BY <2>2, <3>1, <3>2 DEF Call
  <2> QED
    BY <2>1, <2>2
<1> QED
  BY <1>1 DEF Disturb

(* When every call in progress has been disturbed, nothing is claimed of its reads. *)
LEMMA DisturbedReads ==
    ASSUME \A a \in Assigners : calls'[a].step # "idle" => ~calls'[a].alone
    PROVE  ReadsStand'
  BY DEF ReadsStand

(* A step that admits nobody new and assigns nothing leaves the room as it was. *)
LEMMA RoomKept ==
    ASSUME RoomTaken, edits' = edits, cardinality' = cardinality,
           \A c \in CardChoices : c.max_subjects \in Nat, cardinality \subseteq CardChoices,
           \A r : Holders(r)' \subseteq Holders(r),
           \A a \in Assigners :
               calls'[a].step # "idle" =>
                   /\ calls[a].step # "idle" /\ calls'[a].role = calls[a].role
                   /\ calls'[a].count = calls[a].count,
           \A a \in Assigners, c \in cardinality :
               edits = 0 /\ calls'[a].step \in {"prerequisite", "temporal", "commit"}
                   /\ calls'[a].role = c.role_name => CardinalityValidate(c, calls'[a].count)
    PROVE  RoomTaken'
<1> SUFFICES ASSUME edits = 0, NEW c \in cardinality
             PROVE  /\ \A a \in Assigners :
                           calls'[a].step \in {"prerequisite", "temporal", "commit"}
                               /\ calls'[a].role = c.role_name => a \in Admissible(c)'
                    /\ Cardinality(Holders(c.role_name)') + Cardinality(Admissible(c)') + 1
                           <= AtLeastOne(c.max_subjects) + Cardinality(Assigners)
  BY DEF RoomTaken
<1>1. \A a \in Assigners : calls'[a].step \in {"prerequisite", "temporal", "commit"}
          /\ calls'[a].role = c.role_name => a \in Admissible(c)'
  BY DEF Admissible, CardinalityValidate
<1>2. Admissible(c)' \subseteq Admissible(c)
  BY DEF Admissible, CardinalityValidate
<1> DEFINE H == Holders(c.role_name)
           A == Admissible(c)
           B == AtLeastOne(c.max_subjects)
<1>3. IsFiniteSet(H) /\ IsFiniteSet(A) /\ Cardinality(H) \in Nat /\ Cardinality(A) \in Nat
  BY RoleSetsFinite
<1>4. Cardinality(Holders(c.role_name)') <= Cardinality(H) /\ Cardinality(Holders(c.role_name)') \in Nat
  BY <1>3, FS_Subset, FS_CardinalityType
<1>5. Cardinality(Admissible(c)') <= Cardinality(A) /\ Cardinality(Admissible(c)') \in Nat
  BY <1>2, <1>3, FS_Subset, FS_CardinalityType
<1>6. Cardinality(H) + Cardinality(A) + 1 <= B + Cardinality(Assigners)
  BY DEF RoomTaken
<1>7. B \in Nat /\ Cardinality(Assigners) \in Nat
  BY RoleSetsFinite DEF AtLeastOne
<1> HIDE DEF H, A, B
<1>8. Cardinality(Holders(c.role_name)') + Cardinality(Admissible(c)') + 1 <= B + Cardinality(Assigners)
  BY <1>3, <1>4, <1>5, <1>6, <1>7
<1> QED
  BY <1>1, <1>8 DEF B

(* A deployment's seed satisfies the invariant. *)
LEMMA ConstraintsBegin == ConstraintsInit => ConstraintsInv
<1> SUFFICES ASSUME ConstraintsInit PROVE ConstraintsInv
  OBVIOUS
<1>1. ConstraintsTypeOK
  BY ConstraintsAssumption DEF ConstraintsInit, ConstraintsTypeOK
<1>2. \A a \in Assigners : calls[a].step = "idle"
  BY DEF ConstraintsInit, Idle
<1>3. ReadsStand
  BY <1>2 DEF ReadsStand
<1>4. ASSUME NEW c \in cardinality
      PROVE  Cardinality(Holders(c.role_name)) + Cardinality(Admissible(c)) + 1
                 <= AtLeastOne(c.max_subjects) + Cardinality(Assigners)
  <2>1. Holders(c.role_name) = {} /\ Admissible(c) = {}
    BY <1>2 DEF ConstraintsInit, Holders, Admissible
  <2>2. Cardinality({}) = 0
    BY FS_EmptySet
  <2>3. AtLeastOne(c.max_subjects) \in Nat \ {0} /\ Cardinality(Assigners) \in Nat
    BY <1>1, ConstraintsAssumption, RoleSetsFinite DEF ConstraintsTypeOK, AtLeastOne
  <2> QED
    BY <2>1, <2>2, <2>3
<1>5. RoomTaken
  BY <1>2, <1>4 DEF RoomTaken
<1> QED
  BY <1>1, <1>3, <1>5 DEF ConstraintsInv

(* A policy change disturbs every call and ends the time without edits. *)
LEMMA EditStep ==
    ASSUME ConstraintsInv, Edited,
           ssd' \subseteq SsdChoices, cardinality' \subseteq CardChoices,
           prerequisites' \subseteq PreChoices, temporal' \subseteq TempChoices
    PROVE  ConstraintsInv'
<1>1. /\ ConstraintsTypeOK /\ calls' = Disturb /\ edits' = edits + 1 /\ edits \in Nat
      /\ assigned' = assigned /\ time' = time
  BY DEF ConstraintsInv, Edited, ConstraintsTypeOK
<1>2. ConstraintsTypeOK'
  BY <1>1, DisturbShape DEF ConstraintsTypeOK
<1>3. ReadsStand'
  BY <1>1, DisturbShape, DisturbedReads
<1>4. RoomTaken'
  BY <1>1 DEF RoomTaken
<1> QED
  BY <1>2, <1>3, <1>4 DEF ConstraintsInv

(* Every policy operation keeps the invariant. *)
LEMMA PolicyStep ==
    ASSUME ConstraintsInv,
           \/ \E p \in SsdChoices : AddSsd(p) \/ RemoveSsd(p.name)
           \/ \E c \in CardChoices : AddCardinality(c)
           \/ \E c \in PreChoices : AddPrerequisite(c) \/ RemovePrerequisiteFor(c)
           \/ \E c \in TempChoices : AddTemporal(c) \/ RemoveTemporalFor(c)
           \/ \E r \in AssignableRoles :
                  RemoveCardinality(r) \/ RemovePrerequisite(r) \/ RemoveTemporal(r)
    PROVE  ConstraintsInv'
<1>1. /\ ssd \subseteq SsdChoices /\ cardinality \subseteq CardChoices
      /\ prerequisites \subseteq PreChoices /\ temporal \subseteq TempChoices
  BY DEF ConstraintsInv, ConstraintsTypeOK
<1>2. /\ Edited /\ ssd' \subseteq SsdChoices /\ cardinality' \subseteq CardChoices
      /\ prerequisites' \subseteq PreChoices /\ temporal' \subseteq TempChoices
  <2>1. CASE \E p \in SsdChoices : AddSsd(p) \/ RemoveSsd(p.name)
    BY <1>1, <2>1 DEF AddSsd, RemoveSsd
  <2>2. CASE \E c \in CardChoices : AddCardinality(c)
    BY <1>1, <2>2 DEF AddCardinality
  <2>3. CASE \E c \in PreChoices : AddPrerequisite(c) \/ RemovePrerequisiteFor(c)
    BY <1>1, <2>3 DEF AddPrerequisite, RemovePrerequisiteFor
  <2>4. CASE \E c \in TempChoices : AddTemporal(c) \/ RemoveTemporalFor(c)
    BY <1>1, <2>4 DEF AddTemporal, RemoveTemporalFor
  <2>5. CASE \E r \in AssignableRoles :
                 RemoveCardinality(r) \/ RemovePrerequisite(r) \/ RemoveTemporal(r)
    BY <1>1, <2>5 DEF RemoveCardinality, RemovePrerequisite, RemoveTemporal
  <2> QED
    BY <2>1, <2>2, <2>3, <2>4, <2>5
<1> QED
  BY <1>2, EditStep

(* One call moves and nothing else: what holds of the others still does. *)
LEMMA OneCallMoves ==
    ASSUME ConstraintsInv, NEW a \in Assigners, NEW k \in Call \cup {Idle},
           calls' = [calls EXCEPT ![a] = k],
           UNCHANGED <<policyVars, assigned, time, edits>>,
           k.step # "idle" =>
               /\ calls[a] \in Call
               /\ k.subject = calls[a].subject /\ k.role = calls[a].role
               /\ k.roles = calls[a].roles /\ k.count = calls[a].count
               /\ k.alone = calls[a].alone,
           k.step \in {"cardinality", "prerequisite", "temporal", "commit"} =>
               \/ calls[a].step \in {"cardinality", "prerequisite", "temporal", "commit"}
               \/ k.role \in k.roles \/ \A p \in ssd : SsdValidate(p, k.roles \cup {k.role}),
           k.step \in {"prerequisite", "temporal", "commit"} =>
               \/ calls[a].step \in {"prerequisite", "temporal", "commit"}
               \/ \A c \in cardinality : c.role_name = k.role => CardinalityValidate(c, k.count),
           k.step \in {"temporal", "commit"} =>
               \/ calls[a].step \in {"temporal", "commit"}
               \/ \A c \in prerequisites :
                      c.role_name = k.role => PrerequisiteValidate(c, k.roles)
    PROVE  ConstraintsInv'
<1>1. /\ ConstraintsTypeOK /\ ReadsStand /\ RoomTaken
      /\ UNCHANGED <<ssd, cardinality, prerequisites, temporal, assigned, time, edits>>
  BY DEF ConstraintsInv, policyVars
<1>2. calls'[a] = k /\ (\A b \in Assigners : b # a => calls'[b] = calls[b])
      /\ \A r : Holders(r)' = Holders(r)
  BY <1>1 DEF ConstraintsTypeOK, Holders
<1>3. ConstraintsTypeOK'
  BY <1>1 DEF ConstraintsTypeOK
<1>4. k.step # "idle" => calls[a].step # "idle"
  BY DEF Call
<1>5. ReadsStand'
  <2> SUFFICES ASSUME NEW b \in Assigners, calls'[b].step # "idle", calls'[b].alone
               PROVE  LET j == calls'[b] IN
                      /\ j.roles = assigned[j.subject] /\ j.count = Cardinality(Holders(j.role))
                      /\ j.step \in {"cardinality", "prerequisite", "temporal", "commit"} =>
                             j.role \in j.roles
                                 \/ \A p \in ssd : SsdValidate(p, j.roles \cup {j.role})
                      /\ j.step \in {"prerequisite", "temporal", "commit"} =>
                             \A c \in cardinality :
                                 c.role_name = j.role => CardinalityValidate(c, j.count)
                      /\ j.step \in {"temporal", "commit"} =>
                             \A c \in prerequisites :
                                 c.role_name = j.role => PrerequisiteValidate(c, j.roles)
    BY <1>1, <1>2 DEF ReadsStand, SsdValidate, CardinalityValidate, PrerequisiteValidate
  <2>1. CASE b # a
    BY <1>1, <1>2, <2>1 DEF ReadsStand
  <2>2. CASE b = a
    BY <1>1, <1>2, <1>4, <2>2 DEF ReadsStand
  <2> QED
    BY <2>1, <2>2
<1>6. RoomTaken'
  <2>1. \A b \in Assigners : calls'[b].step # "idle" =>
            /\ calls[b].step # "idle" /\ calls'[b].role = calls[b].role
            /\ calls'[b].count = calls[b].count
    BY <1>2, <1>4
  <2>2. ASSUME NEW b \in Assigners, NEW c \in cardinality, edits = 0,
               calls'[b].step \in {"prerequisite", "temporal", "commit"},
               calls'[b].role = c.role_name
        PROVE  CardinalityValidate(c, calls'[b].count)
    <3>1. CASE calls[b].step \in {"prerequisite", "temporal", "commit"}
      <4>1. calls[b].role = c.role_name /\ calls'[b].count = calls[b].count
        BY <2>1, <2>2
      <4> QED
        BY <1>1, <2>2, <3>1, <4>1 DEF RoomTaken, Admissible
    <3>2. CASE calls[b].step \notin {"prerequisite", "temporal", "commit"}
      BY <1>2, <2>2, <3>2
    <3> QED
      BY <3>1, <3>2
  <2>3. /\ cardinality \subseteq CardChoices
        /\ \A c \in CardChoices : c.max_subjects \in Nat
    BY <1>1, ConstraintsAssumption DEF ConstraintsTypeOK
  <2> QED
    BY <1>1, <1>2, <2>1, <2>2, <2>3, RoomKept
<1> QED
  BY <1>3, <1>5, <1>6 DEF ConstraintsInv

(* The checks of validate_assignment, and a store that fails in one of them. *)
LEMMA ValidationStep ==
    ASSUME ConstraintsInv, NEW a \in Assigners,
           \/ ValidateSsd(a) \/ ValidateCardinality(a) \/ ValidatePrerequisite(a)
           \/ ValidateTemporal(a) \/ StoreFails(a)
    PROVE  ConstraintsInv'
<1> DEFINE k == calls[a]
<1>1. ConstraintsTypeOK /\ calls[a] \in Call \cup {Idle}
  BY DEF ConstraintsInv, ConstraintsTypeOK
<1>2. CASE ValidateSsd(a)
  <2> DEFINE ok == k.role \in k.roles \/ \A p \in ssd : SsdValidate(p, k.roles \cup {k.role})
             j == IF ok THEN [k EXCEPT !.step = "cardinality"] ELSE Idle
  <2>1. /\ k.step = "ssd" /\ calls' = [calls EXCEPT ![a] = j]
        /\ UNCHANGED <<policyVars, assigned, time, edits>>
    BY <1>1, <1>2 DEF ValidateSsd, Check
  <2>2. k \in Call
    BY <2>1, CallShape DEF ConstraintsInv
  <2>3. /\ j \in Call \cup {Idle}
        /\ j.step # "idle" => /\ ok /\ j.step = "cardinality" /\ j.subject = k.subject
                              /\ j.role = k.role /\ j.roles = k.roles
                              /\ j.count = k.count /\ j.alone = k.alone
    BY <2>2 DEF Call, Idle
  <2> HIDE DEF j
  <2> QED
    BY <1>1, <2>1, <2>2, <2>3, OneCallMoves
<1>3. CASE ValidateCardinality(a)
  <2> DEFINE ok == \A c \in cardinality : c.role_name = k.role => CardinalityValidate(c, k.count)
             j == IF ok THEN [k EXCEPT !.step = "prerequisite"] ELSE Idle
  <2>1. /\ k.step = "cardinality" /\ calls' = [calls EXCEPT ![a] = j]
        /\ UNCHANGED <<policyVars, assigned, time, edits>>
    BY <1>1, <1>3 DEF ValidateCardinality, Check
  <2>2. k \in Call
    BY <2>1, CallShape DEF ConstraintsInv
  <2>3. /\ j \in Call \cup {Idle}
        /\ j.step # "idle" => /\ ok /\ j.step = "prerequisite" /\ j.subject = k.subject
                              /\ j.role = k.role /\ j.roles = k.roles
                              /\ j.count = k.count /\ j.alone = k.alone
    BY <2>2 DEF Call, Idle
  <2> HIDE DEF j
  <2> QED
    BY <1>1, <2>1, <2>2, <2>3, OneCallMoves
<1>4. CASE ValidatePrerequisite(a)
  <2> DEFINE ok == \A c \in prerequisites : c.role_name = k.role => PrerequisiteValidate(c, k.roles)
             j == IF ok THEN [k EXCEPT !.step = "temporal"] ELSE Idle
  <2>1. /\ k.step = "prerequisite" /\ calls' = [calls EXCEPT ![a] = j]
        /\ UNCHANGED <<policyVars, assigned, time, edits>>
    BY <1>1, <1>4 DEF ValidatePrerequisite, Check
  <2>2. k \in Call
    BY <2>1, CallShape DEF ConstraintsInv
  <2>3. /\ j \in Call \cup {Idle}
        /\ j.step # "idle" => /\ ok /\ j.step = "temporal" /\ j.subject = k.subject
                              /\ j.role = k.role /\ j.roles = k.roles
                              /\ j.count = k.count /\ j.alone = k.alone
    BY <2>2 DEF Call, Idle
  <2> HIDE DEF j
  <2> QED
    BY <1>1, <2>1, <2>2, <2>3, OneCallMoves
<1>5. CASE ValidateTemporal(a)
  <2> DEFINE ok == \A c \in temporal : c.role_name = k.role => TemporalIsValid(c)
             j == IF ok THEN [k EXCEPT !.step = "commit"] ELSE Idle
  <2>1. /\ k.step = "temporal" /\ calls' = [calls EXCEPT ![a] = j]
        /\ UNCHANGED <<policyVars, assigned, time, edits>>
    BY <1>1, <1>5 DEF ValidateTemporal, Check
  <2>2. k \in Call
    BY <2>1, CallShape DEF ConstraintsInv
  <2>3. /\ j \in Call \cup {Idle}
        /\ j.step # "idle" => /\ ok /\ j.step = "commit" /\ j.subject = k.subject
                              /\ j.role = k.role /\ j.roles = k.roles
                              /\ j.count = k.count /\ j.alone = k.alone
    BY <2>2 DEF Call, Idle
  <2> HIDE DEF j
  <2> QED
    BY <1>1, <2>1, <2>2, <2>3, OneCallMoves
<1>6. CASE StoreFails(a)
  <2>1. /\ calls' = [calls EXCEPT ![a] = Idle] /\ Idle.step = "idle"
        /\ UNCHANGED <<policyVars, assigned, time, edits>>
    BY <1>6 DEF StoreFails, Idle
  <2> QED
    BY <2>1, OneCallMoves
<1> QED
  BY <1>2, <1>3, <1>4, <1>5, <1>6

(* A caller's reads: its count decides whether it takes up room. *)
LEMMA BeginStep ==
    ASSUME ConstraintsInv, NEW a \in Assigners, NEW s \in Subjects, NEW r \in AssignableRoles,
           Begin(a, s, r)
    PROVE  ConstraintsInv'
<1> DEFINE k == [step |-> "ssd", subject |-> s, role |-> r, roles |-> assigned[s],
                 count |-> Cardinality(Holders(r)), alone |-> TRUE]
<1>1. /\ ConstraintsTypeOK /\ ReadsStand /\ RoomTaken
      /\ calls[a] = Idle /\ calls' = [calls EXCEPT ![a] = k]
      /\ UNCHANGED <<ssd, cardinality, prerequisites, temporal, assigned, time, edits>>
  BY DEF ConstraintsInv, Begin, policyVars
<1>2. k \in Call
  BY <1>1, RoleSetsFinite DEF Call, ConstraintsTypeOK
<1>3. /\ k.step = "ssd" /\ k.role = r /\ k.count = Cardinality(Holders(r)) /\ k.subject = s
      /\ k.roles = assigned[s]
  OBVIOUS
<1> HIDE DEF k
<1>4. /\ calls'[a] = k /\ (\A b \in Assigners : b # a => calls'[b] = calls[b])
      /\ \A q : Holders(q)' = Holders(q)
  BY <1>1 DEF ConstraintsTypeOK, Holders
<1>5. ConstraintsTypeOK'
  BY <1>1, <1>2 DEF ConstraintsTypeOK
<1>6. ReadsStand'
  BY <1>1, <1>3, <1>4 DEF ReadsStand, SsdValidate, CardinalityValidate, PrerequisiteValidate
<1>7. RoomTaken'
  <2> SUFFICES ASSUME edits = 0, NEW c \in cardinality
               PROVE  /\ \A b \in Assigners :
                             calls'[b].step \in {"prerequisite", "temporal", "commit"}
                                 /\ calls'[b].role = c.role_name => b \in Admissible(c)'
                      /\ Cardinality(Holders(c.role_name)') + Cardinality(Admissible(c)') + 1
                             <= AtLeastOne(c.max_subjects) + Cardinality(Assigners)
    BY <1>1 DEF RoomTaken
  <2>1. ASSUME NEW b \in Assigners, calls'[b].step \in {"prerequisite", "temporal", "commit"},
               calls'[b].role = c.role_name
        PROVE  b \in Admissible(c)'
    <3>1. calls'[b] = calls[b]
      BY <1>3, <1>4, <2>1
    <3>2. b \in Admissible(c)
      BY <1>1, <2>1, <3>1 DEF RoomTaken
    <3> QED
      BY <3>1, <3>2 DEF Admissible, CardinalityValidate
  <2> DEFINE H == Cardinality(Holders(c.role_name))
             A == Cardinality(Admissible(c))
             B == AtLeastOne(c.max_subjects)
             N == Cardinality(Assigners)
  <2>2. H \in Nat /\ A \in Nat /\ B \in Nat /\ N \in Nat /\ Cardinality(Admissible(c)') \in Nat
        /\ Cardinality(Admissible(c)') <= N /\ H + A + 1 <= B + N
    <3>1. B \in Nat
      BY <1>1, ConstraintsAssumption DEF ConstraintsTypeOK, AtLeastOne
    <3> QED
      BY <1>1, <3>1, RoleSetsFinite, RoleSetsFiniteNext DEF RoomTaken
  <2>3. CASE a \in Admissible(c)'
    <3>1. H < B
      BY <1>3, <1>4, <2>3 DEF Admissible, CardinalityValidate
    <3> HIDE DEF H, A, B, N
    <3>2. H + Cardinality(Admissible(c)') + 1 <= B + N
      BY <2>2, <3>1
    <3> QED
      BY <1>4, <2>1, <3>2 DEF H, B, N
  <2>4. CASE a \notin Admissible(c)'
    <3>1. Admissible(c)' = Admissible(c)
      <4>1. calls[a].step = "idle"
        BY <1>1 DEF Idle
      <4> QED
        BY <1>4, <2>4, <4>1 DEF Admissible, CardinalityValidate
    <3> QED
      BY <1>4, <2>1, <2>2, <3>1
  <2> QED
    BY <2>3, <2>4
<1> QED
  BY <1>5, <1>6, <1>7 DEF ConstraintsInv

(* A commit gives up the caller's room for at most one holder. *)
LEMMA CommitStep ==
    ASSUME ConstraintsInv, NEW a \in Assigners, Commit(a)
    PROVE  ConstraintsInv'
<1> DEFINE k == calls[a]
<1>1. /\ ConstraintsTypeOK /\ RoomTaken /\ k.step = "commit"
      /\ assigned' = [assigned EXCEPT ![k.subject] = @ \cup {k.role}]
      /\ calls' = [Disturb EXCEPT ![a] = Idle]
      /\ UNCHANGED <<ssd, cardinality, prerequisites, temporal, time, edits>>
  BY DEF ConstraintsInv, Commit, policyVars
<1>2. k \in Call
  BY <1>1, CallShape
<1>3. k.subject \in Subjects /\ k.role \in AssignableRoles
  BY <1>2 DEF Call
<1>4. /\ calls'[a] = Idle /\ Idle.step = "idle"
      /\ \A b \in Assigners : b # a => calls'[b] = Disturb[b]
  BY <1>1, DisturbShape DEF Idle
<1> HIDE DEF k
<1>5. ConstraintsTypeOK'
  BY <1>1, <1>3, DisturbShape DEF ConstraintsTypeOK
<1>6. ReadsStand'
  <2>1. ASSUME NEW b \in Assigners, calls'[b].step # "idle" PROVE ~calls'[b].alone
    BY <1>1, <1>4, <2>1, DisturbShape
  <2> QED
    BY <2>1, DisturbedReads
<1>7. RoomTaken'
  <2> SUFFICES ASSUME edits = 0, NEW c \in cardinality
               PROVE  /\ \A b \in Assigners :
                             calls'[b].step \in {"prerequisite", "temporal", "commit"}
                                 /\ calls'[b].role = c.role_name => b \in Admissible(c)'
                      /\ Cardinality(Holders(c.role_name)') + Cardinality(Admissible(c)') + 1
                             <= AtLeastOne(c.max_subjects) + Cardinality(Assigners)
    BY <1>1 DEF RoomTaken
  <2>1. Admissible(c)' = Admissible(c) \ {a}
    <3>1. ASSUME NEW b \in Assigners, b # a PROVE b \in Admissible(c)' <=> b \in Admissible(c)
      BY <1>1, <1>4, <3>1, DisturbShape DEF Admissible, CardinalityValidate
    <3>2. a \notin Admissible(c)'
      BY <1>4 DEF Admissible
    <3>3. Admissible(c) \subseteq Assigners /\ Admissible(c)' \subseteq Assigners
      BY DEF Admissible
    <3> QED
      BY <3>1, <3>2, <3>3
  <2>2. ASSUME NEW b \in Assigners, calls'[b].step \in {"prerequisite", "temporal", "commit"},
               calls'[b].role = c.role_name
        PROVE  b \in Admissible(c)'
    <3>1. b # a
      BY <1>4, <2>2
    <3>2. calls[b].step = calls'[b].step /\ calls[b].role = c.role_name
      BY <1>1, <1>4, <2>2, <3>1, DisturbShape
    <3> QED
      BY <1>1, <2>1, <2>2, <3>1, <3>2 DEF RoomTaken
  <2> DEFINE H == Cardinality(Holders(c.role_name))
             A == Cardinality(Admissible(c))
             B == AtLeastOne(c.max_subjects)
             N == Cardinality(Assigners)
             H2 == Cardinality(Holders(c.role_name)')
             A2 == Cardinality(Admissible(c)')
  <2>3. /\ H \in Nat /\ A \in Nat /\ B \in Nat /\ N \in Nat /\ H + A + 1 <= B + N
        /\ H2 \in Nat /\ A2 \in Nat
    <3>1. B \in Nat
      BY <1>1, ConstraintsAssumption DEF ConstraintsTypeOK, AtLeastOne
    <3> QED
      BY <1>1, <3>1, RoleSetsFinite, RoleSetsFiniteNext DEF RoomTaken
  <2>4. IsFiniteSet(Holders(c.role_name)) /\ IsFiniteSet(Admissible(c))
    BY RoleSetsFinite
  <2>5. CASE c.role_name = k.role
    <3>1. a \in Admissible(c)
      BY <1>1, <2>5 DEF RoomTaken, k
    <3>2. A2 = A - 1
      BY <2>1, <2>4, <3>1, FS_RemoveElement
    <3>3. Holders(c.role_name)' = Holders(c.role_name) \cup {k.subject}
      BY <1>1, <1>3, <2>5 DEF Holders, ConstraintsTypeOK
    <3>4. H2 = H \/ H2 = H + 1
      BY <2>4, <3>3, FS_AddElement
    <3> HIDE DEF H, A, B, N, H2, A2
    <3>5. H2 + A2 + 1 <= B + N
      BY <2>3, <3>2, <3>4
    <3> QED
      BY <2>2, <3>5 DEF B, N, H2, A2
  <2>6. CASE c.role_name # k.role
    <3>1. Holders(c.role_name)' = Holders(c.role_name)
      BY <1>1, <1>3, <2>6 DEF Holders, ConstraintsTypeOK
    <3>2. A2 <= A
      BY <2>1, <2>4, FS_Subset
    <3>3. H2 = H
      BY <3>1
    <3> HIDE DEF H, A, B, N, H2, A2
    <3>4. H2 + A2 + 1 <= B + N
      BY <2>3, <3>2, <3>3
    <3> QED
      BY <2>2, <3>4 DEF B, N, H2, A2
  <2> QED
    BY <2>5, <2>6
<1> QED
  BY <1>5, <1>6, <1>7 DEF ConstraintsInv

(* A revocation makes room; the calls in progress are disturbed. *)
LEMMA UnassignStep ==
    ASSUME ConstraintsInv, NEW s \in Subjects, NEW r \in AssignableRoles, Unassign(s, r)
    PROVE  ConstraintsInv'
<1>1. /\ ConstraintsTypeOK /\ RoomTaken /\ calls' = Disturb
      /\ assigned' = [assigned EXCEPT ![s] = @ \ {r}]
      /\ UNCHANGED <<ssd, cardinality, prerequisites, temporal, time, edits>>
  BY DEF ConstraintsInv, Unassign, policyVars
<1>2. ConstraintsTypeOK'
  BY <1>1, DisturbShape DEF ConstraintsTypeOK
<1>3. ReadsStand'
  BY <1>1, DisturbShape, DisturbedReads
<1>4. RoomTaken'
  <2>1. \A q : Holders(q)' \subseteq Holders(q)
    BY <1>1 DEF Holders, ConstraintsTypeOK
  <2>2. /\ cardinality \subseteq CardChoices
        /\ \A c \in CardChoices : c.max_subjects \in Nat
    BY <1>1, ConstraintsAssumption DEF ConstraintsTypeOK
  <2>3. \A b \in Assigners : /\ calls'[b].step = calls[b].step
                             /\ calls'[b].step # "idle" =>
                                    /\ calls'[b].role = calls[b].role
                                    /\ calls'[b].count = calls[b].count
    BY <1>1, DisturbShape
  <2>4. \A b \in Assigners, c \in cardinality :
            edits = 0 /\ calls'[b].step \in {"prerequisite", "temporal", "commit"}
                /\ calls'[b].role = c.role_name => CardinalityValidate(c, calls'[b].count)
    BY <1>1, <2>3 DEF RoomTaken, Admissible
  <2> QED
    BY <1>1, <2>1, <2>2, <2>3, <2>4, RoomKept
<1> QED
  BY <1>2, <1>3, <1>4 DEF ConstraintsInv

(* Every step of the store and its callers keeps the invariant. *)
LEMMA ConstraintsGoOn == ConstraintsInv /\ [ConstraintsNext]_cvars => ConstraintsInv'
<1> SUFFICES ASSUME ConstraintsInv, [ConstraintsNext]_cvars PROVE ConstraintsInv'
  OBVIOUS
<1>1. CASE Tick \/ UNCHANGED cvars
  <2>1. UNCHANGED <<ssd, cardinality, prerequisites, temporal, assigned, calls, edits>>
    BY <1>1 DEF Tick, cvars, policyVars
  <2>2. ConstraintsTypeOK'
    BY <1>1, <2>1, ConstraintsAssumption DEF ConstraintsInv, ConstraintsTypeOK, Tick, cvars
  <2>3. ReadsStand' /\ RoomTaken'
    BY <2>1 DEF ConstraintsInv, ReadsStand, RoomTaken, Holders, Admissible, SsdValidate,
                CardinalityValidate, PrerequisiteValidate
  <2> QED
    BY <2>2, <2>3 DEF ConstraintsInv
<1>2. CASE StoreRestart
  <2>1. /\ ssd' = {} /\ cardinality' = {} /\ prerequisites' = {} /\ temporal' = {}
        /\ calls' = [b \in Assigners |-> Idle] /\ edits' = edits + 1
        /\ UNCHANGED <<assigned, time>> /\ ConstraintsTypeOK
    BY <1>2 DEF StoreRestart, ConstraintsInv
  <2>2. ConstraintsTypeOK'
    BY <2>1 DEF ConstraintsTypeOK
  <2>3. \A b \in Assigners : calls'[b].step = "idle"
    BY <2>1 DEF Idle
  <2>4. ReadsStand' /\ RoomTaken'
    BY <2>1, <2>3 DEF ReadsStand, RoomTaken
  <2> QED
    BY <2>2, <2>4 DEF ConstraintsInv
<1>3. CASE \/ \E p \in SsdChoices : AddSsd(p) \/ RemoveSsd(p.name)
           \/ \E c \in CardChoices : AddCardinality(c)
           \/ \E c \in PreChoices : AddPrerequisite(c) \/ RemovePrerequisiteFor(c)
           \/ \E c \in TempChoices : AddTemporal(c) \/ RemoveTemporalFor(c)
           \/ \E r \in AssignableRoles :
                  RemoveCardinality(r) \/ RemovePrerequisite(r) \/ RemoveTemporal(r)
  BY <1>3, PolicyStep
<1>4. CASE \E s \in Subjects, r \in AssignableRoles :
               Unassign(s, r) \/ \E a \in Assigners : Begin(a, s, r)
  BY <1>4, UnassignStep, BeginStep
<1>5. CASE \E a \in Assigners :
               \/ ValidateSsd(a) \/ ValidateCardinality(a) \/ ValidatePrerequisite(a)
               \/ ValidateTemporal(a) \/ StoreFails(a) \/ Commit(a)
  BY <1>5, ValidationStep, CommitStep
<1> QED
  BY <1>1, <1>2, <1>3, <1>4, <1>5 DEF ConstraintsNext

(* The invariant gives what the run checks. *)
LEMMA ConstraintsPromise == ConstraintsInv => AssignmentsObey
<1> SUFFICES ASSUME ConstraintsInv PROVE AssignmentsObey
  OBVIOUS
<1>1. ConstraintsTypeOK /\ ReadsStand /\ RoomTaken
  BY DEF ConstraintsInv
<1>2. ASSUME NEW a \in Assigners, Undisturbed(calls[a])
      PROVE  /\ calls[a].role \notin calls[a].roles /\ calls[a].roles = assigned[calls[a].subject]
             /\ calls[a].count = Cardinality(Holders(calls[a].role))
             /\ \A p \in ssd : SsdValidate(p, calls[a].roles \cup {calls[a].role})
             /\ \A c \in cardinality :
                    c.role_name = calls[a].role => CardinalityValidate(c, calls[a].count)
             /\ \A c \in prerequisites :
                    c.role_name = calls[a].role => PrerequisiteValidate(c, calls[a].roles)
  BY <1>1, <1>2 DEF ReadsStand, Undisturbed
<1>3. UndisturbedObeys
  BY <1>2 DEF UndisturbedObeys, SsdValidate, PrerequisiteValidate
<1>4. ASSUME NEW c \in cardinality
      PROVE  AtLeastOne(c.max_subjects) \in Nat /\ Cardinality(Assigners) \in Nat
  BY <1>1, ConstraintsAssumption, RoleSetsFinite DEF ConstraintsTypeOK, AtLeastOne
<1>5. ASSUME NEW a \in Assigners, NEW c \in cardinality, Undisturbed(calls[a]),
             c.role_name = calls[a].role
      PROVE  Cardinality(Holders(calls[a].role)) + 1 <= AtLeastOne(c.max_subjects)
  <2>1. Cardinality(Holders(calls[a].role)) < AtLeastOne(c.max_subjects)
    BY <1>2, <1>5 DEF CardinalityValidate
  <2>2. Cardinality(Holders(calls[a].role)) \in Nat
    BY RoleSetsFinite
  <2> QED
    BY <1>4, <2>1, <2>2
<1>6. ASSUME edits = 0, NEW c \in cardinality
      PROVE  Cardinality(Holders(c.role_name))
                 <= AtLeastOne(c.max_subjects) + Cardinality(Assigners) - 1
  <2>1. Cardinality(Holders(c.role_name)) + Cardinality(Admissible(c)) + 1
            <= AtLeastOne(c.max_subjects) + Cardinality(Assigners)
    BY <1>1, <1>6 DEF RoomTaken
  <2>2. Cardinality(Holders(c.role_name)) \in Nat /\ Cardinality(Admissible(c)) \in Nat
    BY RoleSetsFinite
  <2> QED
    BY <1>4, <2>1, <2>2
<1>7. OvershootBounded
  BY <1>5, <1>6 DEF OvershootBounded
<1> QED
  BY <1>1, <1>3, <1>7 DEF AssignmentsObey

(* rbac/constraints/validator.rs: for every set of policies, subjects and concurrent
   callers, an assignment nothing disturbed between its reads and its write obeys the
   separation, prerequisite and cardinality policies in force; racing ones overfill a role
   by at most one per caller beyond the first while the policies stand. *)
THEOREM AssignmentsAreChecked == ConstraintsSpec => []AssignmentsObey
  BY ConstraintsBegin, ConstraintsGoOn, ConstraintsPromise, PTL DEF ConstraintsSpec
=============================================================================
