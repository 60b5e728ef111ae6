--------------------------- MODULE GrantResolution ---------------------------
(* resolve_grant_rows_at (rbac/grant_resolution.rs): grant rows are folded one by one,
   in whatever order the database returned them, into one verdict per permission.
   `todo` is the rows not folded yet; the loop takes any of them next. *)
EXTENDS Naturals

CONSTANTS
    GrantPerms,        \* permission names
    Typed,        \* names of the typed catalog (Permission::from_path is Some)
    Leaves(_),    \* expand_domain: the leaves under a domain, {} for anything else
    WellFormed,   \* is_opaque_permission_path
    Rows,         \* rows the service may hand over
    Clock,        \* readings of the clock at the call
    Never         \* no deadline

ASSUME GrantAssumption == \A row \in Rows : row.granted \in BOOLEAN

VARIABLES rows, defaults, now, todo, decisions

gvars == <<rows, defaults, now, todo, decisions>>

Undecided == <<3, FALSE>>

(* Precedence of a scope: user over group over everything else, typos included. *)
ScopeTier(scope) == IF scope = "user" THEN 0 ELSE IF scope = "group" THEN 1 ELSE 2

(* A typed path stands for itself, a domain for its leaves, any other well-formed path
   for itself, and anything else for nothing. *)
ExpandGrantPermission(raw) ==
    IF raw \in Typed THEN {raw}
    ELSE IF Leaves(raw) # {} THEN Leaves(raw)
    ELSE IF raw \in WellFormed THEN {raw} ELSE {}

(* A row counts while now < expires_at, and only without a resource. *)
IsVisible(row) == row.expires_at = Never \/ now < row.expires_at
Skipped(row) == row.resource \/ ~ IsVisible(row)

(* Mutant: the last row of a tier wins. *)
MutFoldTiered(d, tier, granted) == IF d[1] < tier THEN d ELSE <<tier, granted>>

(* fold_tiered: a more specific tier stays, a deny is sticky within its tier, a wider
   tier is replaced. *)
FoldTiered(d, tier, granted) ==
    IF d[1] < tier THEN d
    ELSE IF d[1] = tier THEN IF d[2] THEN <<tier, granted>> ELSE d
    ELSE <<tier, granted>>

GrantsInit ==
    /\ rows \in SUBSET Rows
    /\ defaults \in SUBSET GrantPerms
    /\ now \in Clock
    /\ todo = rows
    /\ decisions = [p \in GrantPerms |-> IF p \in defaults THEN <<ScopeTier("group"), TRUE>> ELSE Undecided]

(* One iteration over a row. *)
FoldRow(row) ==
    /\ row \in todo
    /\ todo' = todo \ {row}
    /\ decisions' = IF Skipped(row) THEN decisions
                    ELSE [p \in GrantPerms |->
                             IF p \in ExpandGrantPermission(row.permission)
                             THEN FoldTiered(decisions[p], ScopeTier(row.scope), row.granted)
                             ELSE decisions[p]]
    /\ UNCHANGED <<rows, defaults, now>>

GrantsNext == \E row \in Rows : FoldRow(row)

GrantsSpec == GrantsInit /\ [][GrantsNext]_gvars

Effective == {p \in GrantPerms : decisions[p][2]}

-----------------------------------------------------------------------------
GrantsTypeOK ==
    /\ rows \subseteq Rows /\ todo \subseteq rows /\ defaults \subseteq GrantPerms
    /\ decisions \in [GrantPerms -> (0..3) \X BOOLEAN]

(* The rows of R that speak about p. *)
About(R, p) == {row \in R : ~ Skipped(row) /\ p \in ExpandGrantPermission(row.permission)}

(* What the rows of R say of p, without an order: the most specific tier that speaks
   decides, the defaults speaking as a group, and within it everybody must grant. *)
SpeaksAt(R, p, t) ==
    (p \in defaults /\ t = 1) \/ \E row \in About(R, p) : ScopeTier(row.scope) = t

GrantedBy(R, p) ==
    \E t \in 0..2 :
        /\ SpeaksAt(R, p, t)
        /\ \A u \in 0..2 : u < t => ~ SpeaksAt(R, p, u)
        /\ \A row \in About(R, p) : ScopeTier(row.scope) = t => row.granted

(* The verdict never depends on the order in which the rows came back: whichever rows
   have been folded so far, and in whatever order, a permission is effective exactly
   when the most specific tier that speaks about it grants it unanimously. *)
OrderFree == \A p \in GrantPerms : p \in Effective <=> GrantedBy(rows \ todo, p)

(* What the fold has established about p: its tier is the most specific one that spoke,
   and its verdict is that of the rows of that tier. *)
FoldInv ==
    \A p \in GrantPerms :
        /\ \A t \in 0..2 : SpeaksAt(rows \ todo, p, t) => decisions[p][1] <= t
        /\ decisions[p][1] <= 2 => SpeaksAt(rows \ todo, p, decisions[p][1])
        /\ decisions[p][2] <=>
              /\ decisions[p][1] <= 2
              /\ \A row \in About(rows \ todo, p) :
                     ScopeTier(row.scope) = decisions[p][1] => row.granted
=============================================================================
