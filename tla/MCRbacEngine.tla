--------------------------- MODULE MCRbacEngine ---------------------------
(* Instances of RbacEngine for TLC. *)
EXTENDS RbacEngine, TLC

CONSTANTS s1, p1, p2, staff, admin, t1, t2

(* "staff" carries nothing itself and inherits from "admin". *)
MCRegistry == (staff :> {}) @@ (admin :> {p1})
MCParents == (staff :> {admin}) @@ (admin :> {})

(* Each step is independent of which task or subject is named. *)
TaskSymmetry == Permutations(Tasks)
=============================================================================
