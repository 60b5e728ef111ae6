------------------------ MODULE MCRefreshRotation ------------------------
(* Instances of RefreshRotation for TLC. *)
EXTENDS RefreshRotation, TLC

TaskSymmetry == Permutations(Tasks)
=============================================================================
