------------------------ MODULE MCJwtRevocation ------------------------
(* Instances of JwtRevocation for TLC. *)
EXTENDS JwtRevocation, TLC

CallSymmetry == Permutations(Calls)
=============================================================================
