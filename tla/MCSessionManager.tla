------------------------- MODULE MCSessionManager -------------------------
(* Instances of SessionManager for TLC. *)
EXTENDS SessionManager, TLC

CONSTANTS ops, audit

(* "ops" and "audit" must not be active together. *)
MCPolicies == {[roles |-> {ops, audit}, cardinality |-> 2]}

CallSymmetry == Permutations(Calls)
=============================================================================
