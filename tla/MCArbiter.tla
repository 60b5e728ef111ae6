------------------------------ MODULE MCArbiter ------------------------------
(* Small instances of the arbiter: one delegator, a policy that ignores trust and
   an invalid one, one domain scope with a trust floor. *)
EXTENDS Arbiter

CONSTANT d1

MCStartsWith(a, b) == a = b

MCRequests == {[id |-> d, type |-> "Agent", category |-> "ReadOnly", path |-> NoPath] : d \in Ids}

MCOutcomes == {[kind |-> "Success", deviation |-> 0]}

Lenient == [DefaultDynamicPolicy EXCEPT !.weights = <<20, 0, 40, 20, 20>>]

MCPolicies == {Lenient, [Lenient EXCEPT !.weights = <<90, 90, 0, 0, 0>>]}

Guarded == [current |-> [categories |-> {"StateWrite"}, prefixes |-> {}, floor |-> 400], adjacent |-> {}]

MCScopes == {Guarded}
MCTargets == {4}
MCDeviations == {900}
MCSeeds == {[value |-> 1000, confidence |-> 900, evidence_count |-> 900]}
=============================================================================
