--------------------------- MODULE MCAuditPipeline ---------------------------
(* Two loggers over two subjects, a rule with a cooldown and one that counts
   rapid denials, a sink of two entries, two hooks of which one panics. *)
EXTENDS AuditPipeline

CONSTANTS l1, l2, s1, s2, h1, h2

Risky == [kind |-> "Any", conditions |-> <<[kind |-> "Denied"], [kind |-> "HighRisk", threshold |-> 60],
                                           [kind |-> "RapidDenials"]>>]

\* Loggers and subjects are interchangeable.
MCSymmetry == Permutations({l1, l2}) \cup Permutations({s1, s2})

MCRisks == {-1}

MCRuleSet ==
    {[id |-> "risky", enabled |-> TRUE, condition |-> Risky, cooldown |-> 2],
     [id |-> "rapid", enabled |-> TRUE, cooldown |-> 0,
      condition |-> [kind |-> "RapidDenials", window |-> 1, min_count |-> 2]]}
=============================================================================
