----------------------------- MODULE TaskDomains -----------------------------
(* src/src/rbac/dynamic/domain.rs: how far an action strays from the task it was
   delegated for. A path is the sequence of its components, the names ".", ".."
   and "" among them; StartsWith is the string relation between two names. *)
EXTENDS Integers, Sequences, FiniteSets

CONSTANT StartsWith(_, _)

\* Components "" and "." vanish, ".." takes the last component back and stops at
\* the root.
NormalizePath(path) ==
    LET keep[i \in 0..Len(path)] ==
            IF i = 0 THEN <<>>
            ELSE LET p == keep[i - 1]
                     c == path[i]
                 IN  IF c \in {"", "."} THEN p
                     ELSE IF c # ".." THEN Append(p, c)
                     ELSE SubSeq(p, 1, Len(p) - 1)
    IN  keep[Len(path)]

\* A prefix is [parts, slash]; slash says that it ends in the separator, and then
\* only paths below it match. Otherwise its last name may be cut short.
PrefixMatches(prefix, p) ==
    LET n == Len(prefix.parts)
    IN  IF prefix.slash
        THEN n = 0 \/ (Len(p) > n /\ SubSeq(p, 1, n) = prefix.parts)
        ELSE /\ Len(p) >= n
             /\ SubSeq(p, 1, n - 1) = SubSeq(prefix.parts, 1, n - 1)
             /\ n > 0 => StartsWith(p[n], prefix.parts[n])

IsResourceAllowed(domain, path) ==
    \/ domain.prefixes = {}
    \/ \E x \in domain.prefixes : PrefixMatches(x, NormalizePath(path))

NoPath == <<"no path">>

LOCAL ResourceOk(domain, path) == path = NoPath \/ IsResourceAllowed(domain, path)

\* DomainScope::evaluate followed by DomainMatch::excess_weight, in thousandths.
DomainMismatch(scope, category, path) ==
    LET own == category \in scope.current.categories
        near == {d \in scope.adjacent : category \in d.categories}
    IN  CASE own /\ ResourceOk(scope.current, path) -> 0
          [] own /\ ~ResourceOk(scope.current, path) -> 300
          [] ~own /\ near # {} /\ (\E d \in near : ResourceOk(d, path)) -> 150
          [] ~own /\ near # {} /\ (\A d \in near : ~ResourceOk(d, path)) -> 450
          [] OTHER -> 600
=============================================================================
