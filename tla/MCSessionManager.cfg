SPECIFICATION Spec
CONSTANTS
    ops = ops  audit = audit
    Subjects = {u}
    RoleNames = {ops, audit}
    Ids = {i1}
    Calls = {c1, c2}
    Managers = {"memory", "db"}
    Policies <- MCPolicies
    Ttl = 0
    MaxVersion = 1
    MaxTime = 1
SYMMETRY CallSymmetry
INVARIANTS
    DutiesSeparated
    EndingsLast
    RevokedRolesGoStale
